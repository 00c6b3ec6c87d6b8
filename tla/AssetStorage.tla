---------------------------- MODULE AssetStorage ----------------------------
(***************************************************************************)
(* The files of the assets of one campaign and the rows that name them.    *)
(* Workers write three temporary files per asset, rename them into place   *)
(* and insert the rows; cleanup commands list rows and files and delete    *)
(* them; a campaign is deleted with its directory.  Files and rows are in  *)
(* two stores with no transaction across them, and no process asks what    *)
(* the others are doing.                                                   *)
(*                                                                         *)
(* One action is one effect on one store: one file written, renamed or     *)
(* removed, one transaction, one directory walked.                         *)
(***************************************************************************)
EXTENDS Naturals

CONSTANTS
    Assets,         \* assets being stored; every one has a fresh id
    Cleaners,       \* cleanup commands in progress
    NoAsset

ASSUME StorageAssumption == NoAsset \notin Assets

VARIABLES
    row,        \* asset and asset_version, "none" before the insert
    final,      \* kinds of an asset's files under originals/, thumbnails/, metadata/
    tmp,        \* kinds of an asset's files under tmp/
    tmpDirs,    \* assets whose directory under tmp/ exists
    writer,     \* StoreGeneratedFile and the insert, for each asset
    cleaner,    \* CleanupExecute
    campaign,   \* the campaign's row and directory
    taken       \* history: see CleanupFile

vars == <<row, final, tmp, tmpDirs, writer, cleaner, campaign, taken>>

-----------------------------------------------------------------------------
Kind == {"original", "thumbnail", "metadata"}

\* The order in which the files of an asset are written, renamed and deleted.
Nth(n) == CASE n = 1 -> "original" [] n = 2 -> "thumbnail" [] n = 3 -> "metadata"

\* Cleanup may delete an asset that is not selected: AssetReview says how the
\* two kinds of status come about.
Live == {"unselected", "selected"}

Option    == {"assets", "tmp", "orphans"}
Place     == {"tmp", "final"}
File      == [place: Place, asset: Assets, kind: Kind]
Directory == {"metadata", "originals", "thumbnails", "tmp"}

Writer  == [pc: {"write", "rename", "insert", "over"}, n: 1..3]
Cleaner == [pc: {"idle", "known", "delete", "files"} \cup Directory,
            want: SUBSET Option, known: SUBSET Assets,
            assets: SUBSET Assets, files: SUBSET File,
            at: Assets \cup {NoAsset}, n: 1..3]

Idle == [pc |-> "idle", want |-> {}, known |-> {}, assets |-> {}, files |-> {},
         at |-> NoAsset, n |-> 1]

Init ==
    /\ row      = [a \in Assets |-> "none"]
    /\ final    = [a \in Assets |-> {}]
    /\ tmp      = [a \in Assets |-> {}]
    /\ tmpDirs  = {}
    /\ writer   = [a \in Assets |-> [pc |-> "write", n |-> 1]]
    /\ cleaner  = [c \in Cleaners |-> Idle]
    /\ campaign = "live"
    /\ taken    = [a \in Assets |-> {}]

-----------------------------------------------------------------------------
(* Workers. *)

\* Mutant: one file too many.
ThenOnceMore(a, pc) ==
    writer' = [writer EXCEPT ![a] = IF @.n <= 3 THEN [pc |-> @.pc, n |-> @.n + 1]
                                                ELSE [pc |-> pc, n |-> 1]]

\* On to the next file, or to what comes after the last.
Then(a, pc) ==
    writer' = [writer EXCEPT ![a] = IF @.n < 3 THEN [pc |-> @.pc, n |-> @.n + 1]
                                               ELSE [pc |-> pc, n |-> 1]]

\* The first file's directory is made on the way.  The thumbnail is encoded
\* from the temporary original.
WriteTmp(a) ==
    LET n == writer[a].n
    IN  /\ writer[a].pc = "write"
        /\ n > 1 => a \in tmpDirs
        /\ n = 2 => "original" \in tmp[a]
        /\ tmpDirs' = tmpDirs \cup {a}
        /\ tmp' = [tmp EXCEPT ![a] = @ \cup {Nth(n)}]
        /\ Then(a, "rename")
        /\ UNCHANGED <<row, final, cleaner, campaign, taken>>

\* Mutant: a temporary file that is missing is skipped.
RenameIfPresent(a) ==
    LET kind == Nth(writer[a].n)
    IN  /\ writer[a].pc = "rename"
        /\ tmp' = [tmp EXCEPT ![a] = @ \ {kind}]
        /\ final' = IF kind \in tmp[a] THEN [final EXCEPT ![a] = @ \cup {kind}] ELSE final
        /\ Then(a, "insert")
        /\ tmpDirs' = IF writer[a].n = 3 THEN tmpDirs \ {a} ELSE tmpDirs
        /\ UNCHANGED <<row, cleaner, campaign, taken>>

\* The directory under tmp/ is removed with the last file.
Rename(a) ==
    LET kind == Nth(writer[a].n)
    IN  /\ writer[a].pc = "rename"
        /\ kind \in tmp[a]
        /\ tmp' = [tmp EXCEPT ![a] = @ \ {kind}]
        /\ final' = [final EXCEPT ![a] = @ \cup {kind}]
        /\ tmpDirs' = IF writer[a].n = 3 THEN tmpDirs \ {a} ELSE tmpDirs
        /\ Then(a, "insert")
        /\ UNCHANGED <<row, cleaner, campaign, taken>>

\* The task row is gone with the campaign, and its foreign key refuses the asset.
InsertAssetWithVersion(a) ==
    /\ writer[a].pc = "insert"
    /\ campaign = "live"
    /\ row' = [row EXCEPT ![a] = "unselected"]
    /\ writer' = [writer EXCEPT ![a] = [pc |-> "over", n |-> 1]]
    /\ UNCHANGED <<final, tmp, tmpDirs, cleaner, campaign, taken>>

\* A step returns an error (a file or directory is not there, the insert is
\* refused), SIGTERM cancels the context, or the worker dies.  Nothing that
\* was written is removed.
WriterStops(a) ==
    /\ writer[a].pc # "over"
    /\ writer' = [writer EXCEPT ![a] = [pc |-> "over", n |-> 1]]
    /\ UNCHANGED <<row, final, tmp, tmpDirs, cleaner, campaign, taken>>

\* A reviewer selects an asset, or takes the selection back.
Review(a) ==
    /\ row[a] \in Live
    /\ row' = [row EXCEPT ![a] = IF @ = "selected" THEN "unselected" ELSE "selected"]
    /\ UNCHANGED <<final, tmp, tmpDirs, writer, cleaner, campaign, taken>>

-----------------------------------------------------------------------------
(* Cleanup: the listing of CleanupDryRun, which CleanupExecute repeats. *)

\* The options say whether there are files to look for.
CleanupBegin(c, want) ==
    /\ cleaner[c] = Idle
    /\ campaign = "live"
    /\ want # {}
    /\ cleaner' = [cleaner EXCEPT ![c] =
         [Idle EXCEPT !.pc = IF want = {"assets"} THEN "delete" ELSE "known",
                      !.want = want,
                      !.assets = {a \in Assets : "assets" \in want /\ row[a] = "unselected"}]]
    /\ UNCHANGED <<row, final, tmp, tmpDirs, writer, campaign, taken>>

ListKnownAssetFilePaths(c) ==
    /\ cleaner[c].pc = "known"
    /\ cleaner' = [cleaner EXCEPT ![c].pc = "metadata",
                                  ![c].known = {a \in Assets : row[a] \in Live}]
    /\ UNCHANGED <<row, final, tmp, tmpDirs, writer, campaign, taken>>

\* Directories are walked in the order of their names.
NextDirectory(d) ==
    CASE d = "metadata"  -> "originals"
      [] d = "originals" -> "thumbnails"
      [] d = "thumbnails" -> "tmp"
      [] d = "tmp"       -> "delete"

KindIn(d) ==
    CASE d = "metadata" -> "metadata" [] d = "originals" -> "original"
      [] d = "thumbnails" -> "thumbnail"

\* Mutant: files are classified by their directory alone.
OrphansByDirectory(known, kind) ==
    {[place |-> "final", asset |-> a, kind |-> kind] : a \in {b \in Assets : kind \in final[b]}}

Orphans(known, kind) ==
    {[place |-> "final", asset |-> a, kind |-> kind] :
        a \in {b \in Assets : kind \in final[b] /\ b \notin known}}

TmpFiles ==
    {f \in File : f.place = "tmp" /\ f.kind \in tmp[f.asset]}

WalkDirectory(c) ==
    LET d == cleaner[c].pc
    IN  /\ d \in Directory
        /\ cleaner' = [cleaner EXCEPT
             ![c].pc = NextDirectory(d),
             ![c].files = @ \cup
                CASE d = "tmp" /\ "tmp" \in cleaner[c].want -> TmpFiles
                  [] d # "tmp" /\ "orphans" \in cleaner[c].want ->
                        Orphans(cleaner[c].known, KindIn(d))
                  [] OTHER -> {}]
        /\ UNCHANGED <<row, final, tmp, tmpDirs, writer, campaign, taken>>

-----------------------------------------------------------------------------
(* Cleanup: the deletions of CleanupExecute, assets before files. *)

\* Mutant: the files go although the row was found protected.
CleanupAssetAnyway(c, a) ==
    /\ cleaner[c].pc = "delete"
    /\ a \in cleaner[c].assets
    /\ row' = [row EXCEPT ![a] = IF @ = "unselected" THEN "deleted" ELSE @]
    /\ cleaner' = [cleaner EXCEPT ![c].assets = @ \ {a}, ![c].pc = "files", ![c].at = a]
    /\ UNCHANGED <<final, tmp, tmpDirs, writer, campaign, taken>>

\* The rows are deleted if the status still allows it, and then the files;
\* otherwise the candidate is skipped.
CleanupAsset(c, a) ==
    /\ cleaner[c].pc = "delete"
    /\ a \in cleaner[c].assets
    /\ IF row[a] = "unselected"
       THEN /\ row' = [row EXCEPT ![a] = "deleted"]
            /\ cleaner' = [cleaner EXCEPT ![c].assets = @ \ {a}, ![c].pc = "files", ![c].at = a]
       ELSE /\ cleaner' = [cleaner EXCEPT ![c].assets = @ \ {a}]
            /\ UNCHANGED row
    /\ UNCHANGED <<final, tmp, tmpDirs, writer, campaign, taken>>

\* A file that cannot be removed is reported and left.
CleanupAssetFile(c, removed) ==
    LET a == cleaner[c].at
    IN  /\ cleaner[c].pc = "files"
        /\ final' = [final EXCEPT ![a] = IF removed THEN @ \ {Nth(cleaner[c].n)} ELSE @]
        /\ cleaner' = IF cleaner[c].n < 3
                      THEN [cleaner EXCEPT ![c].n = @ + 1]
                      ELSE [cleaner EXCEPT ![c].pc = "delete", ![c].at = NoAsset, ![c].n = 1]
        /\ UNCHANGED <<row, tmp, tmpDirs, writer, campaign, taken>>

\* taken records the final files removed by a cleanup that had read the known
\* paths when their asset was not among them.
CleanupFile(c, f, removed) ==
    /\ cleaner[c].pc = "delete"
    /\ cleaner[c].assets = {}
    /\ f \in cleaner[c].files
    /\ cleaner' = [cleaner EXCEPT ![c].files = @ \ {f}]
    /\ tmp' = IF removed /\ f.place = "tmp"
              THEN [tmp EXCEPT ![f.asset] = @ \ {f.kind}] ELSE tmp
    /\ final' = IF removed /\ f.place = "final"
                THEN [final EXCEPT ![f.asset] = @ \ {f.kind}] ELSE final
    /\ taken' = IF f.place = "final" /\ f.asset \notin cleaner[c].known
                THEN [taken EXCEPT ![f.asset] = @ \cup {f.kind}] ELSE taken
    /\ UNCHANGED <<row, tmpDirs, writer, campaign>>

\* The command has gone through its list, was a dry run only or was not
\* confirmed, fails, or dies.
CleanupEnds(c) ==
    /\ cleaner[c] # Idle
    /\ cleaner' = [cleaner EXCEPT ![c] = Idle]
    /\ UNCHANGED <<row, final, tmp, tmpDirs, writer, campaign, taken>>

-----------------------------------------------------------------------------
(* DeleteCampaign: the rows in one transaction, then the directory. *)

DeleteCampaignRows ==
    /\ campaign = "live"
    /\ campaign' = "deleting"
    /\ row' = [a \in Assets |-> IF row[a] \in Live THEN "deleted" ELSE row[a]]
    /\ UNCHANGED <<final, tmp, tmpDirs, writer, cleaner, taken>>

DeleteCampaignScopeData ==
    /\ campaign = "deleting"
    /\ campaign' = "deleted"
    /\ final' = [a \in Assets |-> {}]
    /\ tmp' = [a \in Assets |-> {}]
    /\ tmpDirs' = {}
    /\ UNCHANGED <<row, writer, cleaner, taken>>

-----------------------------------------------------------------------------
WriterNext(a) ==
    \/ WriteTmp(a)
    \/ Rename(a)
    \/ InsertAssetWithVersion(a)
    \/ WriterStops(a)

CleanerNext(c) ==
    \/ \E want \in SUBSET Option : CleanupBegin(c, want)
    \/ ListKnownAssetFilePaths(c)
    \/ WalkDirectory(c)
    \/ \E a \in Assets : CleanupAsset(c, a)
    \/ \E removed \in BOOLEAN : CleanupAssetFile(c, removed)
    \/ \E f \in cleaner[c].files, removed \in BOOLEAN : CleanupFile(c, f, removed)
    \/ CleanupEnds(c)

Next ==
    \/ \E a \in Assets : WriterNext(a) \/ Review(a)
    \/ \E c \in Cleaners : CleanerNext(c)
    \/ DeleteCampaignRows
    \/ DeleteCampaignScopeData

Spec == Init /\ [][Next]_vars

-----------------------------------------------------------------------------
(* What rows and files promise. *)

\* Every variable has its type.
TypeOK ==
    /\ row \in [Assets -> Live \cup {"none", "deleted"}]
    /\ final \in [Assets -> SUBSET Kind]
    /\ tmp \in [Assets -> SUBSET Kind]
    /\ tmpDirs \in SUBSET Assets
    /\ writer \in [Assets -> Writer]
    /\ cleaner \in [Cleaners -> Cleaner]
    /\ campaign \in {"live", "deleting", "deleted"}
    /\ taken \in [Assets -> SUBSET Kind]

\* An asset that can be read has its three files, whatever cleanups, reviews,
\* failures and a deletion of the campaign do at the same time.  The only way
\* to lose one is a cleanup of orphans that listed the known paths before the
\* asset was registered (StoreGeneratedFile, InsertAssetWithVersion,
\* CleanupExecute).
RowHasFiles ==
    \A a \in Assets : row[a] \in Live => Kind \subseteq final[a] \cup taken[a]

=============================================================================
