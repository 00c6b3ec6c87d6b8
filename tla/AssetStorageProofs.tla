------------------------- MODULE AssetStorageProofs -------------------------
(***************************************************************************)
(* Theorems about AssetStorage, for every set of assets and cleanups.      *)
(***************************************************************************)
EXTENDS AssetStorage, TLAPS

USE StorageAssumption

LEMMA NthIsKind == ASSUME NEW n \in 1..3 PROVE Nth(n) \in Kind
  BY DEF Nth, Kind

-----------------------------------------------------------------------------
(* Type correctness.  TypeOK is inductive by itself. *)

LEMMA TypeInit == Init => TypeOK
  <1> SUFFICES ASSUME Init PROVE TypeOK
    OBVIOUS
  <1>1. row \in [Assets -> Live \cup {"none", "deleted"}]
    BY DEF Init
  <1>2. /\ final \in [Assets -> SUBSET Kind]
        /\ tmp \in [Assets -> SUBSET Kind]
        /\ taken \in [Assets -> SUBSET Kind]
        /\ tmpDirs \in SUBSET Assets
        /\ campaign \in {"live", "deleting", "deleted"}
    BY DEF Init
  <1>3. writer \in [Assets -> Writer]
    BY DEF Init, Writer
  <1>4. Idle \in Cleaner
    BY DEF Idle, Cleaner
  <1>5. cleaner \in [Cleaners -> Cleaner]
    BY <1>4 DEF Init
  <1>6. QED
    BY <1>1, <1>2, <1>3, <1>5 DEF TypeOK

LEMMA ThenType ==
    ASSUME TypeOK, NEW a \in Assets, NEW pc \in {"rename", "insert"}, Then(a, pc)
    PROVE  writer' \in [Assets -> Writer]
  <1>1. writer[a] \in Writer
    BY DEF TypeOK
  <1>2. CASE writer[a].n < 3
    <2>1. [pc |-> writer[a].pc, n |-> writer[a].n + 1] \in Writer
      BY <1>1, <1>2 DEF Writer
    <2>2. QED
      BY <1>2, <2>1 DEF Then, TypeOK
  <1>3. CASE ~(writer[a].n < 3)
    <2>1. [pc |-> pc, n |-> 1] \in Writer
      BY DEF Writer
    <2>2. QED
      BY <1>3, <2>1 DEF Then, TypeOK
  <1>4. QED
    BY <1>2, <1>3

LEMMA WriterTypes ==
    ASSUME TypeOK, NEW a \in Assets, WriterNext(a) \/ Review(a)
    PROVE  TypeOK'
  <1>n. writer[a].n \in 1..3
    BY DEF TypeOK, Writer
  <1>k. Nth(writer[a].n) \in Kind
    BY <1>n, NthIsKind
  <1>1. CASE WriteTmp(a)
    <2>1. writer' \in [Assets -> Writer]
      BY <1>1, ThenType DEF WriteTmp
    <2>2. tmp' \in [Assets -> SUBSET Kind] /\ tmpDirs' \in SUBSET Assets
      BY <1>1, <1>k DEF WriteTmp, TypeOK
    <2>3. QED
      BY <1>1, <2>1, <2>2 DEF WriteTmp, TypeOK
  <1>2. CASE Rename(a)
    <2>1. writer' \in [Assets -> Writer]
      BY <1>2, ThenType DEF Rename
    <2>2. /\ tmp' \in [Assets -> SUBSET Kind]
          /\ final' \in [Assets -> SUBSET Kind]
          /\ tmpDirs' \in SUBSET Assets
      BY <1>2, <1>k DEF Rename, TypeOK
    <2>3. QED
      BY <1>2, <2>1, <2>2 DEF Rename, TypeOK
  <1>o. [pc |-> "over", n |-> 1] \in Writer
    BY DEF Writer
  <1>3. CASE InsertAssetWithVersion(a)
    <2>1. "unselected" \in Live
      BY DEF Live
    <2>2. QED
      BY <1>3, <1>o, <2>1 DEF InsertAssetWithVersion, TypeOK
  <1>4. CASE WriterStops(a)
    BY <1>4, <1>o DEF WriterStops, TypeOK
  <1>5. CASE Review(a)
    BY <1>5 DEF Review, TypeOK, Live
  <1>6. QED
    BY <1>1, <1>2, <1>3, <1>4, <1>5 DEF WriterNext

\* What a walk of one directory finds.
Found(c) ==
    CASE cleaner[c].pc = "tmp" /\ "tmp" \in cleaner[c].want -> TmpFiles
      [] cleaner[c].pc # "tmp" /\ "orphans" \in cleaner[c].want ->
            Orphans(cleaner[c].known, KindIn(cleaner[c].pc))
      [] OTHER -> {}

LEMMA FoundFiles ==
    ASSUME TypeOK, NEW c \in Cleaners, cleaner[c].pc \in Directory
    PROVE  /\ Found(c) \subseteq File
           /\ \A f \in Found(c) : f.place = "final" => f.asset \notin cleaner[c].known
  <1>1. CASE cleaner[c].pc = "tmp" /\ "tmp" \in cleaner[c].want
    <2>1. Found(c) = TmpFiles
      BY <1>1 DEF Found
    <2>2. QED
      BY <2>1 DEF TmpFiles
  <1>2. CASE cleaner[c].pc # "tmp" /\ "orphans" \in cleaner[c].want
    <2> DEFINE known == cleaner[c].known
               kind  == KindIn(cleaner[c].pc)
    <2>1. Found(c) = Orphans(known, kind)
      BY <1>2 DEF Found
    <2>2. kind \in Kind
      BY <1>2 DEF Directory, KindIn, Kind
    <2>3. ASSUME NEW f \in Found(c)
          PROVE  f \in File /\ f.asset \notin known
      <3>1. PICK a \in {b \in Assets : kind \in final[b] /\ b \notin known} :
               f = [place |-> "final", asset |-> a, kind |-> kind]
        BY <2>1, <2>3 DEF Orphans
      <3>2. a \in Assets /\ a \notin known
        BY <3>1
      <3>3. QED
        BY <2>2, <3>1, <3>2 DEF File, Place
    <2>4. QED
      BY <2>3
  <1>3. CASE /\ ~(cleaner[c].pc = "tmp" /\ "tmp" \in cleaner[c].want)
             /\ ~(cleaner[c].pc # "tmp" /\ "orphans" \in cleaner[c].want)
    <2>1. Found(c) = {}
      BY <1>3 DEF Found
    <2>2. QED
      BY <2>1
  <1>4. QED
    BY <1>1, <1>2, <1>3

\* The steps of a cleanup as changes of its record.
LEMMA WalkStep ==
    ASSUME TypeOK, NEW c \in Cleaners, WalkDirectory(c)
    PROVE  /\ cleaner[c].pc \in Directory
           /\ cleaner' = [cleaner EXCEPT
                ![c] = [cleaner[c] EXCEPT !.pc = NextDirectory(cleaner[c].pc),
                                          !.files = cleaner[c].files \cup Found(c)]]
           /\ NextDirectory(cleaner[c].pc) \in Directory \cup {"delete"}
  <1>1. cleaner[c].pc \in Directory
    BY DEF WalkDirectory
  <1>2. NextDirectory(cleaner[c].pc) \in Directory \cup {"delete"}
    BY <1>1 DEF Directory, NextDirectory
  <1>3. cleaner' = [cleaner EXCEPT
                ![c] = [cleaner[c] EXCEPT !.pc = NextDirectory(cleaner[c].pc),
                                          !.files = cleaner[c].files \cup Found(c)]]
    BY DEF WalkDirectory, Found, TypeOK, Cleaner
  <1>4. QED
    BY <1>1, <1>2, <1>3

\* The fields of a cleanup's record, by names that can stay unexpanded.
PcSet   == {"idle", "known", "delete", "files"} \cup Directory
WantSet == SUBSET Option
SomeSet == SUBSET Assets
FileSet == SUBSET File
AtSet   == Assets \cup {NoAsset}
NSet    == 1..3

LEMMA CleanerFields ==
    Cleaner = [pc: PcSet, want: WantSet, known: SomeSet, assets: SomeSet,
               files: FileSet, at: AtSet, n: NSet]
  BY DEF Cleaner, PcSet, WantSet, SomeSet, FileSet, AtSet, NSet

LEMMA BegunCleaner ==
    ASSUME NEW pc \in PcSet, NEW want \in WantSet, NEW listed \in SomeSet
    PROVE  [Idle EXCEPT !.pc = pc, !.want = want, !.assets = listed] \in Cleaner
  <1>1. {} \in SomeSet /\ {} \in FileSet /\ NoAsset \in AtSet /\ 1 \in NSet
    BY DEF SomeSet, FileSet, AtSet, NSet
  <1>2. QED
    BY <1>1, CleanerFields DEF Idle

LEMMA WalkedCleaner ==
    ASSUME NEW r \in Cleaner, NEW pc \in PcSet, NEW files \in FileSet
    PROVE  [r EXCEPT !.pc = pc, !.files = files] \in Cleaner
  BY CleanerFields

LEMMA DoneCleaner ==
    ASSUME NEW r \in Cleaner
    PROVE  [r EXCEPT !.pc = "delete", !.at = NoAsset, !.n = 1] \in Cleaner
  <1>1. "delete" \in PcSet /\ NoAsset \in AtSet /\ 1 \in NSet
    BY DEF PcSet, AtSet, NSet
  <1>2. QED
    BY <1>1, CleanerFields

LEMMA CountingCleaner ==
    ASSUME NEW r \in Cleaner, NEW n \in NSet
    PROVE  [r EXCEPT !.n = n] \in Cleaner
  BY CleanerFields

LEMMA CleanerTypes ==
    ASSUME TypeOK, NEW c \in Cleaners, CleanerNext(c)
    PROVE  TypeOK'
  <1>c. cleaner[c] \in Cleaner
    BY DEF TypeOK
  <1>i. Idle \in Cleaner
    BY DEF Idle, Cleaner
  <1>1. ASSUME NEW want \in SUBSET Option, CleanupBegin(c, want) PROVE TypeOK'
    <2> DEFINE listed == {a \in Assets : "assets" \in want /\ row[a] = "unselected"}
               pc     == IF want = {"assets"} THEN "delete" ELSE "known"
    <2>1. listed \in SUBSET Assets /\ pc \in {"delete", "known"}
      OBVIOUS
    <2>2. cleaner' = [cleaner EXCEPT ![c] =
                        [Idle EXCEPT !.pc = pc, !.want = want, !.assets = listed]]
      BY <1>1 DEF CleanupBegin
    <2> HIDE DEF listed, pc
    <2>3. [Idle EXCEPT !.pc = pc, !.want = want, !.assets = listed] \in Cleaner
      <3>1. pc \in PcSet /\ want \in WantSet /\ listed \in SomeSet
        BY <2>1 DEF PcSet, WantSet, SomeSet
      <3>2. QED
        BY <3>1, BegunCleaner
    <2>4. cleaner' \in [Cleaners -> Cleaner]
      BY <2>2, <2>3 DEF TypeOK
    <2>5. QED
      BY <1>1, <2>4 DEF CleanupBegin, TypeOK
  <1>2. CASE ListKnownAssetFilePaths(c)
    <2>1. cleaner' \in [Cleaners -> Cleaner]
      BY <1>2, <1>c DEF ListKnownAssetFilePaths, TypeOK, Cleaner, Directory
    <2>2. QED
      BY <1>2, <2>1 DEF ListKnownAssetFilePaths, TypeOK
  <1>3. CASE WalkDirectory(c)
    <2>1. Found(c) \subseteq File
      BY <1>3, WalkStep, FoundFiles
    <2>2. [cleaner[c] EXCEPT !.pc = NextDirectory(cleaner[c].pc),
                             !.files = cleaner[c].files \cup Found(c)] \in Cleaner
      <3>1. NextDirectory(cleaner[c].pc) \in Directory \cup {"delete"}
        BY <1>3, WalkStep
      <3>2. cleaner[c].files \cup Found(c) \in SUBSET File
        BY <1>c, <2>1 DEF Cleaner
      <3> DEFINE pc == NextDirectory(cleaner[c].pc)
                 files == cleaner[c].files \cup Found(c)
      <3>3. pc \in PcSet /\ files \in FileSet
        BY <3>1, <3>2 DEF PcSet, FileSet
      <3> HIDE DEF pc, files
      <3>4. [cleaner[c] EXCEPT !.pc = pc, !.files = files] \in Cleaner
        BY <1>c, <3>3, WalkedCleaner
      <3>5. QED
        BY <3>4 DEF pc, files
    <2> DEFINE walked == [cleaner[c] EXCEPT !.pc = NextDirectory(cleaner[c].pc),
                                            !.files = cleaner[c].files \cup Found(c)]
    <2>3. walked \in Cleaner /\ cleaner' = [cleaner EXCEPT ![c] = walked]
      BY <1>3, <2>2, WalkStep
    <2> HIDE DEF walked
    <2>4. cleaner' \in [Cleaners -> Cleaner]
      BY <2>3 DEF TypeOK
    <2>5. QED
      BY <1>3, <2>4 DEF WalkDirectory, TypeOK
  <1>4. ASSUME NEW a \in Assets, CleanupAsset(c, a) PROVE TypeOK'
    <2>1. cleaner' \in [Cleaners -> Cleaner]
      BY <1>4, <1>c DEF CleanupAsset, TypeOK, Cleaner
    <2>2. row' \in [Assets -> Live \cup {"none", "deleted"}]
      BY <1>4 DEF CleanupAsset, TypeOK
    <2>3. QED
      BY <1>4, <2>1, <2>2 DEF CleanupAsset, TypeOK
  <1>5. ASSUME NEW removed \in BOOLEAN, CleanupAssetFile(c, removed) PROVE TypeOK'
    <2>4. cleaner' \in [Cleaners -> Cleaner]
      <3>1. CASE cleaner[c].n < 3
        <4>1. cleaner[c].n \in 1..3
          BY <1>c DEF Cleaner
        <4>2. cleaner[c].n + 1 \in NSet
          BY <3>1, <4>1 DEF NSet
        <4>3. [cleaner[c] EXCEPT !.n = cleaner[c].n + 1] \in Cleaner
          BY <1>c, <4>2, CountingCleaner
        <4>4. cleaner' = [cleaner EXCEPT ![c] =
                 [cleaner[c] EXCEPT !.n = cleaner[c].n + 1]]
          BY <1>5, <3>1 DEF CleanupAssetFile
        <4>5. QED
          BY <4>3, <4>4 DEF TypeOK
      <3>2. CASE ~(cleaner[c].n < 3)
        <4>1. [cleaner[c] EXCEPT !.pc = "delete", !.at = NoAsset, !.n = 1] \in Cleaner
          BY <1>c, DoneCleaner
        <4>2. cleaner' = [cleaner EXCEPT ![c] =
                 [cleaner[c] EXCEPT !.pc = "delete", !.at = NoAsset, !.n = 1]]
          BY <1>5, <1>c, <3>2 DEF CleanupAssetFile, TypeOK, Cleaner
        <4>3. QED
          BY <4>1, <4>2 DEF TypeOK
      <3>3. QED
        BY <3>1, <3>2
    <2>5. final' \in [Assets -> SUBSET Kind]
      BY <1>5 DEF CleanupAssetFile, TypeOK
    <2>6. QED
      BY <1>5, <2>4, <2>5 DEF CleanupAssetFile, TypeOK
  <1>6. ASSUME NEW f \in cleaner[c].files, NEW removed \in BOOLEAN, CleanupFile(c, f, removed)
        PROVE  TypeOK'
    <2>1. f \in File
      BY <1>c DEF Cleaner
    <2>2. f.asset \in Assets /\ f.kind \in Kind
      BY <2>1 DEF File
    <2>3. cleaner' \in [Cleaners -> Cleaner]
      BY <1>6, <1>c DEF CleanupFile, TypeOK, Cleaner
    <2>4. /\ tmp' \in [Assets -> SUBSET Kind]
          /\ final' \in [Assets -> SUBSET Kind]
          /\ taken' \in [Assets -> SUBSET Kind]
      BY <1>6, <2>2 DEF CleanupFile, TypeOK
    <2>5. QED
      BY <1>6, <2>3, <2>4 DEF CleanupFile, TypeOK
  <1>7. CASE CleanupEnds(c)
    BY <1>7, <1>i DEF CleanupEnds, TypeOK
  <1>8. QED
    BY <1>1, <1>2, <1>3, <1>4, <1>5, <1>6, <1>7 DEF CleanerNext

LEMMA TypeStep == TypeOK /\ [Next]_vars => TypeOK'
  <1> SUFFICES ASSUME TypeOK, [Next]_vars PROVE TypeOK'
    OBVIOUS
  <1>1. ASSUME NEW a \in Assets, WriterNext(a) \/ Review(a) PROVE TypeOK'
    BY <1>1, WriterTypes
  <1>2. ASSUME NEW c \in Cleaners, CleanerNext(c) PROVE TypeOK'
    BY <1>2, CleanerTypes
  <1>3. CASE DeleteCampaignRows
    BY <1>3 DEF DeleteCampaignRows, TypeOK
  <1>4. CASE DeleteCampaignScopeData
    BY <1>4 DEF DeleteCampaignScopeData, TypeOK
  <1>5. CASE UNCHANGED vars
    BY <1>5 DEF vars, TypeOK
  <1>6. QED
    BY <1>1, <1>2, <1>3, <1>4, <1>5 DEF Next

\* Every variable keeps its type, for any number of assets and cleanups.
THEOREM StorageTypesAreCorrect == Spec => []TypeOK
  BY TypeInit, TypeStep, PTL DEF Spec

-----------------------------------------------------------------------------
(***************************************************************************)
(* Rows have files.  RowHasFiles has to know what each process is about to *)
(* do: a writer that inserts a row has placed all files, also with respect *)
(* to a cleanup of orphans; a cleanup that removes files of an asset has   *)
(* deleted its row; one that removes an orphan has not seen its row; and   *)
(* no row survives or follows the deletion of the campaign's rows.         *)
(***************************************************************************)
Here(a) == final[a] \cup taken[a]

UnregisteredWhileStored ==
    \A a \in Assets : writer[a].pc # "over" => row[a] = "none"

FilesPlaced ==
    campaign # "deleted" => \A a \in Assets :
        /\ writer[a].pc = "rename" /\ writer[a].n > 1 => "original" \in Here(a)
        /\ writer[a].pc = "rename" /\ writer[a].n > 2 => "thumbnail" \in Here(a)
        /\ writer[a].pc = "insert" => Kind \subseteq Here(a)

DeletedBeforeFiles ==
    \A c \in Cleaners : cleaner[c].pc = "files" =>
        cleaner[c].at \in Assets /\ row[cleaner[c].at] = "deleted"

OrphansAreUnknown ==
    \A c \in Cleaners :
        /\ cleaner[c].pc = "known" => cleaner[c].files = {}
        /\ \A f \in cleaner[c].files :
              f.place = "final" => f.asset \notin cleaner[c].known

GoneWithCampaign ==
    campaign # "live" => \A a \in Assets : row[a] \notin Live

FileInv ==
    /\ TypeOK
    /\ UnregisteredWhileStored
    /\ FilesPlaced
    /\ DeletedBeforeFiles
    /\ OrphansAreUnknown
    /\ GoneWithCampaign
    /\ RowHasFiles

LEMMA FileInit == Init => FileInv
  <1> SUFFICES ASSUME Init PROVE FileInv
    OBVIOUS
  <1>1. TypeOK
    BY TypeInit
  <1>2. UnregisteredWhileStored
    BY DEF Init, UnregisteredWhileStored
  <1>3. FilesPlaced
    BY DEF Init, FilesPlaced
  <1>4. DeletedBeforeFiles /\ OrphansAreUnknown
    BY DEF Init, DeletedBeforeFiles, OrphansAreUnknown, Idle
  <1>5. GoneWithCampaign
    BY DEF Init, GoneWithCampaign
  <1>6. RowHasFiles
    BY DEF Init, RowHasFiles, Live
  <1>7. QED
    BY <1>1, <1>2, <1>3, <1>4, <1>5, <1>6 DEF FileInv

\* Cleanups look at rows and files, and their records change by their own steps.
LEMMA CleanersUndisturbed ==
    ASSUME FileInv, cleaner' = cleaner,
           \A a \in Assets : row[a] = "deleted" => row'[a] = "deleted"
    PROVE  DeletedBeforeFiles' /\ OrphansAreUnknown'
  BY DEF FileInv, DeletedBeforeFiles, OrphansAreUnknown

LEMMA WriteTmpKeeps ==
    ASSUME FileInv, NEW a \in Assets, WriteTmp(a)
    PROVE  FileInv'
  <1>1. TypeOK'
    BY WriterTypes DEF FileInv, WriterNext
  <1>2. DeletedBeforeFiles' /\ OrphansAreUnknown'
    BY CleanersUndisturbed DEF WriteTmp
  <1>3. /\ writer'[a].pc \in {"write", "rename"}
        /\ writer'[a].pc = "rename" => writer'[a].n = 1
        /\ \A b \in Assets : b # a => writer'[b] = writer[b]
    BY DEF FileInv, TypeOK, WriteTmp, Then, Writer
  <1>4. UNCHANGED <<row, final, campaign, taken>> /\ writer[a].pc = "write"
    BY DEF WriteTmp
  <1>5. UnregisteredWhileStored'
    BY <1>3, <1>4 DEF FileInv, UnregisteredWhileStored
  <1>6. FilesPlaced'
    BY <1>3, <1>4 DEF FileInv, FilesPlaced, Here
  <1>7. GoneWithCampaign' /\ RowHasFiles'
    BY <1>4 DEF FileInv, GoneWithCampaign, RowHasFiles
  <1>8. QED
    BY <1>1, <1>2, <1>5, <1>6, <1>7 DEF FileInv

LEMMA RenameKeeps ==
    ASSUME FileInv, NEW a \in Assets, Rename(a)
    PROVE  FileInv'
  <1>1. TypeOK'
    BY WriterTypes DEF FileInv, WriterNext
  <1>2. DeletedBeforeFiles' /\ OrphansAreUnknown'
    BY CleanersUndisturbed DEF Rename
  <1>n. writer[a].n \in 1..3
    BY DEF FileInv, TypeOK, Writer
  <1>3. /\ writer[a].pc = "rename"
        /\ writer[a].n < 3 => writer'[a].pc = "rename" /\ writer'[a].n = writer[a].n + 1
        /\ writer[a].n = 3 => writer'[a].pc = "insert" /\ writer'[a].n = 1
        /\ \A b \in Assets : b # a => writer'[b] = writer[b]
    BY <1>n DEF FileInv, TypeOK, Rename, Then
  <1>4. /\ UNCHANGED <<row, campaign, taken>>
        /\ final'[a] = final[a] \cup {Nth(writer[a].n)}
        /\ \A b \in Assets : b # a => final'[b] = final[b]
    BY DEF Rename, FileInv, TypeOK
  <1>5. UnregisteredWhileStored'
    BY <1>3, <1>4 DEF FileInv, UnregisteredWhileStored
  <1>6. FilesPlaced'
    <2> SUFFICES ASSUME campaign # "deleted", NEW b \in Assets
                 PROVE  /\ writer'[b].pc = "rename" /\ writer'[b].n > 1 => "original" \in Here(b)'
                        /\ writer'[b].pc = "rename" /\ writer'[b].n > 2 => "thumbnail" \in Here(b)'
                        /\ writer'[b].pc = "insert" => Kind \subseteq Here(b)'
      BY <1>4 DEF FilesPlaced
    <2>1. CASE b # a
      BY <1>3, <1>4, <2>1 DEF FileInv, FilesPlaced, Here
    <2>2. CASE b = a
      <3>1. Here(a)' = Here(a) \cup {Nth(writer[a].n)}
        BY <1>4 DEF Here
      <3>2. CASE writer[a].n = 1
        BY <1>3, <2>2, <3>1, <3>2 DEF Nth
      <3>3. CASE writer[a].n = 2
        <4>1. "original" \in Here(a)
          BY <1>3, <3>3 DEF FileInv, FilesPlaced
        <4>2. QED
          BY <1>3, <2>2, <3>1, <3>3, <4>1 DEF Nth
      <3>4. CASE writer[a].n = 3
        <4>1. "original" \in Here(a) /\ "thumbnail" \in Here(a)
          BY <1>3, <3>4 DEF FileInv, FilesPlaced
        <4>2. Nth(writer[a].n) = "metadata"
          BY <3>4 DEF Nth
        <4>3. QED
          BY <1>3, <2>2, <3>1, <3>4, <4>1, <4>2 DEF Kind
      <3>5. QED
        BY <1>n, <3>2, <3>3, <3>4
    <2>3. QED
      BY <2>1, <2>2
  <1>7. GoneWithCampaign' /\ RowHasFiles'
    BY <1>4 DEF FileInv, GoneWithCampaign, RowHasFiles
  <1>8. QED
    BY <1>1, <1>2, <1>5, <1>6, <1>7 DEF FileInv

LEMMA InsertKeeps ==
    ASSUME FileInv, NEW a \in Assets, InsertAssetWithVersion(a)
    PROVE  FileInv'
  <1>1. TypeOK'
    BY WriterTypes DEF FileInv, WriterNext
  <1>2. /\ row[a] = "none"
        /\ Kind \subseteq Here(a)
    BY DEF InsertAssetWithVersion, FileInv, UnregisteredWhileStored, FilesPlaced
  <1>3. DeletedBeforeFiles' /\ OrphansAreUnknown'
    BY <1>2, CleanersUndisturbed DEF InsertAssetWithVersion, FileInv, TypeOK
  <1>4. /\ UNCHANGED <<final, campaign, taken>>
        /\ campaign = "live"
        /\ writer'[a].pc = "over"
        /\ \A b \in Assets : b # a => writer'[b] = writer[b] /\ row'[b] = row[b]
    BY DEF InsertAssetWithVersion, FileInv, TypeOK
  <1>5. UnregisteredWhileStored'
    BY <1>4 DEF FileInv, UnregisteredWhileStored
  <1>6. FilesPlaced'
    BY <1>4 DEF FileInv, FilesPlaced, Here
  <1>7. GoneWithCampaign'
    BY <1>4 DEF GoneWithCampaign
  <1>8. RowHasFiles'
    BY <1>2, <1>4 DEF FileInv, RowHasFiles, Here
  <1>9. QED
    BY <1>1, <1>3, <1>5, <1>6, <1>7, <1>8 DEF FileInv

LEMMA StopKeeps ==
    ASSUME FileInv, NEW a \in Assets, WriterStops(a)
    PROVE  FileInv'
  <1>1. TypeOK'
    BY WriterTypes DEF FileInv, WriterNext
  <1>2. DeletedBeforeFiles' /\ OrphansAreUnknown'
    BY CleanersUndisturbed DEF WriterStops
  <1>3. /\ UNCHANGED <<row, final, campaign, taken>>
        /\ writer'[a].pc = "over"
        /\ \A b \in Assets : b # a => writer'[b] = writer[b]
    BY DEF WriterStops, FileInv, TypeOK
  <1>4. UnregisteredWhileStored' /\ FilesPlaced'
    BY <1>3 DEF FileInv, UnregisteredWhileStored, FilesPlaced, Here
  <1>5. GoneWithCampaign' /\ RowHasFiles'
    BY <1>3 DEF FileInv, GoneWithCampaign, RowHasFiles
  <1>6. QED
    BY <1>1, <1>2, <1>4, <1>5 DEF FileInv

LEMMA ReviewKeeps ==
    ASSUME FileInv, NEW a \in Assets, Review(a)
    PROVE  FileInv'
  <1>1. TypeOK'
    BY WriterTypes DEF FileInv
  <1>2. /\ UNCHANGED <<final, campaign, taken, writer>>
        /\ row[a] \in Live /\ row'[a] \in Live
        /\ \A b \in Assets : b # a => row'[b] = row[b]
    BY DEF Review, FileInv, TypeOK, Live
  <1>3. DeletedBeforeFiles' /\ OrphansAreUnknown'
    <2>1. \A b \in Assets : row[b] = "deleted" => row'[b] = "deleted"
      BY <1>2 DEF Live
    <2>2. QED
      BY <2>1, CleanersUndisturbed DEF Review
  <1>4. UnregisteredWhileStored'
    BY <1>2 DEF FileInv, UnregisteredWhileStored, Live
  <1>5. FilesPlaced' /\ GoneWithCampaign' /\ RowHasFiles'
    BY <1>2 DEF FileInv, FilesPlaced, GoneWithCampaign, RowHasFiles, Here
  <1>6. QED
    BY <1>1, <1>3, <1>4, <1>5 DEF FileInv

\* A cleanup that changes only its record.
LEMMA RecordOnlyKeeps ==
    ASSUME FileInv, TypeOK',
           UNCHANGED <<row, final, writer, campaign, taken>>,
           DeletedBeforeFiles', OrphansAreUnknown'
    PROVE  FileInv'
  BY DEF FileInv, UnregisteredWhileStored, FilesPlaced, GoneWithCampaign, RowHasFiles, Here

LEMMA ListingKeeps ==
    ASSUME FileInv, NEW c \in Cleaners, TypeOK',
           \/ \E want \in SUBSET Option : CleanupBegin(c, want)
           \/ ListKnownAssetFilePaths(c)
           \/ WalkDirectory(c)
           \/ CleanupEnds(c)
    PROVE  FileInv'
  <1>t. TypeOK
    BY DEF FileInv
  <1>1. ASSUME NEW want \in SUBSET Option, CleanupBegin(c, want) PROVE FileInv'
    <2>1. /\ cleaner'[c].pc \in {"delete", "known"} /\ cleaner'[c].files = {}
          /\ \A d \in Cleaners : d # c => cleaner'[d] = cleaner[d]
          /\ UNCHANGED <<row, final, writer, campaign, taken>>
      BY <1>1, <1>t DEF CleanupBegin, Idle, TypeOK
    <2>2. DeletedBeforeFiles'
      BY <2>1 DEF FileInv, DeletedBeforeFiles
    <2>3. OrphansAreUnknown'
      BY <2>1 DEF FileInv, OrphansAreUnknown
    <2>4. QED
      BY <2>1, <2>2, <2>3, RecordOnlyKeeps
  <1>2. CASE ListKnownAssetFilePaths(c)
    <2>1. /\ cleaner'[c].pc = "metadata" /\ cleaner'[c].files = {}
          /\ \A d \in Cleaners : d # c => cleaner'[d] = cleaner[d]
          /\ UNCHANGED <<row, final, writer, campaign, taken>>
      BY <1>2, <1>t DEF ListKnownAssetFilePaths, TypeOK, Cleaner, FileInv, OrphansAreUnknown
    <2>2. DeletedBeforeFiles'
      BY <2>1 DEF FileInv, DeletedBeforeFiles
    <2>3. OrphansAreUnknown'
      BY <2>1 DEF FileInv, OrphansAreUnknown
    <2>4. QED
      BY <2>1, <2>2, <2>3, RecordOnlyKeeps
  <1>3. CASE WalkDirectory(c)
    <2>1. /\ cleaner'[c].pc \in Directory \cup {"delete"}
          /\ cleaner'[c].known = cleaner[c].known
          /\ cleaner'[c].files = cleaner[c].files \cup Found(c)
          /\ \A d \in Cleaners : d # c => cleaner'[d] = cleaner[d]
      <3> DEFINE walked == [cleaner[c] EXCEPT !.pc = NextDirectory(cleaner[c].pc),
                                              !.files = cleaner[c].files \cup Found(c)]
      <3>1. /\ cleaner' = [cleaner EXCEPT ![c] = walked]
            /\ NextDirectory(cleaner[c].pc) \in Directory \cup {"delete"}
        BY <1>3, <1>t, WalkStep
      <3>2. cleaner[c] \in Cleaner
        BY <1>t DEF TypeOK
      <3>3. /\ walked.pc = NextDirectory(cleaner[c].pc)
            /\ walked.known = cleaner[c].known
            /\ walked.files = cleaner[c].files \cup Found(c)
        BY <3>2 DEF Cleaner
      <3> HIDE DEF walked
      <3>4. cleaner'[c] = walked /\ \A d \in Cleaners : d # c => cleaner'[d] = cleaner[d]
        BY <1>t, <3>1 DEF TypeOK
      <3>5. QED
        BY <3>1, <3>3, <3>4
    <2>2. UNCHANGED <<row, final, writer, campaign, taken>>
      BY <1>3 DEF WalkDirectory
    <2>3. cleaner'[c].pc \notin {"files", "known"}
      BY <2>1 DEF Directory
    <2>4. DeletedBeforeFiles'
      BY <2>1, <2>2, <2>3 DEF FileInv, DeletedBeforeFiles
    <2>5. \A f \in Found(c) : f.place = "final" => f.asset \notin cleaner[c].known
      BY <1>3, <1>t, WalkStep, FoundFiles
    <2>6. OrphansAreUnknown'
      BY <2>1, <2>3, <2>5 DEF FileInv, OrphansAreUnknown
    <2>7. QED
      BY <2>2, <2>4, <2>6, RecordOnlyKeeps
  <1>4. CASE CleanupEnds(c)
    <2>1. /\ cleaner'[c] = Idle
          /\ \A d \in Cleaners : d # c => cleaner'[d] = cleaner[d]
          /\ UNCHANGED <<row, final, writer, campaign, taken>>
      BY <1>4, <1>t DEF CleanupEnds, TypeOK
    <2>2. DeletedBeforeFiles' /\ OrphansAreUnknown'
      BY <2>1 DEF FileInv, DeletedBeforeFiles, OrphansAreUnknown, Idle
    <2>3. QED
      BY <2>1, <2>2, RecordOnlyKeeps
  <1>5. QED
    BY <1>1, <1>2, <1>3, <1>4

LEMMA CleanupAssetKeeps ==
    ASSUME FileInv, NEW c \in Cleaners, NEW a \in Assets, TypeOK', CleanupAsset(c, a)
    PROVE  FileInv'
  <1>t. TypeOK
    BY DEF FileInv
  <1>1. /\ cleaner'[c].pc = "files" => cleaner'[c].at = a /\ row'[a] = "deleted"
        /\ cleaner'[c].pc \in {"files", "delete"}
        /\ cleaner'[c].known = cleaner[c].known
        /\ cleaner'[c].files = cleaner[c].files
        /\ \A d \in Cleaners : d # c => cleaner'[d] = cleaner[d]
    BY <1>t DEF CleanupAsset, TypeOK, Cleaner
  <1>u. UNCHANGED <<final, writer, campaign, taken>>
    BY DEF CleanupAsset
  <1>2. ASSUME NEW b \in Assets
        PROVE  row'[b] = row[b] \/ (row[b] = "unselected" /\ row'[b] = "deleted")
    <2>1. CASE row[a] = "unselected"
      <3>1. row' = [row EXCEPT ![a] = "deleted"]
        BY <2>1 DEF CleanupAsset
      <3>2. QED
        BY <1>t, <2>1, <3>1 DEF TypeOK
    <2>2. CASE row[a] # "unselected"
      BY <2>2 DEF CleanupAsset
    <2>3. QED
      BY <2>1, <2>2
  <1>3. DeletedBeforeFiles' /\ OrphansAreUnknown'
    BY <1>1, <1>u, <1>2 DEF FileInv, DeletedBeforeFiles, OrphansAreUnknown
  <1>4. UnregisteredWhileStored' /\ FilesPlaced'
    BY <1>u, <1>2 DEF FileInv, UnregisteredWhileStored, FilesPlaced, Here
  <1>5. GoneWithCampaign' /\ RowHasFiles'
    BY <1>u, <1>2 DEF FileInv, GoneWithCampaign, RowHasFiles, Live
  <1>6. QED
    BY <1>3, <1>4, <1>5 DEF FileInv

\* Only files of an asset whose row is deleted, and which nobody stores, go.
LEMMA CleanupAssetFileKeeps ==
    ASSUME FileInv, NEW c \in Cleaners, NEW removed \in BOOLEAN, TypeOK',
           CleanupAssetFile(c, removed)
    PROVE  FileInv'
  <1> DEFINE a == cleaner[c].at
  <1>t. TypeOK
    BY DEF FileInv
  <1>1. /\ a \in Assets /\ row[a] = "deleted" /\ writer[a].pc = "over"
    BY DEF CleanupAssetFile, FileInv, DeletedBeforeFiles, UnregisteredWhileStored
  <1>2. /\ cleaner'[c].pc = "files" => cleaner'[c].at = a
        /\ cleaner'[c].pc \in {"files", "delete"}
        /\ cleaner'[c].known = cleaner[c].known
        /\ cleaner'[c].files = cleaner[c].files
        /\ \A d \in Cleaners : d # c => cleaner'[d] = cleaner[d]
    BY <1>t DEF CleanupAssetFile, TypeOK, Cleaner
  <1>3. /\ UNCHANGED <<row, writer, campaign, taken>>
        /\ \A b \in Assets : b # a => final'[b] = final[b]
    BY <1>t DEF CleanupAssetFile, TypeOK
  <1>4. DeletedBeforeFiles' /\ OrphansAreUnknown'
    BY <1>1, <1>2, <1>3 DEF FileInv, DeletedBeforeFiles, OrphansAreUnknown
  <1>5. UnregisteredWhileStored' /\ GoneWithCampaign'
    BY <1>3 DEF FileInv, UnregisteredWhileStored, GoneWithCampaign
  <1>6. FilesPlaced' /\ RowHasFiles'
    BY <1>1, <1>3 DEF FileInv, FilesPlaced, RowHasFiles, Here, Live
  <1>7. QED
    BY <1>4, <1>5, <1>6 DEF FileInv

\* What an orphan's asset loses on disk is recorded.
LEMMA CleanupFileKeeps ==
    ASSUME FileInv, NEW c \in Cleaners, NEW f \in cleaner[c].files,
           NEW removed \in BOOLEAN, TypeOK', CleanupFile(c, f, removed)
    PROVE  FileInv'
  <1>t. TypeOK
    BY DEF FileInv
  <1>0. f.asset \in Assets
    BY <1>t DEF TypeOK, Cleaner, File
  <1>1. /\ cleaner'[c].pc = "delete"
        /\ cleaner'[c].known = cleaner[c].known
        /\ cleaner'[c].files = cleaner[c].files \ {f}
        /\ \A d \in Cleaners : d # c => cleaner'[d] = cleaner[d]
        /\ UNCHANGED <<row, writer, campaign>>
    BY <1>t DEF CleanupFile, TypeOK, Cleaner
  <1>2. \A b \in Assets : Here(b) \subseteq Here(b)'
    <2>1. CASE f.place = "final"
      <3>1. f.asset \notin cleaner[c].known
        BY <2>1 DEF FileInv, OrphansAreUnknown
      <3>2. /\ taken' = [taken EXCEPT ![f.asset] = @ \cup {f.kind}]
            /\ final' = final \/ final' = [final EXCEPT ![f.asset] = @ \ {f.kind}]
        BY <2>1, <3>1 DEF CleanupFile
      <3>3. QED
        BY <1>t, <1>0, <3>2 DEF TypeOK, Here
    <2>2. CASE f.place # "final"
      BY <2>2 DEF CleanupFile, Here
    <2>3. QED
      BY <2>1, <2>2
  <1>3. DeletedBeforeFiles' /\ OrphansAreUnknown'
    BY <1>1 DEF FileInv, DeletedBeforeFiles, OrphansAreUnknown
  <1>4. UnregisteredWhileStored' /\ GoneWithCampaign'
    BY <1>1 DEF FileInv, UnregisteredWhileStored, GoneWithCampaign
  <1>5. FilesPlaced'
    BY <1>1, <1>2 DEF FileInv, FilesPlaced
  <1>6. RowHasFiles'
    BY <1>1, <1>2 DEF FileInv, RowHasFiles, Here
  <1>7. QED
    BY <1>3, <1>4, <1>5, <1>6 DEF FileInv

LEMMA CampaignKeeps ==
    ASSUME FileInv, TypeOK', DeleteCampaignRows \/ DeleteCampaignScopeData
    PROVE  FileInv'
  <1>t. TypeOK
    BY DEF FileInv
  <1>1. CASE DeleteCampaignRows
    <2>1. /\ UNCHANGED <<final, writer, cleaner, taken>>
          /\ campaign # "deleted"
          /\ \A a \in Assets : row'[a] = IF row[a] \in Live THEN "deleted" ELSE row[a]
      BY <1>1 DEF DeleteCampaignRows
    <2>2. \A a \in Assets : row'[a] \notin Live /\ (row[a] = "deleted" => row'[a] = "deleted")
      BY <2>1 DEF Live
    <2>3. DeletedBeforeFiles' /\ OrphansAreUnknown'
      BY <2>1, <2>2, CleanersUndisturbed
    <2>4. UnregisteredWhileStored'
      BY <2>1 DEF FileInv, UnregisteredWhileStored, Live
    <2>5. FilesPlaced'
      BY <2>1 DEF FileInv, FilesPlaced, Here
    <2>6. GoneWithCampaign' /\ RowHasFiles'
      BY <2>2 DEF GoneWithCampaign, RowHasFiles
    <2>7. QED
      BY <2>3, <2>4, <2>5, <2>6 DEF FileInv
  <1>2. CASE DeleteCampaignScopeData
    <2>1. /\ UNCHANGED <<row, writer, cleaner, taken>>
          /\ campaign # "live" /\ campaign' = "deleted"
      BY <1>2 DEF DeleteCampaignScopeData
    <2>2. DeletedBeforeFiles' /\ OrphansAreUnknown'
      BY <2>1, CleanersUndisturbed
    <2>3. UnregisteredWhileStored' /\ FilesPlaced' /\ GoneWithCampaign'
      BY <2>1 DEF FileInv, UnregisteredWhileStored, FilesPlaced, GoneWithCampaign
    <2>4. RowHasFiles'
      BY <2>1 DEF FileInv, GoneWithCampaign, RowHasFiles
    <2>5. QED
      BY <2>2, <2>3, <2>4 DEF FileInv
  <1>3. QED
    BY <1>1, <1>2

LEMMA FileStep == FileInv /\ [Next]_vars => FileInv'
  <1> SUFFICES ASSUME FileInv, [Next]_vars PROVE FileInv'
    OBVIOUS
  <1>t. TypeOK'
    BY TypeStep DEF FileInv
  <1>1. ASSUME NEW a \in Assets, WriterNext(a) \/ Review(a) PROVE FileInv'
    BY <1>1, WriteTmpKeeps, RenameKeeps, InsertKeeps, StopKeeps, ReviewKeeps DEF WriterNext
  <1>2. ASSUME NEW c \in Cleaners, CleanerNext(c) PROVE FileInv'
    <2>1. CASE \E a \in Assets : CleanupAsset(c, a)
      BY <1>t, <2>1, CleanupAssetKeeps
    <2>2. CASE \E removed \in BOOLEAN : CleanupAssetFile(c, removed)
      BY <1>t, <2>2, CleanupAssetFileKeeps
    <2>3. CASE \E f \in cleaner[c].files, removed \in BOOLEAN : CleanupFile(c, f, removed)
      BY <1>t, <2>3, CleanupFileKeeps
    <2>4. QED
      BY <1>2, <1>t, <2>1, <2>2, <2>3, ListingKeeps DEF CleanerNext
  <1>3. CASE DeleteCampaignRows \/ DeleteCampaignScopeData
    BY <1>t, <1>3, CampaignKeeps
  <1>4. CASE UNCHANGED vars
    <2>1. UNCHANGED <<row, final, writer, cleaner, campaign, taken>>
      BY <1>4 DEF vars
    <2>2. DeletedBeforeFiles' /\ OrphansAreUnknown'
      BY <2>1, CleanersUndisturbed
    <2>3. QED
      BY <1>t, <2>1, <2>2, RecordOnlyKeeps
  <1>5. QED
    BY <1>1, <1>2, <1>3, <1>4 DEF Next

\* An asset that can be read has its three files, for any number of assets and
\* cleanups, but for what a cleanup of orphans took that began before.
THEOREM RowsHaveFiles == Spec => []RowHasFiles
  <1>1. FileInv => RowHasFiles
    BY DEF FileInv
  <1>2. QED
    BY <1>1, FileInit, FileStep, PTL DEF Spec
=============================================================================
