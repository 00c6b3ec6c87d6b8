------------------------------ MODULE WebManaged ------------------------------
(***************************************************************************)
(* The managed scope in the settings window (SettingsModal.tsx).  The      *)
(* window edits a draft of the settings; its scope may be incomplete while *)
(* the user chooses a workspace, a project and a campaign from lists read  *)
(* level by level, types their ids, or creates them.  The settings the     *)
(* rest of the client works with must only get a complete scope, since     *)
(* normalizeSettings puts the ids of the sample scope in place of empty    *)
(* ones.                                                                   *)
(*                                                                         *)
(* Only the scope of the draft is kept, and of the readings the newest     *)
(* (managedScopeRequestRef): the answers of the others are ignored.        *)
(***************************************************************************)
EXTENDS Naturals, FiniteSets

CONSTANTS
    ScopeParent,    \* the parent of a project and of a campaign
    Served,         \* the scopes the server has at the start
    Creatable,      \* scopes the user may create
    Typable,        \* ids the user may type
    Sample,         \* ws_default, prj_xhs_anime, cmp_7day_cover
    MaxManaged      \* bound on what the user does

ASSUME WebManagedAssumption ==
    /\ Sample \in [{"w", "p", "c"} -> STRING] /\ \A l \in {"w", "p", "c"} : Sample[l] # ""
    /\ MaxManaged \in Nat

VARIABLES
    served,     \* the scopes of the server
    stored,     \* the scope of the settings
    window,     \* showSettings, with the general tab
    drafted,    \* the scope of the draft
    options,    \* managedScopeSnapshot
    loadKey,    \* managedScopeLoadKeyRef
    reading,    \* the newest loadManagedScopes
    creating,   \* createManagedWorkspace, -Project or -Campaign under way
    wholes,     \* the complete scopes the user or the server made of the draft
    moves       \* counts what the user does

managedVars == <<served, stored, window, drafted, options, loadKey, reading, creating,
                 wholes, moves>>

-----------------------------------------------------------------------------
Level    == {"w", "p", "c"}
NoId    == ""
NoKey    == <<>>
Ids      == Served \cup Creatable \cup Typable \cup {Sample[l] : l \in Level}
Scope    == [Level -> Ids \cup {NoId}]
LevelOf(id) == IF id \notin DOMAIN ScopeParent THEN "w"
               ELSE IF ScopeParent[id] \in DOMAIN ScopeParent THEN "c" ELSE "p"

Whole(s) == NoId \notin {s[l] : l \in Level}

\* normalizeSettings: an empty id becomes the sample's.
Filled(s) == [l \in Level |-> IF s[l] = NoId THEN Sample[l] ELSE s[l]]

\* A choice empties the levels below it.
Chosen(s, l, id) == [m \in Level |-> IF m = l THEN id
                                     ELSE IF <<l, m>> \in {<<"w", "p">>, <<"w", "c">>, <<"p", "c">>}
                                          THEN NoId ELSE s[m]]

NotLoading  == [pc |-> "idle", base |-> Sample, next |-> Sample, lists |-> {}]
Loading(s)  == [pc |-> "w", base |-> s, next |-> s, lists |-> {}]
NotCreating == [id |-> NoId, base |-> Sample]
KeyOf(s)    == <<s["w"], s["p"]>>

ManagedInit ==
    /\ served = Served /\ stored = Sample /\ drafted = Sample
    /\ window = FALSE /\ options = {} /\ loadKey = NoKey
    /\ reading = NotLoading /\ creating = NotCreating
    /\ wholes = {Sample} /\ moves = 0

-----------------------------------------------------------------------------
(* What the handlers share. *)

Move == moves < MaxManaged /\ moves' = moves + 1

\* The draft shows s, which the user or the server made.
Drafts(s) == /\ drafted' = s
             /\ wholes' = IF Whole(s) THEN wholes \cup {s} ELSE wholes

\* commitSettings, and the effect that reads the lists of a changed scope.
Commit(s) ==
    /\ stored' = Filled(s)
    /\ IF window /\ loadKey # KeyOf(Filled(s))
       THEN reading' = Loading(Filled(s)) /\ loadKey' = KeyOf(Filled(s))
       ELSE UNCHANGED <<reading, loadKey>>

\* commitManagedScopeIfComplete; rest is the reading when it commits nothing.
CommitIfComplete(s, rest) ==
    /\ Drafts(s)
    /\ IF Whole(s)
       THEN /\ stored' = s
            /\ IF window /\ loadKey # KeyOf(s)
               THEN reading' = Loading(s) /\ loadKey' = KeyOf(s)
               ELSE reading' = rest /\ UNCHANGED loadKey
       ELSE reading' = rest /\ UNCHANGED <<stored, loadKey>>

-----------------------------------------------------------------------------
(* The window opens and closes. *)

OpenSettings ==
    /\ ~window /\ Move
    /\ window' = TRUE /\ drafted' = stored
    /\ reading' = Loading(stored) /\ loadKey' = KeyOf(stored)
    /\ UNCHANGED <<served, stored, options, creating, wholes>>

\* A mutant of Preserved: the window closes with what the draft has.
PreservesNothing(s) == s

\* preservePersistedManagedScopeIfIncomplete
Preserved(s) == IF Whole(s) THEN s ELSE stored

\* handleClose.  A reading or a creation goes on.
CloseSettings ==
    /\ window
    /\ window' = FALSE /\ loadKey' = NoKey
    /\ stored' = Filled(Preserved(drafted)) /\ drafted' = stored'
    /\ UNCHANGED <<served, options, reading, creating, wholes, moves>>

\* Every other setting is committed with the whole draft, whatever its scope.
CommitOther ==
    /\ window /\ Move
    /\ drafted' = Filled(drafted) /\ Commit(drafted)
    /\ UNCHANGED <<served, window, options, creating, wholes>>

-----------------------------------------------------------------------------
(* The user chooses or types a scope. *)

ChooseParent(id) ==
    LET s == Chosen(drafted, LevelOf(id), id) IN
    /\ window /\ Move
    /\ id \in options /\ LevelOf(id) # "c"
    /\ Drafts(s) /\ reading' = Loading(s) /\ loadKey' = NoKey
    /\ UNCHANGED <<served, stored, window, options, creating>>

ChooseCampaign(id) ==
    /\ window /\ Move
    /\ id \in options /\ LevelOf(id) = "c" /\ NoId \notin {drafted["w"], drafted["p"]}
    /\ CommitIfComplete(Chosen(drafted, "c", id), reading)
    /\ UNCHANGED <<served, window, options, creating>>

TypeScopeId(l, id) ==
    /\ window /\ Move
    /\ id = NoId \/ LevelOf(id) = l
    /\ Drafts(Chosen(drafted, l, id))
    /\ UNCHANGED <<served, stored, window, options, loadKey, reading, creating>>

BlurScopeId ==
    /\ window /\ Whole(drafted) /\ drafted # stored
    /\ CommitIfComplete(drafted, reading)
    /\ UNCHANGED <<served, window, options, creating, moves>>

\* refreshManagedScopes
Refresh ==
    /\ window /\ Move
    /\ reading' = Loading(drafted) /\ loadKey' = NoKey
    /\ UNCHANGED <<served, stored, window, drafted, options, creating, wholes>>

-----------------------------------------------------------------------------
(* loadManagedScopes: one level after another, each completed with the     *)
(* first scope of the answer when the wanted one is not in it.             *)

Children(l, s) ==
    {id \in served : LevelOf(id) = l /\ (l # "w" => ScopeParent[id] = s[IF l = "p" THEN "w" ELSE "p"])}

First(found) == IF found = {} THEN NoId ELSE CHOOSE id \in found : TRUE

Answer(l) ==
    LET found == Children(l, reading.next)
        next  == IF reading.next[l] \in found THEN reading.next
                 ELSE Chosen(reading.next, l, First(found))
        lists == reading.lists \cup found
    IN /\ reading.pc = l
       /\ IF l # "c"
          THEN /\ reading' = [reading EXCEPT !.pc = IF l = "w" THEN "p" ELSE "c",
                                             !.next = next, !.lists = lists]
               /\ UNCHANGED <<stored, drafted, options, loadKey, wholes>>
          ELSE /\ options' = lists
               /\ IF next # reading.base
                  THEN CommitIfComplete(next, NotLoading)
                  ELSE Drafts(next) /\ reading' = NotLoading /\ UNCHANGED <<stored, loadKey>>
       /\ UNCHANGED <<served, window, creating, moves>>

ReadingFails ==
    /\ reading.pc # "idle"
    /\ reading' = NotLoading
    /\ UNCHANGED <<served, stored, window, drafted, options, loadKey, creating, wholes, moves>>

-----------------------------------------------------------------------------
(* Creation of a scope below the draft's. *)

StartCreate(id) ==
    /\ window /\ Move
    /\ creating = NotCreating /\ id \in Creatable \ served
    /\ LevelOf(id) # "w" => ScopeParent[id] = drafted[IF LevelOf(id) = "p" THEN "w" ELSE "p"]
    /\ creating' = [id |-> id, base |-> drafted]
    /\ UNCHANGED <<served, stored, window, drafted, options, loadKey, reading, wholes>>

\* The draft becomes the one the click saw, with the new scope.
Created ==
    LET l == LevelOf(creating.id)
        s == Chosen(creating.base, l, creating.id)
    IN /\ creating # NotCreating
       /\ served' = served \cup {creating.id} /\ creating' = NotCreating
       /\ Drafts(s) /\ reading' = Loading(s)
       /\ IF l = "c" /\ Whole(s)
          THEN stored' = s /\ loadKey' = IF window THEN KeyOf(s) ELSE NoKey
          ELSE loadKey' = NoKey /\ UNCHANGED stored
       /\ UNCHANGED <<window, options, moves>>

CreateFails ==
    /\ creating # NotCreating /\ creating' = NotCreating
    /\ UNCHANGED <<served, stored, window, drafted, options, loadKey, reading, wholes, moves>>

ManagedNext ==
    \/ OpenSettings \/ CloseSettings \/ CommitOther \/ BlurScopeId \/ Refresh
    \/ \E id \in served : ChooseParent(id) \/ ChooseCampaign(id)
    \/ \E l \in Level, id \in Typable \cup {NoId} : TypeScopeId(l, id)
    \/ \E l \in Level : Answer(l)
    \/ ReadingFails
    \/ \E id \in Creatable : StartCreate(id)
    \/ Created \/ CreateFails

ManagedSpec == ManagedInit /\ [][ManagedNext]_managedVars

-----------------------------------------------------------------------------
ManagedTypeOK ==
    /\ served \subseteq Ids /\ options \subseteq Ids
    /\ stored \in Scope /\ drafted \in Scope /\ wholes \subseteq Scope
    /\ window \in BOOLEAN /\ moves \in 0 .. MaxManaged
    /\ loadKey \in {NoKey} \cup (Ids \X (Ids \cup {NoId}))
    /\ reading.pc \in Level \cup {"idle"} /\ {reading.base, reading.next} \subseteq Scope
    /\ creating.id \in Creatable \cup {NoId} /\ creating.base \in Scope

\* An incomplete scope stays in the draft of the settings window: the settings
\* only ever have a scope that was complete in the draft, or the one they
\* started with, never one completed with ids of the sample.  The code does not
\* keep this (MCWebManaged).
ScopeWasWhole == stored \in wholes

\* But one handler alone breaks it: whatever is chosen, typed, read late, created
\* or closed meanwhile, the settings of the window get a scope completed with ids
\* of the sample only when another setting is committed under an incomplete draft.
OnlyCommitsFill ==
    [][ScopeWasWhole /\ ~ScopeWasWhole' => CommitOther /\ ~Whole(drafted)]_managedVars
===============================================================================
