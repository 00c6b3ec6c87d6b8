---------------------------- MODULE WebTasksProofs ----------------------------
(***************************************************************************)
(* What the tasks of the page promise: proved for any identifiers, any     *)
(* kinds of providers, any imports and any number of reloads.              *)
(***************************************************************************)
EXTENDS MCWebTasks, SequenceTheorems, TLAPS

-----------------------------------------------------------------------------
(***************************************************************************)
(* Type correctness of WebTasks.                                           *)
(***************************************************************************)
Records == [Tasks -> TaskRecord]

LEMMA RecordTypes ==
    ASSUME NEW r \in TaskRecord, NEW t \in Tasks
    PROVE  /\ Failed(r) \in TaskRecord /\ Lost(r) \in TaskRecord
           /\ Delivered(r, t) \in TaskRecord
           /\ [Delivered(r, t) EXCEPT !.parts = {}] \in TaskRecord
           /\ [r EXCEPT !.request = TRUE, !.recoverable = FALSE] \in TaskRecord
           /\ \A i \in Images : [r EXCEPT !.parts = r.parts \cup {i}] \in TaskRecord
           /\ ImagesOf(r) \subseteq Images
  <1>1. In \in Images /\ Out(t) \in Images
    BY DEF Images
  <1>2. QED
    BY <1>1 DEF TaskRecord, Failed, Lost, Delivered, ImagesOf

LEMMA NewTypes ==
    /\ \A kind \in Kind, input \in BOOLEAN : NewTask(kind, input) \in TaskRecord
    /\ NoTask \in TaskRecord /\ NoTasks \in Records
  <1>1. \A kind \in Kind, input \in BOOLEAN : NewTask(kind, input) \in TaskRecord
    BY DEF NewTask, TaskRecord
  <1>2. NoTask \in TaskRecord
    BY <1>1 DEF NoTask, NewTask, TaskRecord, Kind
  <1>3. QED
    BY <1>1, <1>2 DEF NoTasks, Records

LEMMA UpdateTypes ==
    ASSUME tasks \in Records, rows \in Records, NEW t \in Tasks, NEW r \in TaskRecord,
           UpdateTask(t, r)
    PROVE  tasks' \in Records /\ rows' \in Records
           /\ crossed \subseteq crossed' /\ crossed' \subseteq crossed \cup {t}
BY DEF UpdateTask, Records, Cross

LEMMA IsReferenced ==
    ASSUME NEW ts, NEW b \in BOOLEAN, NEW i
    PROVE  i \in Referenced(ts, b) <=> (i = In /\ b) \/ \E t \in Tasks : i \in ImagesOf(ts[t])
BY DEF Referenced

LEMMA ReferencedTypes ==
    ASSUME NEW ts \in Records, NEW b \in BOOLEAN
    PROVE  Referenced(ts, b) \subseteq Images
  <1>1. \A t \in Tasks : ImagesOf(ts[t]) \subseteq Images
    BY RecordTypes DEF Records
  <1>2. In \in Images
    BY DEF Images
  <1>3. ASSUME NEW i \in Referenced(ts, b)
        PROVE  i \in Images
    <2>1. i = In \/ \E t \in Tasks : i \in ImagesOf(ts[t])
      BY <1>3, IsReferenced
    <2>2. QED
      BY <1>1, <1>2, <2>1
  <1>4. QED
    BY <1>3

\* The parts of the type invariant, by who writes them.
ListOK == tasks \in Records /\ rows \in Records
PageOK == /\ images \subseteq Images /\ attached \in BOOLEAN
          /\ submit \in {"idle", "plain", "input"}
ExecSteps == {"idle", "submitted", "inputs", "call", "store", "settle", "discard", "gone"}
ExecOK == /\ exec \in [Tasks -> ExecSteps] /\ watchdog \subseteq Tasks
          /\ partial \in [Tasks -> Stage]
          /\ recovery \in [Tasks -> {"idle", "timer", "ask", "store", "settle", "discard"}]
          /\ cleanup \subseteq Images /\ crossed \subseteq Tasks
RemovalOK == removal \in [pc: {"idle", "scrub", "rows", "images", "clear images", "clear list",
                               "import"},
                          dead: SUBSET Tasks, snapshot: [Tasks -> TaskRecord],
                          attached: BOOLEAN, images: SUBSET Images]
StartOK == start \in [pc: {"read", "mark", "list", "keys", "sweep", "ready"},
                      snapshot: [Tasks -> TaskRecord], todo: SUBSET Images]

LEMMA TypeParts ==
    TypeOK <=> ListOK /\ PageOK /\ ExecOK /\ RemovalOK /\ StartOK /\ reloads \in 0..MaxReloads
BY DEF TypeOK, ListOK, PageOK, ExecOK, ExecSteps, RemovalOK, StartOK, Records

LEMMA NextParts ==
    (ListOK /\ PageOK /\ ExecOK /\ RemovalOK /\ StartOK /\ reloads \in 0..MaxReloads)' => TypeOK'
BY DEF TypeOK, ListOK, PageOK, ExecOK, ExecSteps, RemovalOK, StartOK, Records

LEMMA InitType == Init => TypeOK
  <1> SUFFICES ASSUME Init PROVE TypeOK
    OBVIOUS
  <1>1. In \in Images
    BY DEF Images
  <1>2. ListOK /\ PageOK
    BY NewTypes DEF Init, ListOK, PageOK
  <1>3. ExecOK
    BY <1>1 DEF Init, ExecOK, ExecSteps, Stage, NoPartial
  <1>4. RemovalOK /\ StartOK
    BY NewTypes DEF Init, RemovalOK, StartOK, IdleRemoval, Started, Records
  <1>5. reloads \in 0..MaxReloads
    BY WebTasksAssumption DEF Init
  <1>6. QED
    BY <1>2, <1>3, <1>4, <1>5, TypeParts

LEMMA ComposerTypes ==
    ASSUME TypeOK,
           \/ Attach \/ Detach \/ SubmitStore \/ \E t \in Tasks : ReuseConfig(t)
           \/ \E t \in Tasks, kind \in Kinds : SubmitCreate(t, kind)
           \/ \E old, t \in Tasks, kind \in Kinds : RetryTask(old, t, kind)
    PROVE  TypeOK'
  <1>1. ListOK /\ PageOK /\ ExecOK /\ RemovalOK /\ StartOK /\ reloads \in 0..MaxReloads
    BY TypeParts
  <1>2. In \in Images
    BY DEF Images
  <1>3. CASE Attach \/ Detach \/ SubmitStore \/ \E t \in Tasks : ReuseConfig(t)
    <2>1. UNCHANGED <<tasks, rows, async, removal, start, reloads>>
      BY <1>3 DEF Attach, Detach, SubmitStore, ReuseConfig
    <2>2. PageOK'
      BY <1>1, <1>2, <1>3 DEF Attach, Detach, SubmitStore, ReuseConfig, PageOK, ListOK, Records,
                              TaskRecord
    <2>3. QED
      BY <1>1, <2>1, <2>2, NextParts DEF ListOK, ExecOK, RemovalOK, StartOK, async
  <1>4. ASSUME NEW t \in Tasks, NEW kind \in Kinds, NEW input \in BOOLEAN, AddTask(t, kind, input)
        PROVE  ListOK' /\ exec' \in [Tasks -> ExecSteps]
    <2>1. NewTask(kind, input) \in TaskRecord
      BY NewTypes, WebTasksAssumption
    <2>2. QED
      BY <1>1, <1>4, <2>1 DEF AddTask, ListOK, ExecOK, ExecSteps, Records
  <1>5. CASE \E t \in Tasks, kind \in Kinds : SubmitCreate(t, kind)
    <2>1. ListOK' /\ exec' \in [Tasks -> ExecSteps]
      BY <1>4, <1>5 DEF SubmitCreate
    <2>2. PageOK' /\ UNCHANGED <<watchdog, partial, recovery, cleanup, crossed, removal, start, reloads>>
      BY <1>1, <1>5 DEF SubmitCreate, PageOK
    <2>3. QED
      BY <1>1, <2>1, <2>2, NextParts DEF ExecOK, RemovalOK, StartOK
  <1>6. CASE \E old, t \in Tasks, kind \in Kinds : RetryTask(old, t, kind)
    <2>1. PICK old \in Tasks, t \in Tasks, kind \in Kinds : RetryTask(old, t, kind)
      BY <1>6
    <2>2. tasks[old].input \in BOOLEAN
      BY <1>1 DEF ListOK, Records, TaskRecord
    <2>3. ListOK' /\ exec' \in [Tasks -> ExecSteps]
      BY <1>4, <2>1, <2>2 DEF RetryTask
    <2>4. /\ UNCHANGED <<images, attached, submit, watchdog, partial, recovery, cleanup, removal,
                       start, reloads>>
          /\ crossed' \subseteq Tasks
      BY <1>1, <2>1 DEF RetryTask, Cross, ExecOK
    <2>5. QED
      BY <1>1, <2>3, <2>4, NextParts DEF PageOK, ExecOK, RemovalOK, StartOK
  <1>7. QED
    BY <1>3, <1>5, <1>6

LEMMA ExecutingTypes ==
    ASSUME TypeOK, NEW t \in Tasks, Executing(t) \/ Recovering(t)
    PROVE  TypeOK'
  <1>1. ListOK /\ PageOK /\ ExecOK /\ RemovalOK /\ StartOK /\ reloads \in 0..MaxReloads
    BY TypeParts
  <1>2. tasks[t] \in TaskRecord /\ Out(t) \in Images /\ Part(t) \in Images
    BY <1>1 DEF ListOK, Records, Images
  <1>3. partial[t].image \in Images
    BY <1>1 DEF ExecOK, Stage
  <1>4. UNCHANGED <<attached, submit, removal, start, reloads>>
    BY DEF Executing, Execute, ReadInputs, Enqueued, Answered, StoreOutputs, DiscardOutputs, Settle,
           WatchdogFires, Fails, PartialArrives, PartialStored, PartialRecorded, Recovering, Recover,
           RecoverLost, RecoverFails, RecoverAnswered, RecoverStores, RecoverDiscards,
           RecoverSettles, Elsewhere
  <1>5. images' \subseteq Images
    BY <1>1, <1>2, <1>3 DEF Executing, Execute, ReadInputs, Enqueued, Answered, StoreOutputs,
           DiscardOutputs, Settle, WatchdogFires, Fails, PartialArrives, PartialStored,
           PartialRecorded, Recovering, Recover, RecoverLost, RecoverFails, RecoverAnswered,
           RecoverStores, RecoverDiscards, RecoverSettles, PageOK
  <1>6. ListOK' /\ crossed' \subseteq Tasks
    <2>1. \/ UNCHANGED <<tasks, rows>> /\ crossed' \in {crossed, crossed \cup {t}}
          \/ \E r \in TaskRecord : UpdateTask(t, r)
      BY <1>2, <1>3, RecordTypes
         DEF Executing, Execute, ReadInputs, Enqueued, Answered, StoreOutputs, DiscardOutputs, Settle,
             WatchdogFires, Fails, PartialArrives, PartialStored, PartialRecorded,
             Recovering, Recover, RecoverLost, RecoverFails, RecoverAnswered, RecoverStores,
             RecoverDiscards, RecoverSettles, Discards, Cross
    <2>2. QED
      BY <1>1, <2>1, UpdateTypes DEF ListOK, ExecOK
  <1>7. cleanup' \subseteq Images
    <2>1. tasks[t].parts \subseteq Images
      BY <1>2 DEF TaskRecord
    <2>2. QED
      BY <1>1, <1>2, <1>3, <2>1
         DEF Executing, Execute, ReadInputs, Enqueued, Answered, StoreOutputs, DiscardOutputs, Settle,
             WatchdogFires, Fails, PartialArrives, PartialStored, PartialRecorded,
             Recovering, Recover, RecoverLost, RecoverFails, RecoverAnswered, RecoverStores,
             RecoverDiscards, RecoverSettles, Discards, Unused, ExecOK
  <1>8. /\ exec' \in [Tasks -> ExecSteps] /\ watchdog' \subseteq Tasks
        /\ recovery' \in [Tasks -> {"idle", "timer", "ask", "store", "settle", "discard"}]
    BY <1>1 DEF Executing, Execute, ReadInputs, Enqueued, Answered, StoreOutputs, DiscardOutputs,
           Settle, WatchdogFires, Fails, PartialArrives, PartialStored, PartialRecorded,
           Recovering, Recover, RecoverLost, RecoverFails, RecoverAnswered, RecoverStores,
           RecoverDiscards, RecoverSettles, Step, Recovery, ExecOK, ExecSteps
  <1>9. partial' \in [Tasks -> Stage]
    <2>1. CASE UNCHANGED partial
      BY <1>1, <2>1 DEF ExecOK
    <2>2. CASE \E image \in {Part(t), Out(t)} : PartialArrives(t, image)
      <3>1. \E x \in Stage : partial' = [partial EXCEPT ![t] = x]
        BY <1>2, <2>2 DEF PartialArrives, Stage
      <3> QED
        BY <1>1, <3>1 DEF ExecOK
    <2>3. CASE PartialStored(t)
      <3>1. partial' = [partial EXCEPT ![t] = [partial[t] EXCEPT !.pc = "record"]]
        BY <1>1, <2>3 DEF PartialStored, ExecOK
      <3>2. partial[t] \in Stage
        BY <1>1 DEF ExecOK
      <3>3. [partial[t] EXCEPT !.pc = "record"] \in Stage
        BY <3>2 DEF Stage
      <3> QED
        BY <1>1, <3>1, <3>3 DEF ExecOK
    <2>4. CASE PartialRecorded(t)
      <3>1. [NoPartial EXCEPT !.pc = "over"] \in Stage
        BY DEF NoPartial, Stage, Images
      <3> QED
        BY <1>1, <2>4, <3>1 DEF PartialRecorded, ExecOK
    <2> QED
      BY <2>1, <2>2, <2>3, <2>4
         DEF Executing, Execute, ReadInputs, Enqueued, Answered, StoreOutputs, DiscardOutputs, Settle,
             WatchdogFires, Fails, Recovering, Recover, RecoverLost, RecoverFails, RecoverAnswered,
             RecoverStores, RecoverDiscards, RecoverSettles
  <1>10. QED
    BY <1>1, <1>4, <1>5, <1>6, <1>7, <1>8, <1>9, NextParts DEF PageOK, ExecOK, RemovalOK, StartOK

LEMMA CleanUpTypes ==
    ASSUME TypeOK, NEW image \in Images, CleanUp(image)
    PROVE  TypeOK'
  <1>1. ListOK /\ PageOK /\ ExecOK /\ RemovalOK /\ StartOK /\ reloads \in 0..MaxReloads
    BY TypeParts
  <1>2. /\ images' \subseteq images /\ cleanup' \subseteq cleanup
        /\ UNCHANGED <<tasks, rows, exec, watchdog, partial, recovery, crossed, attached, submit,
                       removal, start, reloads>>
    BY DEF CleanUp, Elsewhere
  <1>3. ExecOK' /\ PageOK' /\ ListOK' /\ RemovalOK' /\ StartOK'
    BY <1>1, <1>2 DEF ExecOK, PageOK, ListOK, RemovalOK, StartOK
  <1>4. QED
    BY <1>1, <1>2, <1>3, NextParts

LEMMA RemovingTypes ==
    ASSUME TypeOK, Removing \/ ClearRows \/ \E dead \in SUBSET Tasks : RemoveStart(dead)
    PROVE  TypeOK'
  <1>1. ListOK /\ PageOK /\ ExecOK /\ RemovalOK /\ StartOK /\ reloads \in 0..MaxReloads
    BY TypeParts
  <1>2. UNCHANGED <<submit, async, start, reloads>>
    BY DEF Removing, RemoveScrub, RemoveRow, RemoveFromList, RemoveUnused, RemoveImage,
           ClearImages, ClearList, ImportList, ClearRows, RemoveStart
  <1>3. PageOK'
    BY <1>1 DEF Removing, RemoveScrub, RemoveRow, RemoveFromList, RemoveUnused, RemoveImage,
           ClearImages, ClearList, ImportList, ClearRows, RemoveStart, PageOK
  <1>4. ListOK'
    <2> USE <1>1, NewTypes DEF ListOK, Records
    <2>0. removal.snapshot \in Records
      BY DEF RemovalOK
    <2>1. CASE \E t \in Tasks : RemoveScrub(t) \/ RemoveRow(t)
      BY <2>0, <2>1 DEF RemoveScrub, RemoveRow
    <2>2. CASE RemoveFromList \/ ClearRows \/ ClearList \/ ImportList
      BY <2>0, <2>2 DEF RemoveFromList, ClearRows, ClearList, ImportList
    <2>3. CASE RemoveUnused \/ RemoveImage \/ ClearImages \/ \E dead \in SUBSET Tasks : RemoveStart(dead)
      BY <2>3 DEF RemoveUnused, RemoveImage, ClearImages, RemoveStart
    <2>4. QED
      BY <2>1, <2>2, <2>3 DEF Removing
  <1>5. RemovalOK'
    <2>1. ASSUME NEW dead \in SUBSET Tasks, RemoveStart(dead)
          PROVE  RemovalOK'
      <3>1. UNION {ImagesOf(tasks[t]) : t \in dead} \subseteq Images
        <4>1. \A t \in dead : ImagesOf(tasks[t]) \subseteq Images
          BY <1>1, RecordTypes DEF ListOK, Records
        <4>2. QED
          BY <4>1
      <3>2. [t \in Tasks |-> IF t \in dead THEN NoTask ELSE tasks[t]] \in [Tasks -> TaskRecord]
        BY <1>1, NewTypes DEF ListOK, Records
      <3>3. attached \in BOOLEAN
        BY <1>1 DEF PageOK
      <3>4. QED
        BY <2>1, <3>1, <3>2, <3>3 DEF RemoveStart, RemovalOK
    <2>2. IdleRemoval \in [pc: {"idle"}, dead: SUBSET Tasks, snapshot: [Tasks -> TaskRecord],
                           attached: BOOLEAN, images: SUBSET Images]
      BY NewTypes DEF IdleRemoval, Records
    <2>3. CASE ClearRows \/ ClearImages \/ ClearList \/ ImportList
      BY <1>1, <2>2, <2>3 DEF ClearRows, ClearImages, ClearList, ImportList, RemovalOK
    <2>4. CASE RemoveFromList \/ \E t \in Tasks : RemoveScrub(t) \/ RemoveRow(t)
      BY <1>1, <2>4 DEF RemoveFromList, RemoveScrub, RemoveRow, RemovalOK
    <2>5. CASE RemoveUnused
      BY <1>1, <2>5 DEF RemoveUnused, RemovalOK
    <2>7. CASE RemoveImage
      BY <1>1, <2>2, <2>7 DEF RemoveImage, RemovalOK
    <2>6. QED
      BY <2>1, <2>3, <2>4, <2>5, <2>7 DEF Removing
  <1>6. QED
    BY <1>1, <1>2, <1>3, <1>4, <1>5, NextParts DEF PageOK, ExecOK, StartOK, async

\* The task of a backup.
Copy(t, kind, input, status) ==
    [NewTask(kind, input) EXCEPT !.status = status,
         !.outs = IF status = "done" THEN {Out(t)} ELSE {}]

LEMMA ImportTypes ==
    ASSUME TypeOK, NEW t \in Tasks, NEW kind \in Kinds, NEW input \in BOOLEAN,
           NEW status \in Imports, ImportData(t, kind, input, status)
    PROVE  TypeOK'
  <1> DEFINE r == Copy(t, kind, input, status)
  <1>1. ListOK /\ PageOK /\ ExecOK /\ RemovalOK /\ StartOK /\ reloads \in 0..MaxReloads
    BY TypeParts
  <1>2. Out(t) \in Images /\ kind \in Kind /\ status \in {"running", "done", "error"}
    BY WebTasksAssumption DEF Images
  <1>3. r \in TaskRecord
    BY <1>2 DEF NewTask, TaskRecord, Copy
  <1>4. ImagesOf(r) \subseteq Images
    BY <1>3, RecordTypes
  <1>5. /\ images' = images \cup ImagesOf(r)
        /\ rows' = [rows EXCEPT ![t] = r] /\ tasks' = tasks
        /\ removal' = [IdleRemoval EXCEPT !.pc = "import", !.snapshot = rows']
        /\ exec' = [exec EXCEPT ![t] = "gone"]
        /\ UNCHANGED <<attached, submit, watchdog, partial, recovery, cleanup, crossed, start,
                       reloads>>
    BY DEF ImportData, Copy
  <1> HIDE DEF r
  <1>6. ListOK' /\ PageOK' /\ ExecOK'
    BY <1>1, <1>3, <1>4, <1>5 DEF ListOK, PageOK, ExecOK, ExecSteps, Records
  <1>7. RemovalOK'
    BY <1>5, <1>6 DEF IdleRemoval, RemovalOK, ListOK, Records
  <1>8. QED
    BY <1>1, <1>5, <1>6, <1>7, NextParts DEF StartOK

LEMMA StartTypes ==
    ASSUME TypeOK, Starting \/ Reload
    PROVE  TypeOK'
  <1>1. ListOK /\ PageOK /\ ExecOK /\ RemovalOK /\ StartOK /\ reloads \in 0..MaxReloads
    BY TypeParts
  <1>2. /\ Started \in [pc: {"ready"}, snapshot: Records, todo: SUBSET Images]
        /\ IdleRemoval \in [pc: {"idle"}, dead: SUBSET Tasks, snapshot: Records,
                            attached: BOOLEAN, images: SUBSET Images]
        /\ NoPartial \in Stage
    BY NewTypes DEF Started, IdleRemoval, NoPartial, Stage, Images
  <1>3. CASE Reload
    <2>1. ListOK' /\ PageOK' /\ RemovalOK' /\ ExecOK'
      BY <1>1, <1>2, <1>3, NewTypes DEF Reload, ListOK, PageOK, RemovalOK, ExecOK, ExecSteps, Records
    <2>2. StartOK'
      BY <1>2, <1>3 DEF Reload, StartOK, Records
    <2>3. reloads' \in 0..MaxReloads
      BY <1>1, <1>3, WebTasksAssumption DEF Reload
    <2>4. QED
      BY <2>1, <2>2, <2>3, NextParts
  <1>4. CASE StartRead
    BY <1>1, <1>4, NextParts DEF StartRead, ListOK, PageOK, ExecOK, RemovalOK, StartOK, async, Records
  <1>5. CASE StartMark
    <2> DEFINE marked == Mark(start.snapshot)
    <2>1. start.snapshot \in Records /\ \A t \in Tasks : start.snapshot[t] \in TaskRecord
      BY <1>1 DEF StartOK, Records
    <2>2. marked \in Records
      BY <2>1, RecordTypes DEF Mark, Records
    <2>3. ListOK'
      BY <1>1, <1>5, <2>2 DEF StartMark, ListOK, Records
    <2> HIDE DEF marked
    <2>4. start' = [start EXCEPT !.pc = "list", !.snapshot = marked]
      BY <1>5 DEF StartMark, marked
    <2>5. StartOK'
      BY <1>1, <2>2, <2>4 DEF StartOK, Records
    <2>6. QED
      BY <1>1, <1>5, <2>3, <2>5, NextParts DEF StartMark, PageOK, ExecOK, RemovalOK, async
  <1>6. CASE StartList
    <2>1. start.snapshot \in Records
      BY <1>1 DEF StartOK, Records
    <2>2. Referenced(start.snapshot, attached) \subseteq Images
      BY <1>1, <2>1, ReferencedTypes DEF PageOK
    <2>3. ListOK' /\ StartOK'
      BY <1>1, <1>6, <2>1, <2>2 DEF StartList, ListOK, StartOK
    <2>4. recovery' \in [Tasks -> {"idle", "timer", "ask", "store", "settle", "discard"}]
      BY <1>1, <1>6 DEF StartList, ExecOK
    <2>5. QED
      BY <1>1, <1>6, <2>3, <2>4, NextParts DEF StartList, PageOK, ExecOK, RemovalOK
  <1>7. CASE StartKeys
    <2>1. StartOK'
      BY <1>1, <1>7 DEF StartKeys, StartOK, PageOK
    <2>2. QED
      BY <1>1, <1>7, <2>1, NextParts DEF StartKeys, ListOK, PageOK, ExecOK, RemovalOK, async
  <1>8. CASE StartSweep
    <2>1. PageOK'
      BY <1>1, <1>8 DEF StartSweep, PageOK
    <2>2. StartOK'
      BY <1>1, <1>2, <1>8 DEF StartSweep, StartOK, Records
    <2>3. QED
      BY <1>1, <1>8, <2>1, <2>2, NextParts DEF StartSweep, ListOK, ExecOK, RemovalOK, async
  <1>9. QED
    BY <1>3, <1>4, <1>5, <1>6, <1>7, <1>8 DEF Starting

LEMMA NextType == TypeOK /\ [Next]_vars => TypeOK'
  <1> SUFFICES ASSUME TypeOK, [Next]_vars PROVE TypeOK'
    OBVIOUS
  <1>1. CASE User
    BY <1>1, ComposerTypes, RemovingTypes, ImportTypes, StartTypes DEF User
  <1>2. CASE Removing \/ Starting
    BY <1>2, RemovingTypes, StartTypes
  <1>3. CASE \E t \in Tasks : Executing(t) \/ Recovering(t)
    BY <1>3, ExecutingTypes
  <1>4. CASE \E image \in Images : CleanUp(image)
    BY <1>4, CleanUpTypes
  <1>5. CASE UNCHANGED vars
    BY <1>5 DEF vars, async, TypeOK
  <1>6. QED
    BY <1>1, <1>2, <1>3, <1>4, <1>5 DEF Next

\* The tasks, their rows and every step of the functions that share them keep
\* their types, whatever the user does and whenever the page is reloaded.
THEOREM TasksType == Spec => []TypeOK
BY InitType, NextType, PTL DEF Spec

-----------------------------------------------------------------------------
(***************************************************************************)
(* The rows, the list and the images.  Orderly restrains the user alone:   *)
(* nothing is begun while a removal, a clearing, an import or a start-up   *)
(* is between two steps, but the executions, the recoveries and the        *)
(* deletions of unused images go on at each of them.  Those that change a  *)
(* task at a wrong time put it in crossed, and nothing but the types and   *)
(* the ownership of its images is claimed of it from then on.              *)
(***************************************************************************)
Acting == {"submitted", "inputs", "call", "store", "settle", "discard"}

\* One of submitting, removing and starting up at a time.
OneAtATime ==
    /\ ~Quiet => submit = "idle"
    /\ start.pc # "ready" => removal.pc = "idle"
    /\ removal.pc = "idle" => removal = IdleRemoval
    /\ submit = "input" => In \in images

\* The outputs and partial images of a task are its own.
Own(r, t) ==
    /\ r.outs \subseteq {Out(t)} /\ r.parts \subseteq {Part(t), Out(t)}
    /\ r.status = "none" => r = NoTask
    /\ r.status = "done" => r.outs = {Out(t)} /\ ~r.recoverable

\* Nothing is listed, and nothing to be deleted, before start-up lists the rows.
StartInv ==
    /\ start.pc \in {"read", "mark", "list"} => tasks = NoTasks /\ cleanup = {}
    /\ start.pc \in {"mark", "list"} => start.snapshot = rows

\* What holds of every task, of a crossed one too.
TaskInv(t) ==
    /\ Own(tasks[t], t) /\ Own(rows[t], t) /\ Own(removal.snapshot[t], t)
    /\ exec[t] = "idle" =>
         /\ tasks[t] = NoTask /\ rows[t] = NoTask /\ removal.snapshot[t] = NoTask
         /\ partial[t].pc = "none" /\ recovery[t] = "idle"
         /\ Out(t) \notin cleanup /\ Part(t) \notin cleanup
    /\ recovery[t] # "idle" => exec[t] = "gone"
    /\ partial[t].pc \in {"store", "record"} => partial[t].image \in {Part(t), Out(t)}
    /\ start.pc # "ready" => exec[t] \in {"idle", "gone"} /\ partial[t].pc = "none"
    /\ start.pc \in {"read", "mark", "list"} => recovery[t] = "idle"

CleanInv == \A image \in cleanup : \E t \in Tasks : image \in {Out(t), Part(t)}

\* The task of a backup, whose row is written and which is not listed yet.
Imported(t) ==
    /\ tasks[t] = NoTask /\ exec[t] = "gone" /\ partial[t].pc = "none"
    /\ recovery[t] = "idle" /\ Out(t) \notin cleanup

\* How far the row is behind the list, or the list behind the row.
RowOK(t) ==
    /\ \/ start.pc \in {"keys", "sweep"}
       \/ start.pc = "ready" /\ removal.pc \in {"idle", "scrub", "images"}
       => rows[t] = tasks[t]
    /\ removal.pc = "scrub" =>
          removal.snapshot[t] = IF t \in removal.dead THEN NoTask ELSE tasks[t]
    /\ removal.pc = "rows" =>
          /\ IF t \in removal.dead THEN tasks[t] = NoTask ELSE rows[t] = tasks[t]
          /\ Exists(tasks, t) => /\ removal.snapshot[t].input = tasks[t].input
                                 /\ Exists(removal.snapshot, t)
    /\ removal.pc = "import" =>
          removal.snapshot[t] = rows[t] /\ (tasks[t] = rows[t] \/ Imported(t))
    /\ removal.pc \in {"clear images", "clear list"} => rows[t] = NoTask

\* What is referred to is stored, and nobody is about to delete it.
ImagesOK(t) ==
    /\ removal.pc # "clear list" => ImagesOf(tasks[t]) \subseteq images
    /\ ImagesOf(rows[t]) \subseteq images
    /\ ImagesOf(tasks[t]) \cap cleanup = {} /\ ImagesOf(rows[t]) \cap cleanup = {}
    /\ \/ removal.pc = "scrub" /\ t \notin removal.dead
       \/ removal.pc \in {"rows", "images"} /\ Exists(tasks, t)
       => Out(t) \notin removal.images /\ Part(t) \notin removal.images
    /\ removal.pc = "images" /\ In \in removal.images => ~tasks[t].input
    /\ start.pc = "keys"  => ImagesOf(tasks[t]) \subseteq start.todo
    /\ start.pc = "sweep" => ImagesOf(tasks[t]) \cap start.todo = {}

\* Where the functions of a task can be, and what they leave to be deleted.
StageOK(t) ==
    /\ exec[t] \in Acting \/ recovery[t] # "idle" => tasks[t].status # "done"
    /\ recovery[t] = "settle" => start.pc = "ready"
    /\ Exists(tasks, t) /\ Out(t) \in cleanup => exec[t] = "discard" \/ recovery[t] = "discard"
    /\ exec[t] # "gone" /\ partial[t].pc = "none" => tasks[t].parts = {} /\ Part(t) \notin cleanup
    /\ partial[t].pc \in {"store", "record"} =>
         /\ tasks[t].parts = {}
         /\ Exists(tasks, t) => partial[t].image \notin cleanup

\* What is about to be referred to is stored.
StoredOK(t) ==
    removal.pc # "clear list" =>
      /\ exec[t] = "settle" /\ tasks[t].status = "running" => Out(t) \in images
      /\ recovery[t] = "settle" /\ Exists(tasks, t) => Out(t) \in images
      /\ partial[t].pc = "record" /\ tasks[t].status \in {"running", "error"} =>
            partial[t].image \in images

Kept(t) == RowOK(t) /\ ImagesOK(t) /\ StageOK(t) /\ StoredOK(t)

PageInv ==
    /\ OneAtATime /\ StartInv /\ CleanInv
    /\ \A t \in Tasks : TaskInv(t)
    /\ \A t \in Tasks \ crossed : Kept(t)

-----------------------------------------------------------------------------
LEMMA Names ==
    \A t, u : /\ Out(t) # Part(u) /\ Out(t) # In /\ Part(t) # In
              /\ (Out(t) = Out(u) => t = u) /\ (Part(t) = Part(u) => t = u)
BY DEF Out, Part, In

LEMMA None ==
    /\ ImagesOf(NoTask) = {} /\ NoTask.status = "none" /\ NoTask.input = FALSE
    /\ NoTask.parts = {} /\ \A t : Own(NoTask, t)
    /\ \A t \in Tasks : NoTasks[t] = NoTask
BY DEF ImagesOf, NoTask, NewTask, NoTasks, Own

LEMMA HasImage ==
    ASSUME NEW r \in TaskRecord, NEW i
    PROVE  i \in ImagesOf(r) <=> (r.input /\ i = In) \/ i \in r.outs \/ i \in r.parts
  <1>1. r.input \in BOOLEAN
    BY DEF TaskRecord
  <1>2. QED
    BY <1>1 DEF ImagesOf

LEMMA OwnImages ==
    ASSUME NEW r \in TaskRecord, NEW t, Own(r, t)
    PROVE  ImagesOf(r) \subseteq {In, Out(t), Part(t)}
  <1>1. ASSUME NEW i \in ImagesOf(r) PROVE i \in {In, Out(t), Part(t)}
    BY <1>1, HasImage DEF Own
  <1>2. QED
    BY <1>1

LEMMA TypedTask ==
    ASSUME TypeOK, NEW t \in Tasks
    PROVE  /\ tasks[t] \in TaskRecord /\ rows[t] \in TaskRecord
           /\ removal.snapshot[t] \in TaskRecord /\ start.snapshot[t] \in TaskRecord
           /\ exec[t] \in ExecSteps
           /\ partial[t] \in Stage
           /\ recovery[t] \in {"idle", "timer", "ask", "store", "settle", "discard"}
BY DEF TypeOK, ExecSteps

-----------------------------------------------------------------------------
(* A step that is about other tasks. *)

\* What a step may do that leaves the functions, the record and the row of u.
LeavesAlone(u) ==
    /\ tasks'[u] = tasks[u] /\ rows'[u] = rows[u] /\ exec'[u] = exec[u]
    /\ partial'[u] = partial[u] /\ recovery'[u] = recovery[u]
    /\ images \subseteq images'
    /\ \A i \in cleanup' \ cleanup : i \notin {In, Out(u), Part(u)}
    /\ UNCHANGED <<removal, start>>

LEMMA AloneTask ==
    ASSUME NEW u \in Tasks, TaskInv(u), LeavesAlone(u)
    PROVE  TaskInv(u)'
BY DEF TaskInv, Own, LeavesAlone

LEMMA AloneKept ==
    ASSUME TypeOK, NEW u \in Tasks, TaskInv(u), Kept(u), LeavesAlone(u)
    PROVE  Kept(u)'
  <1>1. ImagesOf(tasks[u]) \subseteq {In, Out(u), Part(u)} /\ ImagesOf(rows[u]) \subseteq {In, Out(u), Part(u)}
    BY TypedTask, OwnImages DEF TaskInv
  <1>2. RowOK(u)'
    BY DEF Kept, RowOK, Imported, Exists, LeavesAlone
  <1>3. ImagesOK(u)'
    <2>1. /\ ImagesOf(tasks[u]) \cap cleanup' = {} /\ ImagesOf(rows[u]) \cap cleanup' = {}
      BY <1>1 DEF Kept, ImagesOK, LeavesAlone
    <2>2. /\ removal.pc # "clear list" => ImagesOf(tasks[u]) \subseteq images'
          /\ ImagesOf(rows[u]) \subseteq images'
      BY DEF Kept, ImagesOK, LeavesAlone
    <2>3. QED
      BY <2>1, <2>2 DEF Kept, ImagesOK, Exists, LeavesAlone
  <1>4. StageOK(u)'
    BY DEF TaskInv, Kept, StageOK, Exists, LeavesAlone
  <1>5. StoredOK(u)'
    BY DEF Kept, StoredOK, Exists, LeavesAlone
  <1>6. QED
    BY <1>2, <1>3, <1>4, <1>5 DEF Kept

-----------------------------------------------------------------------------
(* The functions of a task: executeTask, the partial image, the recovery.  *)

\* UpdateTask writes both records or none, and crosses a task whose list is
\* about to be replaced.
LEMMA Updated ==
    ASSUME TypeOK, NEW t \in Tasks, NEW r, UpdateTask(t, r)
    PROVE  /\ \A u \in Tasks \ {t} : tasks'[u] = tasks[u] /\ rows'[u] = rows[u]
           /\ crossed \subseteq crossed' /\ crossed' \subseteq crossed \cup {t}
           /\ IF Exists(tasks, t)
              THEN tasks'[t] = r /\ rows'[t] = r /\ (t \notin crossed' => ~Outdated)
              ELSE UNCHANGED <<tasks, rows>>
BY DEF UpdateTask, TypeOK, Cross

\* Before start-up lists the tasks, their functions do nothing but let a
\* watchdog expire.
LEMMA Early ==
    ASSUME TypeOK, PageInv, NEW t \in Tasks, Executing(t) \/ Recovering(t),
           start.pc \in {"read", "mark", "list"}
    PROVE  UNCHANGED <<tasks, rows, images, exec, partial, recovery, cleanup, crossed>>
  <1>1. /\ exec[t] \in {"idle", "gone"} /\ partial[t].pc = "none" /\ recovery[t] = "idle"
        /\ tasks[t].status = "none"
    BY None DEF PageInv, TaskInv, StartInv
  <1>2. WatchdogFires(t)
    BY <1>1 DEF Executing, Execute, ReadInputs, Enqueued, Answered, StoreOutputs, DiscardOutputs,
           Settle, Fails, PartialArrives, PartialStored, PartialRecorded, Recovering, Recover,
           RecoverLost, RecoverFails, RecoveryBreaks, RecoverAnswered, RecoverStores,
           RecoverDiscards, RecoverSettles
  <1>3. QED
    BY <1>1, <1>2 DEF WatchdogFires

\* What a step of the functions of t may touch.
FunctionFrame(t) ==
    /\ \A u \in Tasks \ {t} : LeavesAlone(u)
    /\ images \subseteq images' /\ cleanup \subseteq cleanup'
    /\ cleanup' \subseteq cleanup \cup {Out(t), Part(t)}
    /\ crossed \subseteq crossed' /\ crossed' \subseteq crossed \cup {t}
    /\ UNCHANGED <<attached, submit, removal, start>>

LEMMA FunctionTouches ==
    ASSUME TypeOK, NEW t \in Tasks, TaskInv(t), Executing(t) \/ Recovering(t)
    PROVE  FunctionFrame(t)
  <1>1. UNCHANGED <<attached, submit, removal, start>>
    BY DEF Executing, Execute, ReadInputs, Enqueued, Answered, StoreOutputs, DiscardOutputs, Settle,
           WatchdogFires, Fails, PartialArrives, PartialStored, PartialRecorded, Recovering, Recover,
           RecoverLost, RecoverFails, RecoverAnswered, RecoverStores, RecoverDiscards,
           RecoverSettles, Elsewhere
  <1>2. images \subseteq images'
    BY DEF Executing, Execute, ReadInputs, Enqueued, Answered, StoreOutputs, DiscardOutputs, Settle,
           WatchdogFires, Fails, PartialArrives, PartialStored, PartialRecorded, Recovering, Recover,
           RecoverLost, RecoverFails, RecoverAnswered, RecoverStores, RecoverDiscards,
           RecoverSettles
  <1>3. cleanup \subseteq cleanup' /\ cleanup' \subseteq cleanup \cup {Out(t), Part(t)}
    <2>1. /\ tasks[t].parts \subseteq {Out(t), Part(t)}
          /\ partial[t].pc = "record" => partial[t].image \in {Out(t), Part(t)}
      BY DEF TaskInv, Own
    <2>2. QED
      BY <2>1
         DEF Executing, Execute, ReadInputs, Enqueued, Answered, StoreOutputs, DiscardOutputs, Settle,
             WatchdogFires, Fails, PartialArrives, PartialStored, PartialRecorded, Recovering,
             Recover, RecoverLost, RecoverFails, RecoverAnswered, RecoverStores, RecoverDiscards,
             RecoverSettles, Discards, Unused
  <1>4. \/ UNCHANGED <<tasks, rows>> /\ crossed' \in {crossed, crossed \cup {t}}
        \/ \E r : UpdateTask(t, r)
    BY DEF Executing, Execute, ReadInputs, Enqueued, Answered, StoreOutputs, DiscardOutputs, Settle,
           WatchdogFires, Fails, PartialArrives, PartialStored, PartialRecorded, Recovering, Recover,
           RecoverLost, RecoverFails, RecoverAnswered, RecoverStores, RecoverDiscards,
           RecoverSettles, Discards, Cross
  <1>5. /\ crossed \subseteq crossed' /\ crossed' \subseteq crossed \cup {t}
        /\ \A u \in Tasks \ {t} : tasks'[u] = tasks[u] /\ rows'[u] = rows[u]
    BY <1>4, Updated
  <1>6. \A u \in Tasks \ {t} : exec'[u] = exec[u] /\ recovery'[u] = recovery[u]
    BY DEF Executing, Execute, ReadInputs, Enqueued, Answered, StoreOutputs, DiscardOutputs, Settle,
           WatchdogFires, Fails, PartialArrives, PartialStored, PartialRecorded, Recovering, Recover,
           RecoverLost, RecoverFails, RecoverAnswered, RecoverStores, RecoverDiscards,
           RecoverSettles, Step, Recovery, TypeOK
  <1>7. \A u \in Tasks \ {t} : partial'[u] = partial[u]
    BY DEF Executing, Execute, ReadInputs, Enqueued, Answered, StoreOutputs, DiscardOutputs, Settle,
           WatchdogFires, Fails, PartialArrives, PartialStored, PartialRecorded, Recovering, Recover,
           RecoverLost, RecoverFails, RecoverAnswered, RecoverStores, RecoverDiscards,
           RecoverSettles, TypeOK
  <1>8. \A u \in Tasks \ {t} : \A i \in cleanup' \ cleanup : i \notin {In, Out(u), Part(u)}
    BY <1>3, Names
  <1>9. QED
    BY <1>1, <1>2, <1>3, <1>5, <1>6, <1>7, <1>8 DEF FunctionFrame, LeavesAlone

\* What the records of t become: nothing else, or both the same.
Recorded(t) ==
    \/ tasks'[t] = tasks[t] /\ rows'[t] = rows[t]
    \/ /\ Exists(tasks, t) /\ Exists(tasks', t) /\ rows'[t] = tasks'[t]
       /\ tasks'[t].input = tasks[t].input /\ (t \notin crossed' => ~Outdated)

\* The row of t stays as far behind as it was, or is written with the list.
LEMMA RecordedRow ==
    ASSUME PageInv, NEW t \in Tasks, t \notin crossed', crossed \subseteq crossed', Recorded(t),
           UNCHANGED <<removal, start>>, Imported(t) => Imported(t)'
    PROVE  RowOK(t)'
  <1>1. RowOK(t) /\ StartInv
    BY DEF PageInv, Kept
  <1>2. CASE tasks'[t] = tasks[t] /\ rows'[t] = rows[t]
    BY <1>1, <1>2 DEF RowOK, Exists
  <1>3. CASE /\ Exists(tasks, t) /\ Exists(tasks', t) /\ rows'[t] = tasks'[t]
             /\ tasks'[t].input = tasks[t].input /\ ~Outdated
    <2>1. removal.pc \notin {"scrub", "import", "clear images", "clear list"}
      BY <1>3 DEF Outdated
    <2>2. removal.pc = "rows" => t \notin removal.dead
      BY <1>1, <1>3, None DEF RowOK, Exists
    <2>3. QED
      BY <1>1, <1>3, <2>1, <2>2 DEF RowOK
  <1>4. QED
    BY <1>2, <1>3 DEF Recorded

\* The task whose row is imported waits for the list: nothing runs for it.
LEMMA ImportedWaits ==
    ASSUME TypeOK, NEW t \in Tasks, Imported(t), Executing(t) \/ Recovering(t)
    PROVE  Imported(t)'
  <1>1. tasks[t].status = "none"
    BY None DEF Imported
  <1>2. WatchdogFires(t)
    BY DEF Imported, Executing, Execute, ReadInputs, Enqueued, Answered, StoreOutputs, DiscardOutputs,
           Settle, Fails, PartialArrives, PartialStored, PartialRecorded, Recovering, Recover,
           RecoverLost, RecoverFails, RecoveryBreaks, RecoverAnswered, RecoverStores,
           RecoverDiscards, RecoverSettles
  <1>3. QED
    BY <1>1, <1>2 DEF WatchdogFires, Imported

\* A task that was never there has no function under way.
LEMMA IdleStays ==
    ASSUME TypeOK, NEW t \in Tasks, TaskInv(t), exec[t] = "idle", Executing(t) \/ Recovering(t)
    PROVE  TaskInv(t)'
  <1>1. /\ tasks[t] = NoTask /\ partial[t].pc = "none" /\ recovery[t] = "idle"
        /\ tasks[t].status = "none"
    BY None DEF TaskInv
  <1>2. WatchdogFires(t)
    BY <1>1 DEF Executing, Execute, ReadInputs, Enqueued, Answered, StoreOutputs, DiscardOutputs,
           Settle, Fails, PartialArrives, PartialStored, PartialRecorded, Recovering, Recover,
           RecoverLost, RecoverFails, RecoveryBreaks, RecoverAnswered, RecoverStores,
           RecoverDiscards, RecoverSettles
  <1>3. UNCHANGED <<tasks, rows, exec, partial, recovery, cleanup, removal, start>>
    BY <1>1, <1>2 DEF WatchdogFires, Elsewhere
  <1>4. QED
    BY <1>3 DEF TaskInv, Own

-----------------------------------------------------------------------------
(* Steps that restate a task: its record keeps its images.                 *)

Restates(t) ==
    \/ Execute(t) \/ ReadInputs(t) \/ Enqueued(t) \/ Answered(t)
    \/ StoreOutputs(t) \/ WatchdogFires(t) \/ \E lost \in BOOLEAN : Fails(t, lost)
    \/ \E image \in {Part(t), Out(t)} : PartialArrives(t, image)
    \/ PartialStored(t)
    \/ Recover(t) \/ RecoverLost(t) \/ RecoverFails(t)
    \/ RecoverAnswered(t) \/ RecoverStores(t)

\* The records of t are left, or it is not finished and keeps its status or fails.
Restated(t) ==
    \/ tasks'[t] = tasks[t] /\ rows'[t] = rows[t]
    \/ /\ tasks[t].status # "none" /\ rows'[t] = tasks'[t]
       /\ exec[t] \in Acting \/ recovery[t] # "idle" \/ tasks[t].status = "running"
       /\ \/ tasks'[t].status = tasks[t].status /\ ~tasks'[t].recoverable
          \/ tasks'[t].status = "error"
       /\ tasks'[t].input = tasks[t].input /\ tasks'[t].outs = tasks[t].outs
       /\ tasks'[t].parts = tasks[t].parts
       /\ t \notin crossed' => ~Outdated

LEMMA RestatesRecord ==
    ASSUME TypeOK, NEW t \in Tasks, Restates(t)
    PROVE  Restated(t)
  <1>1. tasks[t] \in TaskRecord
    BY TypedTask
  <1> DEFINE E == [tasks[t] EXCEPT !.request = TRUE, !.recoverable = FALSE]
  <1>2. \/ UNCHANGED <<tasks, rows>>
        \/ /\ exec[t] \in Acting \/ recovery[t] # "idle" \/ tasks[t].status = "running"
           /\ UpdateTask(t, Failed(tasks[t])) \/ UpdateTask(t, Lost(tasks[t])) \/ UpdateTask(t, E)
    BY DEF Restates, Execute, ReadInputs, Enqueued, Answered, StoreOutputs, WatchdogFires, Fails,
           PartialArrives, PartialStored, Recover, RecoverLost, RecoverFails, RecoveryBreaks,
           RecoverAnswered, RecoverStores, Acting
  <1>3. /\ \A r \in {Failed(tasks[t]), Lost(tasks[t]), E} :
             /\ r.input = tasks[t].input /\ r.outs = tasks[t].outs /\ r.parts = tasks[t].parts
             /\ (r.status = tasks[t].status /\ ~r.recoverable) \/ r.status = "error"
    BY <1>1 DEF Failed, Lost, TaskRecord
  <1> HIDE DEF E
  <1>4. QED
    <2>1. CASE UNCHANGED <<tasks, rows>>
      BY <2>1 DEF Restated
    <2>2. ASSUME NEW r \in {Failed(tasks[t]), Lost(tasks[t]), E}, UpdateTask(t, r),
                 exec[t] \in Acting \/ recovery[t] # "idle" \/ tasks[t].status = "running"
          PROVE  Restated(t)
      BY <1>3, <2>2, Updated DEF Restated, Exists
    <2>3. QED
      BY <1>2, <2>1, <2>2

\* Where the functions of t go.
Moved(t) ==
    /\ cleanup' = cleanup
    /\ \/ exec'[t] = exec[t]
       \/ exec[t] \in Acting /\ exec'[t] \in Acting \cup {"gone"}
    /\ exec'[t] = "settle" => exec[t] = "settle" \/ Out(t) \in images'
    /\ exec[t] = "discard" => exec'[t] = "discard" \/ Out(t) \notin cleanup
    /\ \/ recovery'[t] = recovery[t] \/ recovery[t] # "idle"
       \/ exec[t] \in Acting /\ exec'[t] = "gone" /\ recovery'[t] = "timer"
    /\ recovery'[t] = "settle" =>
         \/ recovery[t] = "settle"
         \/ Out(t) \in images' /\ (start.pc = "ready" \/ t \in crossed')
    /\ recovery[t] = "discard" => recovery'[t] = "discard" \/ Out(t) \notin cleanup
    /\ \/ partial'[t] = partial[t]
       \/ /\ partial[t].pc = "none" /\ exec[t] = "call" /\ exec'[t] = "call"
          /\ partial'[t].pc = "store" /\ partial'[t].image \in {Part(t), Out(t)}
          /\ tasks'[t] = tasks[t]
       \/ /\ partial[t].pc = "store" /\ partial'[t].pc = "record"
          /\ partial'[t].image = partial[t].image /\ partial[t].image \in images'
          /\ tasks'[t] = tasks[t]

LEMMA RestatesMove ==
    ASSUME TypeOK, NEW t \in Tasks, TaskInv(t), Restates(t)
    PROVE  Moved(t)
  <1>0. exec[t] \in Acting => recovery[t] = "idle"
    BY DEF TaskInv, Acting
  <1>1. /\ partial[t] \in Stage /\ exec \in [Tasks -> ExecSteps]
        /\ recovery \in [Tasks -> {"idle", "timer", "ask", "store", "settle", "discard"}]
        /\ partial \in [Tasks -> Stage]
    BY DEF TypeOK, ExecSteps
  <1>2. cleanup' = cleanup
    BY DEF Restates, Execute, ReadInputs, Enqueued, Answered, StoreOutputs, WatchdogFires, Fails,
           PartialArrives, PartialStored, Recover, RecoverLost, RecoverFails,
           RecoverAnswered, RecoverStores
  <1>3. /\ \/ exec'[t] = exec[t]
           \/ exec[t] \in Acting /\ exec'[t] \in Acting \cup {"gone"}
        /\ exec'[t] = "settle" => exec[t] = "settle" \/ Out(t) \in images'
        /\ exec[t] = "discard" => exec'[t] = "discard" \/ Out(t) \notin cleanup
    BY <1>1 DEF Restates, Execute, ReadInputs, Enqueued, Answered, StoreOutputs, WatchdogFires, Fails,
           PartialArrives, PartialStored, Recover, RecoverLost, RecoverFails,
           RecoverAnswered, RecoverStores, Step, Acting
  <1>4. /\ \/ recovery'[t] = recovery[t] \/ recovery[t] # "idle"
           \/ exec[t] \in Acting /\ exec'[t] = "gone" /\ recovery'[t] = "timer"
        /\ recovery'[t] = "settle" =>
             \/ recovery[t] = "settle"
             \/ Out(t) \in images' /\ (start.pc = "ready" \/ t \in crossed')
        /\ recovery[t] = "discard" => recovery'[t] = "discard" \/ Out(t) \notin cleanup
    <2>1. CASE \/ Execute(t) \/ ReadInputs(t) \/ Enqueued(t) \/ Answered(t) \/ StoreOutputs(t)
               \/ WatchdogFires(t) \/ PartialStored(t)
               \/ \E image \in {Part(t), Out(t)} : PartialArrives(t, image)
      BY <2>1 DEF Execute, ReadInputs, Enqueued, Answered, StoreOutputs, WatchdogFires,
                  PartialArrives, PartialStored
    <2>2. CASE \E lost \in BOOLEAN : Fails(t, lost)
      <3>1. PICK lost \in BOOLEAN : Fails(t, lost)
        BY <2>2
      <3>2. /\ exec[t] \in Acting /\ exec' = [exec EXCEPT ![t] = "gone"]
            /\ exec[t] = "discard" => Out(t) \notin cleanup
        BY <3>1 DEF Fails, Step, Acting
      <3>3. recovery' = recovery \/ recovery' = [recovery EXCEPT ![t] = "timer"]
        BY <3>1 DEF Fails
      <3>4. exec'[t] = "gone" /\ recovery'[t] \in {recovery[t], "timer"}
        BY <1>1, <3>2, <3>3
      <3>5. QED
        BY <1>0, <3>2, <3>4
    <2>3. CASE Recover(t) \/ RecoverLost(t) \/ RecoverFails(t) \/ RecoverAnswered(t)
      BY <1>1, <2>3 DEF Recover, RecoverLost, RecoverFails, RecoveryBreaks, RecoverAnswered, Recovery
    <2>4. CASE RecoverStores(t)
      BY <1>1, <2>4 DEF RecoverStores, Recovery, Cross
    <2>5. QED
      BY <2>1, <2>2, <2>3, <2>4 DEF Restates
  <1>5. \/ partial' = partial
        \/ \E image \in {Part(t), Out(t)} : PartialArrives(t, image)
        \/ PartialStored(t)
    BY DEF Restates, Execute, ReadInputs, Enqueued, Answered, StoreOutputs, WatchdogFires, Fails,
           Recover, RecoverLost, RecoverFails, RecoverAnswered, RecoverStores
  <1>6. \/ partial'[t] = partial[t]
        \/ /\ partial[t].pc = "none" /\ exec[t] = "call" /\ exec'[t] = "call"
           /\ partial'[t].pc = "store" /\ partial'[t].image \in {Part(t), Out(t)}
           /\ tasks'[t] = tasks[t]
        \/ /\ partial[t].pc = "store" /\ partial'[t].pc = "record"
           /\ partial'[t].image = partial[t].image /\ partial[t].image \in images'
           /\ tasks'[t] = tasks[t]
    BY <1>1, <1>5 DEF PartialArrives, PartialStored, Stage
  <1>7. QED
    BY <1>2, <1>3, <1>4, <1>6 DEF Moved

LEMMA RestatedTask ==
    ASSUME NEW t \in Tasks, TaskInv(t), exec[t] # "idle", start.pc \notin {"read", "mark", "list"},
           Restated(t), Moved(t), UNCHANGED <<removal, start>>
    PROVE  TaskInv(t)'
  <1>1. Own(tasks[t], t)' /\ Own(rows[t], t)' /\ Own(removal.snapshot[t], t)'
    BY DEF TaskInv, Restated, Own
  <1>2. exec'[t] # "idle" /\ (exec[t] = "gone" => exec'[t] = "gone")
    BY DEF Moved, Acting
  <1>3. recovery'[t] # "idle" => exec'[t] = "gone"
    BY <1>2 DEF Moved, TaskInv
  <1>4. partial'[t].pc \in {"store", "record"} => partial'[t].image \in {Part(t), Out(t)}
    BY DEF Moved, TaskInv
  <1>5. start.pc # "ready" => exec'[t] \in {"idle", "gone"} /\ partial'[t].pc = "none"
    BY <1>2 DEF Moved, TaskInv
  <1>6. QED
    BY <1>1, <1>2, <1>3, <1>4, <1>5 DEF TaskInv

LEMMA RestatedKept ==
    ASSUME TypeOK, PageInv, NEW t \in Tasks, t \notin crossed', crossed \subseteq crossed',
           TaskInv(t), Kept(t), Restated(t), Moved(t), images \subseteq images',
           UNCHANGED <<removal, start>>, Imported(t) => Imported(t)'
    PROVE  Kept(t)'
  <1>1. RowOK(t)'
    <2>1. Recorded(t)
      BY DEF Restated, Recorded, Exists
    <2>2. QED
      BY <2>1, RecordedRow
  <1>2. /\ ImagesOf(tasks'[t]) = ImagesOf(tasks[t])
        /\ ImagesOf(rows'[t]) \in {ImagesOf(rows[t]), ImagesOf(tasks'[t])}
        /\ ImagesOf(rows'[t]) # ImagesOf(rows[t]) => ~Outdated
        /\ Exists(tasks', t) => Exists(tasks, t)
        /\ tasks'[t].input = tasks[t].input /\ tasks'[t].parts = tasks[t].parts
        /\ tasks'[t].status = "running" => tasks[t].status = "running"
    BY DEF Restated, ImagesOf, Exists
  <1>3. ImagesOK(t)'
    BY <1>2 DEF Kept, ImagesOK, Moved, Outdated
  <1>4. StageOK(t)'
    <2>1. exec'[t] \in Acting => exec[t] \in Acting
      BY DEF Moved, Acting
    <2>2. recovery'[t] # "idle" => recovery[t] # "idle" \/ exec[t] \in Acting
      BY DEF Moved
    <2>3. exec'[t] \in Acting \/ recovery'[t] # "idle" => tasks'[t].status # "done"
      BY <2>1, <2>2 DEF Kept, StageOK, Restated
    <2>4. recovery'[t] = "settle" => start.pc = "ready"
      BY DEF Moved, Kept, StageOK
    <2>5. Exists(tasks', t) /\ Out(t) \in cleanup' => exec'[t] = "discard" \/ recovery'[t] = "discard"
      BY <1>2 DEF Moved, Kept, StageOK
    <2>6. exec'[t] # "gone" /\ partial'[t].pc = "none" => tasks'[t].parts = {} /\ Part(t) \notin cleanup'
      BY <1>2 DEF Moved, Kept, StageOK, Acting
    <2>7. partial'[t].pc \in {"store", "record"} => tasks'[t].parts = {} /\ (Exists(tasks', t) => partial'[t].image \notin cleanup')
      <3>1. CASE partial'[t] = partial[t]
        BY <1>2, <3>1 DEF Moved, Kept, StageOK
      <3>2. CASE partial[t].pc = "none" /\ exec[t] = "call" /\ partial'[t].image \in {Part(t), Out(t)}
        <4>1. recovery[t] = "idle"
          BY <3>2 DEF TaskInv
        <4>2. QED
          BY <1>2, <3>2, <4>1 DEF Moved, Kept, StageOK
      <3>3. CASE partial[t].pc = "store" /\ partial'[t].image = partial[t].image
        BY <1>2, <3>3 DEF Moved, Kept, StageOK
      <3>4. QED
        BY <3>1, <3>2, <3>3 DEF Moved
    <2>8. QED
      BY <2>3, <2>4, <2>5, <2>6, <2>7 DEF StageOK
  <1>5. StoredOK(t)'
    <2> SUFFICES ASSUME removal.pc # "clear list" PROVE StoredOK(t)'
      BY DEF StoredOK
    <2>1. exec'[t] = "settle" /\ tasks'[t].status = "running" => Out(t) \in images'
      BY <1>2 DEF Moved, Kept, StoredOK
    <2>2. recovery'[t] = "settle" /\ Exists(tasks', t) => Out(t) \in images'
      BY <1>2 DEF Moved, Kept, StoredOK
    <2>3. partial'[t].pc = "record" /\ tasks'[t].status \in {"running", "error"} => partial'[t].image \in images'
      <3>1. CASE partial[t].pc = "store" /\ partial'[t].image \in images'
        BY <3>1
      <3>2. CASE partial'[t] = partial[t]
        <4>1. tasks'[t].status \in {"running", "error"} => tasks[t].status \in {"running", "error"}
          <5>1. tasks[t].status \in {"none", "running", "done", "error"}
            BY TypedTask DEF TaskRecord
          <5>2. QED
            BY <5>1 DEF Restated, Kept, StageOK
        <4>2. QED
          BY <3>2, <4>1 DEF Kept, StoredOK
      <3>3. QED
        BY <3>1, <3>2 DEF Moved
    <2>4. QED
      BY <2>1, <2>2, <2>3 DEF StoredOK
  <1>6. QED
    BY <1>1, <1>3, <1>4, <1>5 DEF Kept

-----------------------------------------------------------------------------
(* Steps that settle a task, and steps that give images up.                *)

\* The row is the list's where a function still has something to say of t.
LEMMA RowAgrees ==
    ASSUME TypeOK, PageInv, NEW t \in Tasks, Kept(t), start.pc = "ready", ~Imported(t),
           t \notin removal.dead
    PROVE  rows[t] = tasks[t] \/ rows[t] = NoTask
  <1>1. removal.pc \in {"idle", "scrub", "rows", "images", "clear images", "clear list", "import"}
    BY DEF TypeOK
  <1>2. QED
    BY <1>1 DEF Kept, RowOK

\* Most of TaskInv is about where the functions of t are.
LEMMA StepTask ==
    ASSUME NEW t \in Tasks, TaskInv(t), exec'[t] # "idle", Own(tasks'[t], t), Own(rows'[t], t),
           recovery'[t] # "idle" => exec'[t] = "gone",
           partial'[t].pc \in {"store", "record"} => partial'[t].image \in {Part(t), Out(t)},
           start.pc # "ready" => exec'[t] \in {"idle", "gone"} /\ partial'[t].pc = "none",
           start.pc \in {"read", "mark", "list"} => recovery'[t] = "idle",
           UNCHANGED <<removal, start>>
    PROVE  TaskInv(t)'
BY DEF TaskInv, Own

LEMMA DeliveredIs ==
    ASSUME NEW r \in TaskRecord, NEW t \in Tasks
    PROVE  \A d \in {Delivered(r, t), [Delivered(r, t) EXCEPT !.parts = {}]} :
             /\ d \in TaskRecord
             /\ d.status = "done" /\ d.input = r.input /\ d.outs = {Out(t)} /\ ~d.recoverable
             /\ d.parts \subseteq r.parts
  <1> DEFINE d == Delivered(r, t)
             e == [d EXCEPT !.parts = {}]
  <1>1. d \in TaskRecord /\ e \in TaskRecord
    BY RecordTypes
  <1>2. d.status = "done" /\ d.input = r.input /\ d.outs = {Out(t)} /\ ~d.recoverable /\ d.parts = r.parts
    BY DEF Delivered, TaskRecord
  <1> HIDE DEF d
  <1>3. e.status = d.status /\ e.input = d.input /\ e.outs = d.outs /\ e.recoverable = d.recoverable
        /\ e.parts = {}
    BY <1>1 DEF TaskRecord
  <1>4. QED
    BY <1>1, <1>2, <1>3 DEF d

\* A delivery: what the new record refers to is stored and nobody deletes it.
LEMMA DeliversImages ==
    ASSUME TypeOK, NEW t \in Tasks, Kept(t), Exists(tasks, t), start.pc = "ready", ~Outdated,
           NEW r \in TaskRecord, tasks'[t] = r, rows'[t] = r,
           r.input = tasks[t].input, r.status # "none",
           r.outs \cup r.parts \subseteq images, (r.outs \cup r.parts) \cap cleanup' = {},
           In \in cleanup' => In \in cleanup,
           UNCHANGED <<images, removal, start>>
    PROVE  ImagesOK(t)'
  <1>1. tasks[t] \in TaskRecord /\ removal.pc # "clear list"
    BY TypedTask DEF Outdated
  <1>2. r.input => In \in images /\ In \notin cleanup
    <2>1. r.input => In \in ImagesOf(tasks[t])
      BY <1>1, HasImage
    <2>2. QED
      BY <1>1, <2>1 DEF Kept, ImagesOK
  <1>3. ASSUME NEW i \in ImagesOf(r) PROVE i \in images /\ i \notin cleanup'
    BY <1>2, <1>3, HasImage
  <1>4. QED
    BY <1>1, <1>3 DEF Kept, ImagesOK, Exists, Outdated

LEMMA SettleKeeps ==
    ASSUME TypeOK, PageInv, NEW t \in Tasks, Settle(t), FunctionFrame(t)
    PROVE  TaskInv(t)' /\ (t \notin crossed' => Kept(t)')
  <1>1. TaskInv(t) /\ exec[t] = "settle" /\ exec'[t] = "gone" /\ UNCHANGED <<partial, recovery, images>>
    BY DEF PageInv, Settle, Step, TypeOK
  <1>2. recovery[t] = "idle" /\ start.pc = "ready" /\ tasks[t] \in TaskRecord
    BY <1>1, TypedTask DEF TaskInv
  <1>3. UNCHANGED <<removal, start>> /\ crossed \subseteq crossed'
    BY DEF FunctionFrame
  <1>4. CASE tasks[t].status # "running"
    <2>1. UNCHANGED <<tasks, rows, cleanup, crossed>>
      BY <1>4 DEF Settle
    <2>2. TaskInv(t)'
      BY <1>1, <1>2, <1>3, <2>1, StepTask DEF TaskInv
    <2>3. ASSUME t \notin crossed' PROVE Kept(t)'
      <3>1. Kept(t) /\ ~Imported(t)
        BY <1>1, <2>1, <2>3 DEF PageInv, Imported
      <3>2. RowOK(t)'
        BY <1>3, <2>1, <2>3, <3>1, RecordedRow DEF Recorded
      <3>3. QED
        BY <1>1, <1>2, <1>3, <2>1, <3>1, <3>2 DEF Kept, ImagesOK, StageOK, StoredOK, Exists, Acting
    <2>4. QED
      BY <2>2, <2>3
  <1>5. CASE tasks[t].status = "running"
    <2> DEFINE r == [Delivered(tasks[t], t) EXCEPT !.parts = {}]
    <2>1. UpdateTask(t, r) /\ cleanup' = cleanup \cup Unused(tasks[t].parts, tasks')
      BY <1>5 DEF Settle
    <2>2. /\ r \in TaskRecord /\ r.status = "done" /\ r.input = tasks[t].input
          /\ r.outs = {Out(t)} /\ ~r.recoverable
      BY <1>2, DeliveredIs
    <2>3. r.parts = {}
      <3>1. Delivered(tasks[t], t) \in TaskRecord
        BY <1>2, RecordTypes
      <3>2. QED
        BY <3>1 DEF TaskRecord
    <2> HIDE DEF r
    <2>4. /\ Exists(tasks, t) /\ tasks'[t] = r /\ rows'[t] = r /\ (t \notin crossed' => ~Outdated)
      BY <1>5, <2>1, Updated DEF Exists
    <2>5. Own(r, t)
      BY <2>2, <2>3 DEF Own
    <2>6. TaskInv(t)'
      BY <1>1, <1>2, <1>3, <2>4, <2>5, StepTask DEF TaskInv
    <2>7. ASSUME t \notin crossed' PROVE Kept(t)'
      <3>1. Kept(t) /\ ~Imported(t) /\ ~Outdated
        BY <1>1, <1>3, <2>4, <2>7 DEF PageInv, Imported
      <3>2. Out(t) \in images /\ Out(t) \notin cleanup
        BY <1>1, <1>2, <1>5, <2>4, <3>1 DEF Kept, StoredOK, StageOK, Outdated
      <3>3. attached \in BOOLEAN /\ Out(t) \in ImagesOf(tasks'[t])
        BY <2>2, <2>4, HasImage DEF TypeOK
      <3>4. Out(t) \in Referenced(tasks', attached)
        BY <3>3, IsReferenced
      <3>5. Out(t) \notin cleanup' /\ cleanup' \subseteq cleanup \cup {Part(t)}
        BY <1>1, <2>1, <3>2, <3>4 DEF Unused, TaskInv, Own
      <3>6. RowOK(t)'
        <4>1. Recorded(t)
          BY <2>2, <2>4 DEF Recorded, Exists
        <4>2. QED
          BY <1>3, <2>7, <3>1, <4>1, RecordedRow
      <3>7. ImagesOK(t)'
        BY <1>1, <1>2, <1>3, <2>2, <2>3, <2>4, <3>1, <3>2, <3>5, DeliversImages, Names
      <3>8. StageOK(t)'
        <4>1. partial[t].pc \in {"store", "record"} => tasks[t].parts = {} /\ partial[t].image \notin cleanup
          BY <2>4, <3>1 DEF Kept, StageOK
        <4>2. tasks[t].parts = {} => cleanup' = cleanup
          BY <2>1 DEF Unused
        <4>3. QED
          BY <1>1, <1>2, <2>3, <2>4, <3>5, <4>1, <4>2 DEF StageOK, Acting
      <3>9. StoredOK(t)'
        BY <1>1, <1>2, <2>2, <2>4 DEF StoredOK
      <3>10. QED
        BY <3>6, <3>7, <3>8, <3>9 DEF Kept
    <2>8. QED
      BY <2>6, <2>7
  <1>6. QED
    BY <1>4, <1>5

LEMMA RecoverSettleKeeps ==
    ASSUME TypeOK, PageInv, NEW t \in Tasks, RecoverSettles(t), FunctionFrame(t)
    PROVE  TaskInv(t)' /\ (t \notin crossed' => Kept(t)')
  <1>1. /\ TaskInv(t) /\ recovery[t] = "settle" /\ recovery'[t] = "idle"
        /\ UNCHANGED <<partial, exec, images, cleanup>>
    BY DEF PageInv, RecoverSettles, Recovery, TypeOK
  <1>2. exec[t] = "gone" /\ tasks[t] \in TaskRecord
    BY <1>1, TypedTask DEF TaskInv
  <1>3. UNCHANGED <<removal, start>> /\ crossed \subseteq crossed'
    BY DEF FunctionFrame
  <1>4. CASE ~Exists(tasks, t)
    <2>1. UNCHANGED <<tasks, rows>>
      BY <1>4, Updated DEF RecoverSettles
    <2>2. TaskInv(t)'
      BY <1>1, <1>2, <1>3, <2>1, StepTask DEF TaskInv
    <2>3. ASSUME t \notin crossed' PROVE Kept(t)'
      <3>1. Kept(t) /\ ~Imported(t)
        BY <1>1, <1>3, <2>3 DEF PageInv, Imported
      <3>2. RowOK(t)'
        BY <1>3, <2>1, <2>3, <3>1, RecordedRow DEF Recorded
      <3>3. QED
        BY <1>1, <1>2, <1>3, <1>4, <2>1, <3>1, <3>2 DEF Kept, ImagesOK, StageOK, StoredOK, Exists, Acting
    <2>4. QED
      BY <2>2, <2>3
  <1>5. CASE Exists(tasks, t)
    <2> DEFINE r == Delivered(tasks[t], t)
    <2>1. UpdateTask(t, r)
      BY DEF RecoverSettles
    <2>2. /\ r \in TaskRecord /\ r.status = "done" /\ r.input = tasks[t].input
          /\ r.outs = {Out(t)} /\ ~r.recoverable /\ r.parts = tasks[t].parts
      <3>1. r.parts = tasks[t].parts
        BY <1>2 DEF Delivered, TaskRecord
      <3>2. QED
        BY <1>2, <3>1, DeliveredIs
    <2> HIDE DEF r
    <2>3. tasks'[t] = r /\ rows'[t] = r /\ (t \notin crossed' => ~Outdated)
      BY <1>5, <2>1, Updated
    <2>4. Own(r, t)
      BY <1>1, <2>2 DEF Own, TaskInv
    <2>5. TaskInv(t)'
      BY <1>1, <1>2, <1>3, <2>3, <2>4, StepTask DEF TaskInv
    <2>6. ASSUME t \notin crossed' PROVE Kept(t)'
      <3>1. Kept(t) /\ ~Imported(t) /\ ~Outdated
        BY <1>1, <1>3, <2>3, <2>6 DEF PageInv, Imported
      <3>2. Out(t) \in images /\ Out(t) \notin cleanup /\ start.pc = "ready"
        BY <1>1, <1>2, <1>5, <3>1 DEF Kept, StoredOK, StageOK, Outdated
      <3>3. tasks[t].parts \subseteq images /\ tasks[t].parts \cap cleanup = {}
        <4>1. tasks[t].parts \subseteq ImagesOf(tasks[t])
          BY <1>2, HasImage
        <4>2. QED
          BY <3>1, <4>1 DEF Kept, ImagesOK, Outdated
      <3>4. RowOK(t)'
        <4>1. Recorded(t)
          BY <1>5, <2>2, <2>3 DEF Recorded, Exists
        <4>2. QED
          BY <1>3, <2>6, <3>1, <4>1, RecordedRow
      <3>5. ImagesOK(t)'
        BY <1>1, <1>3, <1>5, <2>2, <2>3, <3>1, <3>2, <3>3, DeliversImages
      <3>6. StageOK(t)'
        BY <1>1, <1>2, <1>5, <2>2, <2>3, <3>1, <3>2 DEF Kept, StageOK, Acting
      <3>7. StoredOK(t)'
        BY <1>1, <1>2, <2>2, <2>3 DEF StoredOK
      <3>8. QED
        BY <3>4, <3>5, <3>6, <3>7 DEF Kept
    <2>7. QED
      BY <2>5, <2>6
  <1>6. QED
    BY <1>4, <1>5

\* What is given up is referred to neither by the list nor by the row of t.
LEMMA GivenUpImages ==
    ASSUME TypeOK, PageInv, NEW t \in Tasks, Kept(t), start.pc = "ready", ~Imported(t),
           t \notin removal.dead, NEW i, cleanup' = cleanup \cup Unused({i}, tasks),
           UNCHANGED <<tasks, rows, images, removal, start>>
    PROVE  ImagesOK(t)'
  <1>1. attached \in BOOLEAN
    BY DEF TypeOK
  <1>2. i \in ImagesOf(tasks[t]) => i \notin Unused({i}, tasks)
    BY <1>1, IsReferenced DEF Unused
  <1>3. ImagesOf(tasks[t]) \cap cleanup' = {}
    BY <1>2 DEF Kept, ImagesOK, Unused
  <1>4. ImagesOf(rows[t]) \cap cleanup' = {}
    BY <1>3, RowAgrees, None
  <1>5. QED
    BY <1>3, <1>4 DEF Kept, ImagesOK, Exists

LEMMA DiscardKeeps ==
    ASSUME TypeOK, PageInv, NEW t \in Tasks, DiscardOutputs(t) \/ RecoverDiscards(t), FunctionFrame(t)
    PROVE  TaskInv(t)' /\ (t \notin crossed' => Kept(t)')
  <1>1. /\ TaskInv(t) /\ UNCHANGED <<tasks, rows, images, partial, removal, start>>
        /\ cleanup' = cleanup \cup Unused({Out(t)}, tasks) /\ crossed \subseteq crossed'
        /\ t \notin crossed' =>
              /\ t \notin removal.dead
              /\ partial[t].pc \in {"store", "record"} => partial[t].image # Out(t)
    BY DEF PageInv, DiscardOutputs, RecoverDiscards, Discards, Cross, FunctionFrame
  <1>2. \/ /\ exec[t] = "settle" /\ exec'[t] = "discard" /\ recovery[t] = "idle"
           /\ recovery'[t] = "idle"
        \/ /\ recovery[t] = "settle" /\ recovery'[t] = "discard" /\ exec[t] = "gone"
           /\ exec'[t] = "gone"
    BY <1>1 DEF DiscardOutputs, RecoverDiscards, Step, Recovery, TypeOK, TaskInv
  <1>3. TaskInv(t)'
    BY <1>1, <1>2, StepTask DEF TaskInv
  <1>4. ASSUME t \notin crossed' PROVE Kept(t)'
    <2>1. Kept(t) /\ ~Imported(t)
      BY <1>1, <1>2, <1>4 DEF PageInv, Imported
    <2>2. start.pc = "ready"
      BY <1>1, <1>2, <2>1 DEF TaskInv, Kept, StageOK
    <2>3. RowOK(t)'
      BY <1>1, <1>4, <2>1, RecordedRow DEF Recorded
    <2>4. ImagesOK(t)'
      BY <1>1, <1>4, <2>1, <2>2, GivenUpImages
    <2>5. cleanup' \subseteq cleanup \cup {Out(t)}
      BY <1>1 DEF Unused
    <2>6. StageOK(t)'
      BY <1>1, <1>2, <1>4, <2>1, <2>2, <2>5, Names DEF Kept, StageOK, Acting, Exists
    <2>7. StoredOK(t)'
      BY <1>1, <1>2, <2>1 DEF Kept, StoredOK, Exists
    <2>8. QED
      BY <2>3, <2>4, <2>6, <2>7 DEF Kept
  <1>5. QED
    BY <1>3, <1>4

LEMMA PartialRecordKeeps ==
    ASSUME TypeOK, PageInv, NEW t \in Tasks, PartialRecorded(t), FunctionFrame(t)
    PROVE  TaskInv(t)' /\ (t \notin crossed' => Kept(t)')
  <1> DEFINE image == partial[t].image
  <1>1. /\ TaskInv(t) /\ UNCHANGED <<images, exec, recovery, removal, start>>
        /\ crossed \subseteq crossed'
    BY DEF PageInv, PartialRecorded, FunctionFrame
  <1>2. /\ partial[t].pc = "record" /\ partial'[t].pc = "over"
        /\ image \in {Part(t), Out(t)} /\ start.pc = "ready" /\ exec[t] # "idle"
    <2>1. partial[t].pc = "record" /\ partial' = [partial EXCEPT ![t] = [NoPartial EXCEPT !.pc = "over"]]
      BY DEF PartialRecorded
    <2>2. partial'[t].pc = "over"
      BY <2>1 DEF TypeOK, NoPartial
    <2>3. QED
      BY <1>1, <2>1, <2>2 DEF TaskInv
  <1>3. tasks[t] \in TaskRecord
    BY TypedTask
  <1>4. CASE tasks[t].status \in {"none", "done"}
    <2>1. /\ UNCHANGED <<tasks, rows>> /\ cleanup' = cleanup \cup Unused({image}, tasks)
          /\ t \notin crossed' => t \notin removal.dead
      BY <1>4 DEF PartialRecorded, Cross
    <2>2. TaskInv(t)'
      BY <1>1, <1>2, <2>1, StepTask DEF TaskInv
    <2>3. ASSUME t \notin crossed' PROVE Kept(t)'
      <3>1. Kept(t) /\ ~Imported(t)
        BY <1>1, <1>2, <2>3 DEF PageInv, Imported
      <3>2. RowOK(t)'
        BY <1>1, <2>1, <2>3, <3>1, RecordedRow DEF Recorded
      <3>3. ImagesOK(t)'
        BY <1>1, <1>2, <2>1, <2>3, <3>1, GivenUpImages
      <3>4. Exists(tasks, t) => Out(t) \in ImagesOf(tasks[t])
        BY <1>1, <1>3, <1>4, HasImage DEF TaskInv, Own, Exists
      <3>5. StageOK(t)'
        <4>1. Exists(tasks, t) /\ Out(t) \in cleanup' => Out(t) \in cleanup
          BY <2>1, <3>3, <3>4 DEF ImagesOK
        <4>2. QED
          BY <1>1, <1>2, <2>1, <3>1, <4>1 DEF Kept, StageOK, Acting, Exists
      <3>6. StoredOK(t)'
        BY <1>1, <1>2, <2>1, <3>1 DEF Kept, StoredOK, Exists
      <3>7. QED
        BY <3>2, <3>3, <3>5, <3>6 DEF Kept
    <2>4. QED
      BY <2>2, <2>3
  <1>5. CASE tasks[t].status \notin {"none", "done"}
    <2> DEFINE r == [tasks[t] EXCEPT !.parts = tasks[t].parts \cup {image}]
    <2>1. UpdateTask(t, r) /\ cleanup' = cleanup
      BY <1>5 DEF PartialRecorded
    <2>2. /\ r.status = tasks[t].status /\ r.input = tasks[t].input
          /\ r.outs = tasks[t].outs /\ r.parts = tasks[t].parts \cup {image}
          /\ r.recoverable = tasks[t].recoverable
      BY <1>3 DEF TaskRecord
    <2>3. r \in TaskRecord
      <3>1. image \in Images
        BY <1>2 DEF Images
      <3>2. QED
        BY <1>3, <3>1, RecordTypes
    <2> HIDE DEF r
    <2>4. Exists(tasks, t) /\ tasks'[t] = r /\ rows'[t] = r /\ (t \notin crossed' => ~Outdated)
      BY <1>5, <2>1, Updated DEF Exists
    <2>5. Own(r, t)
      BY <1>1, <1>2, <1>5, <2>2 DEF TaskInv, Own
    <2>6. TaskInv(t)'
      BY <1>1, <1>2, <2>4, <2>5, StepTask DEF TaskInv
    <2>7. ASSUME t \notin crossed' PROVE Kept(t)'
      <3>1. Kept(t) /\ ~Imported(t) /\ ~Outdated /\ removal.pc # "clear list"
        BY <1>1, <1>2, <2>4, <2>7 DEF PageInv, Imported, Outdated
      <3>2. tasks[t].status \in {"running", "error"}
        BY <1>3, <1>5 DEF TaskRecord
      <3>3. image \in images /\ image \notin cleanup
        BY <1>2, <2>4, <3>1, <3>2 DEF Kept, StoredOK, StageOK
      <3>4. r.outs \cup r.parts \subseteq images /\ (r.outs \cup r.parts) \cap cleanup = {}
        <4>1. tasks[t].outs \cup tasks[t].parts \subseteq ImagesOf(tasks[t])
          BY <1>3, HasImage
        <4>2. QED
          BY <2>2, <3>1, <3>3, <4>1 DEF Kept, ImagesOK
      <3>5. RowOK(t)'
        <4>1. Recorded(t)
          BY <2>2, <2>4 DEF Recorded, Exists
        <4>2. QED
          BY <1>1, <2>7, <3>1, <4>1, RecordedRow
      <3>6. ImagesOK(t)'
        BY <1>1, <1>2, <1>5, <2>1, <2>2, <2>3, <2>4, <3>1, <3>4, DeliversImages
      <3>7. StageOK(t)'
        BY <1>1, <1>2, <2>1, <2>2, <2>4, <3>1 DEF Kept, StageOK, Acting, Exists
      <3>8. StoredOK(t)'
        BY <1>1, <1>2, <2>2, <2>4, <3>1 DEF Kept, StoredOK, Exists
      <3>9. QED
        BY <3>5, <3>6, <3>7, <3>8 DEF Kept
    <2>8. QED
      BY <2>6, <2>7
  <1>6. QED
    BY <1>4, <1>5

-----------------------------------------------------------------------------
LEMMA FunctionTask ==
    ASSUME TypeOK, PageInv, NEW t \in Tasks, Executing(t) \/ Recovering(t), FunctionFrame(t)
    PROVE  TaskInv(t)' /\ (t \notin crossed' => Kept(t)')
  <1>1. /\ TaskInv(t) /\ UNCHANGED <<removal, start>> /\ images \subseteq images'
        /\ crossed \subseteq crossed'
    BY DEF PageInv, FunctionFrame
  <1>2. t \notin crossed' => Kept(t)
    BY <1>1 DEF PageInv
  <1>3. CASE Restates(t)
    <2>1. Restated(t) /\ Moved(t)
      BY <1>1, <1>3, RestatesRecord, RestatesMove
    <2>2. TaskInv(t)'
      <3>1. CASE exec[t] = "idle"
        BY <1>1, <3>1, IdleStays
      <3>2. CASE start.pc \in {"read", "mark", "list"}
        <4>1. UNCHANGED <<tasks, rows, images, exec, partial, recovery, cleanup>>
          BY <3>2, Early
        <4>2. QED
          BY <1>1, <4>1 DEF TaskInv, Own
      <3>3. QED
        BY <1>1, <2>1, <3>1, <3>2, RestatedTask
    <2>3. ASSUME t \notin crossed' PROVE Kept(t)'
      BY <1>1, <1>2, <2>1, <2>3, RestatedKept, ImportedWaits
    <2>4. QED
      BY <2>2, <2>3
  <1>4. QED
    BY <1>3, SettleKeeps, RecoverSettleKeeps, DiscardKeeps, PartialRecordKeeps
       DEF Executing, Recovering, Restates

LEMMA FunctionsKeep ==
    ASSUME TypeOK, PageInv, NEW t \in Tasks, Executing(t) \/ Recovering(t)
    PROVE  PageInv'
  <1>1. FunctionFrame(t)
    BY FunctionTouches DEF PageInv
  <1>2. /\ UNCHANGED <<submit, removal, start>> /\ images \subseteq images'
        /\ cleanup' \subseteq cleanup \cup {Out(t), Part(t)} /\ crossed \subseteq crossed'
        /\ \A u \in Tasks \ {t} : LeavesAlone(u)
    BY <1>1 DEF FunctionFrame
  <1>3. OneAtATime' /\ CleanInv'
    BY <1>2 DEF PageInv, OneAtATime, CleanInv, Quiet
  <1>4. StartInv'
    <2>1. start.pc \in {"read", "mark", "list"} => UNCHANGED <<tasks, rows, cleanup>>
      BY Early
    <2>2. QED
      BY <1>2, <2>1 DEF PageInv, StartInv
  <1>5. ASSUME NEW u \in Tasks PROVE TaskInv(u)' /\ (u \notin crossed' => Kept(u)')
    <2>1. CASE u = t
      BY <1>1, <2>1, FunctionTask
    <2>2. CASE u # t
      <3>1. LeavesAlone(u) /\ TaskInv(u) /\ (u \notin crossed' => Kept(u))
        BY <1>2, <2>2 DEF PageInv
      <3>2. QED
        BY <3>1, AloneTask, AloneKept
    <2>3. QED
      BY <2>1, <2>2
  <1>6. QED
    BY <1>3, <1>4, <1>5 DEF PageInv

\* The deletion of an image that was found unused.
LEMMA CleanUpKeeps ==
    ASSUME TypeOK, PageInv, NEW image \in Images, CleanUp(image)
    PROVE  PageInv'
  <1>1. /\ image \in cleanup /\ images' = images \ {image} /\ cleanup' = cleanup \ {image}
        /\ UNCHANGED <<tasks, rows, exec, partial, recovery, crossed, submit, removal, start>>
    BY DEF CleanUp, Elsewhere
  <1>2. image # In
    BY <1>1, Names DEF PageInv, CleanInv
  <1>3. OneAtATime' /\ CleanInv' /\ StartInv'
    BY <1>1, <1>2 DEF PageInv, OneAtATime, CleanInv, StartInv, Quiet
  <1>4. ASSUME NEW u \in Tasks PROVE TaskInv(u)'
    BY <1>1 DEF PageInv, TaskInv, Own
  <1>5. ASSUME NEW u \in Tasks \ crossed' PROVE Kept(u)'
    <2>1. TaskInv(u) /\ Kept(u)
      BY <1>1 DEF PageInv
    <2>2. RowOK(u)'
      BY <1>1, <2>1 DEF Kept, RowOK, Imported, Exists
    <2>3. ImagesOK(u)'
      BY <1>1, <2>1 DEF Kept, ImagesOK, Exists
    <2>4. StageOK(u)'
      BY <1>1, <2>1 DEF Kept, StageOK, Exists
    <2>5. StoredOK(u)'
      <3>1. recovery[u] # "idle" => exec[u] = "gone"
        BY <2>1 DEF TaskInv
      <3>2. QED
        BY <1>1, <2>1, <3>1 DEF Kept, StoredOK, StageOK, Exists
    <2>6. QED
      BY <2>2, <2>3, <2>4, <2>5 DEF Kept
  <1>6. QED
    BY <1>3, <1>4, <1>5 DEF PageInv

-----------------------------------------------------------------------------
(* The composer, new tasks and backups.                                    *)

LEMMA ComposerKeeps ==
    ASSUME Orderly, TypeOK, PageInv,
           Attach \/ Detach \/ SubmitStore \/ \E t \in Tasks : ReuseConfig(t)
    PROVE  PageInv'
  <1>1. /\ UNCHANGED <<tasks, rows, exec, partial, recovery, cleanup, crossed, removal, start>>
        /\ images \subseteq images' /\ Quiet
        /\ submit' = "input" => submit = "input" \/ In \in images'
    BY DEF Attach, Detach, SubmitStore, ReuseConfig, async, UserFree
  <1>2. OneAtATime' /\ CleanInv' /\ StartInv'
    BY <1>1 DEF PageInv, OneAtATime, CleanInv, StartInv, Quiet
  <1>3. ASSUME NEW u \in Tasks PROVE LeavesAlone(u)
    BY <1>1 DEF LeavesAlone
  <1>4. QED
    BY <1>1, <1>2, <1>3, AloneTask, AloneKept DEF PageInv

LEMMA AddTaskKeeps ==
    ASSUME TypeOK, PageInv, Quiet, NEW t \in Tasks, NEW kind \in Kinds, NEW input \in BOOLEAN,
           AddTask(t, kind, input), crossed \subseteq crossed',
           t \notin crossed' /\ input => In \in images,
           submit' = "input" => submit = "input",
           UNCHANGED <<images, partial, recovery, cleanup, removal, start>>
    PROVE  PageInv'
  <1> DEFINE r == NewTask(kind, input)
  <1>1. /\ tasks'[t] = r /\ rows'[t] = r /\ exec'[t] = "submitted"
        /\ \A u \in Tasks \ {t} : tasks'[u] = tasks[u] /\ rows'[u] = rows[u] /\ exec'[u] = exec[u]
        /\ exec[t] = "idle" /\ partial[t].pc = "none" /\ recovery[t] = "idle"
    BY DEF AddTask, TypeOK
  <1>2. r \in TaskRecord
    BY NewTypes, WebTasksAssumption
  <1>3. r.status = "running" /\ r.outs = {} /\ r.parts = {} /\ r.input = input /\ Own(r, t)
    BY DEF NewTask, Own
  <1> HIDE DEF r
  <1>4. ImagesOf(r) = IF input THEN {In} ELSE {}
    BY <1>3 DEF ImagesOf
  <1>5. start.pc = "ready" /\ removal = IdleRemoval /\ removal.pc = "idle" /\ removal.images = {}
    BY DEF PageInv, OneAtATime, Quiet, IdleRemoval
  <1>6. OneAtATime' /\ CleanInv' /\ StartInv'
    BY <1>5 DEF PageInv, OneAtATime, CleanInv, StartInv, Quiet
  <1>7. ASSUME NEW u \in Tasks \ {t} PROVE LeavesAlone(u)
    BY <1>1, <1>7 DEF LeavesAlone
  <1>8. TaskInv(t) /\ Out(t) \notin cleanup /\ Part(t) \notin cleanup
    BY <1>1 DEF PageInv, TaskInv
  <1>9. TaskInv(t)'
    BY <1>1, <1>3, <1>5, <1>8 DEF TaskInv, Own
  <1>10. ASSUME t \notin crossed' PROVE Kept(t)'
    <2>1. RowOK(t)'
      BY <1>1, <1>5 DEF RowOK
    <2>2. In \notin cleanup
      BY Names DEF PageInv, CleanInv
    <2>3. ImagesOK(t)'
      BY <1>1, <1>4, <1>5, <1>10, <2>2 DEF ImagesOK
    <2>4. StageOK(t)' /\ StoredOK(t)'
      BY <1>1, <1>3, <1>5, <1>8 DEF StageOK, StoredOK, Acting
    <2>5. QED
      BY <2>1, <2>3, <2>4 DEF Kept
  <1>11. QED
    BY <1>6, <1>7, <1>9, <1>10, AloneTask, AloneKept DEF PageInv

LEMMA NewTaskKeeps ==
    ASSUME Orderly, TypeOK, PageInv,
           \/ \E t \in Tasks, kind \in Kinds : SubmitCreate(t, kind)
           \/ \E old, t \in Tasks, kind \in Kinds : RetryTask(old, t, kind)
    PROVE  PageInv'
  <1>1. CASE \E t \in Tasks, kind \in Kinds : SubmitCreate(t, kind)
    <2>1. PICK t \in Tasks, kind \in Kinds : SubmitCreate(t, kind)
      BY <1>1
    <2>2. /\ Quiet /\ (submit = "input" => In \in images) /\ submit' = "idle"
          /\ UNCHANGED <<images, partial, recovery, cleanup, crossed, removal, start>>
          /\ AddTask(t, kind, submit = "input")
      BY <2>1 DEF SubmitCreate, PageInv, OneAtATime
    <2>3. (submit = "input") \in BOOLEAN
      OBVIOUS
    <2>4. QED
      BY <2>2, <2>3, AddTaskKeeps
  <1>2. CASE \E old, t \in Tasks, kind \in Kinds : RetryTask(old, t, kind)
    <2>1. PICK old \in Tasks, t \in Tasks, kind \in Kinds : RetryTask(old, t, kind)
      BY <1>2
    <2>2. /\ Quiet /\ AddTask(t, kind, tasks[old].input)
          /\ UNCHANGED <<images, submit, partial, recovery, cleanup, removal, start>>
          /\ crossed \subseteq crossed' /\ (t \notin crossed' => old \notin crossed)
      BY <2>1 DEF RetryTask, UserFree, Cross
    <2>3. tasks[old] \in TaskRecord /\ tasks[old].input \in BOOLEAN
      BY TypedTask DEF TaskRecord
    <2>4. ASSUME t \notin crossed', tasks[old].input PROVE In \in images
      <3>1. Kept(old) /\ In \in ImagesOf(tasks[old])
        BY <2>2, <2>3, <2>4, HasImage DEF PageInv
      <3>2. QED
        BY <2>2, <3>1 DEF Kept, ImagesOK, Quiet
    <2>5. QED
      BY <2>2, <2>3, <2>4, AddTaskKeeps
  <1>3. QED
    BY <1>1, <1>2

LEMMA ImportKeeps ==
    ASSUME Orderly, TypeOK, PageInv, NEW t \in Tasks, NEW kind \in Kinds, NEW input \in BOOLEAN,
           NEW status \in Imports, ImportData(t, kind, input, status)
    PROVE  PageInv'
  <1> DEFINE r == Copy(t, kind, input, status)
  <1>1. /\ Quiet /\ submit = "idle" /\ exec[t] = "idle"
        /\ images' = images \cup ImagesOf(r) /\ rows' = [rows EXCEPT ![t] = r]
        /\ removal' = [IdleRemoval EXCEPT !.pc = "import", !.snapshot = rows']
        /\ exec' = [exec EXCEPT ![t] = "gone"]
        /\ UNCHANGED <<tasks, submit, partial, recovery, cleanup, start, crossed>>
    BY DEF ImportData, UserFree, Copy
  <1>2. kind \in Kind /\ status \in {"running", "done", "error"} /\ Out(t) \in Images
    BY WebTasksAssumption DEF Images
  <1>3. r \in TaskRecord
    BY <1>2 DEF Copy, NewTask, TaskRecord
  <1>4. /\ r.status = status /\ r.parts = {} /\ r.outs \subseteq {Out(t)} /\ Own(r, t)
    BY <1>2 DEF Copy, NewTask, Own
  <1> HIDE DEF r
  <1>5. /\ rows'[t] = r /\ exec'[t] = "gone"
        /\ \A u \in Tasks \ {t} : rows'[u] = rows[u] /\ exec'[u] = exec[u]
        /\ removal'.pc = "import" /\ removal'.snapshot = rows' /\ removal'.images = {}
    BY <1>1 DEF TypeOK, IdleRemoval
  <1>6. start.pc = "ready" /\ removal.pc = "idle"
    BY <1>1 DEF Quiet
  <1>7. OneAtATime' /\ CleanInv' /\ StartInv'
    BY <1>1, <1>5, <1>6 DEF PageInv, OneAtATime, CleanInv, StartInv, Quiet
  <1>8. TaskInv(t) /\ In \notin cleanup
    BY Names DEF PageInv, CleanInv
  <1>9. ASSUME NEW u \in Tasks PROVE TaskInv(u)'
    BY <1>1, <1>4, <1>5, <1>6 DEF PageInv, TaskInv, Own
  <1>10. ASSUME NEW u \in Tasks \ crossed' PROVE Kept(u)'
    <2>1. TaskInv(u) /\ Kept(u)
      BY <1>1 DEF PageInv
    <2>2. CASE u = t
      <3>1. /\ tasks[t] = NoTask /\ partial[t].pc = "none" /\ recovery[t] = "idle"
            /\ Out(t) \notin cleanup
        BY <1>1, <1>8 DEF TaskInv
      <3>2. RowOK(t)'
        BY <1>1, <1>5, <1>6, <3>1 DEF RowOK, Imported
      <3>3. ImagesOf(r) \cap cleanup = {} /\ ImagesOf(r) \subseteq images'
        BY <1>1, <1>3, <1>4, <1>8, <3>1, HasImage
      <3>4. ImagesOK(t)'
        BY <1>1, <1>5, <1>6, <3>1, <3>3, None DEF ImagesOK
      <3>5. StageOK(t)' /\ StoredOK(t)'
        BY <1>1, <1>5, <1>6, <3>1, None DEF StageOK, StoredOK, Exists, Acting
      <3>6. QED
        BY <2>2, <3>2, <3>4, <3>5 DEF Kept
    <2>3. CASE u # t
      <3>1. rows'[u] = rows[u] /\ exec'[u] = exec[u] /\ rows[u] = tasks[u]
        BY <1>5, <1>6, <2>1, <2>3 DEF Kept, RowOK
      <3>2. RowOK(u)'
        BY <1>1, <1>5, <1>6, <3>1 DEF RowOK
      <3>3. ImagesOK(u)'
        BY <1>1, <1>5, <1>6, <2>1, <3>1 DEF Kept, ImagesOK
      <3>4. StageOK(u)' /\ StoredOK(u)'
        BY <1>1, <1>5, <1>6, <2>1, <3>1 DEF Kept, StageOK, StoredOK, Exists
      <3>5. QED
        BY <3>2, <3>3, <3>4 DEF Kept
    <2>4. QED
      BY <2>2, <2>3
  <1>11. QED
    BY <1>7, <1>9, <1>10 DEF PageInv

-----------------------------------------------------------------------------
(* Removals, clearings and the list of an import.                          *)

LEMMA RemoveStartKeeps ==
    ASSUME Orderly, TypeOK, PageInv, NEW dead \in SUBSET Tasks, RemoveStart(dead)
    PROVE  PageInv'
  <1>1. /\ Quiet /\ submit = "idle"
        /\ UNCHANGED <<tasks, rows, images, submit, exec, partial, recovery, cleanup, crossed, start>>
        /\ removal'.pc = "scrub" /\ removal'.dead = dead
        /\ removal'.snapshot = [t \in Tasks |-> IF t \in dead THEN NoTask ELSE tasks[t]]
        /\ removal'.images = UNION {ImagesOf(tasks[t]) : t \in dead}
    BY DEF RemoveStart, UserFree, async
  <1>2. start.pc = "ready" /\ removal.pc = "idle"
    BY <1>1 DEF Quiet
  <1>3. OneAtATime' /\ CleanInv' /\ StartInv'
    BY <1>1, <1>2 DEF PageInv, OneAtATime, CleanInv, StartInv, Quiet
  <1>4. ASSUME NEW u \in Tasks PROVE TaskInv(u)'
    <2>1. removal'.snapshot[u] \in {NoTask, tasks[u]}
      BY <1>1
    <2>2. TaskInv(u)
      BY DEF PageInv
    <2>3. Own(removal'.snapshot[u], u) /\ (tasks[u] = NoTask => removal'.snapshot[u] = NoTask)
      BY <2>1, <2>2, None DEF TaskInv
    <2>4. QED
      BY <1>1, <2>2, <2>3 DEF TaskInv, Own
  <1>5. ASSUME NEW u \in Tasks \ dead PROVE Out(u) \notin removal'.images /\ Part(u) \notin removal'.images
    <2>1. ASSUME NEW v \in dead PROVE Out(u) \notin ImagesOf(tasks[v]) /\ Part(u) \notin ImagesOf(tasks[v])
      <3>1. ImagesOf(tasks[v]) \subseteq {In, Out(v), Part(v)}
        BY TypedTask, OwnImages DEF PageInv, TaskInv
      <3>2. QED
        BY <3>1, Names
    <2>2. QED
      BY <1>1, <2>1
  <1>6. ASSUME NEW u \in Tasks \ crossed' PROVE Kept(u)'
    <2>1. Kept(u)
      BY <1>1 DEF PageInv
    <2>2. RowOK(u)' /\ ImagesOK(u)'
      BY <1>1, <1>2, <1>5, <2>1 DEF Kept, RowOK, ImagesOK
    <2>3. StageOK(u)' /\ StoredOK(u)'
      BY <1>1, <1>2, <2>1 DEF Kept, StageOK, StoredOK, Exists
    <2>4. QED
      BY <2>2, <2>3 DEF Kept
  <1>7. QED
    BY <1>3, <1>4, <1>6 DEF PageInv

\* A removal is at one of its steps only when nothing is submitted or started.
LEMMA OnlyRemoving ==
    ASSUME PageInv, removal.pc # "idle"
    PROVE  start.pc = "ready" /\ submit = "idle" /\ submit # "input"
BY DEF PageInv, OneAtATime, Quiet

LEMMA RowsKeep ==
    ASSUME TypeOK, PageInv, NEW t \in Tasks, RemoveScrub(t) \/ RemoveRow(t)
    PROVE  PageInv'
  <1>1. /\ UNCHANGED <<tasks, images, submit, exec, partial, recovery, cleanup, crossed, start>>
        /\ removal.pc \in {"scrub", "rows"} /\ removal'.pc = removal.pc
        /\ removal'.snapshot = removal.snapshot /\ removal'.images = removal.images
        /\ start.pc = "ready" /\ submit = "idle"
        /\ \A u \in Tasks \ {t} : rows'[u] = rows[u] /\ (u \in removal'.dead <=> u \in removal.dead)
    <2>1. removal.pc \in {"scrub", "rows"} /\ start.pc = "ready" /\ submit = "idle"
      BY OnlyRemoving DEF RemoveScrub, RemoveRow
    <2>2. CASE RemoveScrub(t)
      BY <2>1, <2>2 DEF RemoveScrub, async, TypeOK
    <2>3. CASE RemoveRow(t)
      <3>1. removal' = [removal EXCEPT !.dead = removal.dead \ {t}] /\ rows' = [rows EXCEPT ![t] = NoTask]
        BY <2>3 DEF RemoveRow
      <3>2. /\ removal'.pc = removal.pc /\ removal'.snapshot = removal.snapshot
            /\ removal'.images = removal.images /\ removal'.dead = removal.dead \ {t}
        BY <3>1 DEF TypeOK
      <3>3. \A u \in Tasks \ {t} : rows'[u] = rows[u]
        BY <3>1 DEF TypeOK
      <3>4. QED
        BY <2>1, <2>3, <3>2, <3>3 DEF RemoveRow, async
    <2>4. QED
      BY <2>2, <2>3
  <1>2. \/ /\ removal.pc = "scrub" /\ Exists(removal.snapshot, t)
           /\ rows'[t] = removal.snapshot[t] /\ removal'.dead = removal.dead
        \/ /\ removal.pc = "rows" /\ t \in removal.dead /\ rows'[t] = NoTask
           /\ t \notin removal'.dead
    <2>1. CASE RemoveScrub(t)
      BY <2>1 DEF RemoveScrub, TypeOK
    <2>2. CASE RemoveRow(t)
      <3>1. removal' = [removal EXCEPT !.dead = removal.dead \ {t}] /\ rows' = [rows EXCEPT ![t] = NoTask]
        BY <2>2 DEF RemoveRow
      <3>2. removal'.dead = removal.dead \ {t} /\ rows'[t] = NoTask
        BY <3>1 DEF TypeOK
      <3>3. QED
        BY <2>2, <3>2 DEF RemoveRow
    <2>3. QED
      BY <2>1, <2>2
  <1>3. OneAtATime' /\ CleanInv' /\ StartInv'
    BY <1>1 DEF PageInv, OneAtATime, CleanInv, StartInv, Quiet
  <1>4. ASSUME NEW u \in Tasks PROVE TaskInv(u)'
    <2>1. rows'[u] \in {rows[u], removal.snapshot[u], NoTask}
      BY <1>1, <1>2
    <2>2. TaskInv(u)
      BY DEF PageInv
    <2>3. Own(rows'[u], u) /\ (exec[u] = "idle" => rows'[u] = NoTask)
      BY <2>1, <2>2, None DEF TaskInv
    <2>4. QED
      BY <1>1, <2>2, <2>3 DEF TaskInv, Own
  <1>5. ASSUME NEW u \in Tasks \ crossed' PROVE Kept(u)'
    <2>1. Kept(u)
      BY <1>1 DEF PageInv
    <2>2. RowOK(u)' /\ ImagesOf(rows'[u]) \in {ImagesOf(rows[u]), {}}
      <3>1. CASE u # t
        BY <1>1, <2>1, <3>1 DEF Kept, RowOK
      <3>2. CASE u = t /\ removal.pc = "scrub"
        <4>1. rows'[u] = tasks[u] /\ rows[u] = tasks[u] /\ removal'.dead = removal.dead
          BY <1>1, <1>2, <2>1, <3>2, None DEF Kept, RowOK, Exists
        <4>2. QED
          BY <1>1, <2>1, <3>2, <4>1 DEF Kept, RowOK
      <3>3. CASE u = t /\ removal.pc = "rows"
        <4>1. rows'[u] = NoTask /\ tasks[u] = NoTask /\ u \notin removal'.dead
          BY <1>2, <2>1, <3>3 DEF Kept, RowOK
        <4>2. QED
          BY <1>1, <2>1, <3>3, <4>1, None DEF Kept, RowOK, Exists
      <3>4. QED
        BY <1>1, <3>1, <3>2, <3>3
    <2>3. removal.pc = "scrub" => (u \in removal'.dead <=> u \in removal.dead)
      BY <1>1, <1>2
    <2>4. ImagesOK(u)'
      BY <1>1, <2>1, <2>2, <2>3 DEF Kept, ImagesOK, Exists
    <2>5. StageOK(u)' /\ StoredOK(u)'
      BY <1>1, <2>1 DEF Kept, StageOK, StoredOK, Exists
    <2>6. QED
      BY <2>2, <2>4, <2>5 DEF Kept
  <1>6. QED
    BY <1>3, <1>4, <1>5 DEF PageInv

\* The list without the removed tasks, as it was read.
LEMMA FromListKeeps ==
    ASSUME TypeOK, PageInv, RemoveFromList
    PROVE  PageInv'
  <1>1. /\ UNCHANGED <<rows, images, submit, exec, partial, recovery, cleanup, crossed, start>>
        /\ removal.pc = "scrub" /\ removal'.pc = "rows" /\ tasks' = removal.snapshot
        /\ removal'.snapshot = removal.snapshot /\ removal'.images = removal.images
        /\ removal'.dead = removal.dead /\ start.pc = "ready" /\ submit = "idle"
    BY OnlyRemoving DEF RemoveFromList, async, TypeOK
  <1>2. OneAtATime' /\ CleanInv' /\ StartInv'
    BY <1>1 DEF PageInv, OneAtATime, CleanInv, StartInv, Quiet
  <1>3. ASSUME NEW u \in Tasks PROVE TaskInv(u)'
    BY <1>1 DEF PageInv, TaskInv, Own
  <1>4. ASSUME NEW u \in Tasks \ crossed' PROVE Kept(u)'
    <2>1. Kept(u)
      BY <1>1 DEF PageInv
    <2>2. /\ rows[u] = tasks[u]
          /\ tasks'[u] = IF u \in removal.dead THEN NoTask ELSE tasks[u]
      BY <1>1, <2>1 DEF Kept, RowOK
    <2>3. RowOK(u)'
      BY <1>1, <2>2 DEF RowOK
    <2>4. ImagesOK(u)'
      BY <1>1, <2>1, <2>2, None DEF Kept, ImagesOK, Exists
    <2>5. StageOK(u)'
      BY <1>1, <2>1, <2>2, None DEF Kept, StageOK, Exists
    <2>6. StoredOK(u)'
      BY <1>1, <2>1, <2>2, None DEF Kept, StoredOK, Exists
    <2>7. QED
      BY <2>3, <2>4, <2>5, <2>6 DEF Kept
  <1>5. QED
    BY <1>2, <1>3, <1>4 DEF PageInv

\* What nobody uses any more, by the list that was read.
LEMMA UnusedKeeps ==
    ASSUME TypeOK, PageInv, RemoveUnused
    PROVE  PageInv'
  <1>1. /\ UNCHANGED <<tasks, rows, images, submit, exec, partial, recovery, cleanup, crossed, start>>
        /\ removal.pc = "rows" /\ removal'.pc = "images" /\ removal.dead = {}
        /\ removal'.snapshot = removal.snapshot
        /\ removal'.images = removal.images \ Referenced(removal.snapshot, removal.attached)
        /\ removal'.dead = removal.dead /\ start.pc = "ready" /\ submit = "idle"
    BY OnlyRemoving DEF RemoveUnused, async, TypeOK
  <1>2. OneAtATime' /\ CleanInv' /\ StartInv'
    BY <1>1 DEF PageInv, OneAtATime, CleanInv, StartInv, Quiet
  <1>3. ASSUME NEW u \in Tasks PROVE TaskInv(u)'
    BY <1>1 DEF PageInv, TaskInv, Own
  <1>4. ASSUME NEW u \in Tasks \ crossed' PROVE Kept(u)'
    <2>1. Kept(u)
      BY <1>1 DEF PageInv
    <2>2. RowOK(u)'
      BY <1>1, <2>1 DEF Kept, RowOK
    <2>3. In \in removal'.images => ~tasks[u].input
      <3>1. ASSUME In \in removal'.images, tasks[u].input PROVE FALSE
        <4>1. Exists(tasks, u)
          <5>1. Own(tasks[u], u)
            BY DEF PageInv, TaskInv
          <5>2. QED
            BY <3>1, <5>1, None DEF Own, Exists
        <4>2. removal.snapshot[u].input = tasks[u].input /\ removal.snapshot[u] \in TaskRecord
          BY <1>1, <2>1, <4>1, TypedTask DEF Kept, RowOK
        <4>3. In \in ImagesOf(removal.snapshot[u]) /\ removal.attached \in BOOLEAN
          BY <3>1, <4>2, HasImage DEF TypeOK
        <4>4. In \in Referenced(removal.snapshot, removal.attached)
          BY <4>3, IsReferenced
        <4>5. QED
          BY <1>1, <3>1, <4>4
      <3>2. QED
        BY <3>1
    <2>4. ImagesOK(u)'
      BY <1>1, <2>1, <2>3 DEF Kept, ImagesOK, Exists
    <2>5. StageOK(u)' /\ StoredOK(u)'
      BY <1>1, <2>1 DEF Kept, StageOK, StoredOK, Exists
    <2>6. QED
      BY <2>2, <2>4, <2>5 DEF Kept
  <1>5. QED
    BY <1>2, <1>3, <1>4 DEF PageInv

LEMMA RemoveImageKeeps ==
    ASSUME TypeOK, PageInv, RemoveImage
    PROVE  PageInv'
  <1>1. /\ UNCHANGED <<tasks, rows, submit, exec, partial, recovery, cleanup, crossed, start>>
        /\ removal.pc = "images" /\ start.pc = "ready" /\ submit = "idle"
    BY OnlyRemoving DEF RemoveImage, async
  <1>2. \/ /\ \E image \in removal.images :
                images' = images \ {image} /\ removal'.images = removal.images \ {image}
           /\ removal'.pc = "images" /\ removal'.snapshot = removal.snapshot
        \/ images' = images /\ removal' = IdleRemoval
    <2>1. CASE \E image \in removal.images :
                 images' = images \ {image} /\ removal' = [removal EXCEPT !.images = @ \ {image}]
      BY <1>1, <2>1 DEF TypeOK
    <2>2. CASE images' = images /\ removal' = IdleRemoval
      BY <2>2
    <2>3. QED
      BY <2>1, <2>2 DEF RemoveImage
  <1>3. IdleRemoval.pc = "idle" /\ IdleRemoval.snapshot = NoTasks
    BY DEF IdleRemoval
  <1>4. OneAtATime' /\ CleanInv' /\ StartInv'
    BY <1>1, <1>2, <1>3 DEF PageInv, OneAtATime, CleanInv, StartInv, Quiet
  <1>5. ASSUME NEW u \in Tasks PROVE TaskInv(u)'
    <2>1. removal'.snapshot[u] \in {removal.snapshot[u], NoTask}
      BY <1>2, <1>3, None
    <2>2. QED
      BY <1>1, <2>1, None DEF PageInv, TaskInv, Own
  <1>6. ASSUME NEW u \in Tasks \ crossed' PROVE Kept(u)'
    <2>1. Kept(u) /\ TaskInv(u) /\ tasks[u] \in TaskRecord /\ rows[u] = tasks[u]
      BY <1>1, TypedTask DEF PageInv, Kept, RowOK
    <2>2. RowOK(u)'
      BY <1>1, <1>2, <1>3, <2>1 DEF RowOK
    <2>3. /\ Exists(tasks, u) => Out(u) \notin images \ images' /\ Part(u) \notin images \ images'
          /\ tasks[u].input => In \notin images \ images'
      BY <1>1, <1>2, <2>1 DEF Kept, ImagesOK
    <2>4. ImagesOf(tasks[u]) \subseteq images'
      <3>1. ImagesOf(tasks[u]) \subseteq images
        BY <1>1, <2>1 DEF Kept, ImagesOK
      <3>2. CASE ~Exists(tasks, u)
        <4>1. ImagesOf(tasks[u]) = {}
          BY <2>1, <3>2, None DEF TaskInv, Own, Exists
        <4>2. QED
          BY <4>1
      <3>3. CASE Exists(tasks, u)
        <4>1. ASSUME NEW i \in ImagesOf(tasks[u]) PROVE i \in images'
          <5>1. i \in {In, Out(u), Part(u)} /\ (i = In => tasks[u].input)
            BY <2>1, <4>1, HasImage, OwnImages, Names DEF TaskInv, Own
          <5>2. QED
            BY <2>3, <3>1, <3>3, <4>1, <5>1
        <4>2. QED
          BY <4>1
      <3>4. QED
        BY <3>2, <3>3
    <2>5. ImagesOK(u)'
      BY <1>1, <1>2, <1>3, <2>1, <2>4 DEF Kept, ImagesOK
    <2>6. StageOK(u)'
      BY <1>1, <2>1 DEF Kept, StageOK, Exists
    <2>7. StoredOK(u)'
      <3>1. tasks[u].status \in {"running", "error"} => Exists(tasks, u)
        BY DEF Exists
      <3>2. QED
        BY <1>1, <2>1, <2>3, <3>1 DEF Kept, StoredOK, TaskInv, Exists
    <2>8. QED
      BY <2>2, <2>5, <2>6, <2>7 DEF Kept
  <1>7. QED
    BY <1>4, <1>5, <1>6 DEF PageInv

LEMMA ClearKeeps ==
    ASSUME Orderly, TypeOK, PageInv, ClearRows \/ ClearImages
    PROVE  PageInv'
  <1>1. /\ UNCHANGED <<tasks, submit, exec, partial, recovery, cleanup, crossed, start>>
        /\ start.pc = "ready" /\ submit = "idle"
        /\ \/ /\ removal' = [IdleRemoval EXCEPT !.pc = "clear images"] /\ rows' = NoTasks
              /\ images' = images /\ removal.pc = "idle"
           \/ /\ removal.pc = "clear images" /\ removal' = [removal EXCEPT !.pc = "clear list"]
              /\ rows' = rows /\ images' = {}
    BY OnlyRemoving DEF ClearRows, ClearImages, async, UserFree, Quiet
  <1>2. /\ removal'.pc \in {"clear images", "clear list"}
        /\ removal'.snapshot = NoTasks \/ removal'.snapshot = removal.snapshot
        /\ removal.pc \in {"idle", "clear images"}
        /\ removal'.pc = "clear list" => removal.pc = "clear images" /\ rows' = rows
        /\ removal'.pc = "clear images" => images' = images /\ rows' = NoTasks
    BY <1>1 DEF TypeOK, IdleRemoval
  <1>3. OneAtATime' /\ CleanInv' /\ StartInv'
    BY <1>1, <1>2 DEF PageInv, OneAtATime, CleanInv, StartInv, Quiet
  <1>4. ASSUME NEW u \in Tasks PROVE TaskInv(u)'
    <2>1. removal'.snapshot[u] \in {NoTask, removal.snapshot[u]} /\ rows'[u] \in {NoTask, rows[u]}
      BY <1>1, <1>2, None
    <2>2. QED
      BY <1>1, <2>1, None DEF PageInv, TaskInv, Own
  <1>5. ASSUME NEW u \in Tasks \ crossed' PROVE Kept(u)'
    <2>1. Kept(u)
      BY <1>1 DEF PageInv
    <2>2. rows'[u] = NoTask
      BY <1>1, <1>2, <2>1, None DEF Kept, RowOK
    <2>3. RowOK(u)' /\ ImagesOK(u)'
      BY <1>1, <1>2, <2>1, <2>2, None DEF Kept, RowOK, ImagesOK
    <2>4. StageOK(u)' /\ StoredOK(u)'
      BY <1>1, <1>2, <2>1 DEF Kept, StageOK, StoredOK, Exists
    <2>5. QED
      BY <2>3, <2>4 DEF Kept
  <1>6. QED
    BY <1>3, <1>4, <1>5 DEF PageInv

\* The list is emptied, or becomes what the import read.
LEMMA ListKeeps ==
    ASSUME TypeOK, PageInv, ClearList \/ ImportList
    PROVE  PageInv'
  <1>1. /\ UNCHANGED <<rows, images, submit, exec, partial, recovery, cleanup, crossed, start>>
        /\ start.pc = "ready" /\ submit = "idle" /\ removal' = IdleRemoval
        /\ \/ removal.pc = "clear list" /\ tasks' = NoTasks
           \/ removal.pc = "import" /\ tasks' = removal.snapshot
    BY OnlyRemoving DEF ClearList, ImportList, async
  <1>2. removal'.pc = "idle" /\ removal'.snapshot = NoTasks
    BY <1>1 DEF IdleRemoval
  <1>3. OneAtATime' /\ CleanInv' /\ StartInv'
    BY <1>1, <1>2 DEF PageInv, OneAtATime, CleanInv, StartInv, Quiet
  <1>4. ASSUME NEW u \in Tasks PROVE TaskInv(u)'
    <2>1. removal'.snapshot[u] = NoTask /\ tasks'[u] \in {NoTask, removal.snapshot[u]}
      BY <1>1, <1>2, None
    <2>2. QED
      BY <1>1, <2>1, None DEF PageInv, TaskInv, Own
  <1>5. ASSUME NEW u \in Tasks \ crossed' PROVE Kept(u)'
    <2>1. Kept(u)
      BY <1>1 DEF PageInv
    <2>2. /\ tasks'[u] = rows[u]
          /\ \/ tasks'[u] = NoTask
             \/ tasks'[u] = tasks[u] /\ removal.pc # "clear list"
             \/ Imported(u)
      <3>1. CASE removal.pc = "clear list" /\ tasks' = NoTasks
        <4>1. tasks'[u] = NoTask
          BY <3>1, None
        <4>2. rows[u] = NoTask
          BY <2>1, <3>1 DEF Kept, RowOK
        <4>3. QED
          BY <4>1, <4>2
      <3>2. CASE removal.pc = "import" /\ tasks' = removal.snapshot
        <4>1. removal.snapshot[u] = rows[u] /\ (tasks[u] = rows[u] \/ Imported(u))
          BY <2>1, <3>2 DEF Kept, RowOK
        <4>2. QED
          BY <3>2, <4>1
      <3>3. QED
        BY <1>1, <3>1, <3>2
    <2>3. RowOK(u)' /\ ImagesOK(u)'
      BY <1>1, <1>2, <2>1, <2>2 DEF Kept, RowOK, ImagesOK
    <2>4. StageOK(u)' /\ StoredOK(u)'
      BY <1>1, <1>2, <2>1, <2>2, None DEF Kept, StageOK, StoredOK, Exists, Imported, Acting
    <2>5. QED
      BY <2>3, <2>4 DEF Kept
  <1>6. QED
    BY <1>3, <1>4, <1>5 DEF PageInv

-----------------------------------------------------------------------------
(* A reload and the start-up.                                              *)

LEMMA OnlyStarting ==
    ASSUME PageInv, start.pc # "ready"
    PROVE  removal.pc = "idle" /\ removal = IdleRemoval /\ submit = "idle"
BY DEF PageInv, OneAtATime, Quiet

LEMMA ReloadKeeps ==
    ASSUME TypeOK, PageInv, Reload
    PROVE  PageInv'
  <1>1. /\ tasks' = NoTasks /\ submit' = "idle" /\ cleanup' = {} /\ removal' = IdleRemoval
        /\ start'.pc = "read" /\ UNCHANGED <<rows, images, crossed>>
        /\ \A u \in Tasks : /\ exec'[u] = IF Exists(rows, u) THEN "gone" ELSE "idle"
                            /\ partial'[u] = NoPartial /\ recovery'[u] = "idle"
    BY DEF Reload, Started
  <1>2. removal'.pc = "idle" /\ removal'.snapshot = NoTasks /\ NoPartial.pc = "none"
    BY <1>1 DEF IdleRemoval, NoPartial
  <1>3. OneAtATime' /\ CleanInv' /\ StartInv'
    BY <1>1, <1>2 DEF OneAtATime, CleanInv, StartInv
  <1>4. ASSUME NEW u \in Tasks PROVE TaskInv(u)'
    <2>1. tasks'[u] = NoTask /\ removal'.snapshot[u] = NoTask /\ Own(NoTask, u)
      BY <1>1, <1>2, None
    <2>2. Own(rows[u], u) /\ (~Exists(rows, u) => rows[u] = NoTask)
      BY DEF PageInv, TaskInv, Own, Exists
    <2>3. QED
      BY <1>1, <1>2, <2>1, <2>2 DEF TaskInv, Own
  <1>5. ASSUME NEW u \in Tasks \ crossed' PROVE Kept(u)'
    <2>1. Kept(u)
      BY <1>1 DEF PageInv
    <2>2. tasks'[u] = NoTask
      BY <1>1, None
    <2>3. RowOK(u)' /\ ImagesOK(u)'
      BY <1>1, <1>2, <2>1, <2>2, None DEF Kept, RowOK, ImagesOK
    <2>4. StageOK(u)' /\ StoredOK(u)'
      BY <1>1, <1>2, <2>2, None DEF StageOK, StoredOK, Exists
    <2>5. QED
      BY <2>3, <2>4 DEF Kept
  <1>6. QED
    BY <1>3, <1>4, <1>5 DEF PageInv

\* What the steps of a start-up leave.
LEMMA StartFrame ==
    ASSUME PageInv, StartRead \/ StartMark \/ StartKeys \/ StartSweep
    PROVE  /\ UNCHANGED <<tasks, submit, exec, partial, recovery, cleanup, crossed, removal>>
           /\ removal.pc = "idle" /\ removal = IdleRemoval /\ submit = "idle" /\ start.pc # "ready"
BY OnlyStarting DEF StartRead, StartMark, StartKeys, StartSweep, async

LEMMA StartReadKeeps ==
    ASSUME TypeOK, PageInv, StartRead
    PROVE  PageInv'
  <1>1. /\ UNCHANGED <<tasks, rows, images, submit, exec, partial, recovery, cleanup, crossed, removal>>
        /\ removal.pc = "idle" /\ submit = "idle" /\ start.pc = "read"
        /\ start'.pc = "mark" /\ start'.snapshot = rows
    BY StartFrame DEF StartRead, TypeOK
  <1>2. OneAtATime' /\ CleanInv' /\ StartInv'
    BY <1>1 DEF PageInv, OneAtATime, CleanInv, StartInv, Quiet
  <1>3. ASSUME NEW u \in Tasks PROVE TaskInv(u)'
    BY <1>1 DEF PageInv, TaskInv, Own
  <1>4. ASSUME NEW u \in Tasks \ crossed' PROVE Kept(u)'
    BY <1>1 DEF PageInv, TaskInv, Kept, RowOK, ImagesOK, StageOK, StoredOK, Exists, Imported
  <1>5. QED
    BY <1>2, <1>3, <1>4 DEF PageInv

\* A record marked as interrupted keeps its images.
LEMMA Marked ==
    ASSUME NEW r \in TaskRecord, NEW t \in Tasks, Own(r, t), Interrupted(r)
    PROVE  /\ Own(Failed(r), t) /\ ImagesOf(Failed(r)) = ImagesOf(r)
           /\ r.status # "none" /\ r # NoTask
BY None DEF Failed, Own, ImagesOf, Interrupted, TaskRecord

LEMMA StartMarkKeeps ==
    ASSUME TypeOK, PageInv, StartMark
    PROVE  PageInv'
  <1>1. /\ UNCHANGED <<tasks, images, submit, exec, partial, recovery, cleanup, crossed, removal>>
        /\ removal.pc = "idle" /\ submit = "idle" /\ start.pc = "mark" /\ start.snapshot = rows
        /\ tasks = NoTasks
    BY StartFrame DEF StartMark, PageInv, StartInv
  <1>2. /\ start'.pc = "list" /\ start'.snapshot = Mark(rows) /\ rows' = Mark(rows)
    BY <1>1 DEF StartMark, TypeOK, Mark
  <1>3. OneAtATime' /\ CleanInv' /\ StartInv'
    BY <1>1, <1>2 DEF PageInv, OneAtATime, CleanInv, StartInv, Quiet
  <1>4. ASSUME NEW u \in Tasks
        PROVE  /\ Own(rows'[u], u) /\ ImagesOf(rows'[u]) = ImagesOf(rows[u])
               /\ rows[u] = NoTask => rows'[u] = NoTask
    <2>1. Own(rows[u], u) /\ rows[u] \in TaskRecord
      BY TypedTask DEF PageInv, TaskInv
    <2>2. rows'[u] = IF Interrupted(rows[u]) THEN Failed(rows[u]) ELSE rows[u]
      BY <1>2 DEF Mark
    <2>3. QED
      BY <2>1, <2>2, Marked
  <1>5. ASSUME NEW u \in Tasks PROVE TaskInv(u)'
    <2>1. TaskInv(u)
      BY DEF PageInv
    <2>2. QED
      BY <1>1, <1>2, <1>4, <2>1 DEF TaskInv, Own
  <1>6. ASSUME NEW u \in Tasks \ crossed' PROVE Kept(u)'
    <2>1. Kept(u) /\ TaskInv(u)
      BY <1>1 DEF PageInv
    <2>2. RowOK(u)' /\ ImagesOK(u)'
      BY <1>1, <1>2, <1>4, <2>1 DEF Kept, RowOK, ImagesOK
    <2>3. StageOK(u)' /\ StoredOK(u)'
      BY <1>1, <1>2, <2>1 DEF TaskInv, Kept, StageOK, StoredOK, Exists
    <2>4. QED
      BY <2>2, <2>3 DEF Kept
  <1>7. QED
    BY <1>3, <1>5, <1>6 DEF PageInv

\* What is listed is what the rows say, and the images of all of it are kept.
LEMMA StartListKeeps ==
    ASSUME TypeOK, PageInv, StartList
    PROVE  PageInv'
  <1>1. /\ UNCHANGED <<rows, images, attached, submit, exec, partial, cleanup, crossed, removal>>
        /\ removal.pc = "idle" /\ removal = IdleRemoval /\ submit = "idle"
        /\ start.pc = "list" /\ start.snapshot = rows /\ cleanup = {}
    BY OnlyStarting DEF StartList, PageInv, StartInv
  <1>2. tasks' = rows /\ start'.pc = "keys" /\ start'.todo = Referenced(rows, attached)
    BY <1>1 DEF StartList, TypeOK
  <1>3. ASSUME NEW u \in Tasks PROVE ImagesOf(rows[u]) \subseteq Referenced(rows, attached)
    <2>1. attached \in BOOLEAN
      BY DEF TypeOK
    <2>2. QED
      BY <1>3, <2>1, IsReferenced
  <1>4. OneAtATime' /\ CleanInv' /\ StartInv'
    BY <1>1, <1>2 DEF PageInv, OneAtATime, CleanInv, StartInv, Quiet
  <1>5. ASSUME NEW u \in Tasks
        PROVE  \/ recovery'[u] = recovery[u]
               \/ /\ recovery'[u] = "timer" /\ rows[u].request
                  /\ rows[u].status = "running" \/ rows[u].recoverable
    BY <1>1, <1>5 DEF StartList, Recoverable
  <1>6. NoTask.request = FALSE
    BY DEF NoTask, NewTask
  <1>7. ASSUME NEW u \in Tasks PROVE TaskInv(u)'
    <2>1. /\ TaskInv(u) /\ recovery[u] = "idle" /\ partial[u].pc = "none" /\ exec[u] \in {"idle", "gone"}
      BY <1>1 DEF PageInv, TaskInv
    <2>2. exec[u] = "idle" => recovery'[u] = "idle"
      BY <1>5, <1>6, <2>1 DEF TaskInv
    <2>3. QED
      BY <1>1, <1>2, <2>1, <2>2 DEF TaskInv, Own
  <1>8. ASSUME NEW u \in Tasks \ crossed' PROVE Kept(u)'
    <2>1. Kept(u) /\ TaskInv(u)
      BY <1>1 DEF PageInv
    <2>2. /\ recovery[u] = "idle" /\ partial[u].pc = "none" /\ exec[u] \in {"idle", "gone"}
          /\ exec[u] = "idle" => rows[u].parts = {}
      BY <1>1, <2>1, None DEF TaskInv
    <2>3. RowOK(u)' /\ ImagesOK(u)'
      BY <1>1, <1>2, <1>3, <2>1 DEF Kept, RowOK, ImagesOK
    <2>4. recovery'[u] # "idle" => rows[u].status # "done" /\ recovery'[u] = "timer"
      BY <1>5, <2>1, <2>2 DEF TaskInv, Own
    <2>5. StageOK(u)' /\ StoredOK(u)'
      BY <1>1, <1>2, <2>2, <2>4 DEF StageOK, StoredOK, Acting
    <2>6. QED
      BY <2>3, <2>5 DEF Kept
  <1>9. QED
    BY <1>4, <1>7, <1>8 DEF PageInv

LEMMA StartKeysKeeps ==
    ASSUME TypeOK, PageInv, StartKeys
    PROVE  PageInv'
  <1>1. /\ UNCHANGED <<tasks, rows, images, submit, exec, partial, recovery, cleanup, crossed, removal>>
        /\ removal.pc = "idle" /\ submit = "idle" /\ start.pc = "keys"
        /\ start'.pc = "sweep" /\ start'.todo = images \ start.todo
    BY StartFrame DEF StartKeys, TypeOK
  <1>2. OneAtATime' /\ CleanInv' /\ StartInv'
    BY <1>1 DEF PageInv, OneAtATime, CleanInv, StartInv, Quiet
  <1>3. ASSUME NEW u \in Tasks PROVE TaskInv(u)'
    BY <1>1 DEF PageInv, TaskInv, Own
  <1>4. ASSUME NEW u \in Tasks \ crossed' PROVE Kept(u)'
    <2>1. Kept(u)
      BY <1>1 DEF PageInv
    <2>2. RowOK(u)' /\ ImagesOK(u)'
      BY <1>1, <2>1 DEF Kept, RowOK, ImagesOK
    <2>3. StageOK(u)' /\ StoredOK(u)'
      BY <1>1, <2>1 DEF Kept, StageOK, StoredOK, Exists
    <2>4. QED
      BY <2>2, <2>3 DEF Kept
  <1>5. QED
    BY <1>2, <1>3, <1>4 DEF PageInv

LEMMA StartSweepKeeps ==
    ASSUME TypeOK, PageInv, StartSweep
    PROVE  PageInv'
  <1>1. /\ UNCHANGED <<tasks, rows, submit, exec, partial, recovery, cleanup, crossed, removal>>
        /\ removal.pc = "idle" /\ submit = "idle" /\ start.pc = "sweep"
    BY StartFrame DEF StartSweep
  <1>2. \/ start'.pc = "ready" /\ images' = images
        \/ /\ start'.pc = "sweep"
           /\ \E image \in start.todo :
                images' = images \ {image} /\ start'.todo = start.todo \ {image}
    <2>1. CASE \E image \in start.todo : /\ images' = images \ {image}
                                         /\ start' = [start EXCEPT !.todo = @ \ {image}]
      BY <1>1, <2>1 DEF TypeOK
    <2>2. CASE start' = Started /\ images' = images
      BY <2>2 DEF Started
    <2>3. QED
      BY <2>1, <2>2 DEF StartSweep
  <1>3. OneAtATime' /\ CleanInv' /\ StartInv'
    BY <1>1, <1>2 DEF PageInv, OneAtATime, CleanInv, StartInv, Quiet
  <1>4. ASSUME NEW u \in Tasks PROVE TaskInv(u)'
    BY <1>1, <1>2 DEF PageInv, TaskInv, Own
  <1>5. ASSUME NEW u \in Tasks \ crossed' PROVE Kept(u)'
    <2>1. Kept(u) /\ TaskInv(u)
      BY <1>1 DEF PageInv
    <2>2. /\ recovery[u] # "settle" /\ partial[u].pc = "none" /\ exec[u] \in {"idle", "gone"}
          /\ rows[u] = tasks[u] /\ ImagesOf(tasks[u]) \cap start.todo = {}
          /\ ImagesOf(tasks[u]) \subseteq images
      BY <1>1, <2>1 DEF TaskInv, Kept, StageOK, RowOK, ImagesOK
    <2>3. ImagesOf(tasks[u]) \subseteq images'
      BY <1>2, <2>2
    <2>4. RowOK(u)'
      BY <1>1, <1>2, <2>2 DEF RowOK
    <2>5. ImagesOK(u)'
      BY <1>1, <1>2, <2>1, <2>2, <2>3 DEF Kept, ImagesOK
    <2>6. StageOK(u)' /\ StoredOK(u)'
      BY <1>1, <2>1, <2>2 DEF Kept, StageOK, StoredOK, Exists
    <2>7. QED
      BY <2>4, <2>5, <2>6 DEF Kept
  <1>6. QED
    BY <1>3, <1>4, <1>5 DEF PageInv

-----------------------------------------------------------------------------
LEMMA InitPage == Init => PageInv
  <1> SUFFICES ASSUME Init PROVE PageInv
    OBVIOUS
  <1>1. /\ tasks = NoTasks /\ rows = NoTasks /\ removal = IdleRemoval /\ start.pc = "ready"
        /\ submit = "idle" /\ cleanup = {} /\ removal.pc = "idle" /\ removal.snapshot = NoTasks
    BY DEF Init, IdleRemoval, Started
  <1>2. OneAtATime /\ CleanInv /\ StartInv
    BY <1>1 DEF OneAtATime, CleanInv, StartInv, Quiet
  <1>3. ASSUME NEW u \in Tasks PROVE TaskInv(u) /\ Kept(u)
    <2>1. /\ exec[u] = "idle" /\ recovery[u] = "idle" /\ partial[u].pc = "none"
          /\ tasks[u] = NoTask /\ rows[u] = NoTask /\ removal.snapshot[u] = NoTask /\ Own(NoTask, u)
      BY <1>1, None DEF Init, NoPartial
    <2>2. TaskInv(u)
      BY <1>1, <2>1 DEF TaskInv
    <2>3. RowOK(u) /\ ImagesOK(u) /\ StageOK(u) /\ StoredOK(u)
      BY <1>1, <2>1, None DEF RowOK, ImagesOK, StageOK, StoredOK, Acting
    <2>4. QED
      BY <2>2, <2>3 DEF Kept
  <1>4. QED
    BY <1>2, <1>3 DEF PageInv

LEMMA StutterPage == TypeOK /\ PageInv /\ UNCHANGED vars => PageInv'
  <1> SUFFICES ASSUME TypeOK, PageInv, UNCHANGED vars PROVE PageInv'
    OBVIOUS
  <1>1. UNCHANGED <<tasks, rows, images, submit, exec, partial, recovery, cleanup, crossed,
                    removal, start>>
    BY DEF vars
  <1>2. OneAtATime' /\ CleanInv' /\ StartInv'
    BY <1>1 DEF PageInv, OneAtATime, CleanInv, StartInv, Quiet
  <1>3. ASSUME NEW u \in Tasks PROVE LeavesAlone(u)
    BY <1>1 DEF LeavesAlone
  <1>4. QED
    BY <1>1, <1>2, <1>3, AloneTask, AloneKept DEF PageInv

LEMMA NextPage == Orderly /\ TypeOK /\ PageInv /\ [Next]_vars => PageInv'
  <1> SUFFICES ASSUME Orderly, TypeOK, PageInv, [Next]_vars PROVE PageInv'
    OBVIOUS
  <1>1. CASE User
    BY <1>1, ComposerKeeps, NewTaskKeeps, RemoveStartKeeps, ClearKeeps, ImportKeeps, ReloadKeeps
       DEF User
  <1>2. CASE Removing
    BY <1>2, RowsKeep, FromListKeeps, UnusedKeeps, RemoveImageKeeps, ClearKeeps, ListKeeps
       DEF Removing
  <1>3. CASE Starting
    BY <1>3, StartReadKeeps, StartMarkKeeps, StartListKeeps, StartKeysKeeps, StartSweepKeeps
       DEF Starting
  <1>4. CASE \E t \in Tasks : Executing(t) \/ Recovering(t)
    BY <1>4, FunctionsKeep
  <1>5. CASE \E image \in Images : CleanUp(image)
    BY <1>5, CleanUpKeeps
  <1>6. CASE UNCHANGED vars
    BY <1>6, StutterPage
  <1>7. QED
    BY <1>1, <1>2, <1>3, <1>4, <1>5, <1>6 DEF Next

\* What the page shows, what IndexedDB holds and what is about to be deleted
\* stay together: the inductive invariant of a page whose user lets a removal
\* and a start-up finish, while executions and recoveries go on.
THEOREM PageHolds == Orderly => (Spec => []PageInv)
  <1>1. Orderly /\ TypeOK /\ PageInv /\ [Next]_vars => PageInv'
    BY NextPage
  <1>2. ASSUME Orderly PROVE Spec => []PageInv
    BY <1>1, <1>2, InitPage, TasksType, PTL DEF Spec
  <1>3. QED
    BY <1>2

\* Between removals, imports and start-ups the rows in IndexedDB are the list
\* on the page, for every task no function of which acted on a list that was
\* about to be replaced.  The user waits for a removal and a start-up to end;
\* answers, partial images and recoveries come at any of their steps.
THEOREM RowsHold == Orderly => (Spec => []RowsFollowList)
  <1>1. PageInv => RowsFollowList
    BY DEF PageInv, Kept, RowOK, RowsFollowList, Quiet
  <1>2. ASSUME Orderly PROVE Spec => []RowsFollowList
    BY <1>1, <1>2, PageHolds, PTL
  <1>3. QED
    BY <1>2

\* No removal, clean-up of outputs or partial images, or start-up sweep deletes
\* an image that a listed task still refers to, under the same conditions: the
\* deletions happen one by one, while the executions and recoveries go on.
THEOREM ImagesHold == Orderly => (Spec => []ReferencedImagesStored)
  <1>1. PageInv => ReferencedImagesStored
    BY DEF PageInv, Kept, ImagesOK, ReferencedImagesStored
  <1>2. ASSUME Orderly PROVE Spec => []ReferencedImagesStored
    BY <1>1, <1>2, PageHolds, PTL
  <1>3. QED
    BY <1>2

-----------------------------------------------------------------------------
(* What is settled stays. *)

Stays(t) ==
    /\ tasks[t].status = "done" => tasks'[t] \in {tasks[t], NoTask}
    /\ tasks[t].status = "error" =>
          tasks'[t].status \in {"error", "none"}
              \cup (IF recovery[t] = "settle" THEN {"done"} ELSE {})
    /\ (start.pc = "ready" /\ removal.pc # "import" /\ ~Exists(tasks, t) /\ exec[t] # "idle") =>
          ~Exists(tasks', t)

LEMMA SameStays == \A t \in Tasks : tasks'[t] \in {tasks[t], NoTask} => Stays(t)
BY None DEF Stays, Exists

\* A late step finds a finished task done and leaves it; one of a failed task
\* leaves it failed, but for its recovery.
LEMMA FunctionsStay ==
    ASSUME TypeOK, PageInv, NEW u \in Tasks, Executing(u) \/ Recovering(u),
           NEW t \in Tasks \ crossed
    PROVE  Stays(t)
  <1>1. TaskInv(u) /\ TaskInv(t) /\ Kept(t) /\ tasks[u] \in TaskRecord
    BY TypedTask DEF PageInv
  <1>2. CASE t # u
    <2>1. tasks'[t] = tasks[t]
      BY <1>1, <1>2, FunctionTouches DEF FunctionFrame, LeavesAlone
    <2>2. QED
      BY <2>1, SameStays
  <1>3. CASE t = u /\ Restates(u)
    <2>1. Restated(t)
      BY <1>3, RestatesRecord
    <2>2. exec[t] \in Acting \/ recovery[t] # "idle" => tasks[t].status # "done"
      BY <1>1 DEF Kept, StageOK
    <2>3. QED
      BY <2>1, <2>2 DEF Restated, Stays, Exists
  <1>4. CASE t = u /\ (DiscardOutputs(u) \/ RecoverDiscards(u))
    BY <1>4, SameStays DEF DiscardOutputs, RecoverDiscards
  <1>5. CASE t = u /\ Settle(u)
    BY <1>5, Updated, SameStays DEF Settle, Stays, Exists
  <1>6. CASE t = u /\ RecoverSettles(u)
    <2>1. recovery[t] = "settle" /\ tasks[t].status # "done" /\ UpdateTask(t, Delivered(tasks[t], t))
      BY <1>1, <1>6 DEF RecoverSettles, Kept, StageOK
    <2>2. Delivered(tasks[t], t).status = "done"
      BY <1>1, <1>6, DeliveredIs
    <2>3. QED
      BY <2>1, <2>2, Updated DEF Stays, Exists
  <1>7. CASE t = u /\ PartialRecorded(u)
    <2> DEFINE r == [tasks[t] EXCEPT !.parts = tasks[t].parts \cup {partial[t].image}]
    <2>1. tasks' = tasks \/ (tasks[t].status \notin {"none", "done"} /\ UpdateTask(t, r))
      BY <1>7 DEF PartialRecorded
    <2>2. r.status = tasks[t].status
      BY <1>1, <1>7 DEF TaskRecord
    <2> HIDE DEF r
    <2>3. QED
      BY <2>1, <2>2, Updated, SameStays DEF Stays, Exists
  <1>8. QED
    BY <1>2, <1>3, <1>4, <1>5, <1>6, <1>7 DEF Executing, Recovering, Restates

LEMMA NextStays ==
    ASSUME Orderly, TypeOK, PageInv, Next, NEW t \in Tasks \ crossed
    PROVE  Stays(t)
  <1>1. TaskInv(t) /\ Kept(t)
    BY DEF PageInv
  <1>2. CASE UNCHANGED tasks
    BY <1>2, SameStays
  <1>3. ASSUME NEW u \in Tasks, NEW kind, NEW input, AddTask(u, kind, input)
        PROVE  Stays(t)
    <2>1. ~Exists(tasks, u) /\ exec[u] = "idle" /\ (t # u => tasks'[t] = tasks[t])
      BY <1>3 DEF AddTask, TypeOK
    <2>2. CASE t = u
      BY <2>1, <2>2 DEF Stays, Exists
    <2>3. CASE t # u
      BY <2>1, <2>3, SameStays
    <2>4. QED
      BY <2>2, <2>3
  <1>4. CASE \/ \E u \in Tasks, kind \in Kinds : SubmitCreate(u, kind)
             \/ \E old, u \in Tasks, kind \in Kinds : RetryTask(old, u, kind)
    BY <1>3, <1>4 DEF SubmitCreate, RetryTask
  <1>5. CASE Reload \/ ClearList
    <2>1. tasks'[t] = NoTask
      BY <1>5, None DEF Reload, ClearList
    <2>2. QED
      BY <2>1, SameStays
  <1>6. CASE RemoveFromList
    <2>1. tasks'[t] \in {tasks[t], NoTask}
      BY <1>1, <1>6 DEF RemoveFromList, Kept, RowOK
    <2>2. QED
      BY <2>1, SameStays
  <1>7. CASE ImportList
    <2>1. removal.pc = "import" /\ (tasks'[t] = tasks[t] \/ tasks[t] = NoTask)
      BY <1>1, <1>7 DEF ImportList, Kept, RowOK, Imported
    <2>2. QED
      BY <2>1, SameStays, None DEF Stays
  <1>8. CASE StartList
    <2>1. start.pc = "list" /\ tasks[t] = NoTask
      BY <1>8, None DEF StartList, PageInv, StartInv
    <2>2. QED
      BY <2>1, None DEF Stays
  <1>9. CASE \E u \in Tasks : Executing(u) \/ Recovering(u)
    BY <1>9, FunctionsStay
  <1>10. CASE \/ Attach \/ Detach \/ SubmitStore \/ \E u \in Tasks : ReuseConfig(u)
              \/ \E dead \in SUBSET Tasks : RemoveStart(dead)
              \/ ClearRows
              \/ \E u \in Tasks, kind \in Kinds, input \in BOOLEAN, status \in Imports :
                   ImportData(u, kind, input, status)
    BY <1>2, <1>10 DEF Attach, Detach, SubmitStore, ReuseConfig, RemoveStart, ClearRows, ImportData
  <1>11. CASE \/ \E u \in Tasks : RemoveScrub(u) \/ RemoveRow(u)
              \/ RemoveUnused \/ RemoveImage \/ ClearImages
              \/ StartRead \/ StartMark \/ StartKeys \/ StartSweep
              \/ \E image \in Images : CleanUp(image)
    BY <1>2, <1>11 DEF RemoveScrub, RemoveRow, RemoveUnused, RemoveImage, ClearImages, StartRead,
                       StartMark, StartKeys, StartSweep, CleanUp
  <1>12. QED
    BY <1>4, <1>5, <1>6, <1>7, <1>8, <1>9, <1>10, <1>11 DEF Next, User, Removing, Starting

\* A finished task keeps its status and outputs whatever comes late, a failed
\* one is done only by its recovery, and a removed one does not return; the user
\* waits for a removal and a start-up to end, and a task is excepted once it
\* changed between two of their steps.
THEOREM SettledHolds == Orderly => (Spec => SettledStays)
  <1>1. Orderly /\ TypeOK /\ PageInv /\ [Next]_vars => [\A t \in Tasks \ crossed : Stays(t)]_vars
    BY NextStays
  <1>2. [\A t \in Tasks \ crossed : Stays(t)]_vars =>
          [\A t \in Tasks \ crossed :
             /\ tasks[t].status = "done" => tasks'[t] \in {tasks[t], NoTask}
             /\ tasks[t].status = "error" =>
                   tasks'[t].status \in {"error", "none"}
                       \cup (IF recovery[t] = "settle" THEN {"done"} ELSE {})
             /\ (start.pc = "ready" /\ removal.pc # "import" /\ ~Exists(tasks, t)
                    /\ exec[t] # "idle") => ~Exists(tasks', t)]_vars
    BY DEF Stays
  <1>3. ASSUME Orderly PROVE Spec => SettledStays
    BY <1>1, <1>2, <1>3, PageHolds, TasksType, PTL DEF Spec, SettledStays
  <1>4. QED
    BY <1>3

-----------------------------------------------------------------------------
(***************************************************************************)
(* WebThumbs: the thumbnail cache, whose entries are distinct.             *)
(***************************************************************************)
Distinct(c) == \A m, n \in 1..Len(c) : c[m] = c[n] => m = n

\* Deleting an entry leaves the others.
LEMMA WithoutIt ==
    ASSUME NEW c \in Seq(Pictures), Distinct(c), NEW i
    PROVE  LET d == Without(c, i)
           IN  /\ d \in Seq(Pictures) /\ Distinct(d) /\ Len(d) <= Len(c)
               /\ ~Contains(d, i) /\ \A j : Contains(d, j) => Contains(c, j)
  <1> DEFINE d == Without(c, i)
  <1>1. CASE ~Contains(c, i)
    BY <1>1 DEF Without
  <1>2. CASE Contains(c, i)
    <2> DEFINE n == CHOOSE m \in 1..Len(c) : c[m] = i
               s == SubSeq(c, 1, n - 1)
               t == SubSeq(c, n + 1, Len(c))
    <2>1. n \in 1..Len(c) /\ c[n] = i /\ d = s \o t
      BY <1>2 DEF Contains, Without, RemoveAt
    <2> HIDE DEF n, d
    <2>2. Len(c) \in Nat /\ \A m \in 1..Len(c) : c[m] \in Pictures
      BY ElementOfSeq, LenProperties
    <2>3. s \in Seq(Pictures) /\ Len(s) = n - 1 /\ \A m \in 1..(n - 1) : s[m] = c[m]
      <3>1. \A m \in 1..(n - 1) : c[m] \in Pictures
        BY <2>1, <2>2
      <3>2. QED
        BY <2>1, <2>2, <3>1, SubSeqProperties
    <2>4. t \in Seq(Pictures) /\ Len(t) = Len(c) - n /\ \A m \in 1..(Len(c) - n) : t[m] = c[n + m]
      <3>1. \A m \in (n + 1)..Len(c) : c[m] \in Pictures
        BY <2>1, <2>2
      <3>2. QED
        BY <2>1, <2>2, <3>1, SubSeqProperties
    <2> HIDE DEF s, t
    <2>5. /\ d \in Seq(Pictures) /\ Len(d) = Len(c) - 1
          /\ \A m \in 1..(Len(c) - 1) : d[m] = IF m < n THEN c[m] ELSE c[m + 1]
      <3>1. s \o t \in Seq(Pictures) /\ Len(s \o t) = Len(s) + Len(t)
        BY <2>3, <2>4, ConcatProperties
      <3>2. \A m \in 1..(Len(s) + Len(t)) : (s \o t)[m] = IF m <= Len(s) THEN s[m] ELSE t[m - Len(s)]
        BY <2>3, <2>4, ConcatProperties
      <3>3. QED
        BY <2>1, <2>2, <2>3, <2>4, <3>1, <3>2
    <2> DEFINE at(m) == IF m < n THEN m ELSE m + 1
    <2>10. ASSUME NEW m \in 1..Len(d)
           PROVE  at(m) \in 1..Len(c) /\ at(m) # n /\ d[m] = c[at(m)]
      <3> HIDE DEF d
      <3>1. n \in Nat /\ n \in 1..Len(c) /\ Len(c) \in Nat /\ m \in 1..(Len(c) - 1)
        BY <2>1, <2>2, <2>5
      <3>2. at(m) \in 1..Len(c) /\ at(m) # n
        BY <3>1
      <3>3. QED
        BY <2>5, <3>1, <3>2
    <2>6. Distinct(d)
      <3>1. ASSUME NEW m \in 1..Len(d), NEW l \in 1..Len(d), d[m] = d[l]
            PROVE  m = l
        <4>1. at(m) = at(l)
          <5> HIDE DEF at
          <5>1. QED
            BY <2>10, <3>1 DEF Distinct
        <4>2. QED
          BY <2>1, <2>2, <2>5, <4>1
      <3>2. QED
        BY <3>1 DEF Distinct
    <2> HIDE DEF at
    <2>7. ~Contains(d, i)
      BY <2>1, <2>10 DEF Distinct, Contains
    <2>8. \A j : Contains(d, j) => Contains(c, j)
      BY <2>10 DEF Contains
    <2>9. QED
      BY <2>2, <2>5, <2>6, <2>7, <2>8 DEF d
  <1>3. QED
    BY <1>1, <1>2

\* Caching a thumbnail adds at most its entry, and the cache stays bounded.
LEMMA CachingIt ==
    ASSUME NEW c \in Seq(Pictures), Distinct(c), NEW i \in Pictures
    PROVE  LET d == Caching(c, i)
           IN  /\ d \in Seq(Pictures) /\ Distinct(d) /\ Len(d) <= MaxCached
               /\ \A j : Contains(d, j) => j = i \/ Contains(c, j)
  <1> DEFINE w == Without(c, i)
             moved == Append(w, i)
             first == 1 + (IF Len(moved) > MaxCached THEN Len(moved) - MaxCached ELSE 0)
             d == SubSeq(moved, first, Len(moved))
  <1>1. /\ w \in Seq(Pictures) /\ Distinct(w) /\ ~Contains(w, i)
        /\ \A j : Contains(w, j) => Contains(c, j)
    BY WithoutIt
  <1> HIDE DEF w
  <1>2. /\ moved \in Seq(Pictures) /\ Len(moved) = Len(w) + 1 /\ Len(w) \in Nat
        /\ \A m \in 1..Len(w) : moved[m] = w[m]
        /\ moved[Len(w) + 1] = i
    BY <1>1, LenProperties
  <1> HIDE DEF moved
  <1>3. Distinct(moved)
    BY <1>1, <1>2 DEF Distinct, Contains
  <1>4. first \in 1..(Len(moved) + 1) /\ Len(moved) - first + 1 <= MaxCached /\ MaxCached \in Nat
    BY <1>2, WebThumbsAssumption
  <1> HIDE DEF first
  <1>5. /\ d \in Seq(Pictures) /\ Len(d) = Len(moved) - first + 1
        /\ \A m \in 1..Len(d) : d[m] = moved[first + m - 1]
    <2>1. \A m \in first..Len(moved) : moved[m] \in Pictures
      BY <1>2, <1>4, ElementOfSeq
    <2>2. QED
      BY <1>2, <1>4, <2>1, SubSeqProperties
  <1> HIDE DEF d
  <1>6. Distinct(d)
    <2>1. ASSUME NEW m \in 1..Len(d), NEW l \in 1..Len(d), d[m] = d[l]
          PROVE  m = l
      <3>1. first + m - 1 \in 1..Len(moved) /\ first + l - 1 \in 1..Len(moved)
        BY <1>2, <1>4, <1>5
      <3>2. first + m - 1 = first + l - 1
        BY <1>3, <1>5, <2>1, <3>1 DEF Distinct
      <3>3. QED
        BY <1>4, <3>2
    <2>2. QED
      BY <2>1 DEF Distinct
  <1>7. \A j : Contains(d, j) => j = i \/ Contains(c, j)
    <2>1. ASSUME NEW j, NEW m \in 1..Len(d), d[m] = j, j # i
          PROVE  Contains(w, j)
      <3>1. first + m - 1 \in 1..Len(moved) /\ moved[first + m - 1] = j
        BY <1>2, <1>4, <1>5, <2>1
      <3>2. first + m - 1 \in 1..Len(w)
        BY <1>2, <1>4, <2>1, <3>1
      <3>3. QED
        BY <1>2, <3>1, <3>2 DEF Contains
    <2>2. QED
      BY <1>1, <2>1 DEF Contains
  <1>8. Caching(c, i) = d
    BY DEF Caching, d, first, moved, w
  <1>9. QED
    BY <1>4, <1>5, <1>6, <1>7, <1>8

-----------------------------------------------------------------------------
(* The queue of the backfill. *)

\* What is cached is stored with its thumbnail.
StoreInv == /\ pictures \subseteq Pictures /\ thumbs \subseteq Pictures
            /\ cached \in Seq(Pictures) /\ Len(cached) <= MaxCached /\ Distinct(cached)
            /\ \A i \in Pictures : Cached(i) => i \in thumbs

CardsOK == /\ viewer \in [Viewers -> {"none", "reading", "gone", "waiting", "shown", "empty"}]
           /\ listeners \subseteq Viewers

\* A picture being made has a job; a picture has at most MaxJobs.
QueueInv == /\ queue \in [Pictures -> {"no", "visible", "background"}]
            /\ scheduled \in BOOLEAN
            /\ picks \in [1..MaxPicks -> SUBSET Pictures]
            /\ jobs \in [Pictures -> [reading: 0..MaxJobs, drawing: 0..MaxJobs]]
            /\ \A i \in Pictures : Jobs(i) <= MaxJobs
            /\ making \subseteq {i \in Pictures : Jobs(i) > 0}
            /\ spent \in 0..MaxBackground

\* Something that looks at the queue again.
Ahead == \/ scheduled
         \/ \E n \in 1..MaxPicks : picks[n] # {}
         \/ \E i \in Pictures : Jobs(i) > 0

\* A card that waits has its picture queued or in a job.
Served(v) == viewer[v] = "waiting" /\ Of(v) \notin thumbs => Of(v) \in Waiting \/ Jobs(Of(v)) > 0

ThumbsInv == /\ StoreInv /\ CardsOK /\ QueueInv
             /\ Waiting # {} => Ahead
             /\ \A v \in listeners : Served(v)

LEMMA ThumbsImplied == ThumbsInv => ThumbsTypeOK /\ QueueIsServed
BY DEF ThumbsInv, StoreInv, CardsOK, QueueInv, Ahead, Served, ThumbsTypeOK, QueueIsServed

LEMMA IsWaiting ==
    ASSUME QueueInv, NEW i \in Pictures
    PROVE  i \in Waiting <=> queue[i] # "no"
BY DEF QueueInv, Waiting, Queued

LEMMA Ticks ==
    ASSUME queue' \in [Pictures -> {"no", "visible", "background"}], scheduled \in BOOLEAN,
           scheduled' = Ticking(queue')
    PROVE  scheduled' \in BOOLEAN /\ (Waiting' # {} => scheduled')
BY DEF Ticking, Waiting, Queued

LEMMA InitThumbs == ThumbsInit => ThumbsInv
  <1> SUFFICES ASSUME ThumbsInit PROVE ThumbsInv
    OBVIOUS
  <1>1. StoreInv
    <2>1. cached = <<>> /\ MaxCached \in Nat
      BY WebThumbsAssumption DEF ThumbsInit
    <2>2. cached \in Seq(Pictures) /\ Len(cached) = 0 /\ 1..Len(cached) = {}
      BY <2>1
    <2>3. Distinct(cached) /\ \A i \in Pictures : ~Cached(i)
      BY <2>2 DEF Distinct, Cached, Contains
    <2>4. QED
      BY <2>1, <2>2, <2>3 DEF StoreInv, ThumbsInit
  <1>2. CardsOK /\ QueueInv
    <2>1. MaxBackground \in Nat /\ MaxJobs \in Nat /\ MaxPicks \in Nat
      BY WebThumbsAssumption
    <2>2. \A i \in Pictures : Jobs(i) = 0
      BY DEF ThumbsInit, Jobs
    <2>3. jobs \in [Pictures -> [reading: 0..MaxJobs, drawing: 0..MaxJobs]]
      BY <2>1 DEF ThumbsInit
    <2>4. CardsOK
      BY DEF ThumbsInit, CardsOK
    <2>5. queue \in [Pictures -> {"no", "visible", "background"}] /\ scheduled \in BOOLEAN
      BY DEF ThumbsInit
    <2>6. picks \in [1..MaxPicks -> SUBSET Pictures] /\ making = {} /\ spent \in 0..MaxBackground
      BY <2>1 DEF ThumbsInit
    <2>7. \A i \in Pictures : Jobs(i) <= MaxJobs
      BY <2>1, <2>2
    <2>8. QED
      BY <2>3, <2>4, <2>5, <2>6, <2>7 DEF QueueInv
  <1>3. Waiting = {} /\ listeners = {}
    BY DEF ThumbsInit, Waiting, Queued
  <1>4. QED
    BY <1>1, <1>2, <1>3 DEF ThumbsInv

\* A thumbnail that is stored is cached.
LEMMA CacheKeeps ==
    ASSUME StoreInv, NEW i \in Pictures, i \in thumbs', thumbs \subseteq thumbs',
           pictures' \subseteq Pictures, thumbs' \subseteq Pictures,
           cached' = cached \/ cached' = Caching(cached, i)
    PROVE  StoreInv'
  <1>1. cached \in Seq(Pictures) /\ Distinct(cached)
    BY DEF StoreInv
  <1>2. CASE cached' = cached
    BY <1>2 DEF StoreInv, Cached, Distinct
  <1>3. CASE cached' = Caching(cached, i)
    <2>1. /\ cached' \in Seq(Pictures) /\ Distinct(cached') /\ Len(cached') <= MaxCached
          /\ \A j : Contains(cached', j) => j = i \/ Contains(cached, j)
      BY <1>1, <1>3, CachingIt
    <2>2. QED
      BY <2>1 DEF StoreInv, Cached, Distinct
  <1>4. QED
    BY <1>2, <1>3

LEMMA SameStore == StoreInv /\ UNCHANGED <<pictures, thumbs, cached>> => StoreInv'
BY DEF StoreInv, Cached, Distinct

\* The thumbnail of a picture that is dropped may be deleted.
LEMMA DropKeeps ==
    ASSUME StoreInv, NEW i \in Pictures, cached' = Drop(i), thumbs \ {i} \subseteq thumbs',
           pictures' \subseteq Pictures, thumbs' \subseteq Pictures
    PROVE  StoreInv'
  <1>1. cached \in Seq(Pictures) /\ Distinct(cached)
    BY DEF StoreInv
  <1>2. /\ cached' \in Seq(Pictures) /\ Distinct(cached') /\ Len(cached') <= Len(cached)
        /\ ~Contains(cached', i) /\ \A j : Contains(cached', j) => Contains(cached, j)
    BY <1>1, WithoutIt DEF Drop
  <1>3. Len(cached') <= MaxCached
    <2>1. Len(cached) \in Nat /\ Len(cached') \in Nat /\ MaxCached \in Nat /\ Len(cached) <= MaxCached
      BY <1>1, <1>2, LenProperties, WebThumbsAssumption DEF StoreInv
    <2>2. QED
      BY <1>2, <2>1
  <1>4. QED
    BY <1>2, <1>3 DEF StoreInv, Cached, Distinct

\* The queue, its jobs and selections are as they were.
LEMMA SameQueue ==
    ASSUME QueueInv, UNCHANGED <<queue, scheduled, picks, making, jobs, spent>>
    PROVE  /\ QueueInv' /\ Waiting' = Waiting /\ Ahead' = Ahead
           /\ \A i \in Pictures : Jobs(i)' = Jobs(i)
BY DEF QueueInv, Waiting, Queued, Ahead, Jobs

LEMMA OfViewer == \A v \in Viewers : Of(v) \in Pictures
BY WebThumbsAssumption DEF Of

LEMMA CardKeeps ==
    ASSUME ThumbsInv, NEW v \in Viewers, Mount(v) \/ Unmount(v)
    PROVE  ThumbsInv'
  <1>1. StoreInv /\ CardsOK /\ QueueInv /\ Of(v) \in Pictures
    BY OfViewer DEF ThumbsInv
  <1>2. UNCHANGED <<pictures, thumbs, queue, scheduled, picks, making, jobs, spent>>
    BY DEF Mount, Unmount
  <1>3. StoreInv'
    <2>1. cached' = cached \/ (Cached(Of(v)) /\ cached' = Caching(cached, Of(v)))
      BY DEF Mount, Unmount
    <2>2. CASE cached' = cached
      BY <1>1, <1>2, <2>2, SameStore
    <2>3. CASE Cached(Of(v)) /\ cached' = Caching(cached, Of(v))
      <3>1. Of(v) \in thumbs /\ pictures \subseteq Pictures /\ thumbs \subseteq Pictures
        BY <1>1, <2>3 DEF StoreInv
      <3>2. QED
        BY <1>1, <1>2, <2>3, <3>1, CacheKeeps
    <2>4. QED
      BY <2>1, <2>2, <2>3
  <1>4. /\ \E s \in {"none", "reading", "gone", "shown"} : viewer' = [viewer EXCEPT ![v] = s]
        /\ listeners' = listeners \cup {v} \/ listeners' = listeners \ {v}
    BY <1>1 DEF Mount, Unmount, CardsOK
  <1>5. CardsOK' /\ viewer'[v] # "waiting" /\ \A u \in Viewers \ {v} : viewer'[u] = viewer[u]
    BY <1>1, <1>4 DEF CardsOK
  <1>6. \A u \in listeners' : Served(u)'
    <2>1. \A u \in listeners' : u = v \/ (u \in listeners /\ u \in Viewers \ {v})
      BY <1>1, <1>4 DEF CardsOK
    <2>2. ASSUME NEW u \in listeners, u \in Viewers \ {v}
          PROVE  Served(u)'
      BY <1>1, <1>2, <1>5, <2>2, SameQueue, OfViewer DEF ThumbsInv, Served
    <2>3. Served(v)'
      BY <1>5 DEF Served
    <2>4. QED
      BY <2>1, <2>2, <2>3
  <1>7. QED
    BY <1>1, <1>2, <1>3, <1>5, <1>6, SameQueue DEF ThumbsInv

\* A picture queued by a card, or in a job, is looked at.
LEMMA EnsureKeeps ==
    ASSUME ThumbsInv, NEW v \in Viewers, EnsureRead(v)
    PROVE  ThumbsInv'
  <1>1. StoreInv /\ CardsOK /\ QueueInv /\ Of(v) \in Pictures
    BY OfViewer DEF ThumbsInv
  <1>2. UNCHANGED <<pictures, thumbs, listeners, picks, making, jobs, spent>>
    BY DEF EnsureRead
  <1>3. \E s \in {"none", "shown", "waiting"} :
           viewer' = [viewer EXCEPT ![v] = s] /\ (s = "waiting" => Of(v) \notin thumbs)
    BY <1>1 DEF EnsureRead, CardsOK
  <1>4. CardsOK' /\ \A u \in Viewers \ {v} : viewer'[u] = viewer[u]
    BY <1>1, <1>2, <1>3 DEF CardsOK
  <1>5. StoreInv'
    <2>1. cached' = cached \/ (Of(v) \in thumbs /\ cached' = Caching(cached, Of(v)))
      BY DEF EnsureRead
    <2>2. CASE cached' = cached
      BY <1>1, <1>2, <2>2, SameStore
    <2>3. CASE Of(v) \in thumbs /\ cached' = Caching(cached, Of(v))
      <3>1. pictures \subseteq Pictures /\ thumbs \subseteq Pictures
        BY <1>1 DEF StoreInv
      <3>2. QED
        BY <1>1, <1>2, <2>3, <3>1, CacheKeeps
    <2>4. QED
      BY <2>1, <2>2, <2>3
  <1>6. CASE Of(v) \in thumbs
    <2>1. UNCHANGED <<queue, scheduled>>
      BY <1>6 DEF EnsureRead
    <2>2. \A u \in listeners' : Served(u)'
      <3>1. ASSUME NEW u \in listeners', u # v PROVE Served(u)'
        BY <1>1, <1>2, <1>4, <2>1, <3>1, SameQueue, OfViewer DEF ThumbsInv, Served, CardsOK
      <3>2. Served(v)'
        BY <1>2, <1>6 DEF Served
      <3>3. QED
        BY <3>1, <3>2
    <2>3. QED
      BY <1>1, <1>2, <1>4, <1>5, <2>1, <2>2, SameQueue DEF ThumbsInv
  <1>7. CASE Of(v) \notin thumbs
    <2>1. QueueVisible(Of(v)) /\ ~Cached(Of(v))
      BY <1>1, <1>7 DEF EnsureRead, StoreInv
    <2>2. /\ queue' = IF Of(v) \in making THEN queue ELSE [queue EXCEPT ![Of(v)] = "visible"]
          /\ scheduled' = Ticking(queue')
      BY <2>1 DEF QueueVisible
    <2>3. /\ queue' \in [Pictures -> {"no", "visible", "background"}]
          /\ \A i \in Pictures : queue[i] # "no" => queue'[i] # "no"
          /\ Of(v) \in making \/ queue'[Of(v)] # "no"
      BY <1>1, <2>2 DEF QueueInv
    <2>4. scheduled' \in BOOLEAN /\ (Waiting' # {} => scheduled')
      BY <1>1, <2>2, <2>3, Ticks DEF QueueInv
    <2>5. QueueInv' /\ \A i \in Pictures : Jobs(i)' = Jobs(i)
      BY <1>1, <1>2, <2>3, <2>4 DEF QueueInv, Jobs
    <2>6. \A i \in Pictures : i \in Waiting => i \in Waiting'
      BY <1>1, <2>3 DEF QueueInv, Waiting, Queued
    <2>7. ASSUME NEW u \in listeners' PROVE Served(u)'
      <3>1. u \in listeners /\ u \in Viewers /\ Of(u) \in Pictures
        BY <1>1, <1>2, OfViewer DEF CardsOK
      <3>2. CASE u # v
        BY <1>2, <1>4, <2>5, <2>6, <3>1, <3>2 DEF ThumbsInv, Served
      <3>3. CASE u = v
        <4>1. Jobs(Of(v)) > 0 \/ queue'[Of(v)] # "no"
          BY <1>1, <2>3 DEF QueueInv
        <4>2. Jobs(Of(v))' > 0 \/ Of(v) \in Waiting'
          BY <1>1, <2>3, <2>5, <4>1 DEF Waiting, Queued
        <4>3. QED
          BY <3>3, <4>2 DEF Served
      <3>4. QED
        BY <3>2, <3>3
    <2>8. QED
      BY <1>4, <1>5, <2>4, <2>5, <2>7 DEF ThumbsInv, Ahead
  <1>8. QED
    BY <1>6, <1>7

LEMMA BackgroundKeeps ==
    ASSUME ThumbsInv, Background
    PROVE  ThumbsInv'
  <1>1. StoreInv /\ CardsOK /\ QueueInv
    BY DEF ThumbsInv
  <1>2. UNCHANGED <<pictures, thumbs, cached, viewer, listeners, picks, making, jobs, spent>>
    BY DEF Background
  <1>3. /\ scheduled' = Ticking(queue')
        /\ \E T : queue' = [i \in Pictures |-> IF i \in T THEN "background" ELSE queue[i]]
    BY DEF Background, QueueBackground
  <1>4. /\ queue' \in [Pictures -> {"no", "visible", "background"}]
        /\ \A i \in Pictures : queue[i] # "no" => queue'[i] # "no"
    BY <1>1, <1>3 DEF QueueInv
  <1>5. scheduled' \in BOOLEAN /\ (Waiting' # {} => scheduled')
    BY <1>1, <1>3, <1>4, Ticks DEF QueueInv
  <1>6. QueueInv' /\ \A i \in Pictures : Jobs(i)' = Jobs(i)
    BY <1>1, <1>2, <1>4, <1>5 DEF QueueInv, Jobs
  <1>7. \A i \in Pictures : i \in Waiting => i \in Waiting'
    BY <1>1, <1>4 DEF QueueInv, Waiting, Queued
  <1>8. CardsOK' /\ \A v \in listeners' : Served(v)'
    BY <1>1, <1>2, <1>6, <1>7, OfViewer DEF ThumbsInv, Served, CardsOK
  <1>9. QED
    BY <1>1, <1>2, <1>5, <1>6, <1>8, SameStore DEF ThumbsInv, Ahead

\* A tick that ends leaves a job, or selects from the queue, or finds it empty.
LEMMA TickKeeps ==
    ASSUME ThumbsInv, Tick
    PROVE  ThumbsInv'
  <1>1. StoreInv /\ CardsOK /\ QueueInv
    BY DEF ThumbsInv
  <1>2. UNCHANGED <<pictures, thumbs, cached, viewer, listeners, queue, making, jobs, spent>>
    BY DEF Tick
  <1>3. Waiting' = Waiting /\ \A i \in Pictures : Jobs(i)' = Jobs(i)
    BY <1>2 DEF Waiting, Queued, Jobs
  <1>4. \/ making # {} /\ scheduled' = FALSE /\ picks' = picks
        \/ scheduled' = (Waiting # {}) /\ picks' = picks
        \/ \E n \in 1..MaxPicks, C \in Candidates :
             C # {} /\ picks' = [picks EXCEPT ![n] = C] /\ scheduled' = FALSE
    BY DEF Tick
  <1>5. \A C \in Candidates : C \subseteq Pictures
    BY DEF Candidates, Queued
  <1>6. /\ scheduled' \in BOOLEAN /\ picks' \in [1..MaxPicks -> SUBSET Pictures]
        /\ scheduled' \/ Waiting = {} \/ making # {} \/ \E n \in 1..MaxPicks : picks'[n] # {}
    BY <1>1, <1>4, <1>5 DEF QueueInv
  <1>7. QueueInv'
    BY <1>1, <1>2, <1>3, <1>6 DEF QueueInv
  <1>8. Waiting' # {} => Ahead'
    BY <1>1, <1>3, <1>6 DEF QueueInv, Ahead
  <1>9. CardsOK' /\ \A v \in listeners' : Served(v)'
    BY <1>1, <1>2, <1>3, OfViewer DEF ThumbsInv, Served, CardsOK
  <1>10. QED
    BY <1>1, <1>2, <1>7, <1>8, <1>9, SameStore DEF ThumbsInv

\* What was selected leaves the queue for a job, or has its thumbnail already.
LEMMA PickedKeeps ==
    ASSUME ThumbsInv, NEW n \in 1..MaxPicks, Picked(n)
    PROVE  ThumbsInv'
  <1>1. StoreInv /\ CardsOK /\ QueueInv
    BY DEF ThumbsInv
  <1>2. UNCHANGED <<pictures, thumbs, cached, viewer, listeners>>
    BY DEF Picked
  <1>3. PICK S \in SUBSET picks[n] :
           /\ \A i \in S : Jobs(i) < MaxJobs
           /\ queue' = [i \in Pictures |-> IF i \in S THEN "no" ELSE queue[i]]
           /\ making' = (making \cup S) \ {i \in S : Cached(i)}
           /\ jobs' = [i \in Pictures |-> IF i \in S /\ ~Cached(i)
                                          THEN [jobs[i] EXCEPT !.reading = @ + 1] ELSE jobs[i]]
           /\ \E k \in 0..Cardinality(S \ Queued("visible")) :
                spent' = IF spent + k > MaxBackground THEN MaxBackground ELSE spent + k
    BY DEF Picked
  <1>4. picks' = [picks EXCEPT ![n] = {}] /\ scheduled' = Ticking(queue')
    BY DEF Picked
  <1>5. S \subseteq Pictures /\ MaxJobs \in Nat /\ MaxBackground \in Nat
    BY <1>1, WebThumbsAssumption DEF QueueInv
  <1>6. /\ queue' \in [Pictures -> {"no", "visible", "background"}]
        /\ \A i \in Pictures : queue'[i] = IF i \in S THEN "no" ELSE queue[i]
    BY <1>1, <1>3 DEF QueueInv
  <1>7. scheduled' \in BOOLEAN /\ (Waiting' # {} => scheduled')
    BY <1>1, <1>4, <1>6, Ticks DEF QueueInv
  <1>8. ASSUME NEW i \in Pictures
        PROVE  /\ jobs'[i] \in [reading: 0..MaxJobs, drawing: 0..MaxJobs] /\ Jobs(i)' <= MaxJobs
               /\ Jobs(i)' >= Jobs(i) /\ (i \in S /\ ~Cached(i) => Jobs(i)' > 0)
    <2>1. jobs[i] \in [reading: 0..MaxJobs, drawing: 0..MaxJobs] /\ Jobs(i) <= MaxJobs
      BY <1>1 DEF QueueInv
    <2>2. jobs[i].reading \in 0..MaxJobs /\ jobs[i].drawing \in 0..MaxJobs
      BY <2>1
    <2>3. CASE i \in S /\ ~Cached(i)
      <3>1. jobs'[i] = [jobs[i] EXCEPT !.reading = jobs[i].reading + 1] /\ Jobs(i) < MaxJobs
        BY <1>3, <2>3
      <3>2. jobs'[i].reading = jobs[i].reading + 1 /\ jobs'[i].drawing = jobs[i].drawing
        BY <2>1, <3>1
      <3>3. jobs[i].reading + 1 \in 0..MaxJobs
        BY <1>5, <2>2, <3>1 DEF Jobs
      <3>4. jobs'[i] \in [reading: 0..MaxJobs, drawing: 0..MaxJobs]
        BY <2>1, <3>1, <3>3
      <3>5. QED
        BY <1>5, <2>2, <3>1, <3>2, <3>4 DEF Jobs
    <2>4. CASE ~(i \in S /\ ~Cached(i))
      <3>1. jobs'[i] = jobs[i]
        BY <1>3, <2>4
      <3>2. QED
        BY <1>5, <2>1, <2>2, <2>4, <3>1 DEF Jobs
    <2>5. QED
      BY <2>3, <2>4
  <1>9. spent' \in 0..MaxBackground
    <2>1. PICK k \in 0..Cardinality(S \ Queued("visible")) :
             spent' = IF spent + k > MaxBackground THEN MaxBackground ELSE spent + k
      BY <1>3
    <2>2. spent \in 0..MaxBackground /\ k \in Int /\ k >= 0
      BY <1>1, <2>1 DEF QueueInv
    <2>3. QED
      BY <1>5, <2>1, <2>2
  <1>10. QueueInv'
    <2>1. jobs' \in [Pictures -> [reading: 0..MaxJobs, drawing: 0..MaxJobs]]
      BY <1>3, <1>8
    <2>2. making' \subseteq {i \in Pictures : Jobs(i)' > 0}
      <3>1. ASSUME NEW i \in making' PROVE i \in Pictures /\ Jobs(i)' > 0
        <4>1. i \in Pictures /\ (i \in S => ~Cached(i)) /\ (i \notin S => i \in making)
          BY <1>1, <1>3, <1>5, <3>1 DEF QueueInv
        <4>2. jobs[i].reading \in Nat /\ jobs[i].drawing \in Nat /\ (i \notin S => Jobs(i) > 0)
          BY <1>1, <4>1 DEF QueueInv
        <4>3. jobs'[i].reading \in Nat /\ jobs'[i].drawing \in Nat
          BY <1>8, <4>1
        <4>4. QED
          BY <1>8, <4>1, <4>2, <4>3 DEF Jobs
      <3>2. QED
        BY <3>1
    <2>3. picks' \in [1..MaxPicks -> SUBSET Pictures]
      BY <1>1, <1>4 DEF QueueInv
    <2>4. QED
      BY <1>6, <1>7, <1>8, <1>9, <2>1, <2>2, <2>3 DEF QueueInv
  <1>11. ASSUME NEW v \in listeners' PROVE Served(v)'
    <2>1. v \in listeners /\ v \in Viewers /\ Of(v) \in Pictures
      BY <1>1, <1>2, OfViewer DEF CardsOK
    <2>2. Cached(Of(v)) => Of(v) \in thumbs
      BY <1>1, <2>1 DEF StoreInv
    <2>3. Of(v) \in S /\ Of(v) \notin thumbs => Jobs(Of(v))' > 0
      BY <1>8, <2>1, <2>2
    <2>4. Of(v) \in Waiting /\ Of(v) \notin S => Of(v) \in Waiting'
      BY <1>6, <2>1 DEF Waiting, Queued
    <2>5. Jobs(Of(v)) > 0 => Jobs(Of(v))' > 0
      <3>1. jobs[Of(v)].reading \in Nat /\ jobs[Of(v)].drawing \in Nat
        BY <1>1, <2>1 DEF QueueInv
      <3>2. jobs'[Of(v)].reading \in Nat /\ jobs'[Of(v)].drawing \in Nat
        BY <1>8, <2>1
      <3>3. QED
        BY <1>8, <2>1, <3>1, <3>2 DEF Jobs
    <2>6. QED
      BY <1>2, <2>1, <2>3, <2>4, <2>5 DEF ThumbsInv, Served
  <1>12. CardsOK'
    BY <1>1, <1>2 DEF CardsOK
  <1>13. QED
    BY <1>1, <1>2, <1>7, <1>10, <1>11, <1>12, SameStore DEF ThumbsInv, Ahead

\* The end of a job looks at the queue.
LEMMA EndKeeps ==
    ASSUME QueueInv, NEW i \in Pictures, NEW stage \in {"reading", "drawing"}, jobs[i][stage] > 0,
           JobEnds(i, stage), UNCHANGED <<queue, picks, spent>>
    PROVE  /\ QueueInv' /\ Waiting' = Waiting /\ (Waiting' # {} => Ahead')
           /\ \A j \in Pictures \ {i} : Jobs(j)' = Jobs(j)
  <1>1. /\ jobs' = [jobs EXCEPT ![i][stage] = @ - 1] /\ making' = making \ {i}
        /\ scheduled' = Ticking(queue')
    BY DEF JobEnds, Ticking
  <1>2. /\ jobs[i] \in [reading: 0..MaxJobs, drawing: 0..MaxJobs] /\ Jobs(i) <= MaxJobs /\ MaxJobs \in Nat
        /\ jobs \in [Pictures -> [reading: 0..MaxJobs, drawing: 0..MaxJobs]]
    BY WebThumbsAssumption DEF QueueInv
  <1>3. /\ jobs'[i] \in [reading: 0..MaxJobs, drawing: 0..MaxJobs] /\ Jobs(i)' <= MaxJobs
        /\ jobs' = [jobs EXCEPT ![i] = jobs'[i]]
    <2>1. jobs[i].reading \in 0..MaxJobs /\ jobs[i].drawing \in 0..MaxJobs
      BY <1>2
    <2>2. CASE stage = "reading"
      <3>1. jobs' = [jobs EXCEPT ![i] = [jobs[i] EXCEPT !.reading = jobs[i].reading - 1]]
        BY <1>1, <2>2
      <3>2. jobs'[i] = [jobs[i] EXCEPT !.reading = jobs[i].reading - 1]
        BY <1>2, <3>1
      <3>3. jobs[i].reading - 1 \in 0..MaxJobs
        BY <1>2, <2>1, <2>2
      <3>4. jobs'[i].reading = jobs[i].reading - 1 /\ jobs'[i].drawing = jobs[i].drawing
        BY <1>2, <3>2
      <3>5. jobs'[i] \in [reading: 0..MaxJobs, drawing: 0..MaxJobs]
        BY <1>2, <3>2, <3>3
      <3>6. QED
        BY <1>2, <2>1, <3>1, <3>2, <3>4, <3>5 DEF Jobs
    <2>3. CASE stage = "drawing"
      <3>1. jobs' = [jobs EXCEPT ![i] = [jobs[i] EXCEPT !.drawing = jobs[i].drawing - 1]]
        BY <1>1, <2>3
      <3>2. jobs'[i] = [jobs[i] EXCEPT !.drawing = jobs[i].drawing - 1]
        BY <1>2, <3>1
      <3>3. jobs[i].drawing - 1 \in 0..MaxJobs
        BY <1>2, <2>1, <2>3
      <3>4. jobs'[i].drawing = jobs[i].drawing - 1 /\ jobs'[i].reading = jobs[i].reading
        BY <1>2, <3>2
      <3>5. jobs'[i] \in [reading: 0..MaxJobs, drawing: 0..MaxJobs]
        BY <1>2, <3>2, <3>3
      <3>6. QED
        BY <1>2, <2>1, <3>1, <3>2, <3>4, <3>5 DEF Jobs
    <2>4. QED
      BY <2>2, <2>3
  <1>4. \A j \in Pictures \ {i} : jobs'[j] = jobs[j] /\ Jobs(j)' = Jobs(j)
    BY <1>2, <1>3 DEF Jobs
  <1>5. queue' \in [Pictures -> {"no", "visible", "background"}]
    BY DEF QueueInv
  <1>6. scheduled' \in BOOLEAN /\ (Waiting' # {} => scheduled')
    BY <1>1, <1>5, Ticks DEF QueueInv
  <1>7. jobs' \in [Pictures -> [reading: 0..MaxJobs, drawing: 0..MaxJobs]]
    BY <1>2, <1>3
  <1>8. making' \subseteq {j \in Pictures : Jobs(j)' > 0}
    BY <1>1, <1>4 DEF QueueInv
  <1>9. QueueInv'
    BY <1>3, <1>4, <1>5, <1>6, <1>7, <1>8 DEF QueueInv
  <1>10. QED
    BY <1>4, <1>6, <1>9 DEF Waiting, Queued, Ahead

\* A job that ends has told every card that waits for its picture.
LEMMA EndedServes ==
    ASSUME ThumbsInv, NEW i \in Pictures, StoreInv', CardsOK', QueueInv', Waiting' = Waiting,
           Waiting' # {} => Ahead', \A j \in Pictures \ {i} : Jobs(j)' = Jobs(j),
           thumbs \subseteq thumbs', listeners' = listeners,
           \A v \in listeners : \/ viewer'[v] # "waiting"
                                \/ Of(v) # i /\ viewer'[v] = viewer[v]
    PROVE  ThumbsInv'
  <1>1. ASSUME NEW v \in listeners PROVE Served(v)'
    <2>1. v \in Viewers /\ Of(v) \in Pictures
      BY OfViewer DEF ThumbsInv, CardsOK
    <2>2. CASE viewer'[v] # "waiting"
      BY <2>2 DEF Served
    <2>3. CASE Of(v) # i /\ viewer'[v] = viewer[v]
      BY <2>1, <2>3 DEF ThumbsInv, Served
    <2>4. QED
      BY <2>2, <2>3
  <1>2. QED
    BY <1>1 DEF ThumbsInv

LEMMA Announced ==
    ASSUME CardsOK, NEW i \in Pictures, Announce(i), listeners' = listeners
    PROVE  /\ CardsOK' /\ cached' = Caching(cached, i)
           /\ \A v \in listeners : \/ viewer'[v] # "waiting"
                                   \/ Of(v) # i /\ viewer'[v] = viewer[v]
BY DEF Announce, CardsOK

LEMMA GivenUp ==
    ASSUME CardsOK, NEW i \in Pictures, GiveUp(i), listeners' = listeners
    PROVE  /\ CardsOK' /\ cached' = cached
           /\ \A v \in listeners : \/ viewer'[v] # "waiting"
                                   \/ Of(v) # i /\ viewer'[v] = viewer[v]
BY DEF GiveUp, CardsOK

LEMMA JobKeeps ==
    ASSUME ThumbsInv, NEW i \in Pictures, JobReads(i) \/ JobDraws(i) \/ JobFails(i)
    PROVE  ThumbsInv'
  <1>1. StoreInv /\ CardsOK /\ QueueInv /\ pictures \subseteq Pictures /\ thumbs \subseteq Pictures
    BY DEF ThumbsInv, StoreInv
  <1>2. CASE JobReads(i) /\ i \in thumbs
    <2>1. /\ jobs[i]["reading"] > 0 /\ Announce(i) /\ JobEnds(i, "reading")
          /\ UNCHANGED <<pictures, thumbs, listeners, queue, picks, spent>>
      BY <1>2 DEF JobReads
    <2>2. StoreInv'
      BY <1>1, <1>2, <2>1, Announced, CacheKeeps
    <2>3. QED
      BY <1>1, <2>1, <2>2, Announced, EndKeeps, EndedServes
  <1>3. CASE JobReads(i) /\ i \notin thumbs /\ i \notin pictures
    <2>1. /\ jobs[i]["reading"] > 0 /\ GiveUp(i) /\ JobEnds(i, "reading")
          /\ UNCHANGED <<pictures, thumbs, listeners, queue, picks, spent>>
      BY <1>3 DEF JobReads
    <2>2. StoreInv'
      BY <1>1, <2>1, GivenUp, SameStore
    <2>3. QED
      BY <1>1, <2>1, <2>2, GivenUp, EndKeeps, EndedServes
  <1>4. CASE JobReads(i) /\ i \notin thumbs /\ i \in pictures
    <2>1. /\ jobs[i].reading > 0
          /\ jobs' = [jobs EXCEPT ![i] = [reading |-> jobs[i].reading - 1, drawing |-> jobs[i].drawing + 1]]
          /\ UNCHANGED <<pictures, thumbs, cached, viewer, listeners, queue, scheduled, picks, making, spent>>
      BY <1>4 DEF JobReads
    <2>2. jobs[i] \in [reading: 0..MaxJobs, drawing: 0..MaxJobs] /\ Jobs(i) <= MaxJobs /\ MaxJobs \in Nat
      BY <1>1, WebThumbsAssumption DEF QueueInv
    <2>3. jobs[i].reading \in 0..MaxJobs /\ jobs[i].drawing \in 0..MaxJobs
      BY <2>2
    <2>4. jobs[i].reading - 1 \in 0..MaxJobs /\ jobs[i].drawing + 1 \in 0..MaxJobs
      BY <2>1, <2>2, <2>3 DEF Jobs
    <2>5. jobs' \in [Pictures -> [reading: 0..MaxJobs, drawing: 0..MaxJobs]]
      BY <1>1, <2>1, <2>4 DEF QueueInv
    <2>6. ASSUME NEW j \in Pictures PROVE Jobs(j)' = Jobs(j)
      <3>1. CASE j = i
        <4>1. jobs'[i] = [reading |-> jobs[i].reading - 1, drawing |-> jobs[i].drawing + 1]
          BY <1>1, <2>1 DEF QueueInv
        <4>2. QED
          BY <2>3, <3>1, <4>1 DEF Jobs
      <3>2. CASE j # i
        BY <1>1, <2>1, <3>2 DEF QueueInv, Jobs
      <3>3. QED
        BY <3>1, <3>2
    <2>7. QueueInv' /\ Waiting' = Waiting
      BY <1>1, <2>1, <2>5, <2>6 DEF QueueInv, Waiting, Queued
    <2>8. Ahead <=> Ahead'
      BY <2>1, <2>6 DEF Ahead
    <2>9. CardsOK' /\ \A v \in listeners' : Served(v)'
      BY <1>1, <2>1, <2>6, <2>7, OfViewer DEF ThumbsInv, Served, CardsOK
    <2>10. QED
      BY <1>1, <2>1, <2>7, <2>8, <2>9, SameStore DEF ThumbsInv
  <1>5. CASE JobDraws(i)
    <2>1. /\ jobs[i]["drawing"] > 0 /\ Announce(i) /\ JobEnds(i, "drawing")
          /\ thumbs' = thumbs \cup {i} /\ pictures' \in {pictures, pictures \cup {i}}
          /\ UNCHANGED <<listeners, queue, picks, spent>>
      BY <1>5 DEF JobDraws
    <2>2. StoreInv'
      BY <1>1, <2>1, Announced, CacheKeeps
    <2>3. QED
      BY <1>1, <2>1, <2>2, Announced, EndKeeps, EndedServes
  <1>6. CASE JobFails(i)
    <2>1. /\ jobs[i]["drawing"] > 0 /\ GiveUp(i) /\ JobEnds(i, "drawing")
          /\ UNCHANGED <<pictures, thumbs, listeners, queue, picks, spent>>
      BY <1>6 DEF JobFails
    <2>2. StoreInv'
      BY <1>1, <2>1, GivenUp, SameStore
    <2>3. QED
      BY <1>1, <2>1, <2>2, GivenUp, EndKeeps, EndedServes
  <1>7. QED
    BY <1>2, <1>3, <1>4, <1>5, <1>6

\* A picture that is forgotten has no listener, one that is deleted no card.
LEMMA PictureKeeps ==
    ASSUME ThumbsInv, NEW i \in Pictures, StorePicture(i) \/ Forget(i) \/ DeletePicture(i)
    PROVE  ThumbsInv'
  <1>1. StoreInv /\ CardsOK /\ QueueInv /\ pictures \subseteq Pictures /\ thumbs \subseteq Pictures
    BY DEF ThumbsInv, StoreInv
  <1>2. CASE StorePicture(i)
    <2>1. /\ UNCHANGED <<cached, viewer, listeners, queue, scheduled, picks, making, jobs, spent>>
          /\ pictures' \subseteq Pictures /\ thumbs' \subseteq Pictures /\ thumbs \subseteq thumbs'
      BY <1>1, <1>2 DEF StorePicture
    <2>2. StoreInv'
      BY <1>1, <2>1 DEF StoreInv, Cached, Distinct
    <2>3. CardsOK' /\ \A v \in listeners' : Served(v)'
      BY <1>1, <2>1, SameQueue, OfViewer DEF ThumbsInv, Served, CardsOK
    <2>4. QED
      BY <1>1, <2>1, <2>2, <2>3, SameQueue DEF ThumbsInv
  <1>3. CASE Forget(i)
    <2>1. /\ cached' = Drop(i) /\ queue' = [queue EXCEPT ![i] = "no"] /\ making' = making \ {i}
          /\ listeners' = {v \in listeners : Of(v) # i}
          /\ pictures' \subseteq Pictures /\ thumbs' \subseteq Pictures /\ thumbs \ {i} \subseteq thumbs'
          /\ UNCHANGED <<viewer, scheduled, picks, jobs, spent>>
      BY <1>1, <1>3 DEF Forget
    <2>2. StoreInv'
      BY <1>1, <2>1, DropKeeps
    <2>3. QueueInv' /\ \A j \in Pictures : Jobs(j)' = Jobs(j)
      BY <1>1, <2>1 DEF QueueInv, Jobs
    <2>4. /\ \A j \in Pictures \ {i} : j \in Waiting => j \in Waiting'
          /\ Waiting' # {} => Waiting # {}
      BY <1>1, <2>1 DEF QueueInv, Waiting, Queued
    <2>5. Ahead => Ahead'
      BY <2>1, <2>3 DEF Ahead
    <2>6. CardsOK'
      BY <1>1, <2>1 DEF CardsOK
    <2>7. ASSUME NEW v \in listeners' PROVE Served(v)'
      <3>1. v \in listeners /\ Of(v) \in Pictures \ {i}
        BY <1>1, <2>1, OfViewer DEF CardsOK
      <3>2. QED
        BY <2>1, <2>3, <2>4, <3>1 DEF ThumbsInv, Served
    <2>8. QED
      BY <2>2, <2>3, <2>4, <2>5, <2>6, <2>7 DEF ThumbsInv
  <1>4. CASE DeletePicture(i)
    <2>1. /\ cached' = Drop(i) /\ thumbs' = thumbs \ {i} /\ pictures' = pictures \ {i}
          /\ \A v \in Viewers : Of(v) = i => viewer[v] \in {"none", "gone"}
          /\ UNCHANGED <<viewer, listeners, queue, scheduled, picks, making, jobs, spent>>
      BY <1>4 DEF DeletePicture
    <2>2. StoreInv'
      BY <1>1, <2>1, DropKeeps
    <2>3. ASSUME NEW v \in listeners' PROVE Served(v)'
      <3>1. v \in listeners /\ v \in Viewers /\ Of(v) \in Pictures
        BY <1>1, <2>1, OfViewer DEF CardsOK
      <3>2. CASE Of(v) = i
        BY <2>1, <3>1, <3>2 DEF Served
      <3>3. CASE Of(v) # i
        BY <1>1, <2>1, <3>1, <3>3, SameQueue DEF ThumbsInv, Served
      <3>4. QED
        BY <3>2, <3>3
    <2>4. CardsOK'
      BY <1>1, <2>1 DEF CardsOK
    <2>5. QED
      BY <1>1, <2>1, <2>2, <2>3, <2>4, SameQueue DEF ThumbsInv
  <1>5. QED
    BY <1>2, <1>3, <1>4

LEMMA NextThumbs == ThumbsInv /\ [ThumbsNext]_thumbVars => ThumbsInv'
  <1> SUFFICES ASSUME ThumbsInv, [ThumbsNext]_thumbVars PROVE ThumbsInv'
    OBVIOUS
  <1>1. CASE ThumbsNext
    BY <1>1, CardKeeps, EnsureKeeps, BackgroundKeeps, TickKeeps, PickedKeeps, JobKeeps, PictureKeeps
       DEF ThumbsNext
  <1>2. CASE UNCHANGED thumbVars
    <2>1. UNCHANGED <<pictures, thumbs, cached, viewer, listeners, queue, scheduled, picks, making,
                      jobs, spent>>
      BY <1>2 DEF thumbVars
    <2>2. StoreInv /\ CardsOK /\ QueueInv
      BY DEF ThumbsInv
    <2>3. CardsOK' /\ \A v \in listeners' : Served(v)'
      BY <2>1, <2>2, SameQueue, OfViewer DEF ThumbsInv, Served, CardsOK
    <2>4. QED
      BY <2>1, <2>2, <2>3, SameStore, SameQueue DEF ThumbsInv
  <1>3. QED
    BY <1>1, <1>2

\* No wakeup of the backfill is lost, for any number of pictures, cards and
\* jobs: while a picture is queued something will look at the queue, and a card
\* that waits has its picture queued or in a job; the variables keep their
\* types and the cache its bound.
THEOREM ThumbsHold == ThumbsSpec => [](ThumbsTypeOK /\ QueueIsServed)
  <1>1. ThumbsSpec => []ThumbsInv
    BY InitThumbs, NextThumbs, PTL DEF ThumbsSpec
  <1>2. QED
    BY <1>1, ThumbsImplied, PTL

-----------------------------------------------------------------------------
(***************************************************************************)
(* The two together, as the run checks them.                               *)
(***************************************************************************)

\* A step of the run is a step of one of the two and leaves the other alone,
\* so that what holds of each alone holds of the run.
LEMMA RunFollowsBoth == TasksSpec => Spec /\ ThumbsSpec
  <1>1. TasksInit => Init /\ ThumbsInit
    BY DEF TasksInit
  <1>2. [TasksNext]_<<focus, vars, thumbVars>> => [Next]_vars /\ [ThumbsNext]_thumbVars
    BY DEF TasksNext
  <1> QED
    BY <1>1, <1>2, PTL DEF TasksSpec, Spec, ThumbsSpec

\* The tasks of the page and the queue, jobs and cache of their thumbnails keep
\* their types under everything the page does (store.ts).
THEOREM TasksTypesHold == TasksSpec => []TasksTypeOK
  <1>1. TypeOK /\ ThumbsTypeOK /\ QueueIsServed => TasksTypeOK
    BY DEF TasksTypeOK
  <1> QED
    BY <1>1, RunFollowsBoth, TasksType, ThumbsHold, PTL

\* What the run checks in every state of the two.
RunKeeps == ReferencedImagesStored /\ RowsFollowList /\ QueueIsServed

\* What the run checks of the two together: images in use are stored, the
\* database follows the list, a task that is settled stays so, and a queue of
\* thumbnails is looked at again (store.ts).
THEOREM TasksRunHolds == Orderly => (TasksSpec => []RunKeeps /\ SettledStays)
<1> SUFFICES ASSUME Orderly
             PROVE  TasksSpec => []RunKeeps /\ SettledStays
  OBVIOUS
<1>1. Spec => []ReferencedImagesStored /\ []RowsFollowList /\ SettledStays
  BY ImagesHold, RowsHold, SettledHolds
<1>2. ReferencedImagesStored /\ RowsFollowList /\ QueueIsServed => RunKeeps
  BY DEF RunKeeps
<1> QED
  BY <1>1, <1>2, ThumbsHold, RunFollowsBoth, PTL

=============================================================================
