-------------------------- MODULE WebPanelsProofs ---------------------------
(***************************************************************************)
(* What the panels and windows of the web client promise, one component    *)
(* after the other: each theorem is about the component's own              *)
(* specification (the profiles have theirs in WebProfilesProofs).  The end *)
(* of the module proves the types of all their variables and, with them,   *)
(* what the run of MCWebPanels checks of the panels together.              *)
(***************************************************************************)
EXTENDS MCWebPanels, WebProfilesProofs, FiniteSetTheorems, SequenceTheorems,
        TLAPS

-----------------------------------------------------------------------------
(***************************************************************************)
(* The scope in the settings was complete in the draft until another       *)
(* setting is committed under an incomplete one: proved for every server,  *)
(* every sample scope and every number of moves.                           *)
(***************************************************************************)

\* A function on the levels.
Scoped(s) == s = [l \in Level |-> s[l]]

\* A reading has the fields of one, and what it completes is a scope.
Readable(r) == DOMAIN r = {"pc", "base", "next", "lists"} /\ Scoped(r.next)

\* Inductive: the settings' scope and the recorded ones are complete, a complete
\* draft is recorded or is what the settings have, and what is read will be a
\* scope.
ScopeInv ==
    /\ \A s \in wholes \cup {stored} : Whole(s) /\ Scoped(s)
    /\ Scoped(drafted)
    /\ Whole(drafted) => drafted \in wholes \cup {stored}
    /\ Readable(reading)

\* What a step does to the recorded scopes: the settings keep theirs, or get one.
WasWhole == stored \in wholes => stored' \in wholes'

-----------------------------------------------------------------------------
(* The operators on scopes *)

\* normalizeSettings leaves a complete scope as it is.
LEMMA FilledWhole ==
    ASSUME NEW s, Whole(s), Scoped(s)
    PROVE  Filled(s) = s
<1>1. \A l \in Level : s[l] # NoId
  BY DEF Whole
<1>2. Filled(s) = [l \in Level |-> s[l]]
  BY <1>1 DEF Filled
<1> QED
  BY <1>2 DEF Scoped

\* Filling gives complete scopes, choosing gives scopes.
LEMMA FilledScoped == \A s : Scoped(Filled(s)) /\ Whole(Filled(s))
<1>1. \A l \in Level : Sample[l] # NoId
  BY WebManagedAssumption DEF WebManagedAssumption, Level, NoId
<1> QED
  BY <1>1 DEF Filled, Scoped, Whole

LEMMA ChosenScoped == \A s, l, id : Scoped(Chosen(s, l, id))
BY DEF Chosen, Scoped

LEMMA LoadingReadable == \A s : Scoped(s) => Readable(Loading(s))
BY DEF Loading, Readable

-----------------------------------------------------------------------------
(* What the handlers share *)

\* Drafting a scope keeps everything but the settings and the reading.
LEMMA DraftsKeeps ==
    ASSUME NEW s, ScopeInv, Scoped(s), Drafts(s)
    PROVE  /\ wholes \subseteq wholes'
           /\ \A x \in wholes' : Whole(x) /\ Scoped(x)
           /\ Scoped(drafted')
           /\ Whole(drafted') => drafted' \in wholes'
           /\ drafted' = s
BY DEF ScopeInv, Drafts

LEMMA CommitIfCompleteKeeps ==
    ASSUME NEW s, NEW rest, ScopeInv, Scoped(s), Readable(rest), CommitIfComplete(s, rest)
    PROVE  ScopeInv' /\ WasWhole
<1>1. Drafts(s)
  BY DEF CommitIfComplete
<1>2. /\ wholes \subseteq wholes'
      /\ \A x \in wholes' : Whole(x) /\ Scoped(x)
      /\ Scoped(drafted')
      /\ Whole(drafted') => drafted' \in wholes'
      /\ drafted' = s
  BY <1>1, DraftsKeeps
<1>3. Readable(reading')
  BY LoadingReadable DEF CommitIfComplete, ScopeInv
<1>4. stored' = stored \/ stored' \in wholes'
  BY <1>2 DEF CommitIfComplete
<1> QED
  BY <1>2, <1>3, <1>4 DEF ScopeInv, WasWhole

-----------------------------------------------------------------------------
(* The scope is recorded at the start and after every step. *)

LEMMA InitScopeInv ==
    ASSUME ManagedInit
    PROVE  ScopeInv
<1>1. Sample = [l \in Level |-> Sample[l]] /\ \A l \in Level : Sample[l] # NoId
  BY WebManagedAssumption DEF WebManagedAssumption, Level, NoId
<1>2. Whole(Sample) /\ Scoped(Sample)
  BY <1>1 DEF Whole, Scoped
<1> QED
  BY <1>2 DEF ManagedInit, ScopeInv, Readable, NotLoading

\* A scope that is drafted while the settings stay as they are.
LEMMA DraftedKeeps ==
    ASSUME NEW s, ScopeInv, Scoped(s), Drafts(s), stored' = stored, Readable(reading')
    PROVE  ScopeInv' /\ WasWhole
<1>1. /\ wholes \subseteq wholes' /\ drafted' = s
      /\ \A x \in wholes' : Whole(x) /\ Scoped(x)
      /\ Scoped(drafted')
      /\ Whole(drafted') => drafted' \in wholes'
  BY DraftsKeeps
<1> QED
  BY <1>1 DEF ScopeInv, WasWhole

\* The answer for one level goes on with a scope, or drafts or commits it.
LEMMA AnswerKeeps ==
    ASSUME ScopeInv, NEW l, Answer(l)
    PROVE  ScopeInv' /\ WasWhole
<1> DEFINE found == Children(l, reading.next)
           next  == IF reading.next[l] \in found THEN reading.next
                    ELSE Chosen(reading.next, l, First(found))
<1>1. Scoped(next)
  BY ChosenScoped DEF ScopeInv, Readable
<1>2. Sample = [m \in Level |-> Sample[m]]
  BY WebManagedAssumption DEF WebManagedAssumption, Level
<1>3. Readable(NotLoading)
  BY <1>2 DEF Readable, NotLoading, Scoped
<1> HIDE DEF found, next
<1>4. CASE l # "c"
  <2>1. /\ reading' = [reading EXCEPT !.pc = IF l = "w" THEN "p" ELSE "c",
                                      !.next = next, !.lists = reading.lists \cup found]
        /\ UNCHANGED <<stored, drafted, wholes>>
    BY <1>4 DEF Answer, found, next
  <2>2. Readable(reading')
    BY <2>1, <1>1 DEF ScopeInv, Readable
  <2> QED
    BY <2>1, <2>2 DEF ScopeInv, WasWhole
<1>5. CASE l = "c" /\ next # reading.base
  <2>1. CommitIfComplete(next, NotLoading)
    BY <1>5 DEF Answer, found, next
  <2> QED
    BY <2>1, <1>1, <1>3, CommitIfCompleteKeeps
<1>6. CASE l = "c" /\ next = reading.base
  <2>1. Drafts(next) /\ reading' = NotLoading /\ stored' = stored
    BY <1>6 DEF Answer, found, next
  <2> QED
    BY <2>1, <1>1, <1>3, DraftedKeeps
<1> QED
  BY <1>4, <1>5, <1>6

\* A creation that completes the scope commits what it drafts.
LEMMA CreatedKeeps == ScopeInv /\ Created => ScopeInv' /\ WasWhole
<1> SUFFICES ASSUME ScopeInv, Created PROVE ScopeInv' /\ WasWhole
  OBVIOUS
<1> DEFINE l == LevelOf(creating.id)
           s == Chosen(creating.base, l, creating.id)
<1>1. Scoped(s)
  BY ChosenScoped
<1>2. /\ Drafts(s) /\ reading' = Loading(s)
      /\ (stored' = s /\ Whole(s)) \/ stored' = stored
  BY DEF Created
<1> HIDE DEF s, l
<1>3. Readable(reading')
  BY <1>1, <1>2, LoadingReadable
<1>4. /\ wholes \subseteq wholes' /\ drafted' = s
      /\ \A x \in wholes' : Whole(x) /\ Scoped(x)
      /\ Scoped(drafted')
      /\ Whole(drafted') => drafted' \in wholes'
  BY <1>1, <1>2, DraftsKeeps
<1> QED
  BY <1>2, <1>3, <1>4 DEF ScopeInv, WasWhole

\* A commit of the whole draft records nothing: what it gives the settings was
\* recorded when the draft was complete, or was theirs.
LEMMA CommitOtherKeeps ==
    ASSUME ScopeInv, CommitOther
    PROVE  ScopeInv' /\ (Whole(drafted) => WasWhole)
<1>1. /\ drafted' = Filled(drafted) /\ stored' = Filled(drafted) /\ wholes' = wholes
      /\ reading' \in {reading, Loading(Filled(drafted))}
  BY DEF CommitOther, Commit
<1>2. Scoped(Filled(drafted)) /\ Whole(Filled(drafted))
  BY FilledScoped
<1>3. Readable(reading')
  BY <1>1, <1>2, LoadingReadable DEF ScopeInv
<1>4. Whole(drafted) => Filled(drafted) = drafted /\ drafted \in wholes \cup {stored}
  BY FilledWhole DEF ScopeInv
<1> QED
  BY <1>1, <1>2, <1>3, <1>4 DEF ScopeInv, WasWhole

\* The only handler that gives the settings a scope nobody completed is a commit
\* of another setting.
LEMMA StepScopeInv ==
    ASSUME ScopeInv, [ManagedNext]_managedVars
    PROVE  ScopeInv' /\ (WasWhole \/ (CommitOther /\ ~Whole(drafted)))
<1>1. CASE OpenSettings
  <2>1. drafted' = stored /\ stored' = stored /\ wholes' = wholes /\ reading' = Loading(stored)
    BY <1>1 DEF OpenSettings
  <2>2. Scoped(stored)
    BY DEF ScopeInv
  <2>3. Readable(reading')
    BY <2>1, <2>2, LoadingReadable
  <2> QED
    BY <2>1, <2>2, <2>3 DEF ScopeInv, WasWhole
<1>2. CASE CloseSettings
  <2>1. Preserved(drafted) \in wholes \cup {stored}
    BY DEF ScopeInv, Preserved
  <2>2. Filled(Preserved(drafted)) = Preserved(drafted)
    BY <2>1, FilledWhole DEF ScopeInv
  <2>3. /\ stored' = Preserved(drafted) /\ drafted' = stored'
        /\ wholes' = wholes /\ reading' = reading
    BY <1>2, <2>2 DEF CloseSettings
  <2> QED
    BY <2>1, <2>3 DEF ScopeInv, WasWhole
<1>3. CASE CommitOther
  BY <1>3, CommitOtherKeeps
<1>4. CASE BlurScopeId
  <2>1. CommitIfComplete(drafted, reading)
    BY <1>4 DEF BlurScopeId
  <2> QED
    BY <2>1, CommitIfCompleteKeeps DEF ScopeInv
<1>5. CASE Refresh
  <2>1. Readable(reading')
    BY <1>5, LoadingReadable DEF Refresh, ScopeInv
  <2> QED
    BY <1>5, <2>1 DEF Refresh, ScopeInv, WasWhole
<1>6. ASSUME NEW id \in served, ChooseParent(id) PROVE ScopeInv' /\ WasWhole
  <2> DEFINE s == Chosen(drafted, LevelOf(id), id)
  <2>1. Scoped(s)
    BY ChosenScoped
  <2>2. Drafts(s) /\ reading' = Loading(s) /\ stored' = stored
    BY <1>6 DEF ChooseParent
  <2> HIDE DEF s
  <2> QED
    BY <2>1, <2>2, LoadingReadable, DraftedKeeps
<1>7. ASSUME NEW id \in served, ChooseCampaign(id) PROVE ScopeInv' /\ WasWhole
  <2>1. CommitIfComplete(Chosen(drafted, "c", id), reading)
    BY <1>7 DEF ChooseCampaign
  <2> QED
    BY <2>1, ChosenScoped, CommitIfCompleteKeeps DEF ScopeInv
<1>8. ASSUME NEW l \in Level, NEW id, TypeScopeId(l, id) PROVE ScopeInv' /\ WasWhole
  <2> DEFINE s == Chosen(drafted, l, id)
  <2>1. Scoped(s)
    BY ChosenScoped
  <2>2. Drafts(s) /\ reading' = reading /\ stored' = stored
    BY <1>8 DEF TypeScopeId
  <2> HIDE DEF s
  <2> QED
    BY <2>1, <2>2, DraftedKeeps DEF ScopeInv
<1>9. ASSUME NEW l \in Level, Answer(l) PROVE ScopeInv' /\ WasWhole
  BY <1>9, AnswerKeeps
<1>10. CASE ReadingFails
  <2>1. Readable(NotLoading)
    BY WebManagedAssumption DEF WebManagedAssumption, Level, Readable, NotLoading, Scoped
  <2> QED
    BY <1>10, <2>1 DEF ReadingFails, ScopeInv, WasWhole
<1>11. CASE Created
  BY <1>11, CreatedKeeps
<1>12. CASE \/ \E id \in Creatable : StartCreate(id)
            \/ CreateFails
            \/ UNCHANGED managedVars
  BY <1>12 DEF StartCreate, CreateFails, managedVars, ScopeInv, WasWhole
<1> QED
  BY <1>1, <1>2, <1>3, <1>4, <1>5, <1>6, <1>7, <1>8, <1>9, <1>10, <1>11, <1>12
     DEF ManagedNext

\* Whatever the user does and the server answers, only a commit of another
\* setting under an incomplete draft gives the settings of the window a scope
\* completed with ids of the sample: no reading, choice, creation or closing does
\* (commitSettings, commitManagedScopeIfComplete and
\* preservePersistedManagedScopeIfIncomplete of SettingsModal.tsx).
THEOREM OnlyThatCommitFills == ManagedSpec => OnlyCommitsFill
<1>1. ManagedInit => ScopeInv
  BY InitScopeInv
<1>2. ScopeInv /\ [ManagedNext]_managedVars => ScopeInv'
  BY StepScopeInv
<1>3. ScopeInv /\ [ManagedNext]_managedVars
        => [ScopeWasWhole /\ ~ScopeWasWhole' => CommitOther /\ ~Whole(drafted)]_managedVars
  BY StepScopeInv DEF WasWhole, ScopeWasWhole
<1> QED
  BY <1>1, <1>2, <1>3, PTL DEF ManagedSpec, OnlyCommitsFill

-----------------------------------------------------------------------------
(***************************************************************************)
(* Every mark of a review has the request that will settle it: proved for  *)
(* any assets, any number of reviews and of requests under way.            *)
(***************************************************************************)

\* The shape of what the argument looks at.
MarksInv ==
    /\ pending \in [Panels -> [Images -> RowStatus \cup {"none"}]]
    /\ \E F : calls \in [CallSlots -> F]
    /\ \A k \in CallSlots : calls[k] = [pc |-> calls[k].pc, panel |-> calls[k].panel,
                                        image |-> calls[k].image, next |-> calls[k].next]

\* A request that is under way for an asset in a panel.
Awaits(k, p, a) == calls[k].pc # "free" /\ calls[k].panel = p /\ calls[k].image = a

Marked(p, a) == pending[p][a] # "none" \/ (p = "production" /\ a \in held)

ReviewInv == MarksInv /\ PendingIsAwaited

-----------------------------------------------------------------------------
LEMMA Rephrased ==
    PendingIsAwaited <=> \A p \in Panels, a \in Images : Marked(p, a) => \E k \in CallSlots : Awaits(k, p, a)
BY DEF PendingIsAwaited, Marked, Awaits

\* A step that keeps the requests and adds no mark keeps the invariant.
LEMMA NoNewMark ==
    ASSUME ReviewInv, UNCHANGED calls,
           pending' \in [Panels -> [Images -> RowStatus \cup {"none"}]],
           \A p \in Panels, a \in Images : Marked(p, a)' => Marked(p, a)
    PROVE  ReviewInv'
<1>1. MarksInv'
  BY DEF ReviewInv, MarksInv
<1>2. \A k, p, a : Awaits(k, p, a)' <=> Awaits(k, p, a)
  BY DEF Awaits
<1>3. \A p \in Panels, a \in Images : Marked(p, a)' => \E k \in CallSlots : Awaits(k, p, a)'
  BY <1>2, Rephrased DEF ReviewInv
<1>4. PendingIsAwaited'
  BY <1>3 DEF PendingIsAwaited, Marked, Awaits
<1> QED
  BY <1>1, <1>4 DEF ReviewInv

LEMMA NothingMarked ==
    ASSUME ReviewInv, UNCHANGED <<calls, pending, held>>
    PROVE  ReviewInv'
<1>1. pending' \in [Panels -> [Images -> RowStatus \cup {"none"}]]
  BY DEF ReviewInv, MarksInv
<1>2. \A p \in Panels, a \in Images : Marked(p, a)' => Marked(p, a)
  BY DEF Marked
<1> QED
  BY <1>1, <1>2, NoNewMark

-----------------------------------------------------------------------------
\* The finally block takes away both marks of the asset with the request.
LEMMA SettledKeeps ==
    ASSUME ReviewInv, NEW k \in CallSlots, calls[k].pc # "free", Settled(k)
    PROVE  ReviewInv'
<1> DEFINE q == calls[k].panel
           b == calls[k].image
<1>1. pending' = [pending EXCEPT ![q][b] = "none"]
  BY DEF Settled
<1>2. held' = IF q = "production" THEN held \ {b} ELSE held
  BY DEF Settled
<1>3. calls' = [calls EXCEPT ![k] = NoCall]
  BY DEF Settled
<1> HIDE DEF q, b
<1>4. MarksInv'
  <2>1. pending' \in [Panels -> [Images -> RowStatus \cup {"none"}]]
    BY <1>1 DEF ReviewInv, MarksInv
  <2>2. \E F : calls' \in [CallSlots -> F]
    <3>1. PICK F : calls \in [CallSlots -> F]
      BY DEF ReviewInv, MarksInv
    <3>2. calls' \in [CallSlots -> F \cup {NoCall}]
      BY <3>1, <1>3
    <3> QED
      BY <3>2
  <2>3. \A j \in CallSlots : calls'[j] = IF j = k THEN NoCall ELSE calls[j]
    BY <1>3 DEF ReviewInv, MarksInv
  <2>4. \A j \in CallSlots :
           calls'[j] = [pc |-> calls'[j].pc, panel |-> calls'[j].panel,
                        image |-> calls'[j].image, next |-> calls'[j].next]
    BY <2>3 DEF ReviewInv, MarksInv, NoCall
  <2> QED
    BY <2>1, <2>2, <2>4 DEF MarksInv
<1>5. ASSUME NEW p \in Panels, NEW a \in Images, Marked(p, a)'
      PROVE  \E j \in CallSlots : Awaits(j, p, a)'
  <2>1. ~(p = q /\ a = b) /\ Marked(p, a)
    BY <1>1, <1>2, <1>5 DEF Marked, ReviewInv, MarksInv
  <2>2. PICK j \in CallSlots : Awaits(j, p, a)
    BY <2>1, Rephrased DEF ReviewInv
  <2>3. j # k
    BY <2>1, <2>2 DEF Awaits, q, b
  <2>4. calls'[j] = calls[j]
    BY <1>3, <2>3 DEF ReviewInv, MarksInv
  <2>5. Awaits(j, p, a)'
    BY <2>2, <2>4 DEF Awaits
  <2> QED
    BY <2>5
<1>6. PendingIsAwaited'
  BY <1>5 DEF PendingIsAwaited, Marked, Awaits
<1> QED
  BY <1>4, <1>6 DEF ReviewInv

\* A review sets the marks and takes a free request.
LEMMA ReviewKeeps ==
    ASSUME ReviewInv, NEW q \in Panels, NEW b \in Images, NEW next \in RowStatus,
           Review(q, b, next)
    PROVE  ReviewInv'
<1>1. PICK k \in CallSlots :
        /\ calls[k].pc = "free"
        /\ calls' = [calls EXCEPT ![k] = [pc |-> "sent", panel |-> q, image |-> b, next |-> next]]
  BY DEF Review
<1>2. pending' = [pending EXCEPT ![q][b] = next]
  BY DEF Review
<1>3. held' = IF q = "production" THEN held \cup {b} ELSE held
  BY DEF Review
<1> DEFINE new == [pc |-> "sent", panel |-> q, image |-> b, next |-> next]
<1>4. \A j \in CallSlots : calls'[j] = IF j = k THEN new ELSE calls[j]
  BY <1>1 DEF ReviewInv, MarksInv
<1>5. new.pc = "sent" /\ new.panel = q /\ new.image = b /\ new.next = next
  OBVIOUS
<1>6. new = [pc |-> new.pc, panel |-> new.panel, image |-> new.image, next |-> new.next]
  OBVIOUS
<1>7. \E F : calls' \in [CallSlots -> F]
  <2>1. PICK F : calls \in [CallSlots -> F]
    BY DEF ReviewInv, MarksInv
  <2>2. calls' \in [CallSlots -> F \cup {new}]
    BY <2>1, <1>1
  <2> QED
    BY <2>2
<1> HIDE DEF new
<1>8. MarksInv'
  <2>1. pending' \in [Panels -> [Images -> RowStatus \cup {"none"}]]
    BY <1>2 DEF ReviewInv, MarksInv
  <2>2. \A j \in CallSlots :
           calls'[j] = [pc |-> calls'[j].pc, panel |-> calls'[j].panel,
                        image |-> calls'[j].image, next |-> calls'[j].next]
    BY <1>4, <1>6 DEF ReviewInv, MarksInv
  <2> QED
    BY <2>1, <1>7, <2>2 DEF MarksInv
<1>9. ASSUME NEW p \in Panels, NEW a \in Images, Marked(p, a)'
      PROVE  \E j \in CallSlots : Awaits(j, p, a)'
  <2>1. CASE p = q /\ a = b
    <3>1. Awaits(k, p, a)'
      BY <2>1, <1>4, <1>5 DEF Awaits
    <3> QED
      BY <3>1
  <2>2. CASE ~(p = q /\ a = b)
    <3>1. Marked(p, a)
      BY <2>2, <1>2, <1>3, <1>9 DEF Marked, ReviewInv, MarksInv
    <3>2. PICK j \in CallSlots : Awaits(j, p, a)
      BY <3>1, Rephrased DEF ReviewInv
    <3>3. j # k
      BY <3>2, <1>1 DEF Awaits
    <3>4. Awaits(j, p, a)'
      BY <3>2, <3>3, <1>4 DEF Awaits
    <3> QED
      BY <3>4
  <2> QED
    BY <2>1, <2>2
<1>10. PendingIsAwaited'
  BY <1>9 DEF PendingIsAwaited, Marked, Awaits
<1> QED
  BY <1>8, <1>10 DEF ReviewInv

\* The server's answer leaves the request under way.
LEMMA ServedKeeps ==
    ASSUME ReviewInv, NEW k \in CallSlots, ReviewServed(k)
    PROVE  ReviewInv'
<1>1. /\ calls[k].pc = "sent"
      /\ calls' = [calls EXCEPT ![k].pc = "served"]
      /\ pending' = pending /\ held' = held
  BY DEF ReviewServed
<1>2. calls[k] = [pc |-> calls[k].pc, panel |-> calls[k].panel,
                  image |-> calls[k].image, next |-> calls[k].next]
  BY DEF ReviewInv, MarksInv
<1>3. \A j \in CallSlots :
        calls'[j] = IF j = k THEN [pc |-> "served", panel |-> calls[k].panel,
                                   image |-> calls[k].image, next |-> calls[k].next]
                    ELSE calls[j]
  BY <1>1, <1>2 DEF ReviewInv, MarksInv
<1>4. \E F : calls' \in [CallSlots -> F]
  <2>1. PICK F : calls \in [CallSlots -> F]
    BY DEF ReviewInv, MarksInv
  <2>2. calls' \in [CallSlots -> F \cup {[calls[k] EXCEPT !.pc = "served"]}]
    BY <2>1, <1>1
  <2> QED
    BY <2>2
<1>5. MarksInv'
  BY <1>1, <1>3, <1>4 DEF ReviewInv, MarksInv
<1>6. \A j, p, a : j \in CallSlots /\ Awaits(j, p, a) => Awaits(j, p, a)'
  BY <1>1, <1>3 DEF Awaits
<1>7. ASSUME NEW p \in Panels, NEW a \in Images, Marked(p, a)'
      PROVE  \E j \in CallSlots : Awaits(j, p, a)'
  <2>1. Marked(p, a)
    BY <1>1, <1>7 DEF Marked
  <2> QED
    BY <2>1, <1>6, Rephrased DEF ReviewInv
<1>8. PendingIsAwaited'
  BY <1>7 DEF PendingIsAwaited, Marked, Awaits
<1> QED
  BY <1>5, <1>8 DEF ReviewInv

-----------------------------------------------------------------------------
LEMMA InitReviewInv ==
    ASSUME ReviewsInit
    PROVE  ReviewInv
<1>1. pending \in [Panels -> [Images -> RowStatus \cup {"none"}]]
  BY DEF ReviewsInit, NonePending
<1>2. calls \in [CallSlots -> {NoCall}] /\ \A k \in CallSlots : calls[k] = NoCall
  BY DEF ReviewsInit
<1>3. MarksInv
  <2>1. NoCall = [pc |-> NoCall.pc, panel |-> NoCall.panel, image |-> NoCall.image,
                  next |-> NoCall.next]
    BY DEF NoCall
  <2>2. \E F : calls \in [CallSlots -> F]
    BY <1>2
  <2> QED
    BY <1>1, <1>2, <2>1, <2>2 DEF MarksInv
<1>4. PendingIsAwaited
  BY DEF ReviewsInit, NonePending, PendingIsAwaited
<1> QED
  BY <1>3, <1>4 DEF ReviewInv

LEMMA NextReviewInv == ReviewInv /\ [ReviewsNext]_reviewVars => ReviewInv'
<1> SUFFICES ASSUME ReviewInv, [ReviewsNext]_reviewVars
             PROVE  ReviewInv'
  OBVIOUS
<1>1. ASSUME NEW p \in Panels, ReadPanel(p) \/ ReadServed(p) \/ ReadEnds(p)
      PROVE  ReviewInv'
  BY <1>1, NothingMarked DEF ReadPanel, ReadServed, ReadEnds, ReviewsStay
<1>2. ASSUME NEW p \in Panels, NEW a \in Images, NEW next \in RowStatus, Review(p, a, next)
      PROVE  ReviewInv'
  BY <1>2, ReviewKeeps
<1>3. CASE SetFilters \/ Regenerate \/ Regenerated \/ RegenerateFails
  BY <1>3, NothingMarked DEF SetFilters, Regenerate, Regenerated, RegenerateFails, ReviewsStay
<1>4. CASE ClearFilters
  <2>1. UNCHANGED <<calls, pending>> /\ held' = {}
    BY <1>4 DEF ClearFilters
  <2>2. \A p \in Panels, a \in Images : Marked(p, a)' => Marked(p, a)
    BY <2>1 DEF Marked
  <2> QED
    BY <2>1, <2>2, NoNewMark DEF ReviewInv, MarksInv
<1>5. CASE Reseed
  <2>1. UNCHANGED calls /\ held' = {} /\ pending' = [pending EXCEPT !["production"] = NonePending]
    BY <1>5 DEF Reseed
  <2>2. pending' \in [Panels -> [Images -> RowStatus \cup {"none"}]]
    BY <2>1 DEF ReviewInv, MarksInv, NonePending
  <2>3. \A p \in Panels, a \in Images : Marked(p, a)' => Marked(p, a)
    BY <2>1 DEF Marked, ReviewInv, MarksInv, NonePending
  <2> QED
    BY <2>1, <2>2, <2>3, NoNewMark
<1>6. ASSUME NEW k \in CallSlots, ReviewServed(k)
      PROVE  ReviewInv'
  BY <1>6, ServedKeeps
<1>7. ASSUME NEW k \in CallSlots, Reviewed(k) \/ ReviewFails(k)
      PROVE  ReviewInv'
  <2>1. calls[k].pc # "free" /\ Settled(k)
    BY <1>7 DEF Reviewed, ReviewFails
  <2> QED
    BY <2>1, SettledKeeps
<1>8. CASE UNCHANGED reviewVars
  BY <1>8, NothingMarked DEF reviewVars
<1> QED
  BY <1>1, <1>2, <1>3, <1>4, <1>5, <1>6, <1>7, <1>8 DEF ReviewsNext

\* Whatever fails, is cleared or is opened anew, an asset shown as being saved
\* has its review under way (handleReviewAsset, selectAsset and their finally
\* blocks).
THEOREM MarksAreAwaited == ReviewsSpec => []PendingIsAwaited
<1>1. ReviewInv => PendingIsAwaited
  BY DEF ReviewInv
<1> QED
  BY InitReviewInv, NextReviewInv, <1>1, PTL DEF ReviewsSpec

-----------------------------------------------------------------------------
(***************************************************************************)
(* A clean-up runs for the scope that was previewed: proved for every tree *)
(* of scopes and any number of actions of the user and of others.          *)
(***************************************************************************)

\* A scope has three levels.
Levelled(s) == s = [w |-> s.w, p |-> s.p, c |-> s.c]

\* The clean-up's state has its fields.
CleanupFields(x) == x = [busy |-> x.busy, asked |-> x.asked, token |-> x.token, phrase |-> x.phrase]

PreviewInv == Levelled(chosen) /\ CleanupFields(cleanup) /\ CleanupIsPreviewed

-----------------------------------------------------------------------------
LEMMA LevelledPaths ==
    /\ Levelled(NoPath)
    /\ \A s, x : Levelled(s) => /\ Levelled([s EXCEPT !.w = x])
                                /\ Levelled([s EXCEPT !.p = x])
                                /\ Levelled([s EXCEPT !.c = x])
                                /\ \A y : Levelled([s EXCEPT !.p = x, !.c = y])
<1>1. Levelled(NoPath)
  BY DEF Levelled, NoPath
<1>2. ASSUME NEW s, NEW x, Levelled(s)
      PROVE  /\ Levelled([s EXCEPT !.w = x])
             /\ Levelled([s EXCEPT !.p = x])
             /\ Levelled([s EXCEPT !.c = x])
  <2> DEFINE a == s.w  b == s.p  d == s.c
  <2>1. s = [w |-> a, p |-> b, c |-> d]
    BY <1>2 DEF Levelled
  <2> HIDE DEF a, b, d
  <2>2. [s EXCEPT !.w = x] = [w |-> x, p |-> b, c |-> d]
    BY <2>1
  <2>3. [s EXCEPT !.p = x] = [w |-> a, p |-> x, c |-> d]
    BY <2>1
  <2>4. [s EXCEPT !.c = x] = [w |-> a, p |-> b, c |-> x]
    BY <2>1
  <2> QED
    BY <2>2, <2>3, <2>4 DEF Levelled
<1>3. ASSUME NEW s, NEW x, NEW y, Levelled(s)
      PROVE  Levelled([s EXCEPT !.p = x, !.c = y])
  <2> DEFINE t == [s EXCEPT !.p = x]
  <2>1. Levelled(t)
    BY <1>2, <1>3
  <2>2. [s EXCEPT !.p = x, !.c = y] = [t EXCEPT !.c = y]
    OBVIOUS
  <2> HIDE DEF t
  <2> QED
    BY <1>2, <2>1, <2>2
<1> QED
  BY <1>1, <1>2, <1>3

\* What is selected completely is the selection.
LEMMA SelectedIsChosen ==
    ASSUME Levelled(chosen), Complete(Selected)
    PROVE  Selected = chosen
<1>1. Selected.w = chosen.w /\ Selected.p = chosen.p /\ Selected.c = chosen.c
  BY DEF Selected, Complete
<1>2. Levelled(Selected)
  BY DEF Selected, Levelled
<1> QED
  BY <1>1, <1>2 DEF Levelled

LEMMA PreviewStays ==
    ASSUME PreviewInv, UNCHANGED <<chosen, cleanup>>
    PROVE  PreviewInv'
BY DEF PreviewInv, CleanupIsPreviewed, Levelled, CleanupFields

\* A changed selection takes the preview with it.
LEMMA ResetKeeps ==
    ASSUME PreviewInv, Levelled(chosen'), CleanupReset
    PROVE  PreviewInv'
<1>1. CASE chosen' = chosen
  BY <1>1, PreviewStays DEF CleanupReset
<1>2. CASE chosen' # chosen
  BY <1>2 DEF CleanupReset, PreviewInv, CleanupIsPreviewed, CleanupFields, NoCleanup, NoPath
<1> QED
  BY <1>1, <1>2

LEMMA ChooseKeeps ==
    ASSUME PreviewInv, NEW r, NEW s, Levelled(s), Choose(r, s)
    PROVE  PreviewInv'
<1>1. Levelled(chosen')
  BY DEF Choose, PreviewInv
<1>2. CASE CleanupReset
  BY <1>1, <1>2, ResetKeeps
<1>3. CASE chosen' = chosen /\ cleanup.busy = "reload" /\ cleanup' = [cleanup EXCEPT !.busy = "none"]
  BY <1>1, <1>3 DEF PreviewInv, CleanupIsPreviewed, CleanupFields
<1> QED
  BY <1>2, <1>3 DEF Choose

-----------------------------------------------------------------------------
(* The steps that touch the selection or the clean-up. *)

LEMMA ReadingKeeps ==
    ASSUME PreviewInv, NEW r \in Readers,
           WorkspacesRead(r) \/ ProjectsRead(r) \/ CampaignsRead(r) \/ ReadFails(r)
    PROVE  PreviewInv'
<1>1. CASE WorkspacesRead(r)
  <2> DEFINE v == Pick(alive \cap Workspaces, tree[r].want.w)
  <2>1. Choose(r, IF v = None THEN NoPath ELSE [chosen EXCEPT !.w = v])
    BY <1>1 DEF WorkspacesRead
  <2> HIDE DEF v
  <2>2. Levelled(IF v = None THEN NoPath ELSE [chosen EXCEPT !.w = v])
    BY LevelledPaths DEF PreviewInv
  <2> QED
    BY <2>1, <2>2, ChooseKeeps
<1>2. CASE ProjectsRead(r)
  <2> DEFINE v == Pick(Under(alive \cap Projects, tree[r].at.w), tree[r].want.p)
  <2>1. Choose(r, [chosen EXCEPT !.p = v, !.c = IF v = None THEN None ELSE chosen.c])
    BY <1>2 DEF ProjectsRead
  <2> HIDE DEF v
  <2>2. Levelled([chosen EXCEPT !.p = v, !.c = IF v = None THEN None ELSE chosen.c])
    BY LevelledPaths DEF PreviewInv
  <2> QED
    BY <2>1, <2>2, ChooseKeeps
<1>3. CASE CampaignsRead(r)
  <2> DEFINE v == [tree[r].at EXCEPT
                     !.c = Pick(Under(alive \cap Campaigns, tree[r].at.p), tree[r].want.c)].c
  <2>1. \/ UNCHANGED <<chosen, cleanup>>
        \/ Choose(r, [chosen EXCEPT !.c = v])
    BY <1>3 DEF CampaignsRead
  <2> HIDE DEF v
  <2>2. Levelled([chosen EXCEPT !.c = v])
    BY LevelledPaths DEF PreviewInv
  <2> QED
    BY <2>1, <2>2, ChooseKeeps, PreviewStays
<1>4. CASE ReadFails(r)
  BY <1>4, LevelledPaths, ChooseKeeps DEF ReadFails
<1> QED
  BY <1>1, <1>2, <1>3, <1>4

LEMMA CleanupKeeps ==
    ASSUME PreviewInv,
           AskPreview \/ Previewed \/ TypePhrase \/ Execute \/ Executed \/ CleanupEnds
    PROVE  PreviewInv'
<1>1. chosen' = chosen
  BY DEF AskPreview, Previewed, TypePhrase, Execute, Executed, CleanupEnds, CleanupStep
<1>2. Levelled(chosen')
  BY <1>1 DEF PreviewInv
<1>3. CASE AskPreview
  <2>1. /\ cleanup.busy = "none"
        /\ cleanup' = [cleanup EXCEPT !.busy = "preview", !.asked = chosen]
    BY <1>3, SelectedIsChosen DEF AskPreview, PreviewInv
  <2> QED
    BY <2>1, <1>1, <1>2 DEF PreviewInv, CleanupIsPreviewed, CleanupFields
<1>4. CASE Previewed
  BY <1>4, <1>1, <1>2 DEF Previewed, PreviewInv, CleanupIsPreviewed, CleanupFields, NoCleanup
<1>5. CASE TypePhrase
  BY <1>5, <1>1, <1>2 DEF TypePhrase, PreviewInv, CleanupIsPreviewed, CleanupFields
<1>6. CASE Execute
  <2>1. /\ cleanup.busy = "none" /\ cleanup.token # NoPath
        /\ cleanup' = [cleanup EXCEPT !.busy = "execute", !.asked = chosen]
    BY <1>6, SelectedIsChosen DEF Execute, PreviewInv
  <2> QED
    BY <2>1, <1>1, <1>2 DEF PreviewInv, CleanupIsPreviewed, CleanupFields
<1>7. CASE Executed
  BY <1>7, <1>1, <1>2 DEF Executed, PreviewInv, CleanupIsPreviewed, CleanupFields
<1>8. CASE CleanupEnds
  BY <1>8, <1>1, <1>2 DEF CleanupEnds, PreviewInv, CleanupIsPreviewed, CleanupFields
<1> QED
  BY <1>3, <1>4, <1>5, <1>6, <1>7, <1>8

LEMMA PickCampaignKeeps ==
    ASSUME PreviewInv, NEW c, PickCampaign(c)
    PROVE  PreviewInv'
<1>1. chosen' = [chosen EXCEPT !.c = c] /\ CleanupReset
  BY DEF PickCampaign
<1>2. Levelled(chosen')
  BY <1>1, LevelledPaths DEF PreviewInv
<1> QED
  BY <1>1, <1>2, ResetKeeps

-----------------------------------------------------------------------------
LEMMA InitPreviewInv ==
    ASSUME ScopesInit
    PROVE  PreviewInv
BY DEF ScopesInit, PreviewInv, CleanupIsPreviewed, Levelled, CleanupFields, NoCleanup, NoPath

LEMMA AnswersKeep == PreviewInv /\ Answers => PreviewInv'
<1> SUFFICES ASSUME PreviewInv, Answers
             PROVE  PreviewInv'
  OBVIOUS
<1>1. CASE DashboardRead \/ ActionDone \/ ActionEnds
  BY <1>1, PreviewStays DEF DashboardRead, ActionDone, ActionEnds
<1>2. CASE Previewed \/ Executed \/ CleanupEnds
  BY <1>2, CleanupKeeps
<1> QED
  BY <1>1, <1>2, ReadingKeeps DEF Answers

LEMMA ActsKeep == PreviewInv /\ Acts => PreviewInv'
<1> SUFFICES ASSUME PreviewInv, Acts
             PROVE  PreviewInv'
  OBVIOUS
<1>1. CASE OpenManager \/ CloseManager \/ RefreshTree \/ SetCurrent
  BY <1>1, PreviewStays DEF OpenManager, CloseManager, RefreshTree, SetCurrent, ManagerReads
<1>2. CASE \E w \in Workspaces : PickWorkspace(w) \/ SelectWorkspace(w)
  BY <1>2, PreviewStays DEF PickWorkspace, SelectWorkspace, ManagerReads, LibraryReads
<1>3. CASE \E p \in Projects : PickProject(p) \/ SelectProject(p)
  BY <1>3, PreviewStays DEF PickProject, SelectProject, ManagerReads, LibraryReads
<1>4. CASE \E c \in Campaigns : PickCampaign(c) \/ SelectCampaign(c)
  BY <1>4, PreviewStays, PickCampaignKeeps DEF SelectCampaign
<1>5. CASE \E kind \in {"rename", "archive", "delete"}, level \in {"w", "p", "c"} : RunAction(kind, level)
  BY <1>5, PreviewStays DEF RunAction
<1>6. CASE AskPreview \/ TypePhrase \/ Execute
  BY <1>6, CleanupKeeps
<1>7. CASE LibraryStarts \/ \E x \in Scopes : OthersChange(x)
  BY <1>7, PreviewStays DEF LibraryStarts, LibraryReads, OthersChange, shownVars
<1> QED
  BY <1>1, <1>2, <1>3, <1>4, <1>5, <1>6, <1>7 DEF Acts

LEMMA NextPreviewInv == PreviewInv /\ [ScopesNext]_scopeVars => PreviewInv'
<1> SUFFICES ASSUME PreviewInv, [ScopesNext]_scopeVars
             PROVE  PreviewInv'
  OBVIOUS
<1>1. CASE UNCHANGED scopeVars
  BY <1>1, PreviewStays DEF scopeVars, shownVars
<1> QED
  BY <1>1, AnswersKeep, ActsKeep DEF ScopesNext

\* However the selection is changed, by the user or by a reading of the tree,
\* what is cleaned up is what was previewed (runCleanupPreview,
\* runCleanupExecute and the effect that drops the preview).
THEOREM CleanupWasPreviewed == ScopesSpec => []CleanupIsPreviewed
<1>1. PreviewInv => CleanupIsPreviewed
  BY DEF PreviewInv
<1> QED
  BY InitPreviewInv, NextPreviewInv, <1>1, PTL DEF ScopesSpec

-----------------------------------------------------------------------------
(***************************************************************************)
(* The mask editor: undo and redo walk one line of canvases, as long as no *)
(* button is pressed while a pointer is on the canvas (OneHand).           *)
(***************************************************************************)
Canvases == Seq(1..MaxStrokes)

\* One stroke or one clear after the other.
Follows(a, b) == b = White \/ (b # White /\ Front(b) = a)

\* The line of HistoryIsOneLine, from the oldest snapshot to the last undone.
Line(h, c) ==
    /\ \A k \in 1..(Len(h.undo) - 1) : Follows(h.undo[k], h.undo[k + 1])
    /\ h.undo # <<>> => Follows(Last(h.undo), c)
    /\ h.redo # <<>> => Follows(c, Last(h.redo))
    /\ \A k \in 1..(Len(h.redo) - 1) : Follows(h.redo[k + 1], h.redo[k])

PadOK == /\ pad \in {"closed", "loading", "ready", "saving"}
         /\ canvas \in Canvases /\ savedMask \in Canvases
         /\ history \in [undo : Seq(Canvases), redo : Seq(Canvases)]
         /\ Len(history.undo) + Len(history.redo) <= MaxHistory
         /\ touch \in [down : SUBSET Pointers, active : Pointers \cup {NoPointer}, pinch : BOOLEAN]
         /\ touch.active \in touch.down \cup {NoPointer}
         /\ strokes \in 0..MaxStrokes

\* The stroke under way is on the canvas, and the canvas before it is the last
\* snapshot; a closed editor has no history.
MaskInv ==
    /\ PadOK /\ Line(history, canvas)
    /\ touch.active # NoPointer =>
          history.undo # <<>> /\ history.redo = <<>> /\ Contains(canvas, strokes)
    /\ pad \in {"closed", "loading"} => history = NoHistory /\ touch = NoTouch

LEMMA MaskTyped == MaskInv => MaskTypeOK
BY DEF MaskInv, PadOK, MaskTypeOK, Canvases

-----------------------------------------------------------------------------
(* The two stacks *)

LEMMA LastFront ==
    ASSUME NEW S, NEW s \in Seq(S), s # <<>>
    PROVE  /\ Last(s) \in S /\ Front(s) \in Seq(S) /\ Len(Front(s)) = Len(s) - 1
           /\ Len(s) \in Nat \ {0}
           /\ \A k \in 1..(Len(s) - 1) : Front(s)[k] = s[k]
  <1>1. Len(s) \in Nat \ {0}
    BY EmptySeq
  <1>2. \A k \in 1..Len(s) : s[k] \in S
    BY ElementOfSeq
  <1>3. Last(s) \in S
    BY <1>1, <1>2 DEF Last
  <1> DEFINE f == SubSeq(s, 1, Len(s) - 1)
  <1>4. \A k \in 1..(Len(s) - 1) : s[k] \in S
    BY <1>1, <1>2
  <1>5. /\ f \in Seq(S) /\ Len(f) = Len(s) - 1
        /\ \A k \in 1..(Len(s) - 1) : f[k] = s[k]
    <2> DEFINE n == Len(s) - 1
    <2>1. n \in Int /\ n >= 0 /\ \A k \in 1..n : s[k] \in S
      BY <1>1, <1>4
    <2> HIDE DEF n
    <2>2. /\ SubSeq(s, 1, n) \in Seq(S)
          /\ Len(SubSeq(s, 1, n)) = IF 1 <= n THEN n - 1 + 1 ELSE 0
          /\ \A k \in 1..(n - 1 + 1) : SubSeq(s, 1, n)[k] = s[1 + k - 1]
      BY <2>1, SubSeqProperties
    <2>3. \A k \in 1..n : 1 + k - 1 = k
      OBVIOUS
    <2>4. n - 1 + 1 = n
      BY <2>1
    <2>5. \A k \in 1..n : SubSeq(s, 1, n)[k] = s[k]
      BY <2>2, <2>3, <2>4
    <2>6. Len(SubSeq(s, 1, n)) = n
      BY <2>1, <2>2
    <2>7. QED
      BY <2>2, <2>5, <2>6 DEF n
  <1>6. QED
    BY <1>1, <1>3, <1>5 DEF Front

LEMMA Appended ==
    ASSUME NEW S, NEW s \in Seq(S), NEW e \in S
    PROVE  /\ Append(s, e) \in Seq(S) /\ Len(Append(s, e)) = Len(s) + 1 /\ Append(s, e) # <<>>
           /\ Last(Append(s, e)) = e /\ Len(s) \in Nat
           /\ \A k \in 1..Len(s) : Append(s, e)[k] = s[k]
           /\ Front(Append(s, e)) = s
  <1> DEFINE a == Append(s, e)
  <1>1. /\ a \in Seq(S) /\ Len(a) = Len(s) + 1 /\ Len(s) \in Nat /\ a[Len(a)] = e
        /\ \A k \in 1..Len(s) : a[k] = s[k]
    BY LenProperties
  <1> HIDE DEF a
  <1>2. a # <<>>
    BY <1>1, EmptySeq
  <1>3. Front(a) \in Seq(S) /\ Len(Front(a)) = Len(s) /\ \A k \in 1..Len(s) : Front(a)[k] = s[k]
    BY <1>1, <1>2, LastFront
  <1>4. Front(a) = s
    BY <1>1, <1>3, SeqEqual
  <1>5. Last(a) = e
    BY <1>1 DEF Last
  <1>6. QED
    BY <1>1, <1>2, <1>4, <1>5 DEF a

\* A canvas with one more stroke follows it.
LEMMA StrokeFollows ==
    ASSUME NEW c \in Canvases, NEW n \in 1..MaxStrokes
    PROVE  Append(c, n) \in Canvases /\ Follows(c, Append(c, n)) /\ Contains(Append(c, n), n)
  <1>1. /\ Append(c, n) \in Canvases /\ Append(c, n) # <<>> /\ Front(Append(c, n)) = c
        /\ Last(Append(c, n)) = n /\ Len(Append(c, n)) = Len(c) + 1 /\ Len(c) \in Nat
    BY Appended DEF Canvases
  <1>2. Contains(Append(c, n), n)
    BY <1>1 DEF Contains, Last
  <1>3. QED
    BY <1>1, <1>2 DEF Follows, White

\* pushUndoSnapshot goes on with the line, and forgets what was undone.
LEMMA PushLine ==
    ASSUME PadOK, Line(history, canvas), NEW d, Follows(canvas, d)
    PROVE  LET h == PushUndo(history, canvas)
           IN  /\ h \in [undo : Seq(Canvases), redo : Seq(Canvases)]
               /\ Len(h.undo) + Len(h.redo) <= MaxHistory
               /\ Line(h, d) /\ h.undo # <<>> /\ h.redo = <<>>
  <1> DEFINE s == history.undo
             a == Append(s, canvas)
             u == IF Len(a) > MaxHistory THEN Tail(a) ELSE a
             h == PushUndo(history, canvas)
  <1>1. /\ s \in Seq(Canvases) /\ canvas \in Canvases /\ MaxHistory \in Nat \ {0}
        /\ Len(s) \in Nat /\ Len(s) <= MaxHistory
    <2>1. s \in Seq(Canvases) /\ canvas \in Canvases /\ history.redo \in Seq(Canvases)
      BY DEF PadOK
    <2>2. Len(s) \in Nat /\ Len(history.redo) \in Nat
      BY <2>1, LenProperties
    <2>3. QED
      BY <2>1, <2>2, WebMaskAssumption DEF PadOK
  <1>2. h = [undo |-> u, redo |-> <<>>]
    BY DEF PushUndo
  <1>3. /\ a \in Seq(Canvases) /\ Len(a) = Len(s) + 1 /\ a # <<>> /\ a[Len(a)] = canvas
        /\ \A k \in 1..Len(s) : a[k] = s[k]
    BY <1>1, Appended DEF Last
  <1>4. \A k \in 1..(Len(a) - 1) : Follows(a[k], a[k + 1])
    <2>1. \A k \in 1..(Len(s) - 1) : Follows(s[k], s[k + 1])
      BY DEF Line
    <2>2. s # <<>> => Follows(s[Len(s)], canvas)
      BY DEF Line, Last
    <2>3. Len(s) > 0 => s # <<>>
      BY EmptySeq
    <2> HIDE DEF a, s
    <2>4. ASSUME NEW k \in 1..(Len(a) - 1) PROVE Follows(a[k], a[k + 1])
      <3>1. k \in 1..Len(s) /\ a[k] = s[k]
        BY <1>1, <1>3, <2>4
      <3>2. CASE k = Len(s)
        BY <1>1, <1>3, <2>2, <2>3, <3>1, <3>2
      <3>3. CASE k # Len(s)
        <4>1. k \in 1..(Len(s) - 1) /\ k + 1 \in 1..Len(s)
          BY <1>1, <3>1, <3>3
        <4>2. QED
          BY <1>3, <2>1, <3>1, <4>1
      <3>4. QED
        BY <3>2, <3>3
    <2>5. QED
      BY <2>4
  <1> HIDE DEF a, s, h
  <1>5. /\ u \in Seq(Canvases) /\ Len(u) \in Nat \ {0} /\ Len(u) <= MaxHistory /\ u[Len(u)] = canvas
        /\ \A k \in 1..(Len(u) - 1) : Follows(u[k], u[k + 1])
    <2>1. CASE Len(a) > MaxHistory
      <3>1. /\ Tail(a) \in Seq(Canvases) /\ Len(Tail(a)) = Len(a) - 1
            /\ \A k \in 1..(Len(a) - 1) : Tail(a)[k] = a[k + 1]
        BY <1>3, HeadTailProperties
      <3>2. u = Tail(a)
        BY <2>1
      <3> HIDE DEF u
      <3>3. Len(a) - 1 = Len(s) /\ Len(s) = MaxHistory /\ Len(s) \in Nat \ {0}
        BY <1>1, <1>3, <2>1
      <3>4. u[Len(u)] = canvas
        BY <1>3, <3>1, <3>2, <3>3
      <3>5. ASSUME NEW k \in 1..(Len(u) - 1) PROVE Follows(u[k], u[k + 1])
        <4>1. k + 1 \in 1..(Len(a) - 1) /\ k \in 1..(Len(a) - 1)
          BY <3>1, <3>2, <3>3, <3>5
        <4>2. u[k] = a[k + 1] /\ u[k + 1] = a[k + 1 + 1]
          BY <3>1, <3>2, <4>1
        <4>3. QED
          BY <1>4, <4>1, <4>2
      <3>6. QED
        BY <3>1, <3>2, <3>3, <3>4, <3>5
    <2>2. CASE ~(Len(a) > MaxHistory)
      BY <1>1, <1>3, <1>4, <2>2
    <2>3. QED
      BY <2>1, <2>2
  <1> HIDE DEF u
  <1>6. h.undo = u /\ h.redo = <<>> /\ <<>> \in Seq(Canvases) /\ Len(<<>>) = 0
    BY <1>2, EmptySeq
  <1>7. u # <<>>
    BY <1>5, EmptySeq
  <1>8. Line(h, d)
    BY <1>5, <1>6 DEF Line, Last
  <1>9. h \in [undo : Seq(Canvases), redo : Seq(Canvases)]
    BY <1>2, <1>5, <1>6
  <1>10. Len(h.undo) + Len(h.redo) <= MaxHistory
    BY <1>1, <1>5, <1>6
  <1>11. QED
    BY <1>6, <1>7, <1>8, <1>9, <1>10 DEF h

-----------------------------------------------------------------------------
(* The steps of the editor *)

\* Taking back the last snapshot leaves the line before it.
LEMMA BackLine ==
    ASSUME PadOK, Line(history, canvas), history.undo # <<>>, NEW r \in Seq(Canvases),
           \/ r = <<>>
           \/ r = Append(history.redo, canvas)
    PROVE  LET h == [undo |-> Front(history.undo), redo |-> r]
           IN  /\ h.undo \in Seq(Canvases) /\ Last(history.undo) \in Canvases
               /\ Len(h.undo) + Len(history.redo) + 1 <= MaxHistory
               /\ Line(h, Last(history.undo))
  <1> DEFINE s == history.undo
             u == Front(s)
             c == Last(s)
  <1>1. s \in Seq(Canvases) /\ canvas \in Canvases /\ history.redo \in Seq(Canvases)
    BY DEF PadOK
  <1>2. /\ c \in Canvases /\ u \in Seq(Canvases) /\ Len(u) = Len(s) - 1 /\ Len(s) \in Nat \ {0}
        /\ \A k \in 1..(Len(s) - 1) : u[k] = s[k]
    BY <1>1, LastFront
  <1>3. \A k \in 1..(Len(s) - 1) : Follows(s[k], s[k + 1])
    BY DEF Line
  <1>4. s[Len(s)] = c /\ Follows(c, canvas)
    BY DEF Line, Last
  <1>5. Len(s) + Len(history.redo) <= MaxHistory /\ Len(history.redo) \in Nat /\ MaxHistory \in Nat
    BY <1>1, LenProperties, WebMaskAssumption DEF PadOK
  <1> HIDE DEF s, u, c
  <1>6. \A k \in 1..(Len(u) - 1) : Follows(u[k], u[k + 1])
    <2>1. ASSUME NEW k \in 1..(Len(u) - 1) PROVE Follows(u[k], u[k + 1])
      <3>1. k \in 1..(Len(s) - 1) /\ k + 1 \in 1..(Len(s) - 1)
        BY <1>2, <2>1
      <3>2. QED
        BY <1>2, <1>3, <3>1
    <2>2. QED
      BY <2>1
  <1>7. u # <<>> => Follows(u[Len(u)], c)
    <2>1. ASSUME u # <<>> PROVE Follows(u[Len(u)], c)
      <3>1. Len(u) \in Nat \ {0}
        BY <1>2, <2>1, EmptySeq
      <3>2. Len(u) \in 1..(Len(s) - 1) /\ Len(u) + 1 = Len(s)
        BY <1>2, <3>1
      <3>3. u[Len(u)] = s[Len(u)] /\ Follows(s[Len(u)], s[Len(u) + 1])
        BY <1>2, <1>3, <3>2
      <3>4. QED
        BY <1>4, <3>2, <3>3
    <2>2. QED
      BY <2>1
  <1>8. r # <<>> => Follows(c, Last(r)) /\ \A k \in 1..(Len(r) - 1) : Follows(r[k + 1], r[k])
    <2>1. ASSUME r = Append(history.redo, canvas)
          PROVE  Follows(c, Last(r)) /\ \A k \in 1..(Len(r) - 1) : Follows(r[k + 1], r[k])
      <3> DEFINE q == history.redo
      <3>1. /\ \A k \in 1..(Len(q) - 1) : Follows(q[k + 1], q[k])
            /\ q # <<>> => Follows(canvas, q[Len(q)])
        BY DEF Line, Last
      <3>2. q \in Seq(Canvases)
        BY <1>1
      <3> HIDE DEF q
      <3>3. /\ Len(r) = Len(q) + 1 /\ Last(r) = canvas /\ Len(q) \in Nat
            /\ \A k \in 1..Len(q) : r[k] = q[k]
        BY <1>1, <2>1, <3>2, Appended DEF q
      <3>4. ASSUME NEW k \in 1..(Len(r) - 1) PROVE Follows(r[k + 1], r[k])
        <4>1. k \in 1..Len(q) /\ r[k] = q[k]
          BY <3>3, <3>4
        <4>2. CASE k = Len(q)
          <5>1. q # <<>> /\ r[k + 1] = canvas
            BY <3>2, <3>3, <4>1, <4>2, EmptySeq DEF Last
          <5>2. QED
            BY <3>1, <4>1, <4>2, <5>1
        <4>3. CASE k # Len(q)
          <5>1. k \in 1..(Len(q) - 1) /\ k + 1 \in 1..Len(q)
            BY <3>3, <4>1, <4>3
          <5>2. QED
            BY <3>1, <3>3, <4>1, <5>1
        <4>4. QED
          BY <4>2, <4>3
      <3>5. QED
        BY <1>4, <3>3, <3>4
    <2>2. QED
      BY <2>1
  <1>9. \A k \in 1..(Len(r) - 1) : Follows(r[k + 1], r[k])
    <2>1. r = <<>> => Len(r) = 0
      BY EmptySeq
    <2>2. QED
      BY <1>8, <2>1
  <1>10. Line([undo |-> u, redo |-> r], c)
    BY <1>6, <1>7, <1>8, <1>9 DEF Line, Last
  <1>11. Len(u) + Len(history.redo) + 1 <= MaxHistory
    BY <1>2, <1>5
  <1>12. QED
    BY <1>2, <1>10, <1>11 DEF u, c, s

\* Redoing goes one canvas on.
LEMMA OnLine ==
    ASSUME PadOK, Line(history, canvas), history.redo # <<>>
    PROVE  LET h == [undo |-> Append(history.undo, canvas), redo |-> Front(history.redo)]
           IN  /\ h \in [undo : Seq(Canvases), redo : Seq(Canvases)] /\ Last(history.redo) \in Canvases
               /\ Len(h.undo) + Len(h.redo) <= MaxHistory
               /\ Line(h, Last(history.redo))
  <1> DEFINE s == history.undo
             q == history.redo
             u == Append(s, canvas)
             r == Front(q)
             c == Last(q)
  <1>1. s \in Seq(Canvases) /\ canvas \in Canvases /\ q \in Seq(Canvases) /\ q # <<>>
    BY DEF PadOK
  <1>2. /\ c \in Canvases /\ r \in Seq(Canvases) /\ Len(r) = Len(q) - 1 /\ Len(q) \in Nat \ {0}
        /\ \A k \in 1..(Len(q) - 1) : r[k] = q[k]
    BY <1>1, LastFront
  <1>3. /\ u \in Seq(Canvases) /\ Len(u) = Len(s) + 1 /\ Last(u) = canvas /\ Len(s) \in Nat
        /\ \A k \in 1..Len(s) : u[k] = s[k]
    BY <1>1, Appended
  <1>4. /\ \A k \in 1..(Len(q) - 1) : Follows(q[k + 1], q[k])
        /\ q[Len(q)] = c /\ Follows(canvas, c)
        /\ \A k \in 1..(Len(s) - 1) : Follows(s[k], s[k + 1])
        /\ s # <<>> => Follows(s[Len(s)], canvas)
    BY DEF Line, Last
  <1>5. Len(s) + Len(q) <= MaxHistory /\ MaxHistory \in Nat
    BY WebMaskAssumption DEF PadOK
  <1>6. u[Len(s) + 1] = canvas
    BY <1>3 DEF Last
  <1> HIDE DEF s, q, u, r, c
  <1>7. ASSUME NEW k \in 1..(Len(u) - 1) PROVE Follows(u[k], u[k + 1])
    <2>1. k \in 1..Len(s) /\ u[k] = s[k]
      BY <1>3, <1>7
    <2>2. CASE k = Len(s)
      <3>1. s # <<>>
        BY <1>1, <2>1, <2>2, EmptySeq
      <3>2. QED
        BY <1>4, <1>6, <2>1, <2>2, <3>1
    <2>3. CASE k # Len(s)
      <3>1. k \in 1..(Len(s) - 1) /\ k + 1 \in 1..Len(s)
        BY <1>3, <2>1, <2>3
      <3>2. QED
        BY <1>3, <1>4, <2>1, <3>1
    <2>4. QED
      BY <2>2, <2>3
  <1>8. r # <<>> => Follows(c, Last(r))
    <2>1. ASSUME r # <<>> PROVE Follows(c, r[Len(r)])
      <3>1. Len(r) \in Nat \ {0}
        BY <1>2, <2>1, EmptySeq
      <3>2. Len(r) \in 1..(Len(q) - 1) /\ Len(r) + 1 = Len(q)
        BY <1>2, <3>1
      <3>3. r[Len(r)] = q[Len(r)] /\ Follows(q[Len(r) + 1], q[Len(r)])
        BY <1>2, <1>4, <3>2
      <3>4. QED
        BY <1>4, <3>2, <3>3
    <2>2. QED
      BY <2>1 DEF Last
  <1>9. ASSUME NEW k \in 1..(Len(r) - 1) PROVE Follows(r[k + 1], r[k])
    <2>1. k \in 1..(Len(q) - 1) /\ k + 1 \in 1..(Len(q) - 1)
      BY <1>2, <1>9
    <2>2. QED
      BY <1>2, <1>4, <2>1
  <1>10. Line([undo |-> u, redo |-> r], c)
    BY <1>3, <1>4, <1>7, <1>8, <1>9 DEF Line
  <1>11. Len(u) + Len(r) <= MaxHistory
    BY <1>2, <1>3, <1>5
  <1>12. QED
    BY <1>2, <1>3, <1>10, <1>11 DEF u, r, c, q, s

LEMMA NoHistoryLine ==
    /\ NoHistory \in [undo : Seq(Canvases), redo : Seq(Canvases)]
    /\ NoHistory.undo = <<>> /\ NoHistory.redo = <<>>
    /\ Len(NoHistory.undo) + Len(NoHistory.redo) <= MaxHistory
    /\ \A c : Line(NoHistory, c)
    /\ NoTouch \in [down : SUBSET Pointers, active : Pointers \cup {NoPointer}, pinch : BOOLEAN]
    /\ NoTouch.active = NoPointer /\ NoTouch.down = {}
    /\ White \in Canvases
  <1>1. <<>> \in Seq(Canvases) /\ Len(<<>>) = 0 /\ White \in Canvases
    BY EmptySeq DEF White, Canvases
  <1>2. NoHistory = [undo |-> <<>>, redo |-> <<>>]
    BY DEF NoHistory
  <1>3. \A c : Line(NoHistory, c)
    BY <1>1, <1>2 DEF Line
  <1>4. NoTouch \in [down : SUBSET Pointers, active : Pointers \cup {NoPointer}, pinch : BOOLEAN]
        /\ NoTouch.active = NoPointer /\ NoTouch.down = {}
    BY DEF NoTouch
  <1>5. MaxHistory \in Nat
    BY WebMaskAssumption
  <1>6. QED
    BY <1>1, <1>2, <1>3, <1>4, <1>5

LEMMA InitMask == MaskInit => MaskInv
BY NoHistoryLine, WebMaskAssumption DEF MaskInit, MaskInv, PadOK

\* The first pointer draws, the second takes its stroke back.
LEMMA PointerDownKeeps ==
    ASSUME MaskInv, NEW p \in Pointers, PointerDown(p)
    PROVE  MaskInv'
  <1>1. PadOK /\ Line(history, canvas) /\ pad = "ready" /\ pad' = pad /\ savedMask' = savedMask
    BY DEF MaskInv, PointerDown
  <1>2. CASE touch.down = {}
    <2>1. /\ strokes' = strokes + 1 /\ strokes < MaxStrokes
          /\ touch' = [touch EXCEPT !.down = {p}, !.active = p]
          /\ history' = PushUndo(history, canvas) /\ canvas' = Append(canvas, strokes')
      BY <1>2 DEF PointerDown
    <2>2. strokes' \in 1..MaxStrokes /\ canvas \in Canvases
      BY <1>1, <2>1, WebMaskAssumption DEF PadOK
    <2>3. canvas' \in Canvases /\ Follows(canvas, canvas') /\ Contains(canvas', strokes')
      BY <2>1, <2>2, StrokeFollows
    <2>4. /\ history' \in [undo : Seq(Canvases), redo : Seq(Canvases)]
          /\ Len(history'.undo) + Len(history'.redo) <= MaxHistory
          /\ Line(history', canvas') /\ history'.undo # <<>> /\ history'.redo = <<>>
      BY <1>1, <2>1, <2>3, PushLine
    <2>5. /\ touch' \in [down : SUBSET Pointers, active : Pointers \cup {NoPointer}, pinch : BOOLEAN]
          /\ touch'.active \in touch'.down
      BY <1>1, <2>1 DEF PadOK
    <2>6. PadOK'
      BY <1>1, <2>2, <2>3, <2>4, <2>5 DEF PadOK
    <2>7. QED
      BY <1>1, <2>3, <2>4, <2>6 DEF MaskInv, Line
  <1>3. CASE touch.down # {}
    <2>1. /\ touch' = [down |-> touch.down \cup {p}, active |-> NoPointer, pinch |-> TRUE]
          /\ Cancelled(history) /\ strokes' = strokes
      BY <1>3 DEF PointerDown
    <2>2. /\ touch' \in [down : SUBSET Pointers, active : Pointers \cup {NoPointer}, pinch : BOOLEAN]
          /\ touch'.active = NoPointer
      BY <1>1, <2>1 DEF PadOK
    <2>3. CASE touch.active # NoPointer
      <3>1. history.undo # <<>> /\ history.redo = <<>>
        BY <2>3 DEF MaskInv
      <3>2. /\ canvas' = Last(history.undo)
            /\ history' = [undo |-> Front(history.undo), redo |-> <<>>]
        BY <1>1, <2>1, <2>3, <3>1 DEF Cancelled, PadOK
      <3>3. <<>> \in Seq(Canvases) /\ Len(history.redo) = 0
        BY <3>1, EmptySeq
      <3>4. /\ history'.undo \in Seq(Canvases) /\ canvas' \in Canvases
            /\ Len(history'.undo) + Len(history.redo) + 1 <= MaxHistory
            /\ Line(history', canvas')
        BY <1>1, <3>1, <3>2, <3>3, BackLine
      <3>5. history'.redo = <<>> /\ Len(history'.undo) \in Nat /\ MaxHistory \in Nat
        BY <3>2, <3>4, LenProperties, WebMaskAssumption
      <3>6. /\ history' \in [undo : Seq(Canvases), redo : Seq(Canvases)]
            /\ Len(history'.undo) + Len(history'.redo) <= MaxHistory
        BY <3>1, <3>2, <3>3, <3>4, <3>5
      <3>7. PadOK'
        BY <1>1, <2>1, <2>2, <3>4, <3>6 DEF PadOK
      <3>8. QED
        BY <1>1, <2>2, <3>4, <3>7 DEF MaskInv, Line
    <2>4. CASE touch.active = NoPointer
      <3>1. canvas' = canvas /\ history' = history
        BY <2>1, <2>4 DEF Cancelled
      <3>2. QED
        BY <1>1, <2>1, <2>2, <3>1 DEF MaskInv, PadOK, Line
    <2>5. QED
      BY <2>3, <2>4
  <1>4. QED
    BY <1>2, <1>3

\* The stroke being drawn is on the canvas already; a lifted pointer ends it.
LEMMA PointerKeeps ==
    ASSUME MaskInv, NEW p \in Pointers, PointerMove(p) \/ PointerUp(p)
    PROVE  MaskInv'
  <1>1. CASE PointerMove(p)
    <2>1. touch.active = p /\ p # NoPointer
      BY <1>1, WebMaskAssumption DEF PointerMove, NoPointer
    <2>2. UNCHANGED <<pad, canvas, history, touch, savedMask, strokes>>
      BY <1>1, <2>1 DEF PointerMove, MaskInv
    <2>3. QED
      BY <2>2 DEF MaskInv, PadOK, Line, Contains
  <1>2. CASE PointerUp(p)
    <2>1. p \in touch.down /\ UNCHANGED <<pad, canvas, history, savedMask, strokes>>
      BY <1>2 DEF PointerUp
    <2>2. /\ touch' \in [down : SUBSET Pointers, active : Pointers \cup {NoPointer}, pinch : BOOLEAN]
          /\ touch'.active \in touch'.down \cup {NoPointer}
          /\ touch'.active \in {touch.active, NoPointer}
      BY <1>2 DEF PointerUp, MaskInv, PadOK
    <2>3. pad \notin {"closed", "loading"}
      BY <2>1, NoHistoryLine DEF MaskInv
    <2>4. QED
      BY <2>1, <2>2, <2>3 DEF MaskInv, PadOK, Line, Contains
  <1>3. QED
    BY <1>1, <1>2

\* A button is pressed with no stroke under way.
LEMMA ButtonKeeps ==
    ASSUME OneHand, MaskInv, UndoStroke \/ RedoStroke \/ ClearCanvas
    PROVE  MaskInv'
  <1>1. /\ PadOK /\ Line(history, canvas) /\ pad = "ready" /\ touch.active = NoPointer
        /\ UNCHANGED <<pad, touch, savedMask>>
    BY DEF UndoStroke, RedoStroke, ClearCanvas, ButtonFree, MaskInv, PadOK
  <1>2. ASSUME history' \in [undo : Seq(Canvases), redo : Seq(Canvases)],
               Len(history'.undo) + Len(history'.redo) <= MaxHistory,
               canvas' \in Canvases, strokes' \in 0..MaxStrokes, Line(history', canvas')
        PROVE  MaskInv'
    <2>1. PadOK'
      BY <1>1, <1>2 DEF PadOK
    <2>2. QED
      BY <1>1, <1>2, <2>1 DEF MaskInv, Line
  <1>3. CASE UndoStroke
    <2> DEFINE r == Append(history.redo, canvas)
    <2>1. /\ history' = [undo |-> Front(history.undo), redo |-> r]
          /\ canvas' = Last(history.undo) /\ history.undo # <<>> /\ strokes' = strokes
      BY <1>3 DEF UndoStroke
    <2>2. r \in Seq(Canvases) /\ Len(r) = Len(history.redo) + 1 /\ Len(history.redo) \in Nat
      BY <1>1, Appended DEF PadOK
    <2>3. /\ history'.undo \in Seq(Canvases) /\ canvas' \in Canvases
          /\ Len(history'.undo) + Len(history.redo) + 1 <= MaxHistory
          /\ Line(history', canvas')
      BY <1>1, <2>1, <2>2, BackLine
    <2> HIDE DEF r
    <2>4. history'.redo = r /\ Len(history'.undo) \in Nat /\ MaxHistory \in Nat
      BY <2>1, <2>3, LenProperties, WebMaskAssumption
    <2>5. history' \in [undo : Seq(Canvases), redo : Seq(Canvases)]
      BY <2>1, <2>2, <2>3
    <2>6. Len(history'.undo) + Len(history'.redo) <= MaxHistory
      <3> DEFINE a == Len(history'.undo)
                 b == Len(history.redo)
                 c == Len(r)
      <3>1. a \in Nat /\ b \in Nat /\ c = b + 1 /\ a + b + 1 <= MaxHistory /\ MaxHistory \in Nat
        BY <2>2, <2>3, <2>4
      <3> HIDE DEF a, b, c
      <3>2. a + c <= MaxHistory
        BY <3>1
      <3>3. a + Len(r) <= MaxHistory
        BY <3>2 DEF c
      <3>4. QED
        BY <2>4, <3>3 DEF a
    <2>7. QED
      BY <1>1, <1>2, <2>1, <2>3, <2>5, <2>6 DEF PadOK
  <1>4. CASE RedoStroke
    <2>1. /\ history' = [undo |-> Append(history.undo, canvas), redo |-> Front(history.redo)]
          /\ canvas' = Last(history.redo) /\ history.redo # <<>> /\ strokes' = strokes
      BY <1>4 DEF RedoStroke
    <2>2. /\ history' \in [undo : Seq(Canvases), redo : Seq(Canvases)] /\ canvas' \in Canvases
          /\ Len(history'.undo) + Len(history'.redo) <= MaxHistory
          /\ Line(history', canvas')
      BY <1>1, <2>1, OnLine
    <2>3. QED
      BY <1>1, <1>2, <2>1, <2>2 DEF PadOK
  <1>5. CASE ClearCanvas
    <2>1. history' = PushUndo(history, canvas) /\ canvas' = White /\ strokes < MaxStrokes /\ strokes' = strokes + 1
      BY <1>5 DEF ClearCanvas
    <2>2. Follows(canvas, White)
      BY DEF Follows
    <2>3. /\ history' \in [undo : Seq(Canvases), redo : Seq(Canvases)]
          /\ Len(history'.undo) + Len(history'.redo) <= MaxHistory
          /\ Line(history', canvas')
      BY <1>1, <2>1, <2>2, PushLine
    <2>4. strokes' \in 0..MaxStrokes
      BY <1>1, <2>1, WebMaskAssumption DEF PadOK
    <2>5. QED
      BY <1>2, <2>1, <2>3, <2>4, NoHistoryLine
  <1>6. QED
    BY <1>3, <1>4, <1>5

LEMMA EditorKeeps ==
    ASSUME MaskInv,
           OpenCanvas \/ CanvasLoaded \/ CloseCanvas \/ SaveCanvas \/ CanvasSaved \/ DropMask
    PROVE  MaskInv'
  <1>1. PadOK /\ Line(history, canvas)
    BY DEF MaskInv
  <1>2. ASSUME history' = NoHistory, touch' = NoTouch, canvas' = canvas, savedMask' \in {savedMask, canvas, White},
               pad' \in {"closed", "loading"}, strokes' = strokes
        PROVE  MaskInv'
    <2>1. PadOK'
      BY <1>1, <1>2, NoHistoryLine DEF PadOK
    <2>2. QED
      BY <1>2, <2>1, NoHistoryLine DEF MaskInv
  <1>3. CASE OpenCanvas \/ CloseCanvas \/ DropMask \/ (CanvasSaved /\ pad' = "closed")
    BY <1>2, <1>3 DEF OpenCanvas, CloseCanvas, DropMask, CanvasSaved
  <1>4. CASE CanvasLoaded
    <2>1. /\ history = NoHistory /\ touch = NoTouch /\ pad' = "ready"
          /\ canvas' \in {White, savedMask} /\ UNCHANGED <<history, touch, savedMask, strokes>>
      BY <1>4 DEF CanvasLoaded, MaskInv
    <2>2. PadOK'
      BY <1>1, <2>1, NoHistoryLine DEF PadOK
    <2>3. Line(history', canvas')
      BY <2>1, NoHistoryLine
    <2>4. QED
      BY <2>1, <2>2, <2>3, NoHistoryLine DEF MaskInv, Line
  <1>5. CASE SaveCanvas \/ (CanvasSaved /\ pad' = "ready")
    <2>1. pad' \in {"saving", "ready"} /\ UNCHANGED <<canvas, history, touch, savedMask, strokes>>
      BY <1>5 DEF SaveCanvas, CanvasSaved
    <2>2. PadOK'
      BY <1>1, <2>1 DEF PadOK
    <2>3. QED
      BY <2>1, <2>2 DEF MaskInv, Line, Contains
  <1>6. QED
    BY <1>3, <1>4, <1>5 DEF CanvasSaved

LEMMA NextMask == OneHand /\ MaskInv /\ [MaskNext]_maskVars => MaskInv'
  <1> SUFFICES ASSUME OneHand, MaskInv, [MaskNext]_maskVars PROVE MaskInv'
    OBVIOUS
  <1>1. CASE MaskNext
    BY <1>1, PointerDownKeeps, PointerKeeps, ButtonKeeps, EditorKeeps DEF MaskNext
  <1>2. CASE UNCHANGED maskVars
    BY <1>2 DEF maskVars, MaskInv, PadOK, Line, Contains
  <1>3. QED
    BY <1>1, <1>2

\* The line read from the oldest snapshot through the canvas to the last undone.
LEMMA LineIsOne ==
    ASSUME MaskInv
    PROVE  HistoryIsOneLine
  <1> DEFINE s == history.undo
             q == history.redo
             v == Reverse(q)
             line == s \o <<canvas>> \o v
  <1>1. /\ s \in Seq(Canvases) /\ q \in Seq(Canvases) /\ canvas \in Canvases
        /\ \A k \in 1..(Len(s) - 1) : Follows(s[k], s[k + 1])
        /\ s # <<>> => Follows(s[Len(s)], canvas)
        /\ q # <<>> => Follows(canvas, q[Len(q)])
        /\ \A k \in 1..(Len(q) - 1) : Follows(q[k + 1], q[k])
    BY DEF MaskInv, PadOK, Line, Last
  <1>2. Len(s) \in Nat /\ Len(q) \in Nat
    BY <1>1, LenProperties
  <1>3. v \in Seq(Canvases) /\ Len(v) = Len(q) /\ \A k \in 1..Len(q) : v[k] = q[Len(q) - k + 1]
    <2>1. \A k \in 1..Len(q) : q[(Len(q) - k) + 1] \in Canvases
      <3>1. \A k \in 1..Len(q) : (Len(q) - k) + 1 \in 1..Len(q)
        BY <1>2
      <3>2. QED
        BY <1>1, <3>1, ElementOfSeq
    <2>2. v = [k \in 1..Len(q) |-> q[(Len(q) - k) + 1]]
      BY DEF Reverse
    <2>3. v \in [1..Len(q) -> Canvases]
      BY <2>1, <2>2
    <2>4. v \in Seq(Canvases)
      BY <1>2, <2>3, SeqDef
    <2>5. Len(v) = Len(q)
      BY <1>2, <2>2, <2>4, LenProperties
    <2>6. QED
      BY <2>2, <2>4, <2>5
  <1>4. <<canvas>> \in Seq(Canvases) /\ Len(<<canvas>>) = 1 /\ <<canvas>>[1] = canvas
    BY <1>1
  <1> HIDE DEF s, q, v
  <1>5. /\ s \o <<canvas>> \in Seq(Canvases) /\ Len(s \o <<canvas>>) = Len(s) + 1
        /\ \A k \in 1..(Len(s) + 1) : (s \o <<canvas>>)[k] = IF k <= Len(s) THEN s[k] ELSE <<canvas>>[k - Len(s)]
    BY <1>1, <1>4, ConcatProperties
  <1>6. /\ Len(line) = Len(s) + 1 + Len(q)
        /\ \A k \in 1..(Len(s) + 1 + Len(q)) :
              line[k] = IF k <= Len(s) + 1 THEN (s \o <<canvas>>)[k] ELSE v[k - (Len(s) + 1)]
    <2> DEFINE w == s \o <<canvas>>
    <2>1. w \in Seq(Canvases) /\ v \in Seq(Canvases) /\ line = w \o v
          /\ Len(w) = Len(s) + 1 /\ Len(v) = Len(q)
      BY <1>3, <1>5
    <2> HIDE DEF w, line
    <2>2. /\ Len(w \o v) = Len(w) + Len(v)
          /\ \A k \in 1..(Len(w) + Len(v)) :
                (w \o v)[k] = IF k <= Len(w) THEN w[k] ELSE v[k - Len(w)]
      <3>1. Len(w \o v) = Len(w) + Len(v)
        BY <2>1, ConcatProperties
      <3>2. ASSUME NEW k \in 1..(Len(w) + Len(v))
            PROVE  (w \o v)[k] = IF k <= Len(w) THEN w[k] ELSE v[k - Len(w)]
        BY <2>1, ConcatProperties
      <3>3. QED
        BY <3>1, <3>2
    <2>3. /\ Len(line) = Len(s) + 1 + Len(q)
          /\ \A k \in 1..(Len(s) + 1 + Len(q)) :
                line[k] = IF k <= Len(s) + 1 THEN w[k] ELSE v[k - (Len(s) + 1)]
      BY <2>1, <2>2
    <2>4. QED
      BY <2>3 DEF w
  <1> HIDE DEF line
  <1>7. /\ \A k \in 1..Len(s) : line[k] = s[k]
        /\ line[Len(s) + 1] = canvas
        /\ \A k \in 1..Len(q) : line[Len(s) + 1 + k] = q[Len(q) - k + 1]
    <2>1. ASSUME NEW k \in 1..Len(s) PROVE line[k] = s[k]
      BY <1>2, <1>5, <1>6, <2>1
    <2>2. line[Len(s) + 1] = canvas
      <3>1. Len(s) + 1 \in 1..(Len(s) + 1 + Len(q)) /\ Len(s) + 1 \in 1..(Len(s) + 1)
            /\ (Len(s) + 1) - Len(s) = 1 /\ ~(Len(s) + 1 <= Len(s))
        BY <1>2
      <3>2. QED
        BY <1>4, <1>5, <1>6, <3>1
    <2>3. ASSUME NEW k \in 1..Len(q) PROVE line[Len(s) + 1 + k] = q[Len(q) - k + 1]
      <3>1. Len(s) + 1 + k \in 1..(Len(s) + 1 + Len(q)) /\ ~(Len(s) + 1 + k <= Len(s) + 1)
            /\ (Len(s) + 1 + k) - (Len(s) + 1) = k
        BY <1>2
      <3>2. QED
        BY <1>3, <1>6, <3>1
    <2>4. QED
      BY <2>1, <2>2, <2>3
  <1>8. ASSUME NEW k \in 1..(Len(line) - 1) PROVE Follows(line[k], line[k + 1])
    <2>1. CASE k < Len(s)
      <3>1. k \in 1..(Len(s) - 1) /\ k \in 1..Len(s) /\ k + 1 \in 1..Len(s)
        BY <1>2, <1>8, <2>1
      <3>2. QED
        BY <1>1, <1>7, <3>1
    <2>2. CASE k = Len(s)
      <3>1. s # <<>> /\ k \in 1..Len(s)
        BY <1>1, <1>2, <1>8, <2>2, EmptySeq
      <3>2. QED
        BY <1>1, <1>7, <2>2, <3>1
    <2>3. CASE k = Len(s) + 1
      <3>1. Len(q) \in 1..Len(q) /\ 1 \in 1..Len(q) /\ Len(q) - 1 + 1 = Len(q) /\ k + 1 = Len(s) + 1 + 1
        BY <1>2, <1>6, <1>8, <2>3
      <3>2. q # <<>>
        BY <1>1, <3>1, EmptySeq
      <3>3. line[k + 1] = q[Len(q)]
        BY <1>7, <3>1
      <3>4. QED
        BY <1>1, <1>7, <2>3, <3>2, <3>3
    <2>4. CASE k > Len(s) + 1
      <3> DEFINE j == k - (Len(s) + 1)
      <3>1. /\ j \in 1..Len(q) /\ j + 1 \in 1..Len(q)
            /\ k = Len(s) + 1 + j /\ k + 1 = Len(s) + 1 + (j + 1)
            /\ Len(q) - (j + 1) + 1 \in 1..(Len(q) - 1)
            /\ (Len(q) - (j + 1) + 1) + 1 = Len(q) - j + 1
        BY <1>2, <1>6, <1>8, <2>4
      <3> HIDE DEF j
      <3>2. line[k] = q[Len(q) - j + 1] /\ line[k + 1] = q[Len(q) - (j + 1) + 1]
        BY <1>7, <3>1
      <3>3. QED
        BY <1>1, <3>1, <3>2
    <2>5. QED
      BY <1>2, <1>6, <1>8, <2>1, <2>2, <2>3, <2>4
  <1>9. QED
    BY <1>8 DEF HistoryIsOneLine, Follows, line, v, q, s

\* However strokes, pinches, undo, redo and clear follow each other, undo and
\* redo walk one line of canvases, for any pointers, any limit of the history
\* and any number of strokes: nothing finished is lost and no stroke that a
\* pinch took back is left.
THEOREM LineHolds == OneHand => (MaskSpec => [](MaskTypeOK /\ HistoryIsOneLine))
  <1>1. OneHand /\ MaskInv /\ [MaskNext]_maskVars => MaskInv'
    BY NextMask
  <1>2. MaskInv => MaskTypeOK /\ HistoryIsOneLine
    BY MaskTyped, LineIsOne
  <1>3. ASSUME OneHand PROVE MaskSpec => [](MaskTypeOK /\ HistoryIsOneLine)
    BY <1>1, <1>2, <1>3, InitMask, PTL DEF MaskSpec
  <1>4. QED
    BY <1>3

-----------------------------------------------------------------------------
(***************************************************************************)
(* The project's visual context: every document that is stored, shown,     *)
(* written or read has one binding per use, so it does not matter which of *)
(* them is written back when.  This needs it of the documents of earlier   *)
(* visits, which other clients may have written.                           *)
(***************************************************************************)
GoodDocuments == {d \in Documents : SingleUse(d)}

Pages == [open: BOOLEAN, shown: GoodDocuments, loading: BOOLEAN, saving: BOOLEAN,
          unauthorized: BOOLEAN, editing: CharacterIds \cup {Nobody},
          recipe: RecipeIds \cup {Nobody}, quick: CharacterIds \cup {Nobody},
          asset: Assets \cup {NoAsset}]

Flights == [kind: {"none", "load", "put", "reload"}, of: ProjectIds \cup {Nobody},
            doc: GoodDocuments, read: BOOLEAN, mine: BOOLEAN]

\* A request that is under way is one of a project.
Sendable == {q \in Flights : q.kind # "none" => q.of \in ProjectIds}

ContextInv ==
    /\ project \in ProjectIds /\ saves \in 0..MaxSaves
    /\ document \in [ProjectIds -> GoodDocuments]
    /\ page \in Pages
    /\ inFlight \in [Requests -> Sendable]

LEMMA EmptyGood == EmptyContext \in GoodDocuments
  BY DEF EmptyContext, GoodDocuments, Documents, SingleUse

LEMMA ContextTyped == ContextInv => ContextTypeOK /\ OneBindingPerUse
<1> SUFFICES ASSUME ContextInv PROVE ContextTypeOK /\ OneBindingPerUse
  OBVIOUS
<1>1. \A d \in GoodDocuments : IsContext(d) /\ SingleUse(d)
  BY DEF GoodDocuments, Documents, IsContext
<1>2. \A p \in ProjectIds : document[p] \in GoodDocuments
  BY DEF ContextInv
<1>3. \A r \in Requests : inFlight[r] \in Flights
  BY DEF ContextInv, Sendable
<1>4. \A q \in Flights : /\ q.doc \in GoodDocuments /\ q.of \in ProjectIds \cup {Nobody}
                         /\ q.kind \in {"none", "load", "put", "reload"}
  BY DEF Flights
<1>5. /\ page.shown \in GoodDocuments
      /\ page.editing \in CharacterIds \cup {Nobody} /\ page.quick \in CharacterIds \cup {Nobody}
      /\ page.recipe \in RecipeIds \cup {Nobody} /\ page.asset \in Assets \cup {NoAsset}
  BY DEF ContextInv, Pages
<1>6. project \in ProjectIds /\ saves \in 0..MaxSaves
  BY DEF ContextInv
<1>7. ContextTypeOK
  BY <1>1, <1>2, <1>3, <1>4, <1>5, <1>6 DEF ContextTypeOK
<1>8. OneBindingPerUse
  BY <1>1, <1>2 DEF OneBindingPerUse
<1>9. QED
  BY <1>7, <1>8

-----------------------------------------------------------------------------
(* The changes of a document *)

\* What is changed of characters and recipes leaves the bindings alone.
LEMMA OtherPartsGood ==
    ASSUME NEW d \in GoodDocuments
    PROVE  /\ \A new \in SUBSET Characters : [d EXCEPT !.characters = new] \in GoodDocuments
           /\ \A new \in SUBSET Recipes : [d EXCEPT !.recipes = new] \in GoodDocuments
<1>1. d \in Documents /\ SingleUse(d)
  BY DEF GoodDocuments
<1>2. ASSUME NEW new \in SUBSET Characters PROVE [d EXCEPT !.characters = new] \in GoodDocuments
  <2> DEFINE e == [d EXCEPT !.characters = new]
  <2>1. e \in Documents /\ e.references = d.references
    BY <1>1 DEF Documents
  <2>2. SingleUse(e)
    BY <1>1, <2>1 DEF SingleUse
  <2>3. QED
    BY <2>1, <2>2 DEF GoodDocuments
<1>3. ASSUME NEW new \in SUBSET Recipes PROVE [d EXCEPT !.recipes = new] \in GoodDocuments
  <2> DEFINE e == [d EXCEPT !.recipes = new]
  <2>1. e \in Documents /\ e.references = d.references
    BY <1>1 DEF Documents
  <2>2. SingleUse(e)
    BY <1>1, <2>1 DEF SingleUse
  <2>3. QED
    BY <2>1, <2>2 DEF GoodDocuments
<1>4. QED
  BY <1>2, <1>3

LEMMA NewReferences ==
    ASSUME NEW d \in Documents, NEW new \in SUBSET References,
           \A x, y \in new : x.asset = y.asset /\ x.purpose = y.purpose /\ x.character = y.character
                             => x = y
    PROVE  [d EXCEPT !.references = new] \in GoodDocuments
<1> DEFINE e == [d EXCEPT !.references = new]
<1>1. e \in Documents /\ e.references = new
  BY DEF Documents
<1>2. SingleUse(e)
  BY <1>1 DEF SingleUse
<1>3. QED
  BY <1>1, <1>2 DEF GoodDocuments

\* Archiving a binding leaves its use.
LEMMA ToggledGood ==
    ASSUME NEW d \in GoodDocuments, NEW id
    PROVE  [d EXCEPT !.references = Toggled(@, id)] \in GoodDocuments
<1>1. d \in Documents /\ d.references \subseteq References /\ SingleUse(d)
  BY DEF GoodDocuments, Documents
<1> DEFINE f(x) == IF x.id = id THEN [x EXCEPT !.archived = ~@] ELSE x
<1>2. ASSUME NEW x \in References
      PROVE  /\ f(x) \in References
             /\ f(x).asset = x.asset /\ f(x).purpose = x.purpose /\ f(x).character = x.character
  BY DEF References
<1>3. Toggled(d.references, id) = {f(x) : x \in d.references}
  BY DEF Toggled
<1> HIDE DEF f
<1>4. {f(x) : x \in d.references} \subseteq References
  BY <1>1, <1>2
<1>5. ASSUME NEW u \in {f(x) : x \in d.references}, NEW v \in {f(x) : x \in d.references},
             u.asset = v.asset, u.purpose = v.purpose, u.character = v.character
      PROVE  u = v
  <2>1. PICK x \in d.references : u = f(x)
    OBVIOUS
  <2>2. PICK y \in d.references : v = f(y)
    OBVIOUS
  <2>3. x.asset = y.asset /\ x.purpose = y.purpose /\ x.character = y.character
    BY <1>1, <1>2, <1>5, <2>1, <2>2
  <2>4. x = y
    BY <1>1, <2>3 DEF SingleUse
  <2>5. QED
    BY <2>1, <2>2, <2>4
<1>6. [d EXCEPT !.references = {f(x) : x \in d.references}] \in GoodDocuments
  BY <1>1, <1>4, <1>5, NewReferences
<1>7. QED
  BY <1>3, <1>6

\* upsertProjectReferenceBinding replaces the one binding of the same use.
LEMMA UpsertGood ==
    ASSUME NEW d \in GoodDocuments, NEW asset \in Assets, NEW purpose \in Purposes,
           NEW character \in CharacterIds \cup {Nobody}
    PROVE  Upsert(d, asset, purpose, character) \in GoodDocuments
<1> DEFINE same == {x \in d.references :
                      x.asset = asset /\ x.purpose = purpose /\ x.character = character}
           id   == IF same = {} THEN BindingId(asset, purpose, character)
                   ELSE (CHOOSE x \in same : TRUE).id
           new  == [id |-> id, asset |-> asset, purpose |-> purpose, character |-> character,
                    archived |-> FALSE]
           refs == IF same = {} THEN d.references \cup {new}
                   ELSE ReplacedIn(d.references, id, new)
<1>1. d \in Documents /\ d.references \subseteq References /\ SingleUse(d)
  BY DEF GoodDocuments, Documents
<1>2. Upsert(d, asset, purpose, character) = [d EXCEPT !.references = refs]
  BY DEF Upsert
<1>3. id \in Purposes \X ({Slug[c] : c \in CharacterIds} \cup {Nobody}) \X Assets
  <2>1. CASE same = {}
    <3>1. character # Nobody => Slug[character] \in {Slug[c] : c \in CharacterIds}
      OBVIOUS
    <3>2. (IF character = Nobody THEN Nobody ELSE Slug[character])
             \in {Slug[c] : c \in CharacterIds} \cup {Nobody}
      BY <3>1
    <3>3. QED
      BY <2>1, <3>2 DEF BindingId
  <2>2. CASE same # {}
    <3>1. (CHOOSE x \in same : TRUE) \in References
      BY <1>1, <2>2
    <3>2. (CHOOSE x \in same : TRUE).id
             \in Purposes \X ({Slug[c] : c \in CharacterIds} \cup {Nobody}) \X Assets
      BY <3>1 DEF References
    <3>3. QED
      BY <2>2, <3>2
  <2>3. QED
    BY <2>1, <2>2
<1> HIDE DEF id
<1>4. /\ new \in References
      /\ new.asset = asset /\ new.purpose = purpose /\ new.character = character
  BY <1>3 DEF References
<1> HIDE DEF new
<1>5. refs \subseteq References
  BY <1>1, <1>4 DEF ReplacedIn
<1>6. \A x \in refs : x = new \/ (x \in d.references /\ x \notin same)
  <2>1. CASE same = {}
    BY <2>1
  <2>2. CASE same # {}
    <3> DEFINE s == CHOOSE x \in same : TRUE
    <3>1. s \in same /\ s.id = id
      BY <2>2 DEF id
    <3>2. \A x \in same : x = s
      BY <1>1, <3>1 DEF SingleUse
    <3>3. \A x \in refs : x = new \/ (x \in d.references /\ x.id # id)
      BY <2>2 DEF ReplacedIn
    <3> HIDE DEF s, same, refs
    <3>4. QED
      BY <3>1, <3>2, <3>3
  <2>3. QED
    BY <2>1, <2>2
<1>7. ASSUME NEW x \in refs, NEW y \in refs,
             x.asset = y.asset, x.purpose = y.purpose, x.character = y.character
      PROVE  x = y
  <2>1. CASE x = new /\ y # new
    BY <1>4, <1>6, <1>7, <2>1
  <2>2. CASE x # new /\ y = new
    BY <1>4, <1>6, <1>7, <2>2
  <2>3. CASE x # new /\ y # new
    BY <1>1, <1>6, <1>7, <2>3 DEF SingleUse
  <2>4. QED
    BY <2>1, <2>2, <2>3
<1> HIDE DEF refs
<1>8. QED
  BY <1>1, <1>2, <1>5, <1>7, NewReferences

-----------------------------------------------------------------------------
(* Reading and saving *)

LEMMA AskKeeps ==
    ASSUME ContextInv, NEW kind \in {"load", "put"}, NEW p \in ProjectIds, NEW d \in GoodDocuments,
           Ask(kind, p, d)
    PROVE  inFlight' \in [Requests -> Sendable]
<1>1. PICK r \in Requests :
          inFlight' = [inFlight EXCEPT ![r] = [kind |-> kind, of |-> p, doc |-> d,
                                               read |-> FALSE, mine |-> TRUE]]
  BY DEF Ask
<1>2. [kind |-> kind, of |-> p, doc |-> d, read |-> FALSE, mine |-> TRUE] \in Sendable
  BY DEF Sendable, Flights
<1>3. QED
  BY <1>1, <1>2 DEF ContextInv

LEMMA ShowsGood ==
    ASSUME NEW pg \in Pages, NEW d \in GoodDocuments
    PROVE  Shows(pg, d) \in Pages
<1> DEFINE q == IF pg.asset = NoAsset \/ Active(d) = {} THEN Nobody
                ELSE IF pg.quick \in Active(d) THEN pg.quick
                ELSE CHOOSE c \in Active(d) : TRUE
<1>1. \A x \in Characters : x.id \in CharacterIds
  BY DEF Characters
<1>2. d.characters \subseteq Characters
  BY DEF GoodDocuments, Documents
<1>3. Active(d) \subseteq CharacterIds
  BY <1>1, <1>2 DEF Active
<1>4. q \in CharacterIds \cup {Nobody}
  BY <1>3
<1>5. Shows(pg, d) = [pg EXCEPT !.shown = d, !.quick = q]
  BY DEF Shows
<1> HIDE DEF q
<1>6. QED
  BY <1>4, <1>5 DEF Pages

LEMMA SaveKeeps ==
    ASSUME ContextInv, NEW d \in GoodDocuments, NEW pg \in Pages, Save(d, pg)
    PROVE  ContextInv'
<1>1. /\ saves < MaxSaves /\ saves' = saves + 1 /\ Ask("put", project, d)
      /\ page' = [pg EXCEPT !.saving = TRUE] /\ document' = document /\ project' = project
  BY DEF Save
<1>2. saves' \in 0..MaxSaves
  BY <1>1, WebContextAssumption DEF ContextInv
<1>3. page' \in Pages
  BY <1>1 DEF Pages
<1>4. project \in ProjectIds
  BY DEF ContextInv
<1>5. inFlight' \in [Requests -> Sendable]
  BY <1>1, <1>4, AskKeeps
<1>6. QED
  BY <1>1, <1>2, <1>3, <1>5 DEF ContextInv

\* Opening, closing, refreshing, another project.
LEMMA ReadingKeepsContext ==
    ASSUME ContextInv,
           \/ \E a \in Assets \cup {NoAsset} : OpenContext(a)
           \/ CloseContext \/ RefreshContext
           \/ \E p \in ProjectIds : ChangeProject(p)
    PROVE  ContextInv'
<1>1. page \in Pages /\ project \in ProjectIds
  BY DEF ContextInv
<1>2. FreshPage \in Pages /\ EmptyContext \in GoodDocuments
  BY EmptyGood DEF FreshPage, Pages
<1>3. NoRequest \in Sendable
  BY EmptyGood DEF NoRequest, Sendable, Flights
<1>4. ASSUME NEW a \in Assets \cup {NoAsset}, OpenContext(a) PROVE ContextInv'
  <2>1. /\ page' = [FreshPage EXCEPT !.asset = a, !.loading = TRUE]
        /\ Ask("load", project, EmptyContext)
        /\ document' = document /\ project' = project /\ saves' = saves
    BY <1>4 DEF OpenContext
  <2>2. page' \in Pages
    BY <1>2, <2>1 DEF Pages
  <2>3. inFlight' \in [Requests -> Sendable]
    BY <1>1, <1>2, <2>1, AskKeeps
  <2>4. QED
    BY <2>1, <2>2, <2>3 DEF ContextInv
<1>5. CASE CloseContext
  <2>1. /\ page' = [FreshPage EXCEPT !.open = FALSE]
        /\ inFlight' = [r \in Requests |-> IF inFlight[r].kind = "put"
                           THEN [inFlight[r] EXCEPT !.mine = FALSE] ELSE NoRequest]
        /\ document' = document /\ project' = project /\ saves' = saves
    BY <1>5 DEF CloseContext
  <2>2. page' \in Pages
    BY <1>2, <2>1 DEF Pages
  <2>3. \A q \in Sendable : [q EXCEPT !.mine = FALSE] \in Sendable
    BY DEF Sendable, Flights
  <2>4. inFlight' \in [Requests -> Sendable]
    BY <1>3, <2>1, <2>3 DEF ContextInv
  <2>5. QED
    BY <2>1, <2>2, <2>4 DEF ContextInv
<1>6. CASE RefreshContext
  <2>1. /\ page' = [page EXCEPT !.loading = TRUE] /\ project' = project
        /\ Ask("load", project, EmptyContext)
        /\ document' = document /\ saves' = saves
    BY <1>6 DEF RefreshContext, Load
  <2>2. page' \in Pages
    BY <1>1, <2>1 DEF Pages
  <2>3. inFlight' \in [Requests -> Sendable]
    BY <1>1, <1>2, <2>1, AskKeeps
  <2>4. QED
    BY <2>1, <2>2, <2>3 DEF ContextInv
<1>7. ASSUME NEW p \in ProjectIds, ChangeProject(p) PROVE ContextInv'
  <2>1. project' = p /\ document' = document /\ saves' = saves
    BY <1>7 DEF ChangeProject
  <2>2. CASE page.open
    <3>1. page' = [page EXCEPT !.loading = TRUE] /\ Ask("load", p, EmptyContext)
      BY <1>7, <2>1, <2>2 DEF ChangeProject, Load
    <3>2. page' \in Pages
      BY <1>1, <3>1 DEF Pages
    <3>3. inFlight' \in [Requests -> Sendable]
      BY <1>2, <3>1, AskKeeps
    <3>4. QED
      BY <2>1, <3>2, <3>3 DEF ContextInv
  <2>3. CASE ~page.open
    BY <1>7, <2>1, <2>3 DEF ChangeProject, ContextInv
  <2>4. QED
    BY <2>2, <2>3
<1>8. QED
  BY <1>4, <1>5, <1>6, <1>7

\* The server reads or writes, and the page is answered.
LEMMA ServerKeeps ==
    ASSUME ContextInv, NEW r \in Requests,
           \/ ServerReads(r) \/ ServerWrites(r) \/ ServerReloads(r) \/ Answered(r)
           \/ \E u \in BOOLEAN : Failed(r, u)
    PROVE  ContextInv'
<1> DEFINE q == inFlight[r]
<1>1. page \in Pages /\ q \in Sendable
  BY DEF ContextInv
<1>2. NoRequest \in Sendable
  BY EmptyGood DEF NoRequest, Sendable, Flights
<1>3. q.doc \in GoodDocuments /\ q.mine \in BOOLEAN /\ (q.kind # "none" => q.of \in ProjectIds)
  BY <1>1 DEF Sendable, Flights
<1>4. \A d \in GoodDocuments : [q EXCEPT !.read = TRUE, !.doc = d] \in Sendable
  BY <1>1 DEF Sendable, Flights
<1>5. \A p \in ProjectIds : document[p] \in GoodDocuments
  BY DEF ContextInv
<1>6. CASE ServerReads(r) \/ ServerReloads(r)
  <2>1. /\ q.kind # "none"
        /\ inFlight' = [inFlight EXCEPT ![r] = [q EXCEPT !.read = TRUE, !.doc = document[q.of]]]
        /\ document' = document /\ project' = project /\ page' = page /\ saves' = saves
    BY <1>6 DEF ServerReads, ServerReloads, ContextInv
  <2> HIDE DEF q
  <2>2. [q EXCEPT !.read = TRUE, !.doc = document[q.of]] \in Sendable
    BY <1>3, <1>4, <1>5, <2>1
  <2>3. inFlight' \in [Requests -> Sendable]
    BY <2>1, <2>2 DEF ContextInv
  <2>4. QED
    BY <2>1, <2>3 DEF ContextInv
<1>7. CASE ServerWrites(r)
  <2> DEFINE n == IF ~q.mine THEN NoRequest ELSE [q EXCEPT !.kind = "reload", !.doc = EmptyContext]
  <2>1. /\ q.kind # "none" /\ document' = [document EXCEPT ![q.of] = q.doc]
        /\ inFlight' = [inFlight EXCEPT ![r] = n]
        /\ project' = project /\ page' = page /\ saves' = saves
    BY <1>7 DEF ServerWrites
  <2>2. n \in Sendable
    BY <1>1, <1>2, <1>3, <2>1, EmptyGood DEF Sendable, Flights
  <2> HIDE DEF n, q
  <2>3. inFlight' \in [Requests -> Sendable]
    BY <2>1, <2>2 DEF ContextInv
  <2>4. document' \in [ProjectIds -> GoodDocuments]
    BY <1>3, <2>1 DEF ContextInv
  <2>5. QED
    BY <2>1, <2>3, <2>4 DEF ContextInv
<1>8. ASSUME NEW pg \in Pages, Ended(r, pg) PROVE ContextInv'
  <2>1. /\ page' \in {page, [pg EXCEPT !.loading = FALSE], [pg EXCEPT !.saving = FALSE]}
        /\ inFlight' = [inFlight EXCEPT ![r] = NoRequest]
        /\ document' = document /\ project' = project /\ saves' = saves
    BY <1>8 DEF Ended
  <2>2. page' \in Pages
    BY <1>1, <1>8, <2>1 DEF Pages
  <2>3. inFlight' \in [Requests -> Sendable]
    BY <1>2, <2>1 DEF ContextInv
  <2>4. QED
    BY <2>1, <2>2, <2>3 DEF ContextInv
<1>9. CASE Answered(r)
  <2>1. Shows(page, q.doc) \in Pages
    BY <1>1, <1>3, ShowsGood
  <2>2. [Shows(page, q.doc) EXCEPT !.unauthorized = FALSE] \in Pages
    BY <2>1 DEF Pages
  <2>3. Ended(r, [Shows(page, q.doc) EXCEPT !.unauthorized = FALSE])
    BY <1>9 DEF Answered
  <2>4. QED
    BY <1>8, <2>2, <2>3
<1>10. ASSUME NEW u \in BOOLEAN, Failed(r, u) PROVE ContextInv'
  <2>1. [page EXCEPT !.unauthorized = @ \/ u] \in Pages
    <3>1. page.unauthorized \/ u \in BOOLEAN
      BY <1>1, <1>10 DEF Pages
    <3>2. QED
      BY <1>1, <3>1 DEF Pages
  <2>2. Ended(r, [page EXCEPT !.unauthorized = @ \/ u])
    BY <1>10 DEF Failed
  <2>3. QED
    BY <1>8, <2>1, <2>2
<1>11. QED
  BY <1>6, <1>7, <1>9, <1>10

-----------------------------------------------------------------------------
(* The forms *)

LEMMA CharacterFormKeeps ==
    ASSUME ContextInv,
           \/ \E c \in CharacterIds \cup {Nobody} : ArchiveCharacter(c)
           \/ \E c \in CharacterIds, x \in BOOLEAN, a \in Assets \cup {NoAsset} : SubmitCharacter(c, x, a)
    PROVE  ContextInv'
<1> DEFINE chars == page.shown.characters
<1>1. page \in Pages /\ page.shown \in GoodDocuments
  BY DEF ContextInv, Pages
<1>2. chars \subseteq Characters
  BY <1>1 DEF GoodDocuments, Documents
<1>3. ASSUME NEW c \in CharacterIds \cup {Nobody}, ArchiveCharacter(c) PROVE ContextInv'
  <2>1. \A x \in Characters : [x EXCEPT !.archived = ~@] \in Characters
    BY DEF Characters
  <2>2. Toggled(chars, c) \in SUBSET Characters
    BY <1>2, <2>1 DEF Toggled
  <2>3. [page.shown EXCEPT !.characters = Toggled(@, c)] \in GoodDocuments
    BY <1>1, <2>2, OtherPartsGood
  <2>4. QED
    BY <1>1, <1>3, <2>3, SaveKeeps DEF ArchiveCharacter
<1>4. ASSUME NEW c \in CharacterIds, NEW x \in BOOLEAN, NEW a \in Assets \cup {NoAsset},
             SubmitCharacter(c, x, a)
      PROVE  ContextInv'
  <2> DEFINE refs == UNION {y.refs : y \in {z \in chars : z.id = page.editing}}
             new  == [id |-> c, archived |-> x, primary |-> a, refs |-> refs]
  <2>1. \A y \in Characters : y.refs \subseteq Assets
    BY DEF Characters
  <2>2. refs \subseteq Assets
    BY <1>2, <2>1
  <2>3. new \in Characters
    BY <1>4, <2>2 DEF Characters
  <2>4. Save([page.shown EXCEPT !.characters = Submitted(@, page.editing, new)],
             [page EXCEPT !.editing = Nobody])
    BY <1>4 DEF SubmitCharacter
  <2> HIDE DEF new
  <2>5. Submitted(chars, page.editing, new) \in SUBSET Characters
    BY <1>2, <2>3 DEF Submitted, ReplacedIn
  <2>6. [page.shown EXCEPT !.characters = Submitted(@, page.editing, new)] \in GoodDocuments
    BY <1>1, <2>5, OtherPartsGood
  <2>7. [page EXCEPT !.editing = Nobody] \in Pages
    BY <1>1 DEF Pages
  <2>8. QED
    BY <2>4, <2>6, <2>7, SaveKeeps
<1>5. QED
  BY <1>3, <1>4

LEMMA ReferenceFormKeeps ==
    ASSUME ContextInv,
           \/ \E a \in Assets, use \in Purposes, c \in CharacterIds \cup {Nobody} : SubmitReference(a, use, c)
           \/ \E x \in page.shown.references : ArchiveReference(x.id)
    PROVE  ContextInv'
<1>1. page \in Pages /\ page.shown \in GoodDocuments
  BY DEF ContextInv, Pages
<1>2. ASSUME NEW a \in Assets, NEW use \in Purposes, NEW c \in CharacterIds \cup {Nobody},
             SubmitReference(a, use, c)
      PROVE  ContextInv'
  <2>1. Upsert(page.shown, a, use, c) \in GoodDocuments
    BY <1>1, <1>2, UpsertGood
  <2>2. QED
    BY <1>1, <1>2, <2>1, SaveKeeps DEF SubmitReference
<1>3. ASSUME NEW x \in page.shown.references, ArchiveReference(x.id) PROVE ContextInv'
  <2>1. [page.shown EXCEPT !.references = Toggled(@, x.id)] \in GoodDocuments
    BY <1>1, ToggledGood
  <2>2. QED
    BY <1>1, <1>3, <2>1, SaveKeeps DEF ArchiveReference
<1>4. QED
  BY <1>2, <1>3

LEMMA QuickBindingKeeps ==
    ASSUME ContextInv, QuickBinding
    PROVE  ContextInv'
<1> DEFINE doc == page.shown
           a   == page.asset
           c   == page.quick
<1>1. page \in Pages /\ doc \in GoodDocuments /\ a \in Assets /\ c \in CharacterIds
  BY DEF QuickBinding, ContextInv, Pages
<1>2. doc.characters \subseteq Characters
  BY <1>1 DEF GoodDocuments, Documents
<1>3. \A x \in Characters : /\ [x EXCEPT !.primary = a] \in Characters
                            /\ [x EXCEPT !.refs = @ \cup {a}] \in Characters
  BY <1>1 DEF Characters
<1>4. PICK d \in {SetPrimary(doc, c, a), AddReference(doc, c, a), Upsert(doc, a, "character", c)} :
          Save(d, page)
  BY DEF QuickBinding
<1> HIDE DEF doc, a, c
<1>5. SetPrimary(doc, c, a) \in GoodDocuments
  <2>1. {IF x.id = c THEN [x EXCEPT !.primary = a] ELSE x : x \in doc.characters} \in SUBSET Characters
    BY <1>2, <1>3
  <2>2. QED
    BY <1>1, <2>1, OtherPartsGood DEF SetPrimary
<1>6. AddReference(doc, c, a) \in GoodDocuments
  <2>1. {IF x.id = c THEN [x EXCEPT !.refs = @ \cup {a}] ELSE x : x \in doc.characters} \in SUBSET Characters
    BY <1>2, <1>3
  <2>2. QED
    BY <1>1, <2>1, OtherPartsGood DEF AddReference
<1>7. Upsert(doc, a, "character", c) \in GoodDocuments
  BY <1>1, UpsertGood DEF Purposes
<1>8. QED
  BY <1>1, <1>4, <1>5, <1>6, <1>7, SaveKeeps

LEMMA RecipeFormKeeps ==
    ASSUME ContextInv,
           \/ \E id \in RecipeIds \cup {Nobody} : ArchiveRecipe(id)
           \/ \E new \in Recipes : SubmitRecipe(new)
    PROVE  ContextInv'
<1> DEFINE recipes == page.shown.recipes
<1>1. page \in Pages /\ page.shown \in GoodDocuments
  BY DEF ContextInv, Pages
<1>2. recipes \subseteq Recipes
  BY <1>1 DEF GoodDocuments, Documents
<1>3. ASSUME NEW id \in RecipeIds \cup {Nobody}, ArchiveRecipe(id) PROVE ContextInv'
  <2>1. \A x \in Recipes : [x EXCEPT !.archived = ~@] \in Recipes
    BY DEF Recipes
  <2>2. Toggled(recipes, id) \in SUBSET Recipes
    BY <1>2, <2>1 DEF Toggled
  <2>3. [page.shown EXCEPT !.recipes = Toggled(@, id)] \in GoodDocuments
    BY <1>1, <2>2, OtherPartsGood
  <2>4. QED
    BY <1>1, <1>3, <2>3, SaveKeeps DEF ArchiveRecipe
<1>4. ASSUME NEW new \in Recipes, SubmitRecipe(new) PROVE ContextInv'
  <2>1. Submitted(recipes, page.recipe, new) \in SUBSET Recipes
    BY <1>2, <1>4 DEF Submitted, ReplacedIn
  <2>2. [page.shown EXCEPT !.recipes = Submitted(@, page.recipe, new)] \in GoodDocuments
    BY <1>1, <2>1, OtherPartsGood
  <2>3. [page EXCEPT !.recipe = Nobody] \in Pages
    BY <1>1 DEF Pages
  <2>4. QED
    BY <1>4, <2>2, <2>3, SaveKeeps DEF SubmitRecipe
<1>5. QED
  BY <1>3, <1>4

\* What is edited next.
LEMMA PickKeeps ==
    ASSUME ContextInv,
           \/ \E c \in CharacterIds \cup {Nobody} : EditCharacter(c) \/ PickQuick(c)
           \/ \E id \in RecipeIds \cup {Nobody} : EditRecipe(id)
    PROVE  ContextInv'
<1>1. page \in Pages
  BY DEF ContextInv
<1>2. /\ document' = document /\ project' = project /\ inFlight' = inFlight /\ saves' = saves
      /\ \/ \E c \in CharacterIds \cup {Nobody} :
              page' \in {[page EXCEPT !.editing = c], [page EXCEPT !.quick = c]}
         \/ \E id \in RecipeIds \cup {Nobody} : page' = [page EXCEPT !.recipe = id]
  BY DEF EditCharacter, PickQuick, EditRecipe
<1>3. page' \in Pages
  BY <1>1, <1>2 DEF Pages
<1>4. QED
  BY <1>2, <1>3 DEF ContextInv

LEMMA InitContextInv ==
    (\A p \in ProjectIds : SingleUse(Earlier[p])) => (ContextInit => ContextInv)
<1> SUFFICES ASSUME \A p \in ProjectIds : SingleUse(Earlier[p]), ContextInit PROVE ContextInv
  OBVIOUS
<1>1. /\ document = Earlier /\ project \in ProjectIds /\ saves = 0
      /\ page = [FreshPage EXCEPT !.open = FALSE] /\ inFlight = [r \in Requests |-> NoRequest]
  BY DEF ContextInit
<1>2. document \in [ProjectIds -> GoodDocuments]
  BY <1>1, EarlierAssumption DEF GoodDocuments
<1>3. page \in Pages
  BY <1>1, EmptyGood DEF FreshPage, Pages
<1>4. inFlight \in [Requests -> Sendable]
  BY <1>1, EmptyGood DEF NoRequest, Sendable, Flights
<1>5. saves \in 0..MaxSaves
  BY <1>1, WebContextAssumption
<1>6. QED
  BY <1>1, <1>2, <1>3, <1>4, <1>5 DEF ContextInv

LEMMA NextContextInv == ContextInv /\ [ContextNext]_contextVars => ContextInv'
<1> SUFFICES ASSUME ContextInv, [ContextNext]_contextVars PROVE ContextInv'
  OBVIOUS
<1>1. CASE ContextNext
  <2>1. CASE \/ \E a \in Assets \cup {NoAsset} : OpenContext(a)
             \/ CloseContext \/ RefreshContext
             \/ \E p \in ProjectIds : ChangeProject(p)
    BY <2>1, ReadingKeepsContext
  <2>2. ASSUME NEW r \in Requests,
               \/ ServerReads(r) \/ ServerWrites(r) \/ ServerReloads(r) \/ Answered(r)
               \/ \E u \in BOOLEAN : Failed(r, u)
        PROVE  ContextInv'
    BY <2>2, ServerKeeps
  <2>3. CASE \/ \E c \in CharacterIds \cup {Nobody} : ArchiveCharacter(c)
             \/ \E c \in CharacterIds, x \in BOOLEAN, a \in Assets \cup {NoAsset} : SubmitCharacter(c, x, a)
    BY <2>3, CharacterFormKeeps
  <2>4. CASE \/ \E a \in Assets, use \in Purposes, c \in CharacterIds \cup {Nobody} :
                   SubmitReference(a, use, c)
             \/ \E x \in page.shown.references : ArchiveReference(x.id)
    BY <2>4, ReferenceFormKeeps
  <2>5. CASE QuickBinding
    BY <2>5, QuickBindingKeeps
  <2>6. CASE \/ \E id \in RecipeIds \cup {Nobody} : ArchiveRecipe(id)
             \/ \E new \in Recipes : SubmitRecipe(new)
    BY <2>6, RecipeFormKeeps
  <2>7. CASE \/ \E c \in CharacterIds \cup {Nobody} : EditCharacter(c) \/ PickQuick(c)
             \/ \E id \in RecipeIds \cup {Nobody} : EditRecipe(id)
    BY <2>7, PickKeeps
  <2>8. QED
    BY <1>1, <2>1, <2>2, <2>3, <2>4, <2>5, <2>6, <2>7 DEF ContextNext
<1>2. CASE UNCHANGED contextVars
  BY <1>2 DEF contextVars, ContextInv
<1>3. QED
  BY <1>1, <1>2

\* However late or misplaced the documents are that the page is shown and
\* writes back, no project gets two bindings of one asset for one purpose to
\* one character: for any projects, assets and characters, any slugs, any
\* number of requests under way and any number of saves, if the documents of
\* earlier visits had none.
THEOREM BindingsHold ==
    (\A p \in ProjectIds : SingleUse(Earlier[p]))
        => (ContextSpec => [](ContextTypeOK /\ OneBindingPerUse))
<1> SUFFICES ASSUME \A p \in ProjectIds : SingleUse(Earlier[p])
             PROVE  ContextSpec => [](ContextTypeOK /\ OneBindingPerUse)
  OBVIOUS
<1>1. ContextInit => ContextInv
  BY InitContextInv
<1>2. QED
  BY <1>1, NextContextInv, ContextTyped, PTL DEF ContextSpec

-----------------------------------------------------------------------------
(***************************************************************************)
(* The asset library: what is listed was answered for what is shown above  *)
(* it, as long as no more assets are asked for while the list is read      *)
(* again (~Hasty).                                                         *)
(***************************************************************************)

\* Nothing but the current query was answered.
OriginIsQuery == origin \subseteq {Meant(query)}

\* While no timer is running, the newest request is for the current query, and
\* what is asked for as more of the list is more of this query's; while more can
\* be asked for, the list is this query's, too.
LibraryInv ==
    /\ DOMAIN asked = ListSlots
    /\ newest \in {NoneYet} \cup {k \in ListSlots : asked[k].pc # "free"}
    /\ DOMAIN busy = {"loading", "more"}
    /\ newest # NoneYet => busy.loading \/ busy.more
    /\ ~due /\ newest # NoneYet =>
          /\ asked[newest].query = query
          /\ asked[newest].append => OriginIsQuery
    /\ ~due /\ newest = NoneYet =>
          /\ hasMore => OriginIsQuery
          /\ said = "nothing" /\ (query.mode = "recent" \/ ScopeReady) => OriginIsQuery

LEMMA SlotNotNone == \A k \in ListSlots : k # NoneYet
  BY WebLibraryAssumption DEF ListSlots, NoneYet

\* A change of the query starts the timer.
LEMMA AskingKeeps ==
    ASSUME LibraryInv, NEW q, Asking(q), ListStays
    PROVE  LibraryInv'
<1>1. /\ query' = q /\ due' = (due \/ q # query)
      /\ origin' = origin /\ hasMore' = hasMore /\ busy' = busy /\ said' = said
      /\ newest' = newest /\ asked' = asked
  BY DEF Asking, ListStays
<1>2. CASE q = query
  BY <1>1, <1>2 DEF LibraryInv, OriginIsQuery, Meant, ScopeReady
<1>3. CASE q # query
  BY <1>1, <1>3 DEF LibraryInv
<1>4. QED
  BY <1>2, <1>3

\* A request for the list itself replaces the newest; one for more of it is of
\* the query whose list is there.
LEMMA LoadKeeps ==
    ASSUME LibraryInv, NEW append \in BOOLEAN, NEW offset, LoadAssets(append, offset),
           append => /\ ~due /\ due' = due /\ OriginIsQuery
                     /\ query.mode = "recent" \/ ScopeReady
    PROVE  LibraryInv'
<1>1. query' = query /\ origin' = origin
  BY DEF LoadAssets
<1>2. CASE query.mode = "scope" /\ ~ScopeReady
  <2>1. /\ newest' = NoneYet /\ hasMore' = FALSE /\ asked' = asked
        /\ busy' = [loading |-> FALSE, more |-> FALSE]
    BY <1>2 DEF LoadAssets
  <2>2. DOMAIN busy' = {"loading", "more"}
    BY <2>1
  <2>3. ~(query'.mode = "recent" \/ ScopeReady')
    BY <1>1, <1>2 DEF ScopeReady
  <2>4. QED
    BY <2>1, <2>2, <2>3 DEF LibraryInv
<1>3. CASE /\ ~(query.mode = "scope" /\ ~ScopeReady)
           /\ ~append /\ newest # NoneYet
           /\ ~asked[newest].append /\ asked[newest].offset = offset /\ asked[newest].query = query
  <2>1. newest' = newest /\ hasMore' = hasMore /\ busy' = busy /\ asked' = asked
    BY <1>3 DEF LoadAssets
  <2>2. QED
    BY <1>1, <1>3, <2>1 DEF LibraryInv
<1>4. CASE /\ ~(query.mode = "scope" /\ ~ScopeReady)
           /\ ~(/\ ~append /\ newest # NoneYet
                /\ ~asked[newest].append /\ asked[newest].offset = offset
                /\ asked[newest].query = query)
  <2>1. PICK k \in ListSlots :
          /\ asked' = [asked EXCEPT ![k] = [NoList EXCEPT !.pc = "sent", !.append = append,
                                            !.offset = offset, !.query = query]]
          /\ newest' = k
          /\ busy' = IF append THEN [busy EXCEPT !.more = TRUE] ELSE [busy EXCEPT !.loading = TRUE]
    BY <1>4 DEF LoadAssets
  <2>2. DOMAIN asked' = ListSlots /\ asked'[k] = [NoList EXCEPT !.pc = "sent", !.append = append,
                                                  !.offset = offset, !.query = query]
    BY <2>1 DEF LibraryInv
  <2>3. asked'[k].pc = "sent" /\ asked'[k].append = append /\ asked'[k].query = query
    BY <2>2 DEF NoList
  <2>4. DOMAIN busy' = {"loading", "more"} /\ (busy'.loading \/ busy'.more)
    BY <2>1 DEF LibraryInv
  <2>5. k # NoneYet
    BY SlotNotNone
  <2>6. append => OriginIsQuery'
    BY <1>1 DEF OriginIsQuery, Meant
  <2>7. QED
    BY <1>1, <2>1, <2>2, <2>3, <2>4, <2>5, <2>6 DEF LibraryInv
<1>5. QED
  BY <1>2, <1>3, <1>4

\* Only the newest request's answer or failure changes the list.
LEMMA AnsweredKeeps ==
    ASSUME LibraryInv, NEW k \in ListSlots,
           ListAnswered(k) \/ \E how \in {"error", "unauthorized"} : ListFails(k, how)
    PROVE  LibraryInv'
<1>1. /\ asked' = [asked EXCEPT ![k] = NoList]
      /\ query' = query /\ due' = due /\ k # NoneYet
  BY SlotNotNone DEF ListAnswered, ListFails
<1>2. DOMAIN asked' = ListSlots
  BY <1>1 DEF LibraryInv
<1>3. CASE k # newest
  <2>1. /\ origin' = origin /\ hasMore' = hasMore /\ said' = said /\ busy' = busy /\ newest' = newest
    BY <1>3 DEF ListAnswered, ListFails, Taken
  <2>2. newest # NoneYet => newest \in ListSlots /\ asked'[newest] = asked[newest]
    BY <1>1, <1>3 DEF LibraryInv
  <2>3. QED
    BY <1>1, <1>2, <2>1, <2>2 DEF LibraryInv, OriginIsQuery, Meant, ScopeReady
<1>4. CASE k = newest
  <2>1. newest' = NoneYet /\ busy' = [loading |-> FALSE, more |-> FALSE]
    BY <1>4 DEF ListAnswered, ListFails, Taken
  <2>2. DOMAIN busy' = {"loading", "more"}
    BY <2>1
  <2>3. ~due => asked[k].query = query /\ (asked[k].append => OriginIsQuery)
    BY <1>1, <1>4 DEF LibraryInv
  <2>4. ASSUME ListAnswered(k), ~due PROVE OriginIsQuery'
    <3>1. origin' = (IF asked[k].append THEN origin ELSE {}) \cup {Meant(query)}
      BY <1>4, <2>3, <2>4 DEF ListAnswered, Taken
    <3>2. QED
      BY <1>1, <2>3, <2>4, <3>1 DEF OriginIsQuery, Meant
  <2>5. ASSUME NEW how \in {"error", "unauthorized"}, ListFails(k, how), ~due
        PROVE  said' # "nothing" /\ (hasMore' => OriginIsQuery')
    <3>1. said' = how /\ hasMore' = (hasMore /\ asked[k].append) /\ origin' = origin
      BY <1>4, <2>5 DEF ListFails, Taken
    <3>2. QED
      BY <1>1, <2>3, <2>5, <3>1 DEF OriginIsQuery, Meant
  <2>6. QED
    BY <1>1, <1>2, <2>1, <2>2, <2>4, <2>5 DEF LibraryInv
<1>5. QED
  BY <1>3, <1>4

LEMMA InitLibraryInv == LibraryInit => LibraryInv
  BY DEF LibraryInit, LibraryInv, OriginIsQuery, NoneYet

LEMMA NextLibraryInv == ~Hasty /\ LibraryInv /\ [LibraryNext]_libraryVars => LibraryInv'
<1> SUFFICES ASSUME ~Hasty, LibraryInv, [LibraryNext]_libraryVars PROVE LibraryInv'
  OBVIOUS
<1>1. ASSUME NEW m \in {"recent", "scope"}, SetMode(m) PROVE LibraryInv'
  BY <1>1, AskingKeeps DEF SetMode
<1>2. ASSUME NEW c \in CampaignNames, CommitScope(c) PROVE LibraryInv'
  BY <1>2, AskingKeeps DEF CommitScope
<1>3. ASSUME NEW f \in Filters, SetTextFilter(f) PROVE LibraryInv'
  BY <1>3 DEF SetTextFilter, ListStays, LibraryInv, OriginIsQuery, Meant, ScopeReady
<1>4. ASSUME NEW f \in Filters, SetStatusFilter(f) PROVE LibraryInv'
  BY <1>4, AskingKeeps DEF SetStatusFilter
<1>5. CASE Debounced
  BY <1>5, AskingKeeps DEF Debounced
<1>6. CASE RefreshList
  BY <1>6, LoadKeeps DEF RefreshList
<1>7. CASE LoadMore
  <2>1. /\ hasMore /\ ~busy.more /\ ~busy.loading /\ ~due /\ due' = due
        /\ query.mode = "recent" \/ ScopeReady
        /\ LoadAssets(TRUE, Cardinality(listed))
    BY <1>7 DEF LoadMore
  <2>2. OriginIsQuery
    BY <2>1 DEF LibraryInv
  <2>3. QED
    BY <2>1, <2>2, LoadKeeps
<1>8. ASSUME NEW k \in ListSlots,
             ListAnswered(k) \/ \E how \in {"error", "unauthorized"} : ListFails(k, how)
      PROVE  LibraryInv'
  BY <1>8, AnsweredKeeps
<1>9. ASSUME NEW r \in Rows, SwitchToAssetScope(r) PROVE LibraryInv'
  BY <1>9, AskingKeeps DEF SwitchToAssetScope
<1>10. CASE UNCHANGED libraryVars
  BY <1>10 DEF libraryVars, LibraryInv, OriginIsQuery, Meant, ScopeReady
<1>11. QED
  BY <1>1, <1>2, <1>3, <1>4, <1>5, <1>6, <1>7, <1>8, <1>9, <1>10 DEF LibraryNext

\* When no request is awaited, due or failed, every asset in the list was
\* answered for the mode, scope and filters shown above it: for any assets,
\* pages and filters, any number of requests under way and any order of their
\* answers.
THEOREM ListHolds == ~Hasty => (LibrarySpec => []ListedIsAsked)
<1>1. LibraryInv => ListedIsAsked
  BY DEF LibraryInv, ListedIsAsked, OriginIsQuery
<1>2. ASSUME ~Hasty PROVE LibrarySpec => []ListedIsAsked
  BY <1>1, <1>2, InitLibraryInv, NextLibraryInv, PTL DEF LibrarySpec
<1>3. QED
  BY <1>2

-----------------------------------------------------------------------------
(***************************************************************************)
(* The favourites: what refers to a collection refers to one that exists,  *)
(* but for the selection of what is being deleted, and what failed         *)
(* deletions and drags leave selected.                                     *)
(***************************************************************************)

\* Every id is listed once.
OnceEach(seq) == \A i, j \in 1..Len(seq) : seq[i] = seq[j] => i = j

\* Only collections that were named are listed: a new one gets another id.
ListInv ==
    /\ favorites \in Seq(AllIds) /\ favorites # <<>> /\ OnceEach(favorites)
    /\ DOMAIN nameOf = AllIds
    /\ \A c \in Listed : nameOf[c] # NoName

FavoritesInv ==
    /\ ListInv
    /\ preferred \in Listed \cup {Nowhere}
    /\ activeId \in Listed \cup {All, Nowhere}
    /\ DOMAIN deleting = Deletions /\ \A d \in Deletions : "at" \in DOMAIN deleting[d]
    /\ selected \subseteq Shown \cup ({deleting[d].at : d \in Deletions} \ {Nowhere}) \cup stray

LEMMA FavoritesInvRefer == FavoritesInv => FavoritesRefer
  BY DEF FavoritesInv, ListInv, FavoritesRefer

LEMMA NowhereIsNoId == Nowhere \notin AllIds /\ NoName \notin Names /\ DefaultName \in Names
  BY WebFavoritesAssumption DEF Nowhere, AllIds, Default, NoName, Names, DefaultName

-----------------------------------------------------------------------------
(* Sequences of ids *)

LEMMA ElementsOf ==
    ASSUME NEW s \in Seq(AllIds)
    PROVE  /\ Len(s) \in Nat /\ DOMAIN s = 1..Len(s)
           /\ Elements(s) = {s[i] : i \in 1..Len(s)} /\ Elements(s) \subseteq AllIds
           /\ s # <<>> => Len(s) > 0 /\ Head(s) \in Elements(s)
<1>1. Len(s) \in Nat /\ DOMAIN s = 1..Len(s)
  BY LenProperties
<1>2. \A i \in 1..Len(s) : s[i] \in AllIds
  BY ElementOfSeq
<1>3. Elements(s) = {s[i] : i \in 1..Len(s)}
  BY <1>1 DEF Elements
<1>4. ASSUME s # <<>> PROVE Len(s) > 0 /\ Head(s) \in Elements(s)
  <2>1. Len(s) > 0
    BY <1>1, <1>4, EmptySeq
  <2>2. Head(s) = s[1]
    BY <1>4, HeadTailProperties
  <2>3. QED
    BY <1>1, <1>3, <2>1, <2>2
<1>5. QED
  BY <1>1, <1>2, <1>3, <1>4

\* Putting a new id somewhere.
LEMMA InsertedOnce ==
    ASSUME NEW s \in Seq(AllIds), OnceEach(s), NEW c \in AllIds, c \notin Elements(s),
           NEW cut \in 0..Len(s)
    PROVE  LET d == SubSeq(s, 1, cut) \o <<c>> \o SubSeq(s, cut + 1, Len(s))
           IN  /\ d \in Seq(AllIds) /\ OnceEach(d) /\ d # <<>>
               /\ Elements(d) = Elements(s) \cup {c}
<1> DEFINE u == SubSeq(s, 1, cut)
           v == SubSeq(s, cut + 1, Len(s))
           w == u \o <<c>>
           d == w \o v
           n == Len(s)
<1>1. n \in Nat /\ cut \in Nat /\ cut <= n /\ \A i \in 1..n : s[i] \in AllIds /\ s[i] # c
  BY ElementsOf
<1>2. u \in Seq(AllIds) /\ Len(u) = cut /\ \A i \in 1..cut : u[i] = s[i]
  <2>1. \A i \in 1..cut : s[i] \in AllIds
    BY <1>1
  <2>2. QED
    BY <1>1, <2>1, SubSeqProperties
<1>3. v \in Seq(AllIds) /\ Len(v) = n - cut /\ \A i \in 1..(n - cut) : v[i] = s[cut + i]
  <2>1. \A i \in (cut + 1)..n : s[i] \in AllIds
    BY <1>1
  <2>2. QED
    BY <1>1, <2>1, SubSeqProperties
<1> HIDE DEF u, v, n
<1>4. <<c>> \in Seq(AllIds) /\ Len(<<c>>) = 1 /\ <<c>>[1] = c
  OBVIOUS
<1>5. w \in Seq(AllIds) /\ Len(w) = cut + 1
      /\ \A i \in 1..(cut + 1) : w[i] = IF i <= cut THEN u[i] ELSE <<c>>[i - cut]
  <2>1. w \in Seq(AllIds) /\ Len(w) = Len(u) + 1
    BY <1>2, <1>4, ConcatProperties
  <2>2. \A i \in 1..(Len(u) + 1) : w[i] = IF i <= Len(u) THEN u[i] ELSE <<c>>[i - Len(u)]
    BY <1>2, <1>4, ConcatProperties
  <2>3. QED
    BY <1>2, <2>1, <2>2
<1> HIDE DEF w
<1>6. d \in Seq(AllIds) /\ Len(d) = n + 1
      /\ \A i \in 1..(n + 1) : d[i] = IF i <= cut + 1 THEN w[i] ELSE v[i - (cut + 1)]
  <2>1. d \in Seq(AllIds) /\ Len(d) = Len(w) + Len(v)
    BY <1>3, <1>5, ConcatProperties
  <2>2. \A i \in 1..(Len(w) + Len(v)) : d[i] = IF i <= Len(w) THEN w[i] ELSE v[i - Len(w)]
    BY <1>3, <1>5, ConcatProperties
  <2>3. (cut + 1) + (n - cut) = n + 1
    BY <1>1
  <2>4. QED
    BY <1>1, <1>3, <1>5, <2>1, <2>2, <2>3
<1> HIDE DEF d
<1>7. /\ \A i \in 1..cut : d[i] = s[i]
      /\ d[cut + 1] = c
      /\ \A i \in (cut + 1)..n : d[i + 1] = s[i]
  <2>1. \A i \in 1..cut : d[i] = s[i]
    BY <1>1, <1>2, <1>5, <1>6
  <2>2. d[cut + 1] = c
    <3>1. cut + 1 \in 1..(n + 1) /\ cut + 1 \in 1..(cut + 1) /\ ~(cut + 1 <= cut)
          /\ (cut + 1) - cut = 1
      BY <1>1
    <3>2. QED
      BY <1>4, <1>5, <1>6, <3>1
  <2>3. ASSUME NEW i \in (cut + 1)..n PROVE d[i + 1] = s[i]
    <3>1. i + 1 \in 1..(n + 1) /\ ~(i + 1 <= cut + 1) /\ (i + 1) - (cut + 1) = i - cut
          /\ i - cut \in 1..(n - cut) /\ cut + (i - cut) = i
      BY <1>1
    <3>2. QED
      BY <1>3, <1>6, <3>1
  <2>4. QED
    BY <2>1, <2>2, <2>3
<1> DEFINE from(i) == IF i <= cut THEN i ELSE i - 1
<1>8. ASSUME NEW i \in 1..(n + 1), i # cut + 1
      PROVE  from(i) \in 1..n /\ d[i] = s[from(i)]
  <2>1. CASE i <= cut
    BY <1>1, <1>7, <2>1
  <2>2. CASE i > cut + 1
    <3>1. i - 1 \in (cut + 1)..n /\ (i - 1) + 1 = i /\ from(i) = i - 1
      BY <1>1, <2>2
    <3>2. QED
      BY <1>1, <1>7, <3>1
  <2>3. QED
    BY <1>1, <1>8, <2>1, <2>2
<1>9. OnceEach(d)
  <2>1. ASSUME NEW i \in 1..(n + 1), NEW j \in 1..(n + 1), d[i] = d[j] PROVE i = j
    <3>1. CASE i = cut + 1 /\ j # cut + 1
      BY <1>1, <1>7, <1>8, <2>1, <3>1
    <3>2. CASE i # cut + 1 /\ j = cut + 1
      BY <1>1, <1>7, <1>8, <2>1, <3>2
    <3>3. CASE i # cut + 1 /\ j # cut + 1
      <4>1. s[from(i)] = s[from(j)] /\ from(i) \in 1..n /\ from(j) \in 1..n
        BY <1>8, <2>1, <3>3
      <4>2. from(i) = from(j)
        BY <4>1 DEF OnceEach, n
      <4>3. QED
        BY <1>1, <3>3, <4>2
    <3>4. QED
      BY <3>1, <3>2, <3>3
  <2>2. QED
    BY <1>6, <2>1 DEF OnceEach
<1>10. Elements(d) = Elements(s) \cup {c}
  <2>1. Elements(d) = {d[i] : i \in 1..(n + 1)} /\ Elements(s) = {s[i] : i \in 1..n}
    BY <1>6, ElementsOf DEF n
  <2>2. ASSUME NEW i \in 1..(n + 1) PROVE d[i] \in Elements(s) \cup {c}
    <3>1. CASE i = cut + 1
      BY <1>7, <3>1
    <3>2. CASE i # cut + 1
      <4>1. from(i) \in 1..n /\ d[i] = s[from(i)]
        BY <1>8, <3>2
      <4>2. QED
        BY <2>1, <4>1
    <3>3. QED
      BY <3>1, <3>2
  <2>3. ASSUME NEW i \in 1..n PROVE s[i] \in Elements(d)
    <3>1. CASE i <= cut
      BY <1>1, <1>7, <2>1, <3>1
    <3>2. CASE i > cut
      <4>1. i \in (cut + 1)..n /\ i + 1 \in 1..(n + 1)
        BY <1>1, <3>2
      <4>2. QED
        BY <1>7, <2>1, <4>1
    <3>3. QED
      BY <1>1, <3>1, <3>2
  <2>4. c \in Elements(d)
    <3>1. cut + 1 \in 1..(n + 1)
      BY <1>1
    <3>2. QED
      BY <1>7, <2>1, <3>1
  <2>5. QED
    BY <2>1, <2>2, <2>3, <2>4
<1>11. d # <<>>
  BY <1>1, <1>6
<1>12. QED
  BY <1>6, <1>9, <1>10, <1>11 DEF d, w, u, v, n

LEMMA AppendedOnce ==
    ASSUME NEW s \in Seq(AllIds), OnceEach(s), NEW c \in AllIds, c \notin Elements(s)
    PROVE  /\ Append(s, c) \in Seq(AllIds) /\ OnceEach(Append(s, c)) /\ Append(s, c) # <<>>
           /\ Elements(Append(s, c)) = Elements(s) \cup {c}
<1> DEFINE d == Append(s, c)
           n == Len(s)
<1>1. n \in Nat /\ \A i \in 1..n : s[i] \in AllIds /\ s[i] # c
  BY ElementsOf
<1>2. d \in Seq(AllIds) /\ Len(d) = n + 1 /\ d[n + 1] = c /\ \A i \in 1..n : d[i] = s[i]
  BY AppendProperties
<1>3. Elements(d) = {d[i] : i \in 1..(n + 1)} /\ Elements(s) = {s[i] : i \in 1..n}
  BY <1>2, ElementsOf
<1> HIDE DEF d
<1>4. OnceEach(d)
  <2>1. ASSUME NEW i \in 1..(n + 1), NEW j \in 1..(n + 1), d[i] = d[j] PROVE i = j
    <3>1. (i = n + 1 \/ i \in 1..n) /\ (j = n + 1 \/ j \in 1..n)
      BY <1>1
    <3> HIDE DEF n
    <3>2. i \in 1..n /\ j \in 1..n => s[i] = s[j]
      BY <1>2, <2>1
    <3>3. i \in 1..n /\ j \in 1..n => i = j
      BY <3>2 DEF OnceEach, n
    <3>4. QED
      BY <1>1, <1>2, <2>1, <3>1, <3>3
  <2>2. QED
    BY <1>2, <2>1 DEF OnceEach
<1>5. Elements(d) = Elements(s) \cup {c}
  <2>1. \A i \in 1..(n + 1) : i = n + 1 \/ i \in 1..n
    BY <1>1
  <2>2. n + 1 \in 1..(n + 1) /\ \A i \in 1..n : i \in 1..(n + 1)
    BY <1>1
  <2> HIDE DEF n
  <2>3. QED
    BY <1>2, <1>3, <2>1, <2>2
<1>6. d # <<>>
  BY <1>1, <1>2
<1>7. QED
  BY <1>2, <1>4, <1>5, <1>6 DEF d

\* Taking one out.
LEMMA WithoutOne ==
    ASSUME NEW s \in Seq(AllIds), OnceEach(s), NEW c
    PROVE  LET d == Without(s, c)
           IN  /\ d \in Seq(AllIds) /\ OnceEach(d)
               /\ Elements(d) = Elements(s) \ {c}
               /\ Len(s) > 1 => d # <<>>
<1> DEFINE d == Without(s, c)
           m == Len(s)
<1>1. m \in Nat /\ (\A i \in 1..m : s[i] \in AllIds) /\ Elements(s) = {s[i] : i \in 1..m}
      /\ DOMAIN s = 1..m
  BY ElementsOf
<1>2. CASE c \notin Elements(s)
  <2>1. d = s
    BY <1>2 DEF Without
  <2>2. m > 1 => s # <<>>
    OBVIOUS
  <2>3. QED
    BY <1>2, <2>1, <2>2
<1>3. CASE c \in Elements(s)
  <2> DEFINE n == CHOOSE i \in DOMAIN s : s[i] = c
             u == SubSeq(s, 1, n - 1)
             v == SubSeq(s, n + 1, Len(s))
  <2>1. n \in 1..m /\ s[n] = c /\ d = u \o v
    BY <1>1, <1>3 DEF Without, RemoveAt
  <2> HIDE DEF n, d
  <2>2. u \in Seq(AllIds) /\ Len(u) = n - 1 /\ \A i \in 1..(n - 1) : u[i] = s[i]
    <3>1. \A i \in 1..(n - 1) : s[i] \in AllIds
      BY <1>1, <2>1
    <3>2. QED
      BY <1>1, <2>1, <3>1, SubSeqProperties
  <2>3. v \in Seq(AllIds) /\ Len(v) = m - n /\ \A i \in 1..(m - n) : v[i] = s[n + i]
    <3>1. \A i \in (n + 1)..Len(s) : s[i] \in AllIds
      BY <1>1, <2>1
    <3>2. /\ v \in Seq(AllIds)
          /\ Len(v) = IF n + 1 <= Len(s) THEN Len(s) - (n + 1) + 1 ELSE 0
          /\ \A i \in 1..(Len(s) - (n + 1) + 1) : v[i] = s[(n + 1) + i - 1]
      <4>1. n + 1 \in Int /\ Len(s) \in Int
        BY <1>1, <2>1
      <4>2. QED
        BY <3>1, <4>1, SubSeqProperties
    <3>3. Len(s) - (n + 1) + 1 = m - n /\ (n + 1 <= Len(s) \/ m - n = 0)
          /\ \A i \in 1..(m - n) : (n + 1) + i - 1 = n + i
      <4>1. m = Len(s)
        OBVIOUS
      <4>2. m \in Int /\ n \in Int /\ n <= m
        BY <1>1, <2>1
      <4> HIDE DEF m
      <4>3. m - (n + 1) + 1 = m - n /\ (n + 1 <= m \/ m - n = 0)
        BY <4>2
      <4>4. \A i \in 1..(m - n) : (n + 1) + i - 1 = n + i
        BY <4>2
      <4>5. QED
        BY <4>1, <4>3, <4>4
    <3>4. QED
      BY <3>2, <3>3
  <2> HIDE DEF u, v
  <2>4. /\ d \in Seq(AllIds) /\ Len(d) = m - 1
        /\ \A i \in 1..(m - 1) : d[i] = IF i < n THEN s[i] ELSE s[i + 1]
    <3>1. u \o v \in Seq(AllIds) /\ Len(u \o v) = Len(u) + Len(v)
      BY <2>2, <2>3, ConcatProperties
    <3>2. \A i \in 1..(Len(u) + Len(v)) : (u \o v)[i] = IF i <= Len(u) THEN u[i] ELSE v[i - Len(u)]
      BY <2>2, <2>3, ConcatProperties
    <3> HIDE DEF m
    <3>3. QED
      BY <1>1, <2>1, <2>2, <2>3, <3>1, <3>2
  <2> DEFINE from(i) == IF i < n THEN i ELSE i + 1
  <2>5. ASSUME NEW i \in 1..Len(d)
        PROVE  from(i) \in 1..m /\ from(i) # n /\ d[i] = s[from(i)]
    BY <1>1, <2>1, <2>4
  <2>6. OnceEach(d)
    <3>1. ASSUME NEW i \in 1..Len(d), NEW j \in 1..Len(d), d[i] = d[j]
          PROVE  i = j
      <4>1. from(i) = from(j)
        <5> HIDE DEF from
        <5>1. QED
          BY <2>5, <3>1 DEF OnceEach
      <4>2. QED
        BY <1>1, <2>1, <2>4, <4>1
    <3>2. QED
      BY <3>1 DEF OnceEach
  <2>7. Elements(d) = {d[i] : i \in 1..Len(d)}
    BY <2>4, ElementsOf
  <2>8. ASSUME NEW i \in 1..Len(d) PROVE d[i] \in Elements(s) \ {c}
    <3> HIDE DEF from
    <3>1. d[i] \in Elements(s)
      BY <1>1, <2>5
    <3>2. d[i] # c
      BY <2>1, <2>5 DEF OnceEach
    <3>3. QED
      BY <3>1, <3>2
  <2>9. ASSUME NEW i \in 1..m, s[i] # c PROVE s[i] \in Elements(d)
    <3>1. CASE i < n
      <4>1. i \in 1..(m - 1) /\ i \in 1..Len(d)
        BY <1>1, <2>1, <2>4, <3>1
      <4>2. QED
        BY <2>4, <2>7, <3>1, <4>1
    <3>2. CASE i > n
      <4>1. i - 1 \in 1..(m - 1) /\ i - 1 \in 1..Len(d) /\ ~(i - 1 < n) /\ (i - 1) + 1 = i
        BY <1>1, <2>1, <2>4, <3>2
      <4>2. d[i - 1] = s[i]
        BY <2>4, <4>1
      <4>3. QED
        BY <2>7, <4>1, <4>2
    <3>3. QED
      BY <1>1, <2>1, <2>9, <3>1, <3>2
  <2>10. Elements(d) = Elements(s) \ {c}
    BY <1>1, <2>7, <2>8, <2>9
  <2>11. m > 1 => d # <<>>
    BY <1>1, <2>4
  <2>12. QED
    BY <2>4, <2>6, <2>10, <2>11 DEF d
<1>4. QED
  BY <1>2, <1>3

\* ensureDefaultNamedCollection keeps what is listed.
LEMMA WithDefaultOnce ==
    ASSUME NEW s \in Seq(AllIds), OnceEach(s), NEW names, s # <<>>
    PROVE  LET d == WithDefault(s, names)
           IN  /\ d \in Seq(AllIds) /\ OnceEach(d) /\ d # <<>>
               /\ Elements(d) \in {Elements(s), Elements(s) \cup {Default}}
<1> DEFINE d == WithDefault(s, names)
<1>1. Default \in AllIds
  BY DEF AllIds
<1>2. CASE Default \in Elements(s)
  <2>1. Named(s, names) = Default /\ Default # Nowhere
    BY <1>2 DEF Named, Default, Nowhere
  <2>2. d = s
    BY <2>1 DEF WithDefault
  <2>3. QED
    BY <2>2
<1>3. CASE Default \notin Elements(s)
  <2>1. d = s \/ d = <<Default>> \o s
    BY DEF WithDefault
  <2>2. CASE d = <<Default>> \o s
    <3> DEFINE e == SubSeq(s, 1, 0) \o <<Default>> \o SubSeq(s, 0 + 1, Len(s))
    <3>1. Len(s) \in Nat /\ 0 \in 0..Len(s)
      BY ElementsOf
    <3>2. e \in Seq(AllIds) /\ OnceEach(e) /\ e # <<>> /\ Elements(e) = Elements(s) \cup {Default}
      BY <1>1, <1>3, <3>1, InsertedOnce
    <3>3. SubSeq(s, 1, 0) = <<>>
      BY <3>1, EmptySeq, SubSeqProperties
    <3>4. SubSeq(s, 0 + 1, Len(s)) = s
      BY <3>1, SubSeqFull
    <3>5. <<Default>> \in Seq(AllIds) /\ <<>> \o <<Default>> = <<Default>>
      BY <1>1, ConcatEmptySeq
    <3>6. e = <<Default>> \o s
      BY <3>3, <3>4, <3>5
    <3> HIDE DEF e
    <3>7. QED
      BY <2>2, <3>2, <3>6
  <2>3. QED
    BY <2>1, <2>2
<1>4. QED
  BY <1>2, <1>3

LEMMA ResolvedListed ==
    ASSUME NEW s \in Seq(AllIds), s # <<>>, NEW want
    PROVE  Resolved(s, want) \in Elements(s) \cup {Nowhere}
  BY ElementsOf DEF Resolved

-----------------------------------------------------------------------------
(* The steps *)

\* No deletion takes up or ends with a collection.
SameDeletions ==
    /\ DOMAIN deleting' = Deletions /\ \A d \in Deletions : "at" \in DOMAIN deleting'[d]
    /\ \A d \in Deletions : deleting'[d].at = deleting[d].at

\* Nothing is taken from the list and no deletion goes on.
LEMMA GrownListKeeps ==
    ASSUME FavoritesInv, ListInv', Listed \subseteq Listed', deleting' = deleting \/ SameDeletions,
           preferred' \in Listed' \cup {Nowhere},
           activeId' \in Listed \cup {All, Nowhere},
           selected' \subseteq selected \cup Shown \cup stray', stray \subseteq stray' \cup Listed'
    PROVE  FavoritesInv'
<1>1. SameDeletions
  BY DEF FavoritesInv, SameDeletions
<1>2. {deleting'[d].at : d \in Deletions} = {deleting[d].at : d \in Deletions}
  BY <1>1 DEF SameDeletions
<1>3. selected' \subseteq Shown' \cup ({deleting'[d].at : d \in Deletions} \ {Nowhere}) \cup stray'
  BY <1>2 DEF FavoritesInv, Shown
<1>4. QED
  BY <1>1, <1>3 DEF FavoritesInv, SameDeletions

LEMMA SameListKeeps ==
    ASSUME FavoritesInv, favorites' = favorites, nameOf' = nameOf,
           deleting' = deleting \/ SameDeletions,
           preferred' \in Listed \cup {Nowhere}, activeId' \in Listed \cup {All, Nowhere},
           selected' \subseteq selected \cup Shown \cup stray', stray \subseteq stray'
    PROVE  FavoritesInv'
<1>1. ListInv' /\ Listed' = Listed
  BY DEF FavoritesInv, ListInv, Listed
<1>2. QED
  BY <1>1, GrownListKeeps

LEMMA ListOf ==
    ASSUME FavoritesInv
    PROVE  /\ favorites \in Seq(AllIds) /\ favorites # <<>> /\ OnceEach(favorites)
           /\ Listed = Elements(favorites) /\ Listed \subseteq AllIds
           /\ DOMAIN nameOf = AllIds /\ \A c \in Listed : nameOf[c] # NoName
<1>1. favorites \in Seq(AllIds)
  BY DEF FavoritesInv, ListInv
<1>2. QED
  BY <1>1, ElementsOf DEF FavoritesInv, ListInv, Listed

LEMMA CreateKeeps ==
    ASSUME FavoritesInv, NEW n \in Names, NEW opened \in BOOLEAN, Create(n, opened)
    PROVE  FavoritesInv'
<1> DEFINE same == {c \in Listed : nameOf[c] = n}
           new  == CHOOSE c \in CollectionIds : nameOf[c] = NoName
           made == IF same # {} THEN CHOOSE c \in same : TRUE ELSE new
<1>1. /\ new \in CollectionIds /\ nameOf[new] = NoName
      /\ favorites' = IF same # {} THEN favorites ELSE Append(favorites, new)
      /\ nameOf' = [nameOf EXCEPT ![made] = n]
      /\ preferred' = preferred /\ activeId' = activeId /\ selected' = selected
      /\ stray' = stray /\ deleting' = deleting
  BY DEF Create, selectVars
<1>2. new \in AllIds /\ n # NoName
  BY <1>1, NowhereIsNoId DEF AllIds
<1>3. same # {} => made \in Listed
  OBVIOUS
<1>4. same = {} => made = new
  OBVIOUS
<1> HIDE DEF made, new, same
<1>5. new \notin Listed
  BY <1>1, ListOf
<1>6. /\ favorites' \in Seq(AllIds) /\ favorites' # <<>> /\ OnceEach(favorites')
      /\ Listed' = IF same # {} THEN Listed ELSE Listed \cup {new}
  BY <1>1, <1>2, <1>5, ListOf, AppendedOnce DEF Listed
<1>7. DOMAIN nameOf' = AllIds /\ \A c \in Listed' : nameOf'[c] # NoName
  <2>1. \A c \in AllIds : nameOf'[c] = IF c = made THEN n ELSE nameOf[c]
    BY <1>1, ListOf
  <2>2. \A c \in Listed' : c = made \/ c \in Listed
    BY <1>4, <1>6
  <2>3. made \in AllIds
    BY <1>2, <1>3, <1>4, ListOf
  <2>4. QED
    BY <1>1, <1>2, <2>1, <2>2, <2>3, ListOf
<1>8. ListInv'
  BY <1>6, <1>7 DEF ListInv
<1>9. preferred' \in Listed' \cup {Nowhere} /\ activeId' \in Listed \cup {All, Nowhere}
  BY <1>1, <1>6 DEF FavoritesInv
<1>10. QED
  BY <1>1, <1>6, <1>8, <1>9, GrownListKeeps

LEMMA RenameKeeps ==
    ASSUME FavoritesInv, NEW c \in AllIds, NEW n \in Names, Rename(c, n)
    PROVE  FavoritesInv'
<1>1. /\ favorites' = favorites /\ nameOf' = [nameOf EXCEPT ![c] = n] /\ n # NoName
      /\ preferred' = preferred /\ activeId' = activeId /\ selected' = selected
      /\ stray' = stray /\ deleting' = deleting
  BY NowhereIsNoId DEF Rename, selectVars
<1>2. Listed' = Listed
  BY <1>1 DEF Listed
<1>3. DOMAIN nameOf' = AllIds /\ \A x \in Listed' : nameOf'[x] # NoName
  BY <1>1, <1>2, ListOf
<1>4. ListInv'
  BY <1>1, <1>3 DEF FavoritesInv, ListInv
<1>5. QED
  BY <1>1, <1>2, <1>4, GrownListKeeps DEF FavoritesInv

LEMMA ReorderKeeps ==
    ASSUME FavoritesInv, NEW c \in AllIds, NEW target \in AllIds, NEW after \in BOOLEAN,
           Reorder(c, target, after)
    PROVE  FavoritesInv'
<1> DEFINE left == Without(favorites, c)
           at   == CHOOSE i \in DOMAIN left : left[i] = target
           cut  == IF after THEN at ELSE at - 1
<1>1. /\ c \in Listed /\ target \in Listed /\ c # target
      /\ favorites' = SubSeq(left, 1, cut) \o <<c>> \o SubSeq(left, cut + 1, Len(left))
      /\ nameOf' = nameOf /\ preferred' = preferred /\ activeId' = activeId
      /\ selected' = selected /\ stray' = stray /\ deleting' = deleting
  BY DEF Reorder, selectVars
<1>2. left \in Seq(AllIds) /\ OnceEach(left) /\ Elements(left) = Listed \ {c}
  BY ListOf, WithoutOne
<1>3. at \in DOMAIN left
  <2>1. \E i \in DOMAIN left : left[i] = target
    BY <1>1, <1>2 DEF Elements
  <2> HIDE DEF left
  <2>2. QED
    BY <2>1
<1>4. DOMAIN left = 1..Len(left) /\ Len(left) \in Nat
  BY <1>2, LenProperties
<1> HIDE DEF left, at
<1>5. cut \in 0..Len(left)
  BY <1>3, <1>4
<1> HIDE DEF cut
<1>6. c \notin Elements(left)
  BY <1>2
<1>7. /\ favorites' \in Seq(AllIds) /\ OnceEach(favorites') /\ favorites' # <<>>
      /\ Elements(favorites') = Elements(left) \cup {c}
  BY <1>1, <1>2, <1>5, <1>6, InsertedOnce
<1>8. Listed' = Listed
  BY <1>1, <1>2, <1>7 DEF Listed
<1>9. ListInv'
  BY <1>1, <1>7, <1>8, ListOf DEF ListInv
<1>10. QED
  BY <1>1, <1>8, <1>9, GrownListKeeps DEF FavoritesInv

\* A collection that is taken from the list is the one being deleted.
LEMMA BeginKeeps ==
    ASSUME FavoritesInv, NEW d \in Deletions, NEW c, NEW del, "at" \in DOMAIN del,
           deleting[d].at = Nowhere, Begin(d, c, del), Unselects(d, c, del)
    PROVE  FavoritesInv'
<1>0. selected' \subseteq selected /\ stray' = stray
  BY DEF Unselects
<1>1. CASE c \notin Listed \/ Len(favorites) <= 1
  <2>1. /\ deleting' = [deleting EXCEPT ![d] = Rest(del)]
        /\ favorites' = favorites /\ nameOf' = nameOf /\ preferred' = preferred
        /\ activeId' = activeId
    BY <1>1 DEF Begin, listVars
  <2>2. ListInv' /\ Listed' = Listed
    BY <2>1 DEF FavoritesInv, ListInv, Listed
  <2>3. DOMAIN Rest(del) = DOMAIN NoDeletion /\ "at" \in DOMAIN Rest(del)
    BY DEF Rest, NoDeletion
  <2>4. DOMAIN deleting' = Deletions /\ \A e \in Deletions : "at" \in DOMAIN deleting'[e]
    BY <2>1, <2>3 DEF FavoritesInv
  <2>5. {deleting[e].at : e \in Deletions} \ {Nowhere} \subseteq {deleting'[e].at : e \in Deletions} \ {Nowhere}
    <3>1. \A e \in Deletions : e # d => deleting'[e] = deleting[e]
      BY <2>1 DEF FavoritesInv
    <3>2. QED
      BY <3>1
  <2>6. QED
    BY <1>0, <2>1, <2>2, <2>4, <2>5 DEF FavoritesInv, Shown
<1>2. CASE ~(c \notin Listed \/ Len(favorites) <= 1)
  <2> DEFINE next == Without(favorites, c)
             more == IF Members(c) = {} THEN Rest(del) ELSE
                     [del EXCEPT !.at = c,
                        !.until = IF del.images THEN {t \in Members(c) : Left(t, c) # {}} ELSE Members(c),
                        !.doomed = IF del.images
                                   THEN Members(c) \ (IF del.images THEN {t \in Members(c) : Left(t, c) # {}}
                                                      ELSE Members(c))
                                   ELSE {}]
  <2>1. /\ favorites' = next /\ nameOf' = nameOf
        /\ preferred' = IF preferred = c THEN Head(next) ELSE Resolved(next, preferred)
        /\ activeId' = IF activeId = c THEN Nowhere ELSE activeId
        /\ deleting' = [deleting EXCEPT ![d] = more]
    BY <1>2 DEF Begin
  <2>2. /\ c \in Listed /\ Len(favorites) > 1
        /\ next \in Seq(AllIds) /\ OnceEach(next) /\ next # <<>> /\ Elements(next) = Listed \ {c}
    <3>1. Len(favorites) \in Nat
      BY ListOf, ElementsOf
    <3>2. c \in Listed /\ Len(favorites) > 1
      BY <1>2, <3>1
    <3>3. QED
      BY <3>2, ListOf, WithoutOne
  <2>3. /\ "at" \in DOMAIN more /\ c # Nowhere
        /\ more.at = c \/ (Members(c) = {} /\ more.at = Nowhere)
    BY <2>2, ListOf, NowhereIsNoId DEF Rest, NoDeletion
  <2> HIDE DEF next, more
  <2>4. Listed' = Listed \ {c}
    BY <2>1, <2>2 DEF Listed
  <2>5. ListInv'
    BY <2>1, <2>2, <2>4, ListOf DEF ListInv
  <2>6. preferred' \in Listed' \cup {Nowhere}
    <3>1. Head(next) \in Elements(next) /\ Resolved(next, preferred) \in Elements(next) \cup {Nowhere}
      BY <2>2, ElementsOf, ResolvedListed
    <3>2. QED
      BY <2>1, <2>2, <2>4, <3>1
  <2>7. activeId' \in Listed' \cup {All, Nowhere}
    BY <2>1, <2>4 DEF FavoritesInv
  <2>8. /\ DOMAIN deleting' = Deletions /\ deleting'[d] = more
        /\ \A e \in Deletions : e # d => deleting'[e] = deleting[e]
    BY <2>1 DEF FavoritesInv
  <2>9. \A e \in Deletions : "at" \in DOMAIN deleting'[e]
    BY <2>3, <2>8 DEF FavoritesInv
  <2>10. selected' \subseteq Shown' \cup ({deleting'[e].at : e \in Deletions} \ {Nowhere}) \cup stray'
    <3>1. ASSUME NEW x \in selected'
          PROVE  x \in Shown' \cup ({deleting'[e].at : e \in Deletions} \ {Nowhere}) \cup stray'
      <4>1. CASE x = c
        <5>1. CASE more.at = c
          BY <2>3, <2>8, <4>1, <5>1
        <5>2. CASE more.at = Nowhere
          <6>1. c \in Listed \ Elements(favorites') /\ deleting'[d].at = Nowhere
            BY <2>1, <2>2, <2>8, <5>2
          <6>2. selected' \in {{}, selected \ {c}}
            BY <6>1 DEF Unselects
          <6>3. QED
            BY <4>1, <6>2
        <5>3. QED
          BY <2>3, <5>1, <5>2
      <4>2. CASE x # c /\ x \in Listed \cup {All}
        BY <2>4, <4>2 DEF Shown
      <4>3. CASE x \in {deleting[e].at : e \in Deletions} \ {Nowhere}
        BY <2>8, <4>3
      <4>4. CASE x \in stray
        BY <1>0, <4>4
      <4>5. QED
        BY <1>0, <4>1, <4>2, <4>3, <4>4 DEF FavoritesInv, Shown
    <3>2. QED
      BY <3>1
  <2>11. QED
    BY <2>5, <2>6, <2>7, <2>8, <2>9, <2>10 DEF FavoritesInv
<1>3. QED
  BY <1>1, <1>2

LEMMA DeletionKeeps ==
    ASSUME FavoritesInv, NEW d \in Deletions,
           Deleted(d) \/ NextDeletion(d) \/ \E images \in BOOLEAN : ConfirmDelete(d, images)
    PROVE  FavoritesInv'
<1>1. CASE Deleted(d)
  <2>1. /\ favorites' = favorites /\ nameOf' = nameOf /\ preferred' = preferred /\ activeId' = activeId
        /\ deleting' = [deleting EXCEPT ![d] = Rest(deleting[d])]
        /\ selected' \subseteq selected \ {deleting[d].at} /\ stray' = stray
    BY <1>1 DEF Deleted, EndsDeletion, listVars
  <2>2. ListInv' /\ Listed' = Listed
    BY <2>1 DEF FavoritesInv, ListInv, Listed
  <2>3. "at" \in DOMAIN Rest(deleting[d])
    BY DEF Rest, NoDeletion
  <2>4. /\ DOMAIN deleting' = Deletions /\ deleting'[d] = Rest(deleting[d])
        /\ \A e \in Deletions : e # d => deleting'[e] = deleting[e]
    BY <2>1 DEF FavoritesInv
  <2>5. selected' \subseteq Shown' \cup ({deleting'[e].at : e \in Deletions} \ {Nowhere}) \cup stray'
    <3>1. ASSUME NEW x \in selected, x # deleting[d].at
          PROVE  x \in Shown \cup ({deleting'[e].at : e \in Deletions} \ {Nowhere}) \cup stray
      <4>1. CASE x \in {deleting[e].at : e \in Deletions} \ {Nowhere}
        BY <2>4, <3>1, <4>1
      <4>2. QED
        BY <4>1 DEF FavoritesInv
    <3>2. QED
      BY <2>1, <2>2, <3>1 DEF Shown
  <2>6. QED
    BY <2>1, <2>2, <2>3, <2>4, <2>5 DEF FavoritesInv
<1>2. CASE NextDeletion(d)
  <2> DEFINE del == [deleting[d] EXCEPT !.rest = Tail(@)]
  <2>1. /\ deleting[d].at = Nowhere /\ Begin(d, Head(deleting[d].rest), del)
        /\ Unselects(d, Head(deleting[d].rest), del)
    BY <1>2 DEF NextDeletion
  <2>2. "at" \in DOMAIN del
    BY DEF FavoritesInv
  <2> HIDE DEF del
  <2>3. QED
    BY <2>1, <2>2, BeginKeeps
<1>3. ASSUME NEW images \in BOOLEAN, ConfirmDelete(d, images) PROVE FavoritesInv'
  <2> DEFINE del == [NoDeletion EXCEPT !.batch = dialog.kind = "batch", !.rest = Tail(dialog.ids),
                                       !.images = images]
  <2>1. /\ deleting[d] = NoDeletion /\ Begin(d, dialog.ids[1], del)
        /\ Unselects(d, dialog.ids[1], del)
    BY <1>3 DEF ConfirmDelete
  <2>2. "at" \in DOMAIN del /\ NoDeletion.at = Nowhere
    BY DEF NoDeletion
  <2> HIDE DEF del
  <2>3. QED
    BY <2>1, <2>2, BeginKeeps
<1>4. QED
  BY <1>1, <1>2, <1>3

\* What was being deleted is left selected.
LEMMA AbandonKeeps ==
    ASSUME FavoritesInv, NEW ds, Abandon(ds), preferred' = preferred
    PROVE  FavoritesInv'
<1>1. /\ favorites' = favorites /\ nameOf' = nameOf /\ activeId' = activeId /\ selected' = selected
      /\ deleting' = [d \in Deletions |-> IF d \in ds THEN NoDeletion ELSE deleting[d]]
      /\ stray' = stray \cup (selected \cap {deleting[d].at : d \in ds})
  BY DEF Abandon, listVars
<1>2. ListInv' /\ Listed' = Listed
  BY <1>1 DEF FavoritesInv, ListInv, Listed
<1>3. DOMAIN deleting' = Deletions /\ \A d \in Deletions : "at" \in DOMAIN deleting'[d]
  BY <1>1 DEF FavoritesInv, NoDeletion
<1>4. ASSUME NEW d \in Deletions, deleting[d].at \in selected, deleting[d].at # Nowhere
      PROVE  deleting[d].at \in ({deleting'[e].at : e \in Deletions} \ {Nowhere}) \cup stray'
  <2>1. CASE d \in ds
    BY <1>1, <1>4, <2>1
  <2>2. CASE d \notin ds
    <3>1. deleting'[d] = deleting[d]
      BY <1>1, <2>2
    <3>2. QED
      BY <1>4, <3>1
  <2>3. QED
    BY <2>1, <2>2
<1>5. selected' \subseteq Shown' \cup ({deleting'[e].at : e \in Deletions} \ {Nowhere}) \cup stray'
  <2>1. ASSUME NEW x \in selected
        PROVE  x \in Shown' \cup ({deleting'[e].at : e \in Deletions} \ {Nowhere}) \cup stray'
    <3>1. CASE x \in {deleting[d].at : d \in Deletions} \ {Nowhere}
      <4>1. PICK d \in Deletions : x = deleting[d].at
        BY <3>1
      <4>2. QED
        BY <1>4, <3>1, <4>1
    <3>2. CASE x \in Shown \cup stray
      BY <1>1, <1>2, <3>2 DEF Shown
    <3>3. QED
      BY <3>1, <3>2 DEF FavoritesInv
  <2>2. QED
    BY <1>1, <2>1
<1>6. QED
  BY <1>1, <1>2, <1>3, <1>5 DEF FavoritesInv

LEMMA ImportKeeps ==
    ASSUME FavoritesInv, NEW c \in CollectionIds, NEW t \in FavoriteTasks, NEW card \in Card,
           Import(c, t, card)
    PROVE  FavoritesInv'
<1> DEFINE names == [nameOf EXCEPT ![c] = IF c \in Listed THEN @ ELSE DefaultName]
           with  == IF c \in Listed THEN favorites ELSE Append(favorites, c)
           seq   == WithDefault(with, names)
<1>1. /\ nameOf' = [names EXCEPT ![Default] = IF Default \in Listed THEN @ ELSE DefaultName]
      /\ favorites' = seq /\ preferred' = Resolved(seq, c)
      /\ activeId' = activeId /\ selected' = selected /\ deleting' = deleting
      /\ stray' = stray \ Elements(seq)
  BY DEF Import
<1>2. c \in AllIds /\ Default \in AllIds /\ DefaultName # NoName
  BY NowhereIsNoId DEF AllIds
<1>3. with \in Seq(AllIds) /\ OnceEach(with) /\ with # <<>> /\ Elements(with) = Listed \cup {c}
  BY <1>2, ListOf, AppendedOnce
<1> HIDE DEF with
<1>4. /\ seq \in Seq(AllIds) /\ OnceEach(seq) /\ seq # <<>>
      /\ Elements(seq) \in {Elements(with), Elements(with) \cup {Default}}
  BY <1>3, WithDefaultOnce
<1> HIDE DEF seq
<1>5. Listed' = Elements(seq) /\ Listed \subseteq Listed' /\ Listed' \subseteq Listed \cup {c, Default}
  BY <1>1, <1>3, <1>4 DEF Listed
<1>6. DOMAIN nameOf' = AllIds /\ \A x \in Listed' : nameOf'[x] # NoName
  <2>1. DOMAIN names = AllIds /\ \A x \in AllIds :
            names[x] = IF x = c /\ c \notin Listed THEN DefaultName ELSE nameOf[x]
    BY ListOf
  <2> HIDE DEF names
  <2>2. DOMAIN nameOf' = AllIds /\ \A x \in AllIds :
            nameOf'[x] = IF x = Default /\ Default \notin Listed THEN DefaultName ELSE names[x]
    BY <1>1, <2>1
  <2>3. QED
    BY <1>2, <1>5, <2>1, <2>2, ListOf
<1>7. ListInv'
  BY <1>1, <1>4, <1>6 DEF ListInv
<1>8. preferred' \in Listed' \cup {Nowhere}
  BY <1>1, <1>4, <1>5, ResolvedListed
<1>9. QED
  BY <1>1, <1>5, <1>7, <1>8, GrownListKeeps DEF FavoritesInv

LEMMA ReloadKeeps ==
    ASSUME FavoritesInv, Reload
    PROVE  FavoritesInv'
<1> DEFINE seq == WithDefault(favorites, nameOf)
<1>1. /\ favorites' = seq /\ preferred' = Resolved(seq, preferred)
      /\ nameOf' = [nameOf EXCEPT ![Default] = IF Default \in Listed THEN @ ELSE
                                               IF Default \in Elements(seq) THEN DefaultName ELSE @]
      /\ activeId' = Nowhere /\ selected' = {} /\ deleting' = [d \in Deletions |-> NoDeletion]
  BY DEF Reload
<1>2. Default \in AllIds /\ DefaultName # NoName
  BY NowhereIsNoId DEF AllIds
<1>3. /\ seq \in Seq(AllIds) /\ OnceEach(seq) /\ seq # <<>>
      /\ Elements(seq) \in {Listed, Listed \cup {Default}}
  BY ListOf, WithDefaultOnce
<1> HIDE DEF seq
<1>4. Listed' = Elements(seq)
  BY <1>1 DEF Listed
<1>5. DOMAIN nameOf' = AllIds /\ \A x \in Listed' : nameOf'[x] # NoName
  BY <1>1, <1>2, <1>3, <1>4, ListOf
<1>6. ListInv'
  BY <1>1, <1>3, <1>5 DEF ListInv
<1>7. preferred' \in Listed' \cup {Nowhere}
  BY <1>1, <1>3, <1>4, ResolvedListed
<1>8. "at" \in DOMAIN NoDeletion
  BY DEF NoDeletion
<1>9. QED
  BY <1>1, <1>6, <1>7, <1>8 DEF FavoritesInv

\* What the user does with the selection, the default, the dialogs and the
\* picker, and the rows that are written.
LEMMA PageKeeps ==
    ASSUME FavoritesInv,
           \/ \E c \in AllIds : ChooseDefault(c) \/ Toggle(c) \/ AskDelete("delete", <<c>>)
           \/ AskDelete("batch", SelectSeq(favorites, LAMBDA c : c \in selected))
           \/ Dismiss \/ ConfirmDefault
           \/ \E ts \in SUBSET FavoriteTasks : OpenPicker(ts)
           \/ ClosePicker \/ ConfirmPicker
           \/ \E ids \in SUBSET (AllIds \cup {All}) : Select(ids) \/ Flip(ids) \/ DragMoves(ids)
           \/ DragBegins \/ \E empties \in BOOLEAN : DragEnds(empties)
           \/ \E c \in AllIds \cup {All, Nowhere} : OpenCollection(c)
           \/ \E t \in FavoriteTasks : Written(t) \/ WriteFails(t)
           \/ \E d \in Deletions, gone \in SUBSET FavoriteTasks : RemovalFails(d, gone)
    PROVE  FavoritesInv'
<1>1. preferred \in Listed \cup {Nowhere} /\ activeId \in Listed \cup {All, Nowhere}
  BY DEF FavoritesInv
<1>2. ASSUME NEW c, SetPreferred(c)
      PROVE  /\ favorites' = favorites /\ nameOf' = nameOf /\ deleting' = deleting
             /\ activeId' = activeId /\ selected' = selected /\ stray' = stray
             /\ preferred' \in Listed \cup {Nowhere}
  BY <1>1, <1>2 DEF SetPreferred, selectVars
<1>3. ASSUME NEW c \in AllIds, ChooseDefault(c) PROVE FavoritesInv'
  <2>1. \/ UNCHANGED <<listVars, activeId, selectVars, deleting>>
        \/ \E x : SetPreferred(x)
    BY <1>3 DEF ChooseDefault
  <2>2. QED
    BY <1>1, <1>2, <2>1, SameListKeeps DEF listVars, selectVars
<1>4. CASE ConfirmDefault
  BY <1>1, <1>2, <1>4, SameListKeeps DEF ConfirmDefault
<1>5. ASSUME NEW c, Toggle(c) PROVE FavoritesInv'
  BY <1>1, <1>5, SameListKeeps DEF Toggle, listVars, selectVars
<1>6. ASSUME NEW kind, NEW ids, AskDelete(kind, ids) PROVE FavoritesInv'
  BY <1>1, <1>6, SameListKeeps DEF AskDelete, listVars, selectVars
<1>7. CASE Dismiss
  BY <1>1, <1>7, SameListKeeps DEF Dismiss, listVars, selectVars
<1>8. ASSUME NEW ts, OpenPicker(ts) PROVE FavoritesInv'
  BY <1>1, <1>8, SameListKeeps DEF OpenPicker, listVars, selectVars
<1>9. CASE ClosePicker
  BY <1>1, <1>9, SameListKeeps DEF ClosePicker, listVars, selectVars
<1>10. CASE ConfirmPicker
  BY <1>1, <1>10, SameListKeeps DEF ConfirmPicker, listVars, selectVars
<1>11. ASSUME NEW ids, Select(ids) \/ Flip(ids) PROVE FavoritesInv'
  BY <1>1, <1>11, SameListKeeps DEF Select, Flip, listVars
<1>12. ASSUME NEW c, OpenCollection(c) PROVE FavoritesInv'
  BY <1>1, <1>12, SameListKeeps DEF OpenCollection, listVars
<1>13. ASSUME NEW t, Written(t) PROVE FavoritesInv'
  <2>1. SameDeletions
    BY <1>13 DEF Written, SameDeletions, FavoritesInv
  <2>2. QED
    BY <1>1, <1>13, <2>1, SameListKeeps DEF Written, listVars, selectVars
<1>14. ASSUME NEW t, WriteFails(t) PROVE FavoritesInv'
  BY <1>14, AbandonKeeps DEF WriteFails, Abandon, listVars
<1>15. ASSUME NEW d, NEW gone, RemovalFails(d, gone) PROVE FavoritesInv'
  BY <1>15, AbandonKeeps DEF RemovalFails, Abandon, listVars
<1>16. ASSUME NEW hit, DragMoves(hit) PROVE FavoritesInv'
  BY <1>1, <1>16, SameListKeeps DEF DragMoves, listVars
<1>17. ASSUME NEW empties, DragBegins \/ DragEnds(empties) PROVE FavoritesInv'
  BY <1>1, <1>17, SameListKeeps DEF DragBegins, DragEnds, listVars
<1>18. QED
  BY <1>3, <1>4, <1>5, <1>6, <1>7, <1>8, <1>9, <1>10, <1>11, <1>12, <1>13, <1>14, <1>15, <1>16, <1>17

LEMMA InitFavoritesInv == FavoritesInit => FavoritesInv
<1> SUFFICES ASSUME FavoritesInit PROVE FavoritesInv
  OBVIOUS
<1>1. PICK s \in Saved : favorites = <<Default>> \o s
  BY DEF FavoritesInit
<1>2. /\ nameOf = [c \in AllIds |-> IF c \in Listed THEN DefaultName ELSE NoName]
      /\ preferred = Default /\ activeId = Nowhere /\ selected = {}
      /\ deleting = [d \in Deletions |-> NoDeletion]
  BY DEF FavoritesInit
<1>3. Default \in AllIds /\ DefaultName # NoName
  BY NowhereIsNoId DEF AllIds
<1>4. s \in Seq(CollectionIds) /\ IsInjective(s)
  BY WebFavoritesAssumption
<1>5. /\ Len(s) \in Nat /\ DOMAIN s = 1..Len(s)
      /\ \A i \in 1..Len(s) : s[i] \in CollectionIds
  BY <1>4, LenProperties, ElementOfSeq
<1>6. \A i, j \in 1..Len(s) : s[i] = s[j] => i = j
  BY <1>4, <1>5 DEF IsInjective
<1>7. /\ favorites \in Seq(AllIds) /\ Len(favorites) = Len(s) + 1
      /\ \A i \in 1..Len(favorites) : favorites[i] = IF i = 1 THEN Default ELSE s[i - 1]
  <2>1. s \in Seq(AllIds) /\ <<Default>> \in Seq(AllIds)
    BY <1>3, <1>4 DEF AllIds
  <2>2. Len(<<Default>>) = 1 /\ <<Default>>[1] = Default
    OBVIOUS
  <2>3. QED
    BY <1>1, <1>5, <2>1, <2>2, ConcatProperties
<1>8. Default \notin CollectionIds
  BY WebFavoritesAssumption DEF Default
<1>9. OnceEach(favorites)
  <2>1. ASSUME NEW i \in 1..Len(favorites), NEW j \in 1..Len(favorites), favorites[i] = favorites[j]
        PROVE  i = j
    <3>1. i \in Nat /\ j \in Nat /\ (i # 1 => i - 1 \in 1..Len(s)) /\ (j # 1 => j - 1 \in 1..Len(s))
      BY <1>5, <1>7
    <3>2. CASE i = 1 \/ j = 1
      BY <1>5, <1>7, <1>8, <2>1, <3>1, <3>2
    <3>3. CASE i # 1 /\ j # 1
      <4>1. s[i - 1] = s[j - 1]
        BY <1>7, <2>1, <3>3
      <4>2. i - 1 = j - 1
        BY <1>6, <3>1, <3>3, <4>1
      <4>3. QED
        BY <3>1, <4>2
    <3>4. QED
      BY <3>2, <3>3
  <2>2. QED
    BY <2>1 DEF OnceEach
<1>10. Default \in Listed /\ Listed \subseteq AllIds /\ favorites # <<>>
  <2>1. 1 \in 1..Len(favorites) /\ favorites[1] = Default
    BY <1>5, <1>7
  <2>2. QED
    BY <1>7, <2>1, ElementsOf, EmptySeq DEF Listed
<1>11. ListInv
  BY <1>2, <1>3, <1>7, <1>9, <1>10 DEF ListInv
<1>12. "at" \in DOMAIN NoDeletion
  BY DEF NoDeletion
<1>13. QED
  BY <1>2, <1>10, <1>11, <1>12 DEF FavoritesInv

LEMMA NextFavoritesInv == FavoritesInv /\ [FavoritesNext]_favoriteVars => FavoritesInv'
<1> SUFFICES ASSUME FavoritesInv, [FavoritesNext]_favoriteVars PROVE FavoritesInv'
  OBVIOUS
<1>1. CASE FavoritesNext
  <2>1. ASSUME NEW n \in Names, NEW opened \in BOOLEAN, Create(n, opened) PROVE FavoritesInv'
    BY <2>1, CreateKeeps
  <2>2. ASSUME NEW c \in AllIds, NEW n \in Names, Rename(c, n) PROVE FavoritesInv'
    BY <2>2, RenameKeeps
  <2>3. ASSUME NEW c \in AllIds, NEW target \in AllIds, NEW after \in BOOLEAN, Reorder(c, target, after)
        PROVE  FavoritesInv'
    BY <2>3, ReorderKeeps
  <2>4. ASSUME NEW d \in Deletions,
               Deleted(d) \/ NextDeletion(d) \/ \E images \in BOOLEAN : ConfirmDelete(d, images)
        PROVE  FavoritesInv'
    BY <2>4, DeletionKeeps
  <2>5. ASSUME NEW c \in CollectionIds, NEW t \in FavoriteTasks, NEW card \in Card, Import(c, t, card)
        PROVE  FavoritesInv'
    BY <2>5, ImportKeeps
  <2>6. CASE Reload
    BY <2>6, ReloadKeeps
  <2>7. CASE \/ \E c \in AllIds : ChooseDefault(c) \/ Toggle(c) \/ AskDelete("delete", <<c>>)
             \/ AskDelete("batch", SelectSeq(favorites, LAMBDA c : c \in selected))
             \/ Dismiss \/ ConfirmDefault
             \/ \E ts \in SUBSET FavoriteTasks : OpenPicker(ts)
             \/ ClosePicker \/ ConfirmPicker
             \/ \E ids \in SUBSET (AllIds \cup {All}) : Select(ids) \/ Flip(ids) \/ DragMoves(ids)
             \/ DragBegins \/ \E empties \in BOOLEAN : DragEnds(empties)
             \/ \E c \in AllIds \cup {All, Nowhere} : OpenCollection(c)
             \/ \E t \in FavoriteTasks : Written(t) \/ WriteFails(t)
             \/ \E d \in Deletions, gone \in SUBSET FavoriteTasks : RemovalFails(d, gone)
    BY <2>7, PageKeeps
  <2>8. QED
    BY <1>1, <2>1, <2>2, <2>3, <2>4, <2>5, <2>6, <2>7 DEF FavoritesNext
<1>2. CASE UNCHANGED favoriteVars
  <2>1. /\ favorites' = favorites /\ nameOf' = nameOf /\ preferred' = preferred
        /\ activeId' = activeId /\ selected' = selected /\ stray' = stray /\ deleting' = deleting
    BY <1>2 DEF favoriteVars, listVars, selectVars
  <2>2. QED
    BY <2>1, SameListKeeps DEF FavoritesInv
<1>3. QED
  BY <1>1, <1>2

\* However deletions, single and in batches, overlap with each other, with
\* failing writes and with what else the user does, there is always a
\* collection, the default and the opened one exist, and what is selected exists
\* but for what is being deleted, failed to be, or a drag brought back: for any
\* collections, names and tasks and any number of deletions at once.
THEOREM FavoritesHold == FavoritesSpec => []FavoritesRefer
  BY InitFavoritesInv, NextFavoritesInv, FavoritesInvRefer, PTL DEF FavoritesSpec

-----------------------------------------------------------------------------
(***************************************************************************)
(* WebInput: the mentions of the prompt name the images that were meant.   *)
(***************************************************************************)

\* Any numbers have a least one: of the intervals up to them one contains no other.
LEMMA LeastExists ==
    ASSUME NEW S, S \subseteq Nat, S # {}
    PROVE  \E c \in S : \A b \in S : c <= b
<1> DEFINE R == StrictSubsetOrdering(Nat)
           F == FiniteSubsetsOf(Nat)
           T == {0..n : n \in S}
<1>1. IsWellFoundedOn(R, F)
  BY FS_StrictSubsetOrderingWellFounded
<1>2. T \subseteq F
  <2>1. \A n \in S : 0..n \subseteq Nat /\ IsFiniteSet(0..n)
    BY FS_Interval
  <2> QED
    BY <2>1 DEF FiniteSubsetsOf
<1>3. T # {}
  OBVIOUS
<1>4. PICK x \in T : \A y \in T : ~(<<y, x>> \in R)
  <2> HIDE DEF R, F, T
  <2> QED
    BY <1>1, <1>2, <1>3, WFMin
<1>5. PICK c \in S : x = 0..c
  BY <1>4
<1>6. ASSUME NEW b \in S, b < c
      PROVE  FALSE
  <2>1. 0..b \subseteq 0..c /\ 0..b \in SUBSET Nat /\ 0..c \in SUBSET Nat
    BY <1>6
  <2>2. c \in 0..c /\ c \notin 0..b
    BY <1>6
  <2>3. 0..b # 0..c
    BY <2>2
  <2>4. <<0..b, 0..c>> \in R
    BY <2>1, <2>3 DEF StrictSubsetOrdering
  <2> QED
    BY <1>4, <1>5, <2>4
<1>7. ASSUME NEW b \in S
      PROVE  c <= b
  BY <1>6, <1>7
<1> QED
  BY <1>7

LEMMA LeastIs ==
    ASSUME NEW S, S \subseteq Nat, S # {}
    PROVE  Min(S) \in S /\ \A b \in S : Min(S) <= b
  BY LeastExists DEF Min

\* The first place of an image.
LEMMA PositionIs ==
    ASSUME NEW s \in Seq(InputPictures), NEW x
    PROVE  /\ PositionOf(s, x) \in 0..Len(s)
           /\ PositionOf(s, x) # 0 => PositionOf(s, x) \in DOMAIN s /\ s[PositionOf(s, x)] = x
           /\ PositionOf(s, x) = 0 => \A i \in DOMAIN s : s[i] # x
           /\ ListsPicture(s, x) <=> PositionOf(s, x) # 0
<1> DEFINE I == {i \in 1..Len(s) : s[i] = x}
<1>1. Len(s) \in Nat /\ DOMAIN s = 1..Len(s) /\ I \subseteq Nat
  OBVIOUS
<1>2. PositionOf(s, x) = IF I # {} THEN Min(I) ELSE 0
  BY DEF PositionOf, SelectInSeq
<1>3. I # {} => Min(I) \in I
  BY <1>1, LeastIs
<1> QED
  BY <1>1, <1>2, <1>3 DEF ListsPicture

\* The first place of either of two images.
FirstOf(s, x, y) == SelectInSeq(s, LAMBDA z : z \in {x, y})

LEMMA EitherIs ==
    ASSUME NEW s \in Seq(InputPictures), NEW x, NEW y
    PROVE  /\ FirstOf(s, x, y) \in 0..Len(s)
           /\ FirstOf(s, x, y) # 0 =>
                 /\ FirstOf(s, x, y) \in DOMAIN s
                 /\ \A i \in DOMAIN s : s[i] \in {x, y} => FirstOf(s, x, y) <= i
           /\ FirstOf(s, x, y) = 0 => \A i \in DOMAIN s : s[i] \notin {x, y}
<1> DEFINE I == {i \in 1..Len(s) : s[i] \in {x, y}}
<1>1. Len(s) \in Nat /\ DOMAIN s = 1..Len(s) /\ I \subseteq Nat
  OBVIOUS
<1>2. FirstOf(s, x, y) = IF I # {} THEN Min(I) ELSE 0
  BY DEF SelectInSeq, FirstOf
<1>3. I # {} => Min(I) \in I /\ \A i \in I : Min(I) <= i
  BY <1>1, LeastIs
<1> QED
  BY <1>1, <1>2, <1>3

\* What mentions, texts and the bar are.
Text  == Seq([n : Nat, of : InputPictures])
MaskIds == InputPictures \cup {NoPicture}
Bar   == [images : Seq(InputPictures), prompt : Text, dom : Text, typed : BOOLEAN,
          mask : MaskIds, editor : MaskIds]

\* A mention in text names the image that was meant.
Depicts(text, images) ==
    \A k \in DOMAIN text :
        text[k].n > 0 => text[k].n \in DOMAIN images /\ images[text[k].n] = text[k].of

LEMMA OneImage ==
    ASSUME NEW x \in InputPictures, NEW s \in Seq(InputPictures)
    PROVE  <<x>> \o s \in Seq(InputPictures)
  OBVIOUS

LEMMA MaskFirstIs ==
    ASSUME NEW s \in Seq(InputPictures), NEW m
    PROVE  /\ MaskFirst(s, m) \in Seq(InputPictures)
           /\ m = NoPicture => MaskFirst(s, m) = s
<1> DEFINE i == PositionOf(s, m)
<1>1. i \in 0..Len(s) /\ (i # 0 => i \in DOMAIN s /\ s[i] = m)
  BY PositionIs
<1>2. Len(s) \in Nat /\ \A k \in DOMAIN s : s[k] \in InputPictures
  OBVIOUS
<1> HIDE DEF i
<1>3. CASE i <= 1
  <2>1. MaskFirst(s, m) = s
    BY <1>3 DEF MaskFirst, i
  <2> QED
    BY <2>1
<1>4. CASE ~(i <= 1)
  <2>1. i # 0
    BY <1>4
  <2>2. i \in DOMAIN s /\ s[i] = m /\ m \in InputPictures
    BY <1>1, <1>2, <2>1
  <2>3. RemoveAt(s, i) \in Seq(InputPictures)
    BY <2>2, RemoveAtIs
  <2>4. MaskFirst(s, m) = <<m>> \o RemoveAt(s, i)
    BY <1>4 DEF MaskFirst, i
  <2>5. m # NoPicture
    BY <2>2, WebInputAssumption DEF NoPicture
  <2> QED
    BY <2>2, <2>3, <2>4, <2>5, OneImage
<1> QED
  BY <1>3, <1>4

\* Without an image the others are left.
LEMMA DroppedIs ==
    ASSUME NEW s \in Seq(InputPictures), NEW x
    PROVE  LET d == Dropped(s, x)
           IN  /\ d \in Seq(InputPictures) /\ Len(s) \in Nat /\ Len(d) \in Nat
               /\ \/ d = s
                  \/ /\ Len(d) = Len(s) - 1 /\ PositionOf(s, x) \in DOMAIN s
                     /\ s[PositionOf(s, x)] = x
                     /\ \A j \in DOMAIN d : \E i \in DOMAIN s :
                           i # PositionOf(s, x) /\ d[j] = s[i]
<1> DEFINE k == PositionOf(s, x)
           d == Dropped(s, x)
<1>1. Len(s) \in Nat /\ DOMAIN s = 1..Len(s)
  OBVIOUS
<1>2. (k # 0 => k \in DOMAIN s /\ s[k] = x) /\ (ListsPicture(s, x) <=> k # 0)
  BY PositionIs
<1>3. CASE ~ListsPicture(s, x)
  BY <1>1, <1>3 DEF Dropped
<1>4. CASE ListsPicture(s, x)
  <2>1. d = RemoveAt(s, k)
    BY <1>4 DEF Dropped
  <2>2. k \in DOMAIN s /\ s[k] = x
    BY <1>2, <1>4
  <2> HIDE DEF k, d
  <2>3. /\ d \in Seq(InputPictures) /\ Len(d) = Len(s) - 1
        /\ \A j \in 1..(Len(s) - 1) : d[j] = IF j < k THEN s[j] ELSE s[j + 1]
    BY <2>1, <2>2, RemoveAtIs
  <2>4. \A j \in DOMAIN d : \E i \in DOMAIN s : i # k /\ d[j] = s[i]
    <3> TAKE j \in DOMAIN d
    <3>1. j \in 1..(Len(s) - 1) /\ j \in DOMAIN s /\ j + 1 \in DOMAIN s
      BY <1>1, <2>3
    <3>2. CASE j < k
      BY <2>3, <3>1, <3>2
    <3>3. CASE ~(j < k)
      BY <1>1, <2>2, <2>3, <3>1, <3>3
    <3> QED
      BY <3>2, <3>3
  <2>5. Len(d) \in Nat
    BY <2>3
  <2> QED
    BY <1>1, <2>2, <2>3, <2>4, <2>5 DEF k, d
<1> QED
  BY <1>3, <1>4

LEMMA MaskTargetType ==
    ASSUME NEW s \in Seq(InputPictures), NEW t, NEW c \in InputPictures
    PROVE  /\ MaskTargetReplaced(s, t, c) \in Seq(InputPictures)
           /\ \/ /\ MaskTargetReplaced(s, t, c) = <<c>> \o s
                 /\ \A i \in DOMAIN s : s[i] # c
              \/ \E k \in 1..(Len(Dropped(Dropped(s, t), c)) + 1) :
                    IsInserted(MaskTargetReplaced(s, t, c), InputPictures,
                               Dropped(Dropped(s, t), c), k, c)
<1> DEFINE p == FirstOf(s, t, c)
           d == Dropped(s, t)
           r == Dropped(d, c)
<1>1. /\ p \in 0..Len(s)
      /\ p # 0 => p \in DOMAIN s /\ \A i \in DOMAIN s : s[i] \in {t, c} => p <= i
      /\ p = 0 => \A i \in DOMAIN s : s[i] # c
  BY EitherIs
<1>2. MaskTargetReplaced(s, t, c) = IF p = 0 THEN <<c>> \o s ELSE InsertAt(r, p, c)
  BY DEF MaskTargetReplaced, FirstOf
<1> HIDE DEF p
<1>3. /\ d \in Seq(InputPictures) /\ Len(s) \in Nat /\ Len(d) \in Nat
      /\ \/ d = s
         \/ /\ Len(d) = Len(s) - 1 /\ PositionOf(s, t) \in DOMAIN s
            /\ s[PositionOf(s, t)] = t
            /\ \A j \in DOMAIN d : \E i \in DOMAIN s :
                  i # PositionOf(s, t) /\ d[j] = s[i]
  BY DroppedIs
<1> HIDE DEF d
<1>4. /\ r \in Seq(InputPictures) /\ Len(r) \in Nat
      /\ \/ r = d
         \/ Len(r) = Len(d) - 1 /\ PositionOf(d, c) \in DOMAIN d /\ d[PositionOf(d, c)] = c
  BY <1>3, DroppedIs
<1> HIDE DEF r
<1>5. CASE p = 0
  BY <1>1, <1>2, <1>5, OneImage
<1>6. CASE p # 0
  <2>1. p \in DOMAIN s /\ p \in 1..Len(s) /\ \A i \in DOMAIN s : s[i] \in {t, c} => p <= i
    BY <1>1, <1>6
  <2>2. p \in 1..(Len(r) + 1)
    <3>1. CASE Len(r) >= Len(s) - 1
      BY <1>3, <1>4, <2>1, <3>1
    <3>2. CASE ~(Len(r) >= Len(s) - 1)
      <4>1. /\ Len(d) = Len(s) - 1 /\ Len(r) = Len(s) - 2 /\ PositionOf(s, t) \in DOMAIN s
            /\ s[PositionOf(s, t)] = t
            /\ PositionOf(d, c) \in DOMAIN d /\ d[PositionOf(d, c)] = c
        BY <1>3, <1>4, <3>2
      <4>2. PICK i \in DOMAIN s : i # PositionOf(s, t) /\ s[i] = c
        BY <1>3, <4>1
      <4>3. p <= i /\ p <= PositionOf(s, t)
        BY <2>1, <4>1, <4>2
      <4>4. i \in 1..Len(s) /\ PositionOf(s, t) \in 1..Len(s)
        BY <4>1
      <4> QED
        BY <1>3, <2>1, <4>1, <4>2, <4>3, <4>4
    <3> QED
      BY <3>1, <3>2
  <2>3. IsInserted(InsertAt(r, p, c), InputPictures, r, p, c)
    BY <1>4, <2>2, InsertAtIs
  <2>4. InsertAt(r, p, c) \in Seq(InputPictures)
    BY <2>3 DEF IsInserted
  <2>5. MaskTargetReplaced(s, t, c) = InsertAt(r, p, c)
    BY <1>2, <1>6
  <2> QED
    BY <2>2, <2>3, <2>4, <2>5 DEF r, d
<1> QED
  BY <1>5, <1>6

LEMMA MovedType ==
    ASSUME bar.images \in Seq(InputPictures), NEW i \in DOMAIN bar.images,
           NEW gap \in 1..(Len(bar.images) + 1)
    PROVE  /\ Moved(i, DropTarget(gap)) \in Seq(InputPictures)
           /\ \E k \in 1..(Len(RemoveAt(bar.images, i)) + 1) :
                 IsInserted(Moved(i, DropTarget(gap)), InputPictures,
                            RemoveAt(bar.images, i), k, bar.images[i])
<1> DEFINE s == bar.images
           g == DropTarget(gap)
           r == RemoveAt(s, i)
           j == IF i < g THEN g - 1 ELSE g
<1>1. Len(s) \in Nat /\ i \in 1..Len(s) /\ s[i] \in InputPictures
  OBVIOUS
<1>2. g \in 1..(Len(s) + 1)
  BY <1>1 DEF DropTarget
<1> HIDE DEF g
<1>3. r \in Seq(InputPictures) /\ Len(r) = Len(s) - 1
  BY RemoveAtIs
<1> HIDE DEF r
<1>4. j \in 1..(Len(r) + 1)
  BY <1>1, <1>2, <1>3
<1> DEFINE x == s[i]
<1>5. x \in InputPictures
  BY <1>1
<1> HIDE DEF j, x
<1>6. IsInserted(InsertAt(r, j, x), InputPictures, r, j, x)
  BY <1>3, <1>4, <1>5, InsertAtIs
<1>7. Moved(i, DropTarget(gap)) = InsertAt(r, j, x)
  BY DEF Moved, r, j, x, g
<1>8. InsertAt(r, j, x) \in Seq(InputPictures)
  BY <1>6 DEF IsInserted
<1> QED
  BY <1>4, <1>6, <1>7, <1>8 DEF r, x

LEMMA MentionIs ==
    ASSUME NEW n \in Nat, NEW x \in InputPictures
    PROVE  /\ Mention(n, x) \in [n : Nat, of : InputPictures]
           /\ Mention(n, x).n = n /\ Mention(n, x).of = x
           /\ PlainText(x) \in [n : Nat, of : InputPictures] /\ PlainText(x).n = 0
  BY DEF Mention, PlainText

LEMMA TextIs ==
    ASSUME NEW text \in Text
    PROVE  /\ Len(text) \in Nat /\ DOMAIN text = 1..Len(text)
           /\ \A k \in DOMAIN text : /\ text[k] \in [n : Nat, of : InputPictures]
                                     /\ text[k].n \in Nat /\ text[k].of \in InputPictures
<1> DEFINE M == [n : Nat, of : InputPictures]
<1>1. text \in Seq(M)
  BY DEF Text
<1> HIDE DEF M
<1>2. Len(text) \in Nat /\ DOMAIN text = 1..Len(text) /\ \A k \in DOMAIN text : text[k] \in M
  BY <1>1
<1>3. \A k \in DOMAIN text : text[k] \in [n : Nat, of : InputPictures]
  BY <1>2 DEF M
<1> QED
  BY <1>2, <1>3

LEMMA NewText ==
    ASSUME NEW n \in Nat, NEW f, f = [k \in 1..n |-> f[k]],
           \A k \in 1..n : f[k] \in [n : Nat, of : InputPictures]
    PROVE  f \in Text /\ DOMAIN f = 1..n
<1> DEFINE M == [n : Nat, of : InputPictures]
<1>1. \A k \in 1..n : f[k] \in M
  OBVIOUS
<1> HIDE DEF M
<1>2. f \in [1..n -> M]
  BY <1>1
<1>3. f \in Seq(M) /\ DOMAIN f = 1..n
  BY <1>2
<1> QED
  BY <1>3 DEF M, Text

\* A change of the images takes the mentions with it.
LEMMA RemapFollows ==
    ASSUME NEW text \in Text, NEW previous \in Seq(InputPictures), Depicts(text, previous),
           NEW next \in Seq(InputPictures), NEW equal \in [InputPictures -> InputPictures]
    PROVE  /\ Remap(text, previous, next, equal) \in Text
           /\ Depicts(Remap(text, previous, next, equal), next)
<1> DEFINE f == Remap(text, previous, next, equal)
           g(k) == LET m == text[k]
                       x == equal[previous[m.n]]
                   IN  IF m.n = 0 \/ m.n > Len(previous) THEN m
                       ELSE IF ListsPicture(next, x) THEN Mention(PositionOf(next, x), equal[m.of])
                       ELSE PlainText(m.of)
<1>1. DOMAIN text = 1..Len(text) /\ Len(text) \in Nat /\ f = [k \in DOMAIN text |-> g(k)]
  BY TextIs DEF Remap
<1>2. ASSUME NEW k \in DOMAIN text
      PROVE  /\ g(k) \in [n : Nat, of : InputPictures]
             /\ g(k).n > 0 => g(k).n \in DOMAIN next /\ next[g(k).n] = g(k).of
  <2> DEFINE m == text[k]
             x == equal[previous[m.n]]
             p == PositionOf(next, x)
  <2>1. /\ m \in [n : Nat, of : InputPictures] /\ m.n \in Nat /\ m.of \in InputPictures
        /\ m.n > 0 => m.n \in DOMAIN previous /\ previous[m.n] = m.of
    BY TextIs DEF Depicts
  <2>2. /\ p \in 0..Len(next) /\ (ListsPicture(next, x) <=> p # 0)
        /\ p # 0 => p \in DOMAIN next /\ next[p] = x
    BY PositionIs
  <2>3. CASE m.n = 0
    <3>1. g(k) = m
      BY <2>3
    <3> QED
      BY <2>1, <2>3, <3>1
  <2>4. CASE m.n # 0
    <3>1. m.n > 0 /\ m.n \in 1..Len(previous) /\ x = equal[m.of] /\ equal[m.of] \in InputPictures
      BY <2>1, <2>4
    <3>2. ~(m.n = 0 \/ m.n > Len(previous))
      BY <2>1, <3>1
    <3>3. g(k) = IF ListsPicture(next, x) THEN Mention(p, equal[m.of]) ELSE PlainText(m.of)
      BY <3>2
    <3> HIDE DEF g, m, x, p
    <3>4. CASE ListsPicture(next, x)
      <4>1. p \in Nat /\ p \in DOMAIN next /\ next[p] = equal[m.of]
        BY <2>2, <3>1, <3>4
      <4>2. g(k) = Mention(p, equal[m.of])
        BY <3>3, <3>4
      <4> QED
        BY <3>1, <4>1, <4>2, MentionIs
    <3>5. CASE ~ListsPicture(next, x)
      <4>1. g(k) = PlainText(m.of)
        BY <3>3, <3>5
      <4>2. PlainText(m.of) \in [n : Nat, of : InputPictures] /\ PlainText(m.of).n = 0
        BY <2>1, MentionIs
      <4> QED
        BY <4>1, <4>2
    <3> QED
      BY <3>4, <3>5
  <2> QED
    BY <2>3, <2>4
<1> HIDE DEF g, f
<1>3. DOMAIN f = 1..Len(text) /\ \A k \in 1..Len(text) : f[k] = g(k)
  BY <1>1
<1>4. f = [k \in 1..Len(text) |-> f[k]]
  BY <1>1
<1>5. f \in Text
  BY <1>1, <1>2, <1>3, <1>4, NewText
<1>6. Depicts(f, next)
  BY <1>1, <1>2, <1>3 DEF Depicts
<1> QED
  BY <1>5, <1>6 DEF f

LEMMA PartsFollow ==
    ASSUME NEW text \in Text, NEW images \in Seq(InputPictures), Depicts(text, images)
    PROVE  MentionParts(text, images) \in Text /\ Depicts(MentionParts(text, images), images)
<1>1. /\ DOMAIN text = 1..Len(text) /\ Len(text) \in Nat /\ Len(images) \in Nat
      /\ DOMAIN images = 1..Len(images)
      /\ \A k \in DOMAIN text : text[k].n \in Nat
  BY TextIs
<1>2. \A k \in DOMAIN text : ~(text[k].n > Len(images))
  BY <1>1 DEF Depicts
<1>3. MentionParts(text, images) = [k \in DOMAIN text |-> text[k]]
  BY <1>2 DEF MentionParts
<1>4. MentionParts(text, images) = text
  BY <1>1, <1>3 DEF Text
<1> QED
  BY <1>4
\* The bar while its element may be behind, and when it is drawn.
Fits(b)     == b \in Bar /\ ~b.typed /\ Depicts(b.prompt, b.images)
GoodBar(b)  == Fits(b) /\ Depicts(b.dom, b.images)
GoodSave(s) == s \in [image : MaskIds, live : BOOLEAN] /\ (s.live => s.image # NoPicture)

LEMMA BarIs ==
    ASSUME NEW b \in Bar
    PROVE  /\ b.images \in Seq(InputPictures) /\ b.prompt \in Text /\ b.dom \in Text
           /\ b.typed \in BOOLEAN /\ b.mask \in MaskIds /\ b.editor \in MaskIds
  BY DEF Bar

LEMMA ImagesSetIs ==
    ASSUME NEW b, Fits(b), NEW images \in Seq(InputPictures),
           NEW equal \in [InputPictures -> InputPictures], NEW ends \in BOOLEAN
    PROVE  /\ Fits(ImagesSet(b, images, equal, ends))
           /\ ImagesSet(b, images, equal, ends).images = images
           /\ ImagesSet(b, images, equal, ends).dom = b.dom
           /\ ImagesSet(b, images, equal, ends).mask \in {b.mask, NoPicture}
<1> DEFINE p == Remap(b.prompt, b.images, images, equal)
           n == ImagesSet(b, images, equal, ends)
<1>1. /\ b \in Bar /\ ~b.typed /\ b.images \in Seq(InputPictures) /\ b.prompt \in Text
      /\ Depicts(b.prompt, b.images)
  BY BarIs DEF Fits
<1>2. p \in Text /\ Depicts(p, images)
  BY <1>1, RemapFollows
<1>3. NoPicture \in MaskIds
  BY DEF MaskIds
<1>4. n = [b EXCEPT !.images = images, !.prompt = p,
                    !.mask = IF ends THEN NoPicture ELSE @,
                    !.editor = IF ends THEN NoPicture ELSE @]
  BY DEF ImagesSet
<1> HIDE DEF p, n
<1>5. n \in Bar /\ n.images = images /\ n.prompt = p /\ n.typed = b.typed
      /\ n.dom = b.dom /\ n.mask \in {b.mask, NoPicture}
  BY <1>1, <1>2, <1>3, <1>4 DEF Bar
<1> QED
  BY <1>1, <1>2, <1>5 DEF Fits, n

LEMMA InputImagesSetIs ==
    ASSUME NEW b, Fits(b), NEW images \in Seq(InputPictures),
           NEW equal \in [InputPictures -> InputPictures]
    PROVE  /\ Fits(InputImagesSet(b, images, equal))
           /\ b.mask = NoPicture => InputImagesSet(b, images, equal).images = images
           /\ InputImagesSet(b, images, equal).mask \in {b.mask, NoPicture}
<1> DEFINE o == MaskFirst(images, b.mask)
           e == b.mask # NoPicture /\ ~ListsPicture(o, b.mask)
<1>1. o \in Seq(InputPictures) /\ (b.mask = NoPicture => o = images)
  BY MaskFirstIs
<1>2. e \in BOOLEAN
  OBVIOUS
<1>3. InputImagesSet(b, images, equal) = ImagesSet(b, o, equal, e)
  BY DEF InputImagesSet
<1> HIDE DEF o, e
<1>4. /\ Fits(ImagesSet(b, o, equal, e)) /\ ImagesSet(b, o, equal, e).images = o
      /\ ImagesSet(b, o, equal, e).mask \in {b.mask, NoPicture}
  BY <1>1, <1>2, ImagesSetIs
<1> QED
  BY <1>1, <1>3, <1>4

LEMMA SameIs == Same \in [InputPictures -> InputPictures]
  BY DEF Same

LEMMA MaskSetIs ==
    ASSUME NEW b, Fits(b), NEW mask \in MaskIds
    PROVE  Fits(MaskSet(b, mask)) /\ MaskSet(b, mask).dom = b.dom
<1> DEFINE c == [b EXCEPT !.mask = mask]
           o == MaskFirst(b.images, mask)
<1>1. b \in Bar /\ b.images \in Seq(InputPictures) /\ ~b.typed /\ Depicts(b.prompt, b.images)
  BY BarIs DEF Fits
<1>2. c \in Bar /\ c.typed = b.typed /\ c.images = b.images /\ c.prompt = b.prompt
      /\ c.dom = b.dom
  BY <1>1 DEF Bar
<1>3. o \in Seq(InputPictures)
  BY <1>1, MaskFirstIs
<1>4. MaskSet(b, mask) = ImagesSet(c, o, Same, FALSE)
  BY DEF MaskSet
<1> HIDE DEF c, o
<1>5. Fits(c)
  BY <1>1, <1>2 DEF Fits
<1>6. Fits(ImagesSet(c, o, Same, FALSE)) /\ ImagesSet(c, o, Same, FALSE).dom = c.dom
  BY <1>3, <1>5, SameIs, ImagesSetIs
<1> QED
  BY <1>2, <1>4, <1>6

LEMMA RenderedIs ==
    ASSUME NEW n, Fits(n), NEW changed \in BOOLEAN, changed \/ Depicts(n.dom, n.images)
    PROVE  GoodBar(Rendered(n, changed)) /\ Rendered(n, changed).mask = n.mask
<1> DEFINE d == MentionParts(n.prompt, n.images)
           r == [n EXCEPT !.dom = d]
<1>1. /\ n \in Bar /\ ~n.typed /\ n.prompt \in Text /\ n.images \in Seq(InputPictures)
      /\ Depicts(n.prompt, n.images)
  BY BarIs DEF Fits
<1>2. d \in Text /\ Depicts(d, n.images)
  BY <1>1, PartsFollow
<1>3. CASE ~changed
  BY <1>3 DEF Rendered, GoodBar
<1>4. CASE changed
  <2>1. Rendered(n, changed) = r
    BY <1>1, <1>4 DEF Rendered
  <2> HIDE DEF d
  <2>2. /\ r \in Bar /\ r.typed = n.typed /\ r.prompt = n.prompt /\ r.images = n.images
        /\ r.dom = d /\ r.mask = n.mask
    BY <1>1, <1>2 DEF Bar
  <2> HIDE DEF r
  <2> QED
    BY <1>1, <1>2, <2>1, <2>2 DEF GoodBar, Fits
<1> QED
  BY <1>3, <1>4

LEMMA SetBarKeeps ==
    ASSUME GoodBar(bar), GoodSave(saving), NEW next, Fits(next), NEW fresh \in BOOLEAN,
           next.images = bar.images => fresh \/ Depicts(next.dom, next.images),
           SetBar(next, fresh)
    PROVE  GoodBar(bar') /\ GoodSave(saving') /\ bar'.mask = next.mask
<1> DEFINE c == fresh \/ next.images # bar.images \/ next.prompt # bar.prompt
<1>1. c \in BOOLEAN /\ (c \/ Depicts(next.dom, next.images))
  OBVIOUS
<1>2. bar' = Rendered(next, c) /\ (saving' = saving \/ saving' = [saving EXCEPT !.live = FALSE])
  BY DEF SetBar
<1> HIDE DEF c
<1>3. GoodBar(bar') /\ bar'.mask = next.mask
  BY <1>1, <1>2, RenderedIs
<1>4. GoodSave(saving')
  BY <1>2 DEF GoodSave
<1> QED
  BY <1>3, <1>4
\* What holds of the input bar in every state: the prompt and its element name
\* the images, whatever is read is an image, and while the inputs of a task are
\* read there is no mask that would come before its images.
ByImage   == \A r \in replacing : r.by \in InputPictures
Reusing   == reusing \in Reusable \cup {[NoTask EXCEPT !.mask = m] : m \in MaskIds}
Unmasked  == reusing.mentions # <<>> => bar.mask = NoPicture
InputInv  == /\ GoodBar(bar) /\ GoodSave(saving) /\ arriving \subseteq InputPictures
             /\ ByImage /\ Reusing /\ Unmasked

\* The tasks to reuse mention images of theirs that are still stored, nothing
\* comes between the steps of the reuse, and an input event changes the text.
Tidy == /\ InMemory /\ ~Retyped
        /\ \A t \in Reusable :
              /\ t.images \in Seq(InputPictures) /\ StillStored(t.images) = t.images
              /\ t.mask \in MaskIds /\ t.mentions \in Seq(DOMAIN t.images)

\* An action of the user or of a callback, outside the reuse of inputs.
BarKept == GoodBar(bar') /\ GoodSave(saving')

\* A change of the bar that draws it, or leaves the images or the element right.
LEMMA BarStep ==
    ASSUME InputInv, NEW next, Fits(next), NEW fresh \in BOOLEAN,
           next.images = bar.images => fresh \/ Depicts(next.dom, next.images),
           SetBar(next, fresh)
    PROVE  BarKept /\ bar'.mask = next.mask
  BY SetBarKeeps DEF InputInv, BarKept

LEMMA GoodBarIs ==
    ASSUME NEW b, GoodBar(b)
    PROVE  /\ Fits(b) /\ b \in Bar /\ ~b.typed /\ Depicts(b.prompt, b.images) /\ Depicts(b.dom, b.images)
           /\ b.images \in Seq(InputPictures) /\ b.prompt \in Text /\ b.dom \in Text
           /\ b.mask \in MaskIds /\ b.editor \in MaskIds
  BY BarIs DEF GoodBar, Fits

LEMMA ReadElementIs ==
    ASSUME InputInv, NEW dom \in Text, Depicts(dom, bar.images), ReadElement(dom, TRUE)
    PROVE  BarKept
<1> DEFINE n == [bar EXCEPT !.dom = dom, !.prompt = dom, !.typed = FALSE]
<1>1. bar \in Bar
  BY GoodBarIs DEF InputInv
<1>2. bar' = n /\ saving' = saving
  BY DEF ReadElement
<1>3. n \in Bar /\ n.dom = dom /\ n.prompt = dom /\ ~n.typed /\ n.images = bar.images
  BY <1>1 DEF Bar
<1> HIDE DEF n
<1> QED
  BY <1>2, <1>3 DEF BarKept, GoodBar, Fits, InputInv

LEMMA TypeTextKeeps ==
    ASSUME InputInv, TypeText
    PROVE  BarKept
<1>1. bar.dom \in Text /\ Depicts(bar.dom, bar.images)
  BY GoodBarIs DEF InputInv
<1>2. ReadElement(bar.dom, TRUE)
  BY DEF TypeText
<1> QED
  BY <1>1, <1>2, ReadElementIs

LEMMA InsertMentionKeeps ==
    ASSUME InputInv, NEW i \in DOMAIN bar.images, InsertMention(i)
    PROVE  BarKept
<1> DEFINE m == Mention(i, bar.images[i])
           d == Append(bar.dom, m)
           M == [n : Nat, of : InputPictures]
<1>1. /\ bar.images \in Seq(InputPictures) /\ bar.dom \in Text /\ Depicts(bar.dom, bar.images)
  BY GoodBarIs DEF InputInv
<1>2. i \in Nat /\ bar.images[i] \in InputPictures
  BY <1>1
<1>3. m \in M /\ m.n = i /\ m.of = bar.images[i]
  BY <1>2, MentionIs
<1>4. bar.dom \in Seq(M)
  BY <1>1 DEF Text
<1> HIDE DEF m, M
<1>5. /\ d \in Seq(M) /\ Len(d) = Len(bar.dom) + 1 /\ Len(bar.dom) \in Nat
      /\ DOMAIN d = 1..Len(d) /\ DOMAIN bar.dom = 1..Len(bar.dom)
      /\ d[Len(d)] = m /\ \A k \in 1..Len(bar.dom) : d[k] = bar.dom[k]
  BY <1>3, <1>4
<1> HIDE DEF d
<1>6. \A k \in DOMAIN d : k \in DOMAIN bar.dom \/ k = Len(d)
  BY <1>5
<1>7. Depicts(d, bar.images)
  BY <1>1, <1>3, <1>5, <1>6 DEF Depicts
<1>8. d \in Text
  BY <1>5 DEF M, Text
<1>9. ReadElement(d, TRUE)
  BY DEF InsertMention, d, m
<1> QED
  BY <1>7, <1>8, <1>9, ReadElementIs

LEMMA DeleteMentionKeeps ==
    ASSUME InputInv, NEW k, DeleteMention(k)
    PROVE  BarKept
<1> DEFINE d == RemoveAt(bar.dom, k)
           M == [n : Nat, of : InputPictures]
<1>1. bar.dom \in Text /\ Depicts(bar.dom, bar.images)
  BY GoodBarIs DEF InputInv
<1>2. k \in DOMAIN bar.dom /\ ReadElement(d, TRUE)
  BY DEF DeleteMention
<1>3. bar.dom \in Seq(M)
  BY <1>1 DEF Text
<1> HIDE DEF M
<1>4. /\ d \in Seq(M) /\ Len(bar.dom) \in Nat \ {0} /\ Len(d) = Len(bar.dom) - 1
      /\ \A i \in 1..(Len(bar.dom) - 1) : d[i] = IF i < k THEN bar.dom[i] ELSE bar.dom[i + 1]
  BY <1>2, <1>3, RemoveAtIs
<1> HIDE DEF d
<1>5. ASSUME NEW j \in DOMAIN d
      PROVE  \E i \in DOMAIN bar.dom : d[j] = bar.dom[i]
  <2>1. j \in 1..(Len(bar.dom) - 1) /\ j \in DOMAIN bar.dom /\ j + 1 \in DOMAIN bar.dom
    BY <1>3, <1>4, <1>5
  <2> QED
    BY <1>4, <2>1
<1>6. Depicts(d, bar.images)
  BY <1>1, <1>5 DEF Depicts
<1>7. d \in Text
  BY <1>4 DEF M, Text
<1> QED
  BY <1>2, <1>6, <1>7, ReadElementIs

LEMMA InsertBreakKeeps ==
    ASSUME InputInv, InsertBreak
    PROVE  BarKept
<1> DEFINE n == [bar EXCEPT !.typed = FALSE]
<1>1. bar \in Bar /\ Depicts(bar.prompt, bar.images)
  BY GoodBarIs DEF InputInv
<1>2. n \in Bar /\ ~n.typed /\ n.prompt = bar.prompt /\ n.images = bar.images
  BY <1>1 DEF Bar
<1>3. SetBar(n, TRUE)
  BY DEF InsertBreak
<1> HIDE DEF n
<1>4. Fits(n)
  BY <1>1, <1>2 DEF Fits
<1> QED
  BY <1>3, <1>4, BarStep

LEMMA EmptyText == <<>> \in Text /\ \A images : Depicts(<<>>, images)
  BY DEF Text, Depicts

LEMMA ClearPromptKeeps ==
    ASSUME InputInv, ClearPrompt
    PROVE  BarKept
<1> DEFINE n == [bar EXCEPT !.typed = FALSE, !.prompt = <<>>, !.dom = <<>>]
<1>1. bar \in Bar
  BY GoodBarIs DEF InputInv
<1>2. n \in Bar /\ ~n.typed /\ n.prompt = <<>> /\ n.dom = <<>>
  BY <1>1, EmptyText DEF Bar
<1>3. SetBar(n, FALSE)
  BY DEF ClearPrompt
<1> HIDE DEF n
<1>4. Fits(n) /\ Depicts(n.dom, n.images)
  BY <1>2, EmptyText DEF Fits
<1> QED
  BY <1>3, <1>4, BarStep

\* The images of the bar are changed with the mentions, and drawn.
LEMMA ImagesStep ==
    ASSUME InputInv, NEW images \in Seq(InputPictures),
           NEW equal \in [InputPictures -> InputPictures], NEW ends \in BOOLEAN,
           SetBar(ImagesSet(bar, images, equal, ends), FALSE)
    PROVE  BarKept
<1> DEFINE n == ImagesSet(bar, images, equal, ends)
<1>1. Fits(bar) /\ Depicts(bar.dom, bar.images)
  BY GoodBarIs DEF InputInv
<1>2. Fits(n) /\ n.images = images /\ n.dom = bar.dom
  BY <1>1, ImagesSetIs
<1> HIDE DEF n
<1> QED
  BY <1>1, <1>2, BarStep DEF n

LEMMA AddImageKeeps ==
    ASSUME InputInv, NEW x \in InputPictures, AddImage(x)
    PROVE  BarKept
<1> DEFINE s == Append(bar.images, x)
           n == [bar EXCEPT !.images = s]
<1>1. /\ bar \in Bar /\ bar.images \in Seq(InputPictures) /\ ~bar.typed /\ bar.prompt \in Text
      /\ Depicts(bar.prompt, bar.images) /\ Depicts(bar.dom, bar.images) /\ GoodBar(bar)
      /\ GoodSave(saving)
  BY GoodBarIs DEF InputInv
<1>2. /\ s \in Seq(InputPictures) /\ s # bar.images
      /\ \A k \in DOMAIN bar.images : k \in DOMAIN s /\ s[k] = bar.images[k]
  BY <1>1
<1> HIDE DEF s
<1>3. n \in Bar /\ n.typed = bar.typed /\ n.prompt = bar.prompt /\ n.images = s
  BY <1>1, <1>2 DEF Bar
<1> HIDE DEF n
<1>4. Depicts(bar.prompt, s)
  BY <1>1, <1>2 DEF Depicts
<1>5. Fits(n)
  BY <1>1, <1>3, <1>4 DEF Fits
<1>6. CASE ListsPicture(bar.images, x)
  BY <1>1, <1>6 DEF AddImage, BarKept
<1>7. CASE ~ListsPicture(bar.images, x)
  <2>1. SetBar(n, FALSE)
    BY <1>7 DEF AddImage, n, s
  <2> QED
    BY <1>2, <1>3, <1>5, <2>1, BarStep
<1> QED
  BY <1>6, <1>7

LEMMA MoveImageKeeps ==
    ASSUME InputInv, NEW i \in DOMAIN bar.images, NEW gap \in 1..Len(bar.images) + 1,
           MoveImage(i, gap)
    PROVE  BarKept
<1> DEFINE s == Moved(i, DropTarget(gap))
<1>1. bar.images \in Seq(InputPictures)
  BY GoodBarIs DEF InputInv
<1>2. s \in Seq(InputPictures)
  BY <1>1, MovedType
<1>3. SetBar(ImagesSet(bar, s, Same, FALSE), FALSE)
  BY DEF MoveImage
<1> HIDE DEF s
<1> QED
  BY <1>2, <1>3, SameIs, ImagesStep

LEMMA RemoveImageKeeps ==
    ASSUME InputInv, NEW i, RemoveImage(i)
    PROVE  BarKept
<1> DEFINE s == RemoveAt(bar.images, i)
<1>1. bar.images \in Seq(InputPictures) /\ i \in DOMAIN bar.images
  BY GoodBarIs DEF InputInv, RemoveImage
<1>2. s \in Seq(InputPictures)
  BY <1>1, RemoveAtIs
<1>3. SetBar(ImagesSet(bar, s, Same, FALSE), FALSE)
  BY DEF RemoveImage
<1> HIDE DEF s
<1> QED
  BY <1>2, <1>3, SameIs, ImagesStep

LEMMA ClearImagesKeeps ==
    ASSUME InputInv, ClearImages
    PROVE  BarKept
<1>1. SetBar(ImagesSet(bar, <<>>, Same, TRUE), FALSE)
  BY DEF ClearImages
<1>2. <<>> \in Seq(InputPictures)
  OBVIOUS
<1> QED
  BY <1>1, <1>2, SameIs, ImagesStep

\* The prompt is given up.
LEMMA PromptGone ==
    ASSUME InputInv
    PROVE  Fits([bar EXCEPT !.prompt = <<>>])
<1> DEFINE n == [bar EXCEPT !.prompt = <<>>]
<1>1. bar \in Bar /\ ~bar.typed
  BY GoodBarIs DEF InputInv
<1>2. n \in Bar /\ n.typed = bar.typed /\ n.prompt = <<>>
  BY <1>1, EmptyText DEF Bar
<1> HIDE DEF n
<1>3. Fits(n)
  BY <1>1, <1>2, EmptyText DEF Fits
<1> QED
  BY <1>3 DEF n

\* A change that is drawn whatever it leaves.
LEMMA FreshStep ==
    ASSUME InputInv, NEW next, Fits(next), SetBar(next, TRUE)
    PROVE  BarKept /\ bar'.mask = next.mask
  BY BarStep

LEMMA SubmitClearsKeeps ==
    ASSUME InputInv, SubmitClears
    PROVE  BarKept
<1> DEFINE b == [bar EXCEPT !.prompt = <<>>]
           n == ImagesSet(b, <<>>, Same, TRUE)
<1>1. Fits(b) /\ <<>> \in Seq(InputPictures)
  BY PromptGone
<1>2. SetBar(n, TRUE)
  BY DEF SubmitClears
<1> HIDE DEF b
<1>3. Fits(n)
  BY <1>1, SameIs, ImagesSetIs
<1> HIDE DEF n
<1> QED
  BY <1>2, <1>3, FreshStep

\* A mask that ends leaves the bar as it is.
LEMMA MaskEnds ==
    ASSUME NEW b, Fits(b)
    PROVE  Fits([b EXCEPT !.mask = NoPicture]) /\ [b EXCEPT !.mask = NoPicture].mask = NoPicture
<1> DEFINE n == [b EXCEPT !.mask = NoPicture]
<1>1. NoPicture \in MaskIds /\ b \in Bar
  BY DEF MaskIds, Fits
<1>2. n \in Bar /\ n.typed = b.typed /\ n.prompt = b.prompt /\ n.images = b.images
      /\ n.mask = NoPicture
  BY <1>1 DEF Bar
<1> HIDE DEF n
<1>3. Fits(n)
  BY <1>2 DEF Fits
<1> QED
  BY <1>2, <1>3 DEF n

LEMMA CancelEditingKeeps ==
    ASSUME InputInv, CancelEditing
    PROVE  BarKept
<1> DEFINE b == [bar EXCEPT !.prompt = <<>>]
           c == InputImagesSet(b, <<>>, Same)
           n == [c EXCEPT !.mask = NoPicture]
<1>1. Fits(b) /\ <<>> \in Seq(InputPictures)
  BY PromptGone
<1>2. SetBar(n, TRUE)
  BY DEF CancelEditing
<1> HIDE DEF b
<1>3. Fits(c)
  BY <1>1, SameIs, InputImagesSetIs
<1> HIDE DEF c
<1>4. Fits(n)
  BY <1>3, MaskEnds
<1> HIDE DEF n
<1> QED
  BY <1>2, <1>4, FreshStep

LEMMA ReplacementReadKeeps ==
    ASSUME InputInv, NEW r, ReplacementRead(r)
    PROVE  BarKept
<1> DEFINE found == PositionOf(bar.images, r.id)
           i     == IF found # 0 THEN found ELSE r.index
           x     == r.by
           previous == bar.images[i]
           equal == [Same EXCEPT ![previous] = x]
           s     == ReplaceAt(bar.images, i, x)
           ends  == previous = bar.mask
<1>1. x \in InputPictures /\ bar.images \in Seq(InputPictures)
  BY GoodBarIs DEF InputInv, ByImage, ReplacementRead
<1>2. \/ UNCHANGED <<bar, saving>>
      \/ i \in DOMAIN bar.images /\ SetBar(ImagesSet(bar, s, equal, ends), FALSE)
  BY DEF ReplacementRead
<1> HIDE DEF x, i
<1>3. CASE UNCHANGED <<bar, saving>>
  BY <1>3 DEF InputInv, BarKept
<1>4. CASE i \in DOMAIN bar.images /\ SetBar(ImagesSet(bar, s, equal, ends), FALSE)
  <2>1. s \in Seq(InputPictures)
    <3>1. s = [j \in 1..Len(bar.images) |-> IF j = i THEN x ELSE bar.images[j]]
      BY <1>1 DEF ReplaceAt
    <3>2. Len(bar.images) \in Nat /\ \A j \in 1..Len(bar.images) : bar.images[j] \in InputPictures
      BY <1>1
    <3>3. s \in [1..Len(bar.images) -> InputPictures]
      BY <1>1, <3>1, <3>2
    <3> QED
      BY <3>2, <3>3
  <2>2. equal \in [InputPictures -> InputPictures]
    BY <1>1, SameIs
  <2>3. ends \in BOOLEAN
    OBVIOUS
  <2> HIDE DEF s, equal, ends
  <2> QED
    BY <1>4, <2>1, <2>2, <2>3, ImagesStep
<1> QED
  BY <1>2, <1>3, <1>4

\* The mask editor is opened on an image, or closed.
LEMMA EditorStep ==
    ASSUME InputInv, NEW e \in MaskIds, NEW m \in MaskIds,
           SetBar([bar EXCEPT !.mask = m, !.editor = e], FALSE)
    PROVE  BarKept /\ bar'.mask = m
<1> DEFINE n == [bar EXCEPT !.mask = m, !.editor = e]
<1>1. /\ bar \in Bar /\ ~bar.typed /\ Depicts(bar.prompt, bar.images)
      /\ Depicts(bar.dom, bar.images)
  BY GoodBarIs DEF InputInv
<1>2. /\ n \in Bar /\ n.typed = bar.typed /\ n.prompt = bar.prompt /\ n.images = bar.images
      /\ n.dom = bar.dom /\ n.mask = m
  BY <1>1 DEF Bar
<1> HIDE DEF n
<1>3. Fits(n)
  BY <1>1, <1>2 DEF Fits
<1> QED
  BY <1>1, <1>2, <1>3, BarStep DEF n

LEMMA OpenMaskEditorKeeps ==
    ASSUME InputInv, NEW i \in DOMAIN bar.images, OpenMaskEditor(i)
    PROVE  BarKept
<1>1. bar \in Bar /\ bar.mask \in MaskIds /\ bar.images[i] \in MaskIds
  BY GoodBarIs DEF InputInv, MaskIds
<1>2. [bar EXCEPT !.editor = bar.images[i]] = [bar EXCEPT !.mask = bar.mask, !.editor = bar.images[i]]
  BY <1>1 DEF Bar
<1>3. SetBar([bar EXCEPT !.editor = bar.images[i]], FALSE)
  BY DEF OpenMaskEditor
<1> QED
  BY <1>1, <1>2, <1>3, EditorStep

LEMMA CloseMaskEditorKeeps ==
    ASSUME InputInv, CloseMaskEditor
    PROVE  BarKept
<1>1. bar \in Bar /\ bar.mask \in MaskIds /\ NoPicture \in MaskIds
  BY GoodBarIs DEF InputInv, MaskIds
<1>2. [bar EXCEPT !.editor = NoPicture] = [bar EXCEPT !.mask = bar.mask, !.editor = NoPicture]
  BY <1>1 DEF Bar
<1>3. SetBar([bar EXCEPT !.editor = NoPicture], FALSE)
  BY DEF CloseMaskEditor
<1> QED
  BY <1>1, <1>2, <1>3, EditorStep

LEMMA RemoveMaskKeeps ==
    ASSUME InputInv, RemoveMask
    PROVE  BarKept
<1>1. NoPicture \in MaskIds
  BY DEF MaskIds
<1>2. SetBar([bar EXCEPT !.mask = NoPicture, !.editor = NoPicture], FALSE)
  BY DEF RemoveMask
<1> QED
  BY <1>1, <1>2, EditorStep

LEMMA SaveMaskKeeps ==
    ASSUME InputInv, SaveMask
    PROVE  BarKept
<1>1. GoodBar(bar) /\ bar.editor \in MaskIds
  BY GoodBarIs DEF InputInv
<1>2. bar' = bar /\ bar.editor # NoPicture /\ saving' = [image |-> bar.editor, live |-> TRUE]
  BY DEF SaveMask
<1> QED
  BY <1>1, <1>2 DEF BarKept, GoodSave

\* The working copy takes the place of its original, as an image and as the mask.
LEMMA SavedMaskIs ==
    ASSUME NEW b, Fits(b), NEW target \in InputPictures
    PROVE  Fits(SavedMask(b, target))
<1> DEFINE copy   == Copied[target]
           equal  == [Same EXCEPT ![target] = copy]
           s      == MaskTargetReplaced(b.images, target, copy)
           placed == InputImagesSet(b, s, equal)
           c      == MaskSet(placed, copy)
           n      == [c EXCEPT !.editor = NoPicture]
<1>1. copy \in InputPictures /\ copy \in MaskIds /\ NoPicture \in MaskIds
  BY WebInputAssumption DEF MaskIds
<1> HIDE DEF copy
<1>2. b.images \in Seq(InputPictures)
  BY BarIs DEF Fits
<1>3. s \in Seq(InputPictures) /\ equal \in [InputPictures -> InputPictures]
  BY <1>1, <1>2, SameIs, MaskTargetType
<1> HIDE DEF s, equal
<1>4. Fits(placed)
  BY <1>3, InputImagesSetIs
<1> HIDE DEF placed
<1>5. Fits(c)
  BY <1>1, <1>4, MaskSetIs
<1> HIDE DEF c
<1>6. c \in Bar /\ ~c.typed /\ Depicts(c.prompt, c.images)
  BY <1>5 DEF Fits
<1>7. n \in Bar /\ n.typed = c.typed /\ n.prompt = c.prompt /\ n.images = c.images
  BY <1>1, <1>6 DEF Bar
<1>8. SavedMask(b, target) = n
  BY DEF SavedMask, n, c, placed, equal, s, copy
<1> HIDE DEF n
<1> QED
  BY <1>6, <1>7, <1>8 DEF Fits

LEMMA NoSavingGood == GoodSave(NoSaving)
  BY DEF GoodSave, NoSaving, MaskIds

LEMMA SaveMaskEndsKeeps ==
    ASSUME InputInv, SaveMaskEnds
    PROVE  BarKept
<1>1. GoodBar(bar) /\ Fits(bar) /\ GoodSave(saving)
  BY GoodBarIs DEF InputInv
<1>2. saving' = NoSaving /\ bar' = IF saving.live THEN Rendered(SavedMask(bar, saving.image), TRUE) ELSE bar
  BY DEF SaveMaskEnds
<1>3. CASE saving.live
  <2>1. saving.image \in InputPictures
    BY <1>1, <1>3 DEF GoodSave, MaskIds
  <2> DEFINE n == SavedMask(bar, saving.image)
  <2>2. Fits(n)
    BY <1>1, <2>1, SavedMaskIs
  <2>3. bar' = Rendered(n, TRUE)
    BY <1>2, <1>3
  <2> HIDE DEF n
  <2>4. GoodBar(bar')
    BY <2>2, <2>3, RenderedIs
  <2> QED
    BY <1>2, <2>4, NoSavingGood DEF BarKept
<1>4. CASE ~saving.live
  BY <1>1, <1>2, <1>4, NoSavingGood DEF BarKept
<1>5. saving.live \in BOOLEAN
  BY <1>1 DEF GoodSave
<1> QED
  BY <1>3, <1>4, <1>5

LEMMA SaveMaskFailsKeeps ==
    ASSUME InputInv, SaveMaskFails
    PROVE  BarKept
<1>1. GoodBar(bar) /\ saving' = NoSaving /\ bar' = bar
  BY DEF InputInv, SaveMaskFails
<1> QED
  BY <1>1, NoSavingGood DEF BarKept

\* The reuse starts by giving up the mask.
LEMMA ReuseInputsKeeps ==
    ASSUME InputInv, NEW t, ReuseInputs(t)
    PROVE  InputInv'
<1> DEFINE n == [bar EXCEPT !.mask = NoPicture]
<1>1. /\ t \in Reusable /\ reusing' = t /\ SetBar(n, FALSE)
      /\ arriving' = arriving /\ replacing' = replacing
  BY DEF ReuseInputs
<1>2. Fits(bar) /\ bar \in Bar /\ Depicts(bar.dom, bar.images)
  BY GoodBarIs DEF InputInv
<1>3. Fits(n) /\ n.mask = NoPicture
  BY <1>2, MaskEnds
<1>4. n.dom = bar.dom /\ n.images = bar.images
  BY <1>2 DEF Bar
<1> HIDE DEF n
<1>5. BarKept /\ bar'.mask = NoPicture
  BY <1>1, <1>2, <1>3, <1>4, BarStep
<1> QED
  BY <1>1, <1>5 DEF InputInv, BarKept, ByImage, Reusing, Unmasked

\* The prompt of a task names its images.
LEMMA TaskPrompt ==
    ASSUME NEW images \in Seq(InputPictures), NEW mentions \in Seq(DOMAIN images)
    PROVE  LET p == [k \in DOMAIN mentions |-> Mention(mentions[k], images[mentions[k]])]
           IN  p \in Text /\ Depicts(p, images)
<1> DEFINE p == [k \in DOMAIN mentions |-> Mention(mentions[k], images[mentions[k]])]
<1>1. /\ DOMAIN mentions = 1..Len(mentions) /\ Len(mentions) \in Nat
      /\ \A k \in DOMAIN mentions : mentions[k] \in DOMAIN images
  <2> DEFINE D == DOMAIN images
  <2>1. mentions \in Seq(D)
    OBVIOUS
  <2> HIDE DEF D
  <2>2. /\ DOMAIN mentions = 1..Len(mentions) /\ Len(mentions) \in Nat
        /\ \A k \in DOMAIN mentions : mentions[k] \in D
    BY <2>1
  <2> QED
    BY <2>2 DEF D
<1>2. ASSUME NEW k \in DOMAIN mentions
      PROVE  /\ p[k] \in [n : Nat, of : InputPictures]
             /\ p[k].n \in DOMAIN images /\ images[p[k].n] = p[k].of
  <2> DEFINE j == mentions[k]
  <2>1. j \in Nat /\ j \in DOMAIN images /\ images[j] \in InputPictures
    BY <1>1
  <2>2. p[k] = Mention(j, images[j])
    OBVIOUS
  <2> HIDE DEF j, p
  <2> QED
    BY <2>1, <2>2, MentionIs
<1>3. DOMAIN p = 1..Len(mentions) /\ p = [k \in 1..Len(mentions) |-> p[k]]
  BY <1>1
<1> HIDE DEF p
<1>4. p \in Text
  BY <1>1, <1>2, <1>3, NewText
<1>5. Depicts(p, images)
  BY <1>1, <1>2, <1>3 DEF Depicts
<1> QED
  BY <1>4, <1>5 DEF p

LEMMA InputsReusedKeeps ==
    ASSUME Tidy, InputInv, InputsReused
    PROVE  InputInv'
<1> DEFINE images == StillStored(reusing.images)
           wording == [k \in DOMAIN reusing.mentions |->
                         Mention(reusing.mentions[k], reusing.images[reusing.mentions[k]])]
           masked == ListsPicture(images, reusing.mask)
           b      == InputImagesSet(bar, images, Same)
           next   == [b EXCEPT !.prompt = wording]
           bare   == [next EXCEPT !.mask = NoPicture]
<1>1. /\ reusing \in Reusable /\ SetBar(IF masked THEN next ELSE bare, TRUE)
      /\ reusing' = IF masked THEN [NoTask EXCEPT !.mask = reusing.mask] ELSE NoTask
      /\ arriving' = arriving /\ replacing' = replacing
  BY DEF InputsReused
<1>2. /\ reusing.images \in Seq(InputPictures) /\ images = reusing.images
      /\ reusing.mask \in MaskIds /\ reusing.mentions \in Seq(DOMAIN reusing.images)
  BY <1>1 DEF Tidy
<1>3. wording \in Text /\ Depicts(wording, images)
  BY <1>2, TaskPrompt
<1>4. images \in Seq(InputPictures)
  BY <1>2
<1>5. reusing.mentions = <<>> => wording = <<>>
  OBVIOUS
<1> HIDE DEF images, wording, masked
<1>6. Fits(bar) /\ (reusing.mentions # <<>> => bar.mask = NoPicture)
  BY GoodBarIs DEF InputInv, Unmasked
<1>7. Fits(b) /\ (bar.mask = NoPicture => b.images = images)
  BY <1>4, <1>6, SameIs, InputImagesSetIs
<1> HIDE DEF b
<1>8. Depicts(wording, b.images)
  BY <1>3, <1>5, <1>6, <1>7, EmptyText
<1>9. b \in Bar /\ ~b.typed
  BY <1>7 DEF Fits
<1>10. next \in Bar /\ next.typed = b.typed /\ next.images = b.images /\ next.prompt = wording
  BY <1>3, <1>9 DEF Bar
<1> HIDE DEF next
<1>11. Fits(next)
  BY <1>8, <1>9, <1>10 DEF Fits
<1>12. Fits(bare)
  BY <1>11, MaskEnds
<1> HIDE DEF bare
<1>13. BarKept
  <2>1. CASE masked
    <3>1. SetBar(next, TRUE)
      BY <1>1, <2>1
    <3> QED
      BY <1>11, <3>1, FreshStep
  <2>2. CASE ~masked
    <3>1. SetBar(bare, TRUE)
      BY <1>1, <2>2
    <3> QED
      BY <1>12, <3>1, FreshStep
  <2> QED
    BY <2>1, <2>2
<1>14. /\ reusing' \in {[NoTask EXCEPT !.mask = m] : m \in MaskIds} /\ reusing'.mentions = <<>>
  <2>1. PICK m \in MaskIds : reusing' = [NoTask EXCEPT !.mask = m]
    <3>1. CASE masked
      BY <1>1, <1>2, <3>1
    <3>2. CASE ~masked
      <4>1. NoTask = [NoTask EXCEPT !.mask = NoPicture] /\ NoPicture \in MaskIds
        BY DEF NoTask, MaskIds
      <4> QED
        BY <1>1, <3>2, <4>1
    <3> QED
      BY <3>1, <3>2
  <2> QED
    BY <2>1 DEF NoTask
<1> QED
  BY <1>1, <1>13, <1>14 DEF InputInv, BarKept, ByImage, Reusing, Unmasked

LEMMA MaskReusedKeeps ==
    ASSUME InputInv, MaskReused
    PROVE  InputInv'
<1> DEFINE n == MaskSet(bar, reusing.mask)
<1>1. /\ reusing \notin Reusable /\ SetBar(n, FALSE) /\ reusing' = NoTask
      /\ arriving' = arriving /\ replacing' = replacing
  BY DEF MaskReused
<1>2. Fits(bar) /\ Depicts(bar.dom, bar.images)
  BY GoodBarIs DEF InputInv
<1>3. reusing.mask \in MaskIds
  <2>1. PICK m \in MaskIds : reusing = [NoTask EXCEPT !.mask = m]
    BY <1>1 DEF InputInv, Reusing
  <2> QED
    BY <2>1 DEF NoTask
<1>4. Fits(n) /\ n.dom = bar.dom
  BY <1>2, <1>3, MaskSetIs
<1> HIDE DEF n
<1>5. BarKept
  BY <1>1, <1>2, <1>4, BarStep
<1>6. NoTask \in {[NoTask EXCEPT !.mask = m] : m \in MaskIds} /\ NoTask.mentions = <<>>
  <2>1. NoTask = [NoTask EXCEPT !.mask = NoPicture] /\ NoPicture \in MaskIds
    BY DEF NoTask, MaskIds
  <2> QED
    BY <2>1 DEF NoTask
<1> QED
  BY <1>1, <1>5, <1>6 DEF InputInv, BarKept, ByImage, Reusing, Unmasked

\* Every other action: it leaves the reuse alone, and none is under way.
LEMMA OtherKeeps ==
    ASSUME InputInv, InMemory, reusing = NoTask, reusing' = reusing, BarKept,
           arriving' \subseteq InputPictures, ByImage'
    PROVE  InputInv'
<1>1. Reusing' /\ reusing'.mentions = <<>>
  BY DEF InputInv, Reusing, NoTask
<1> QED
  BY <1>1 DEF InputInv, BarKept, Unmasked

\* What the actions of the user and of the callbacks leave as it is.
Elsewhere == arriving' = arriving /\ replacing' = replacing /\ reusing' = reusing

LEMMA IdleKeeps ==
    ASSUME InputInv, InMemory, reusing = NoTask, Elsewhere, BarKept
    PROVE  InputInv'
  BY OtherKeeps DEF Elsewhere, InputInv, ByImage

LEMMA UserKeeps ==
    ASSUME InputInv, Tidy, reusing = NoTask,
           \/ TypeText \/ InsertBreak \/ ClearPrompt
           \/ \E k \in 1..MaxMentions : DeleteMention(k)
           \/ \E i \in DOMAIN bar.images :
                 \/ InsertMention(i) \/ RemoveImage(i) \/ OpenMaskEditor(i)
                 \/ \E gap \in 1..Len(bar.images) + 1 : MoveImage(i, gap)
           \/ \E x \in InputPictures : DropStored(x)
           \/ ClearImages \/ SubmitClears \/ CancelEditing
           \/ CloseMaskEditor \/ RemoveMask \/ SaveMask \/ SaveMaskEnds \/ SaveMaskFails
    PROVE  InputInv'
<1>1. InMemory
  BY DEF Tidy
<1>2. CASE TypeText
  BY <1>1, <1>2, TypeTextKeeps, IdleKeeps DEF TypeText, ReadElement, Elsewhere
<1>3. CASE InsertBreak
  BY <1>1, <1>3, InsertBreakKeeps, IdleKeeps DEF InsertBreak, Elsewhere
<1>4. CASE ClearPrompt
  BY <1>1, <1>4, ClearPromptKeeps, IdleKeeps DEF ClearPrompt, Elsewhere
<1>5. ASSUME NEW k \in 1..MaxMentions, DeleteMention(k)
      PROVE  InputInv'
  BY <1>1, <1>5, DeleteMentionKeeps, IdleKeeps DEF DeleteMention, ReadElement, Elsewhere
<1>6. ASSUME NEW i \in DOMAIN bar.images, InsertMention(i)
      PROVE  InputInv'
  BY <1>1, <1>6, InsertMentionKeeps, IdleKeeps DEF InsertMention, ReadElement, Elsewhere
<1>7. ASSUME NEW i \in DOMAIN bar.images, RemoveImage(i)
      PROVE  InputInv'
  BY <1>1, <1>7, RemoveImageKeeps, IdleKeeps DEF RemoveImage, Elsewhere
<1>8. ASSUME NEW i \in DOMAIN bar.images, OpenMaskEditor(i)
      PROVE  InputInv'
  BY <1>1, <1>8, OpenMaskEditorKeeps, IdleKeeps DEF OpenMaskEditor, Elsewhere
<1>9. ASSUME NEW i \in DOMAIN bar.images, NEW gap \in 1..Len(bar.images) + 1, MoveImage(i, gap)
      PROVE  InputInv'
  BY <1>1, <1>9, MoveImageKeeps, IdleKeeps DEF MoveImage, Elsewhere
<1>10. ASSUME NEW x \in InputPictures, DropStored(x)
       PROVE  InputInv'
  <2>1. AddImage(x) /\ Elsewhere
    BY <1>10 DEF DropStored, Elsewhere
  <2> QED
    BY <1>1, <2>1, AddImageKeeps, IdleKeeps
<1>11. CASE ClearImages
  BY <1>1, <1>11, ClearImagesKeeps, IdleKeeps DEF ClearImages, Elsewhere
<1>12. CASE SubmitClears
  BY <1>1, <1>12, SubmitClearsKeeps, IdleKeeps DEF SubmitClears, Elsewhere
<1>13. CASE CancelEditing
  BY <1>1, <1>13, CancelEditingKeeps, IdleKeeps DEF CancelEditing, Elsewhere
<1>14. CASE CloseMaskEditor
  BY <1>1, <1>14, CloseMaskEditorKeeps, IdleKeeps DEF CloseMaskEditor, Elsewhere
<1>15. CASE RemoveMask
  BY <1>1, <1>15, RemoveMaskKeeps, IdleKeeps DEF RemoveMask, Elsewhere
<1>16. CASE SaveMask
  BY <1>1, <1>16, SaveMaskKeeps, IdleKeeps DEF SaveMask, Elsewhere
<1>17. CASE SaveMaskEnds
  BY <1>1, <1>17, SaveMaskEndsKeeps, IdleKeeps DEF SaveMaskEnds, Elsewhere
<1>18. CASE SaveMaskFails
  BY <1>1, <1>18, SaveMaskFailsKeeps, IdleKeeps DEF SaveMaskFails, Elsewhere
<1> QED
  BY <1>2, <1>3, <1>4, <1>5, <1>6, <1>7, <1>8, <1>9, <1>10, <1>11, <1>12, <1>13, <1>14,
     <1>15, <1>16, <1>17, <1>18

\* The bar as it was, while files are read.
LEMMA BarUnchanged ==
    ASSUME InputInv, bar' = bar, saving' = saving
    PROVE  BarKept
  BY DEF InputInv, BarKept

LEMMA FilesKeep ==
    ASSUME InputInv, Tidy, reusing = NoTask,
           \/ \E i \in DOMAIN bar.images : \E x \in InputPictures : PickReplacement(i, x)
           \/ \E x \in InputPictures : PickFile(x) \/ FileRead(x) \/ FileFails(x)
           \/ \E r \in replacing : ReplacementRead(r) \/ ReplacementFails(r)
    PROVE  InputInv'
<1>1. InMemory /\ arriving \subseteq InputPictures /\ ByImage
  BY DEF Tidy, InputInv
<1>2. ASSUME NEW i \in DOMAIN bar.images, NEW x \in InputPictures, PickReplacement(i, x)
      PROVE  InputInv'
  <2>1. bar' = bar /\ saving' = saving /\ arriving' = arriving /\ reusing' = reusing /\ ByImage'
    BY <1>1, <1>2 DEF PickReplacement, ByImage
  <2> QED
    BY <1>1, <2>1, BarUnchanged, OtherKeeps
<1>3. ASSUME NEW x \in InputPictures, PickFile(x) \/ FileFails(x)
      PROVE  InputInv'
  <2>1. bar' = bar /\ saving' = saving /\ arriving' \subseteq InputPictures
        /\ replacing' = replacing /\ reusing' = reusing
    BY <1>1, <1>3 DEF PickFile, FileFails
  <2> QED
    BY <1>1, <2>1, BarUnchanged, OtherKeeps DEF ByImage
<1>4. ASSUME NEW x \in InputPictures, FileRead(x)
      PROVE  InputInv'
  <2>1. AddImage(x) /\ arriving' \subseteq InputPictures
        /\ replacing' = replacing /\ reusing' = reusing
    BY <1>1, <1>4 DEF FileRead
  <2> QED
    BY <1>1, <2>1, AddImageKeeps, OtherKeeps DEF ByImage
<1>5. ASSUME NEW r \in replacing, ReplacementRead(r)
      PROVE  InputInv'
  <2>1. arriving' = arriving /\ reusing' = reusing /\ ByImage'
    BY <1>1, <1>5 DEF ReplacementRead, ByImage
  <2> QED
    BY <1>1, <1>5, <2>1, ReplacementReadKeeps, OtherKeeps
<1>6. ASSUME NEW r \in replacing, ReplacementFails(r)
      PROVE  InputInv'
  <2>1. bar' = bar /\ saving' = saving /\ arriving' = arriving /\ reusing' = reusing /\ ByImage'
    BY <1>1, <1>6 DEF ReplacementFails, ByImage
  <2> QED
    BY <1>1, <2>1, BarUnchanged, OtherKeeps
<1> QED
  BY <1>2, <1>3, <1>4, <1>5, <1>6

LEMMA InputStarts ==
    ASSUME InputInit
    PROVE  InputInv
<1>1. bar \in Bar /\ ~bar.typed /\ bar.prompt = <<>> /\ bar.dom = <<>>
  BY EmptyText DEF InputInit, Bar, MaskIds
<1>2. GoodBar(bar)
  BY <1>1, EmptyText DEF GoodBar, Fits
<1>3. GoodSave(saving)
  BY NoSavingGood DEF InputInit
<1>4. Reusing /\ Unmasked
  <2>1. reusing = NoTask /\ NoTask = [NoTask EXCEPT !.mask = NoPicture] /\ NoPicture \in MaskIds
        /\ NoTask.mentions = <<>>
    BY DEF InputInit, NoTask, MaskIds
  <2> QED
    BY <2>1 DEF Reusing, Unmasked
<1> QED
  BY <1>2, <1>3, <1>4 DEF InputInit, InputInv, ByImage

LEMMA InputKeeps ==
    ASSUME Tidy, InputInv, [InputNext]_inputVars
    PROVE  InputInv'
<1>1. CASE UNCHANGED inputVars
  BY <1>1 DEF inputVars, InputInv, ByImage, Reusing, Unmasked
<1>2. CASE InputNext
  <2>1. CASE InputsReused
    BY <2>1, InputsReusedKeeps
  <2>2. CASE MaskReused
    BY <2>2, MaskReusedKeeps
  <2>3. CASE ~InputsReused /\ ~MaskReused
    <3>1. reusing = NoTask /\ ~Retype
      BY <1>2, <2>3 DEF InputNext, Tidy, Retype
    <3>2. ASSUME NEW t \in Reusable, ReuseInputs(t)
          PROVE  InputInv'
      BY <3>2, ReuseInputsKeeps
    <3> QED
      BY <1>2, <2>3, <3>1, <3>2, UserKeeps, FilesKeep DEF InputNext
  <2> QED
    BY <2>1, <2>2, <2>3
<1> QED
  BY <1>1, <1>2

\* Whatever is added, moved, removed, replaced or masked meanwhile, a mention in
\* the prompt names the image the user chose (InputBar.tsx, store.ts).
THEOREM MentionsHold == Tidy => (InputSpec => []MentionsFollowImages)
<1> SUFFICES ASSUME Tidy PROVE InputSpec => []MentionsFollowImages
  OBVIOUS
<1>1. InputInit => InputInv
  BY InputStarts
<1>2. InputInv /\ [InputNext]_inputVars => InputInv'
  BY InputKeeps
<1>3. InputInv => MentionsFollowImages
  BY GoodBarIs DEF InputInv, MentionsFollowImages, Depicts
<1> QED
  BY <1>1, <1>2, <1>3, PTL DEF InputSpec

-----------------------------------------------------------------------------
(***************************************************************************)
(* The types of the panels' variables.                                     *)
(***************************************************************************)

\* Any finite set of numbers has a greatest one: of the sets of those above
\* one of them, one contains no other.
LEMMA GreatestExists ==
    ASSUME NEW S, S \subseteq Nat, IsFiniteSet(S), S # {}
    PROVE  \E m \in S : \A s \in S : s <= m
<1> DEFINE R == StrictSubsetOrdering(Nat)
           F == FiniteSubsetsOf(Nat)
           above(m) == {s \in S : s > m}
           T == {above(m) : m \in S}
<1>1. IsWellFoundedOn(R, F)
  BY FS_StrictSubsetOrderingWellFounded
<1>2. T \subseteq F
  <2>1. \A m \in S : above(m) \subseteq Nat /\ IsFiniteSet(above(m))
    BY FS_Subset
  <2> QED
    BY <2>1 DEF FiniteSubsetsOf
<1>3. T # {}
  OBVIOUS
<1>4. PICK x \in T : \A y \in T : ~(<<y, x>> \in R)
  <2> HIDE DEF R, F, T
  <2> QED
    BY <1>1, <1>2, <1>3, WFMin
<1>5. PICK m \in S : x = above(m)
  BY <1>4
<1>6. ASSUME NEW s \in S, s > m
      PROVE  FALSE
  <2>0. s \in Nat /\ m \in Nat
    OBVIOUS
  <2>1. above(s) \subseteq above(m)
    <3>1. ASSUME NEW r \in S, r > s PROVE r > m
      <4>1. r \in Nat
        OBVIOUS
      <4> QED
        BY <1>6, <2>0, <3>1, <4>1
    <3> QED
      BY <3>1
  <2>2. s \in above(m) /\ s \notin above(s)
    BY <1>6, <2>0
  <2>3. /\ above(s) \in SUBSET Nat /\ above(m) \in SUBSET Nat
        /\ above(s) \subseteq above(m) /\ above(s) # above(m)
    BY <2>1, <2>2
  <2> HIDE DEF above
  <2>4. <<above(s), above(m)>> \in R
    BY <2>3 DEF StrictSubsetOrdering
  <2>5. above(s) \in T
    OBVIOUS
  <2> HIDE DEF T, R
  <2> QED
    BY <1>4, <1>5, <2>4, <2>5
<1> QED
  <2>1. ASSUME NEW s \in S PROVE s <= m
    <3>1. s \in Nat /\ m \in Nat /\ ~(s > m)
      BY <1>6
    <3> QED
      BY <3>1
  <2> QED
    BY <2>1

\* At most n of the numbers of a finite set have no more than n up to them.
LEMMA FirstFew ==
    ASSUME NEW S, S \subseteq Nat, IsFiniteSet(S), NEW n \in Nat,
           NEW U, U \subseteq S, \A r \in U : Cardinality({s \in S : s <= r}) <= n
    PROVE  IsFiniteSet(U) /\ Cardinality(U) <= n
<1>1. IsFiniteSet(U) /\ Cardinality(U) \in Nat
  BY FS_Subset, FS_CardinalityType
<1>2. CASE U = {}
  BY <1>1, <1>2, FS_EmptySet
<1>3. CASE U # {}
  <2>1. PICK m \in U : \A s \in U : s <= m
    BY <1>1, <1>3, GreatestExists
  <2> DEFINE V == {s \in S : s <= m}
  <2>2. U \in SUBSET V
    BY <2>1
  <2>3. IsFiniteSet(V) /\ Cardinality(V) \in Nat /\ Cardinality(V) <= n
    BY FS_Subset, FS_CardinalityType
  <2> HIDE DEF V
  <2>4. Cardinality(U) <= Cardinality(V)
    BY <2>2, <2>3, FS_Subset
  <2> QED
    BY <1>1, <2>3, <2>4
<1> QED
  BY <1>2, <1>3

\* Those before the first of a page, and those of the page but the last, are
\* all before its last one.
LEMMA PageCount ==
    ASSUME NEW a \in Nat, NEW c \in Nat, NEW u \in Nat, NEW o \in Nat, NEW n \in Nat,
           NEW b, NEW ab, a >= o, c <= o + n - 1, b = u - 1, ab = a + b - 0, ab <= c
    PROVE  u <= n
  OBVIOUS

\* A page of the library has no more rows than it should.
LEMMA PageTyped ==
    ASSUME NEW q, NEW offset \in Nat
    PROVE  /\ Page(q, offset) \subseteq Rows /\ IsFiniteSet(Page(q, offset))
           /\ Cardinality(Page(q, offset)) <= PageSize
<1> DEFINE S == Matches(q)
           before(r) == {s \in S : s < r}
           U == Page(q, offset)
<1>1. S \subseteq Nat /\ S \subseteq Rows /\ IsFiniteSet(S)
  BY WebLibraryAssumption, FS_Subset DEF Matches
<1>2. \A r \in S : IsFiniteSet(before(r)) /\ Cardinality(before(r)) \in Nat
  BY <1>1, FS_Subset, FS_CardinalityType
<1>3. U \subseteq S /\ \A r \in U : Cardinality(before(r)) \in offset..(offset + PageSize - 1)
  BY DEF Page
<1> HIDE DEF S, U
<1>4. IsFiniteSet(U) /\ Cardinality(U) \in Nat
  BY <1>1, <1>3, FS_Subset, FS_CardinalityType
<1>7. PageSize \in Nat
  BY WebLibraryAssumption
<1>5. CASE U = {}
  <2>1. Cardinality(U) = 0
    BY <1>5, FS_EmptySet
  <2> HIDE DEF U
  <2>2. Cardinality(U) <= PageSize
    BY <1>7, <2>1
  <2> QED
    BY <1>1, <1>3, <1>4, <2>2 DEF U
<1>6. CASE U # {}
  <2>1. PICK m \in U : \A s \in U : s <= m
    BY <1>1, <1>3, <1>4, <1>6, GreatestExists
  <2>2. PICK l \in U : \A s \in U : l <= s
    BY <1>1, <1>3, <1>6, LeastExists
  <2> DEFINE A == before(l)
             B == U \ {m}
             C == before(m)
  <2>3. /\ IsFiniteSet(A) /\ IsFiniteSet(B) /\ IsFiniteSet(C)
        /\ Cardinality(A) \in Nat /\ Cardinality(C) \in Nat /\ Cardinality(B) = Cardinality(U) - 1
    BY <1>2, <1>3, <1>4, <2>1, <2>2, FS_RemoveElement
  <2>4. Cardinality(A) >= offset /\ Cardinality(C) <= offset + PageSize - 1
    <3>1. Cardinality(A) \in offset..(offset + PageSize - 1)
      BY <1>3, <2>2
    <3>2. Cardinality(C) \in offset..(offset + PageSize - 1)
      BY <1>3, <2>1
    <3> HIDE DEF A, C
    <3> QED
      BY <3>1, <3>2, <1>7
  <2>11. m \in Nat /\ l \in Nat /\ m \in S /\ l \in S /\ l <= m
    BY <1>1, <1>3, <2>1, <2>2
  <2>5. A \cap B = {}
    <3>1. ASSUME NEW s \in U, s < l PROVE FALSE
      <4>1. s \in Nat /\ l <= s
        BY <1>1, <1>3, <2>2
      <4> QED
        BY <2>11, <3>1, <4>1
    <3> QED
      BY <3>1
  <2>6. A \cup B \subseteq C
    <3>1. ASSUME NEW s \in S, s < l PROVE s < m
      <4>1. s \in Nat
        BY <1>1
      <4> QED
        BY <2>11, <3>1, <4>1
    <3>2. ASSUME NEW s \in U, s # m PROVE s < m
      <4>1. s \in Nat /\ s <= m
        BY <1>1, <1>3, <2>1
      <4> QED
        BY <2>11, <3>2, <4>1
    <3> QED
      BY <1>3, <3>1, <3>2
  <2> HIDE DEF A, B, C, before
  <2>7. Cardinality(A \cup B) = Cardinality(A) + Cardinality(B) - Cardinality(A \cap B)
    BY <2>3, FS_Union
  <2>8. Cardinality(A \cap B) = 0
    BY <2>5, FS_EmptySet
  <2>9. Cardinality(A \cup B) <= Cardinality(C)
    BY <2>3, <2>6, FS_Subset
  <2>10. Cardinality(A \cup B) = Cardinality(A) + Cardinality(B) - 0
    BY <2>7, <2>8
  <2>12. Cardinality(U) <= PageSize
    BY <1>4, <1>7, <2>3, <2>4, <2>9, <2>10, PageCount
  <2> QED
    BY <1>1, <1>3, <1>4, <2>12 DEF U
<1> QED
  BY <1>5, <1>6

\* The list is cut off where it is full.
LEMMA WithPageTyped ==
    ASSUME listed \subseteq Rows, Cardinality(listed) <= MaxListed, NEW part, part \subseteq Rows
    PROVE  WithPage(part) \subseteq Rows /\ Cardinality(WithPage(part)) <= MaxListed
<1> DEFINE S == part \ listed
           n == MaxListed - Cardinality(listed)
           U == {r \in S : Cardinality(listed) + Cardinality({s \in S : s <= r}) <= MaxListed}
<1>0. Rows \subseteq Nat /\ IsFiniteSet(Rows) /\ MaxListed \in Nat
  BY WebLibraryAssumption
<1>1. /\ Rows \subseteq Nat /\ IsFiniteSet(Rows) /\ MaxListed \in Nat
      /\ IsFiniteSet(listed) /\ Cardinality(listed) \in Nat
  BY <1>0, FS_Subset, FS_CardinalityType
<1>2. S \subseteq Nat /\ IsFiniteSet(S) /\ n \in Nat
  <2>1. S \subseteq Nat /\ IsFiniteSet(S)
    BY <1>1, FS_Subset
  <2>2. Cardinality(listed) \in Nat /\ Cardinality(listed) <= MaxListed /\ MaxListed \in Nat
    BY <1>1
  <2>3. n \in Nat
    BY <2>2
  <2> QED
    BY <2>1, <2>3
<1>3. \A r \in S : Cardinality({s \in S : s <= r}) \in Nat
  BY <1>2, FS_Subset, FS_CardinalityType
<1>4. U \subseteq S /\ \A r \in U : Cardinality({s \in S : s <= r}) <= n
  BY <1>1, <1>3
<1>5. WithPage(part) = listed \cup U
  BY DEF WithPage
<1>6. S \subseteq Rows /\ S \cap listed = {}
  OBVIOUS
<1> HIDE DEF U, S, n
<1>7. IsFiniteSet(U) /\ Cardinality(U) <= n /\ Cardinality(U) \in Nat
  BY <1>2, <1>4, FirstFew, FS_CardinalityType
<1>8. listed \cap U = {}
  BY <1>4, <1>6
<1>9. Cardinality(listed \cup U) = Cardinality(listed) + Cardinality(U) - Cardinality(listed \cap U)
  BY <1>1, <1>7, FS_Union
<1>10. Cardinality(listed \cap U) = 0
  BY <1>8, FS_EmptySet
<1>11. Cardinality(listed \cup U) <= MaxListed
  BY <1>1, <1>7, <1>9, <1>10 DEF n
<1> QED
  BY <1>4, <1>5, <1>6, <1>11

\* The list, what is asked for and how it is going.
Asks == [pc: {"free", "sent"}, append: BOOLEAN, offset: 0..MaxListed, query: Query]
Busy == [loading: BOOLEAN, more: BOOLEAN]

ListTyped ==
    /\ listed \subseteq Rows /\ Cardinality(listed) <= MaxListed
    /\ origin \subseteq Query /\ hasMore \in BOOLEAN /\ busy \in Busy
    /\ said \in {"nothing", "error", "unauthorized"}
    /\ newest \in {NoneYet} \cup {k \in ListSlots : asked[k].pc # "free"}
    /\ asked \in [ListSlots -> Asks]

LibraryTyped == query \in Query /\ draftQuery \in Filters /\ due \in BOOLEAN /\ ListTyped

LEMMA LibraryValues ==
    /\ MaxListed \in Nat /\ 0 \in 0..MaxListed /\ PageSize \in Nat /\ PageSize <= MaxListed
    /\ [mode |-> "recent", campaign |-> "none", filter |-> ""] \in Query /\ NoList \in Asks
    /\ [loading |-> FALSE, more |-> FALSE] \in Busy /\ NoList.pc = "free"
<1>1. MaxListed \in Nat /\ PageSize \in Nat /\ PageSize <= MaxListed
  BY WebLibraryAssumption
<1>2. 0 \in 0..MaxListed
  BY <1>1
<1> QED
  BY <1>1, <1>2 DEF Query, Filters, NoList, Asks, Busy

LEMMA AskingTyped ==
    ASSUME LibraryTyped, NEW q \in Query, Asking(q), draftQuery' \in Filters, ListStays
    PROVE  LibraryTyped'
  BY DEF LibraryTyped, ListTyped, Asking, ListStays

LEMMA LoadTyped ==
    ASSUME LibraryTyped, NEW append \in BOOLEAN, NEW offset \in 0..MaxListed, due' \in BOOLEAN,
           LoadAssets(append, offset)
    PROVE  LibraryTyped'
<1>1. /\ query' \in Query /\ draftQuery' \in Filters /\ listed' = listed /\ origin' = origin
      /\ said' \in {"nothing", "error", "unauthorized"} /\ query \in Query
      /\ asked \in [ListSlots -> Asks] /\ busy \in Busy /\ hasMore \in BOOLEAN
      /\ newest \in {NoneYet} \cup {k \in ListSlots : asked[k].pc # "free"}
  BY DEF LibraryTyped, ListTyped, LoadAssets
<1>2. /\ hasMore' \in BOOLEAN /\ busy' \in Busy /\ asked' \in [ListSlots -> Asks]
      /\ newest' \in {NoneYet} \cup {k \in ListSlots : asked'[k].pc # "free"}
  <2>1. CASE query.mode = "scope" /\ ~ScopeReady
    BY <1>1, <2>1, LibraryValues DEF LoadAssets
  <2>2. CASE UNCHANGED <<newest, hasMore, busy, asked>>
    BY <1>1, <2>2
  <2>3. CASE ~(query.mode = "scope" /\ ~ScopeReady) /\ ~UNCHANGED <<newest, hasMore, busy, asked>>
    <3> DEFINE x == [NoList EXCEPT !.pc = "sent", !.append = append, !.offset = offset,
                                   !.query = query]
    <3>1. PICK k \in ListSlots :
             /\ asked' = [asked EXCEPT ![k] = x] /\ newest' = k /\ hasMore' = hasMore
             /\ busy' = IF append THEN [busy EXCEPT !.more = TRUE] ELSE [busy EXCEPT !.loading = TRUE]
      BY <2>3, Zenon DEF LoadAssets
    <3>3. x \in Asks /\ x.pc # "free"
      <4> DEFINE z == NoList
      <4>1. z \in Asks
        BY LibraryValues
      <4>2. x = [z EXCEPT !.pc = "sent", !.append = append, !.offset = offset, !.query = query]
        OBVIOUS
      <4> HIDE DEF x, z
      <4> QED
        BY <1>1, <4>1, <4>2 DEF Asks
    <3> HIDE DEF x
    <3>4. busy' \in Busy
      BY <1>1, <3>1 DEF Busy
    <3>5. asked' \in [ListSlots -> Asks] /\ asked'[k] = x
      BY <1>1, <3>1, <3>3
    <3> QED
      BY <1>1, <3>1, <3>3, <3>4, <3>5
  <2> QED
    BY <2>1, <2>2, <2>3
<1>3. listed' \subseteq Rows /\ Cardinality(listed') <= MaxListed /\ origin' \subseteq Query
  BY <1>1 DEF LibraryTyped, ListTyped
<1> QED
  BY <1>1, <1>2, <1>3 DEF LibraryTyped, ListTyped

LEMMA ListEndsTyped ==
    ASSUME LibraryTyped, NEW k \in ListSlots,
           ListAnswered(k) \/ \E how \in {"error", "unauthorized"} : ListFails(k, how)
    PROVE  LibraryTyped'
<1>1. /\ query' = query /\ draftQuery' = draftQuery /\ due' = due
      /\ asked' = [asked EXCEPT ![k] = NoList]
  BY DEF ListAnswered, ListFails
<1>2. /\ asked \in [ListSlots -> Asks] /\ asked[k] \in Asks
      /\ newest \in {NoneYet} \cup {j \in ListSlots : asked[j].pc # "free"}
      /\ listed \subseteq Rows /\ Cardinality(listed) <= MaxListed
      /\ origin \subseteq Query /\ hasMore \in BOOLEAN /\ busy \in Busy
      /\ said \in {"nothing", "error", "unauthorized"}
  BY DEF LibraryTyped, ListTyped
<1>3. /\ asked[k].append \in BOOLEAN /\ asked[k].offset \in 0..MaxListed /\ asked[k].query \in Query
      /\ asked' \in [ListSlots -> Asks] /\ \A j \in ListSlots : j # k => asked'[j] = asked[j]
  BY <1>1, <1>2, LibraryValues DEF Asks
<1>4. newest' \in {NoneYet} \cup {j \in ListSlots : asked'[j].pc # "free"}
  <2>1. newest' = NoneYet \/ (newest' = newest /\ k # newest)
    BY DEF ListAnswered, ListFails, Taken
  <2> QED
    BY <1>2, <1>3, <2>1
<1>5. hasMore' \in BOOLEAN /\ busy' \in Busy /\ said' \in {"nothing", "error", "unauthorized"}
  BY <1>2, <1>3, LibraryValues DEF ListAnswered, ListFails
<1>6. listed' \subseteq Rows /\ Cardinality(listed') <= MaxListed
  <2> DEFINE part == Page(asked[k].query, asked[k].offset)
  <2>1. part \subseteq Rows /\ Cardinality(part) <= MaxListed
    <3>1. asked[k].offset \in Nat
      BY <1>3
    <3>2. part \subseteq Rows /\ IsFiniteSet(part) /\ Cardinality(part) <= PageSize
      BY <3>1, PageTyped
    <3> HIDE DEF part
    <3>3. Cardinality(part) \in Nat
      BY <3>2, FS_CardinalityType
    <3>4. MaxListed \in Nat /\ PageSize \in Nat /\ PageSize <= MaxListed
      BY LibraryValues
    <3> QED
      BY <3>2, <3>3, <3>4
  <2>2. listed' = listed \/ listed' = part \/ listed' = WithPage(part)
    BY DEF ListAnswered, ListFails
  <2> HIDE DEF part
  <2>3. WithPage(part) \subseteq Rows /\ Cardinality(WithPage(part)) <= MaxListed
    BY <1>2, <2>1, WithPageTyped
  <2> QED
    BY <1>2, <2>1, <2>2, <2>3
<1>7. origin' \subseteq Query
  <2>1. Meant(asked[k].query) \in Query
    BY <1>3 DEF Meant, Query
  <2>2. origin' \subseteq origin \cup {Meant(asked[k].query)}
    BY DEF ListAnswered, ListFails
  <2> QED
    BY <1>2, <2>1, <2>2
<1> QED
  BY <1>1, <1>3, <1>4, <1>5, <1>6, <1>7 DEF LibraryTyped, ListTyped

LEMMA LibraryTypes ==
    /\ LibraryInit => LibraryTyped
    /\ LibraryTyped /\ [LibraryNext]_libraryVars => LibraryTyped'
    /\ LibraryTyped => LibraryTypeOK
<1>1. ASSUME LibraryInit PROVE LibraryTyped
  <2>1. listed \subseteq Rows /\ Cardinality(listed) <= MaxListed
    <3>1. listed = {} /\ Cardinality(listed) = 0
      BY <1>1, FS_EmptySet DEF LibraryInit
    <3>2. MaxListed \in Nat
      BY LibraryValues
    <3> QED
      BY <3>1, <3>2
  <2>2. asked \in [ListSlots -> Asks]
    BY <1>1, LibraryValues DEF LibraryInit
  <2> QED
    BY <1>1, <2>1, <2>2, LibraryValues DEF LibraryInit, LibraryTyped, ListTyped, Filters
<1>2. ASSUME LibraryTyped, [LibraryNext]_libraryVars PROVE LibraryTyped'
  <2>1. ASSUME NEW m \in {"recent", "scope"}, SetMode(m) PROVE LibraryTyped'
    <3>1. [query EXCEPT !.mode = m] \in Query
      BY <1>2 DEF LibraryTyped, Query
    <3> QED
      BY <1>2, <2>1, <3>1, AskingTyped DEF SetMode, LibraryTyped
  <2>2. ASSUME NEW c \in CampaignNames, CommitScope(c) PROVE LibraryTyped'
    <3>1. [query EXCEPT !.campaign = c] \in Query
      BY <1>2 DEF LibraryTyped, Query
    <3> QED
      BY <1>2, <2>2, <3>1, AskingTyped DEF CommitScope, LibraryTyped
  <2>3. ASSUME NEW f \in Filters, SetTextFilter(f) PROVE LibraryTyped'
    BY <1>2, <2>3 DEF SetTextFilter, ListStays, LibraryTyped, ListTyped
  <2>4. ASSUME NEW f \in Filters, SetStatusFilter(f) \/ (Debounced /\ f = draftQuery)
        PROVE  LibraryTyped'
    <3>1. [query EXCEPT !.filter = f] \in Query
      BY <1>2 DEF LibraryTyped, Query
    <3> QED
      BY <1>2, <2>4, <3>1, AskingTyped DEF SetStatusFilter, Debounced, LibraryTyped
  <2>5. CASE Debounced
    BY <1>2, <2>4, <2>5 DEF LibraryTyped
  <2>6. CASE RefreshList
    BY <1>2, <2>6, LoadTyped, LibraryValues DEF RefreshList, LibraryTyped
  <2>7. CASE LoadMore
    <3>1. Cardinality(listed) \in 0..MaxListed
      <4>1. IsFiniteSet(listed) /\ Cardinality(listed) <= MaxListed
        BY <1>2, WebLibraryAssumption, FS_Subset DEF LibraryTyped, ListTyped
      <4>2. Cardinality(listed) \in Nat
        BY <4>1, FS_CardinalityType
      <4> QED
        <5>1. MaxListed \in Nat
          BY LibraryValues
        <5> QED
          BY <4>1, <4>2, <5>1
    <3>2. due' \in BOOLEAN
      BY <1>2, <2>7 DEF LoadMore, LibraryTyped
    <3> QED
      BY <1>2, <2>7, <3>1, <3>2, LoadTyped DEF LoadMore
  <2>8. ASSUME NEW k \in ListSlots,
               ListAnswered(k) \/ \E how \in {"error", "unauthorized"} : ListFails(k, how)
        PROVE  LibraryTyped'
    BY <1>2, <2>8, ListEndsTyped
  <2>9. ASSUME NEW r \in Rows, SwitchToAssetScope(r) PROVE LibraryTyped'
    <3>1. [query EXCEPT !.mode = "scope", !.campaign = CampaignOf[r]] \in Query
      BY <1>2 DEF LibraryTyped, Query, CampaignNames
    <3> QED
      BY <1>2, <2>9, <3>1, AskingTyped DEF SwitchToAssetScope, LibraryTyped
  <2>10. CASE UNCHANGED libraryVars
    BY <1>2, <2>10 DEF libraryVars, LibraryTyped, ListTyped
  <2> QED
    BY <1>2, <2>1, <2>2, <2>3, <2>4, <2>5, <2>6, <2>7, <2>8, <2>9, <2>10 DEF LibraryNext
<1>3. LibraryTyped => LibraryTypeOK
  BY DEF LibraryTyped, ListTyped, LibraryTypeOK, Asks, Busy
<1> QED
  BY <1>1, <1>2, <1>3

\* The reviews: marks stay marks of the scene's images, calls are of them.
LEMMA NoMarksTyped ==
    /\ NoMarks \in Marks /\ NonePending \in Pending
    /\ NoCall \in [pc: {"free", "sent", "served"}, panel: Panels, image: Images, next: RowStatus]
<1>1. (CHOOSE a \in Images : TRUE) \in Images
  BY WebReviewsAssumption
<1> QED
  BY <1>1 DEF NoMarks, Marks, NonePending, Pending, NoCall, Panels, RowStatus

LEMMA ReviewedTyped ==
    ASSUME NEW list \in Marks, NEW a \in Images, NEW next \in RowStatus
    PROVE  SceneReviewed(list, a, next) \in Marks /\ [list EXCEPT ![a] = next] \in Marks
  BY DEF SceneReviewed, Marks, RowStatus

ReviewCalls == [pc: {"free", "sent", "served"}, panel: Panels, image: Images, next: RowStatus]
Rereadings  == [pc: {"idle", "sent", "served"}, answer: Marks]
SceneStates == [held: BOOLEAN, pc: {"idle", "sent", "reading"}]

LEMMA SceneMoves ==
    ASSUME NEW s \in SceneStates
    PROVE  /\ [s EXCEPT !.held = FALSE] \in SceneStates /\ [s EXCEPT !.pc = "reading"] \in SceneStates
           /\ [held |-> TRUE, pc |-> "sent"] \in SceneStates
           /\ [held |-> FALSE, pc |-> "idle"] \in SceneStates
  BY DEF SceneStates

LEMMA SettledTyped ==
    ASSUME ReviewsTypeOK, NEW k \in CallSlots, Settled(k)
    PROVE  /\ pending' \in [Panels -> Pending] /\ held' \subseteq Images
           /\ calls' \in [CallSlots -> ReviewCalls]
<1>1. calls[k].panel \in Panels /\ calls[k].image \in Images
  BY DEF ReviewsTypeOK
<1>2. pending' \in [Panels -> Pending]
  <2>1. [pending[calls[k].panel] EXCEPT ![calls[k].image] = "none"] \in Pending
    BY <1>1 DEF ReviewsTypeOK, Pending
  <2> QED
    BY <1>1, <2>1 DEF ReviewsTypeOK, Settled
<1>3. held' \subseteq Images
  BY DEF ReviewsTypeOK, Settled
<1>4. calls' \in [CallSlots -> ReviewCalls]
  <2> DEFINE z == NoCall
  <2>1. z \in ReviewCalls /\ calls \in [CallSlots -> ReviewCalls] /\ calls' = [calls EXCEPT ![k] = z]
    BY NoMarksTyped DEF ReviewsTypeOK, Settled, ReviewCalls
  <2> HIDE DEF z
  <2> QED
    BY <2>1
<1> QED
  BY <1>2, <1>3, <1>4

LEMMA PanelReadsTyped ==
    ASSUME ReviewsTypeOK, NEW p \in Panels, ReadPanel(p) \/ ReadServed(p) \/ ReadEnds(p)
    PROVE  ReviewsTypeOK'
<1>1. NoMarks \in Marks /\ rows \in Marks
  BY NoMarksTyped DEF ReviewsTypeOK, Marks
<1>2. rereading' \in [Panels -> Rereadings]
  <2>1. /\ rereading \in [Panels -> Rereadings]
        /\ [pc |-> "sent", answer |-> NoMarks] \in Rereadings
        /\ [pc |-> "served", answer |-> rows] \in Rereadings
        /\ [pc |-> "idle", answer |-> NoMarks] \in Rereadings
    BY <1>1 DEF ReviewsTypeOK, Rereadings
  <2> QED
    BY <2>1 DEF ReadPanel, ReadServed, ReadEnds
<1>3. panel' \in [Panels -> Marks]
  BY DEF ReviewsTypeOK, ReadPanel, ReadServed, ReadEnds, Rereadings
<1>4. scene' \in SceneStates
  <2>1. scene \in SceneStates /\ [held |-> FALSE, pc |-> "idle"] \in SceneStates
    BY DEF ReviewsTypeOK, SceneStates
  <2>2. scene' = scene \/ scene' = [held |-> FALSE, pc |-> "idle"]
    BY DEF ReadPanel, ReadServed, ReadEnds
  <2> QED
    BY <2>1, <2>2
<1>6. asking' = asking
  BY DEF ReadPanel, ReadServed, ReadEnds
<1>5. ReviewsStay
  BY DEF ReadPanel, ReadServed, ReadEnds
<1> QED
  BY <1>2, <1>3, <1>4, <1>5, <1>6 DEF ReviewsTypeOK, ReviewsStay, Rereadings, SceneStates

LEMMA SceneTyped ==
    ASSUME ReviewsTypeOK,
           SetFilters \/ ClearFilters \/ Reseed \/ Regenerate \/ Regenerated \/ RegenerateFails
    PROVE  ReviewsTypeOK'
<1>1. panel' \in [Panels -> Marks]
  BY NoMarksTyped DEF ReviewsTypeOK, SetFilters, ClearFilters, Reseed, Regenerate, Regenerated,
     RegenerateFails
<1>2. pending' \in [Panels -> Pending] /\ held' \subseteq Images
  BY NoMarksTyped DEF ReviewsTypeOK, SetFilters, ClearFilters, Reseed, Regenerate, Regenerated,
     RegenerateFails, ReviewsStay
<1>3. rereading' \in [Panels -> Rereadings]
  <2>1. rereading \in [Panels -> Rereadings] /\ [pc |-> "sent", answer |-> NoMarks] \in Rereadings
    BY NoMarksTyped DEF ReviewsTypeOK, Rereadings
  <2> QED
    BY <2>1 DEF SetFilters, ClearFilters, Reseed, Regenerate, Regenerated, RegenerateFails
<1>4. scene' \in SceneStates
  <2>1. scene \in SceneStates
    BY DEF ReviewsTypeOK, SceneStates
  <2>2. \/ scene' = scene \/ scene' = [scene EXCEPT !.held = FALSE]
        \/ scene' = [held |-> TRUE, pc |-> "sent"] \/ scene' = [scene EXCEPT !.pc = "reading"]
        \/ scene' = [held |-> FALSE, pc |-> "idle"]
    BY DEF SetFilters, ClearFilters, Reseed, Regenerate, Regenerated, RegenerateFails
  <2> QED
    BY <2>1, <2>2, SceneMoves
<1>6. asking' \in BOOLEAN
  BY DEF ReviewsTypeOK, SetFilters, ClearFilters, Reseed, Regenerate, Regenerated, RegenerateFails
<1>5. UNCHANGED <<rows, calls, judged>>
  BY DEF SetFilters, ClearFilters, Reseed, Regenerate, Regenerated, RegenerateFails, ReviewsStay
<1> QED
  BY <1>1, <1>2, <1>3, <1>4, <1>5, <1>6 DEF ReviewsTypeOK, Rereadings, SceneStates

LEMMA ReviewTyped ==
    ASSUME ReviewsTypeOK, NEW p \in Panels, NEW a \in Images, NEW next \in RowStatus,
           Review(p, a, next)
    PROVE  ReviewsTypeOK'
<1>1. [pending[p] EXCEPT ![a] = next] \in Pending
  BY DEF ReviewsTypeOK, Pending
<1>2. pending' \in [Panels -> Pending] /\ held' \subseteq Images
  BY <1>1 DEF ReviewsTypeOK, Review
<1>3. calls' \in [CallSlots -> ReviewCalls]
  <2>1. /\ calls \in [CallSlots -> ReviewCalls]
        /\ [pc |-> "sent", panel |-> p, image |-> a, next |-> next] \in ReviewCalls
    BY DEF ReviewsTypeOK, ReviewCalls
  <2> QED
    BY <2>1 DEF Review
<1>4. judged' \in 0..MaxVerdicts
  <2>1. MaxVerdicts \in Nat /\ judged \in 0..MaxVerdicts /\ judged < MaxVerdicts /\ judged' = judged + 1
    BY WebReviewsAssumption DEF ReviewsTypeOK, Review
  <2> QED
    BY <2>1
<1>5. UNCHANGED <<rows, panel, rereading, asking, scene>>
  BY DEF Review
<1> QED
  BY <1>2, <1>3, <1>4, <1>5 DEF ReviewsTypeOK, ReviewCalls

LEMMA ReviewEndsTyped ==
    ASSUME ReviewsTypeOK, NEW k \in CallSlots, ReviewServed(k) \/ Reviewed(k) \/ ReviewFails(k)
    PROVE  ReviewsTypeOK'
<1>1. calls[k].panel \in Panels /\ calls[k].image \in Images /\ calls[k].next \in RowStatus
  BY DEF ReviewsTypeOK
<1>2. CASE ReviewServed(k)
  <2>1. calls' \in [CallSlots -> ReviewCalls] /\ rows' \in [Images -> RowStatus]
    BY <1>1, <1>2 DEF ReviewsTypeOK, ReviewServed, ReviewCalls
  <2> QED
    BY <1>2, <2>1 DEF ReviewsTypeOK, ReviewServed, ReviewCalls
<1>3. CASE ReviewFails(k)
  BY <1>3, SettledTyped DEF ReviewsTypeOK, ReviewFails, ReviewCalls
<1>4. CASE Reviewed(k)
  <2>1. panel' \in [Panels -> Marks]
    <3> DEFINE a == calls[k].image
               p == calls[k].panel
               next == calls[k].next
    <3>1. /\ panel[p] \in Marks /\ panel \in [Panels -> Marks]
          /\ p \in Panels /\ a \in Images /\ next \in RowStatus
      BY <1>1 DEF ReviewsTypeOK
    <3>2. \/ panel' = panel
          \/ panel' = [panel EXCEPT ![p] = [panel[p] EXCEPT ![a] = next]]
          \/ panel' = [panel EXCEPT ![p] = SceneReviewed(panel[p], a, next)]
      BY <1>4, <3>1 DEF Reviewed
    <3> HIDE DEF a, p, next
    <3>3. SceneReviewed(panel[p], a, next) \in Marks /\ [panel[p] EXCEPT ![a] = next] \in Marks
      BY <3>1, ReviewedTyped
    <3> QED
      BY <3>1, <3>2, <3>3
  <2>2. Settled(k) /\ UNCHANGED <<rows, rereading, asking, judged, scene>>
    BY <1>4 DEF Reviewed
  <2> QED
    BY <2>1, <2>2, SettledTyped DEF ReviewsTypeOK, ReviewCalls
<1> QED
  BY <1>2, <1>3, <1>4

LEMMA ReviewsTypes ==
    /\ ReviewsInit => ReviewsTypeOK
    /\ ReviewsTypeOK /\ [ReviewsNext]_reviewVars => ReviewsTypeOK'
<1>1. ASSUME ReviewsInit PROVE ReviewsTypeOK
  <2>1. rows \in [Images -> RowStatus] /\ panel \in [Panels -> Marks] /\ pending \in [Panels -> Pending]
    BY <1>1, NoMarksTyped DEF ReviewsInit, RowStatus
  <2>2. rereading \in [Panels -> Rereadings] /\ calls \in [CallSlots -> ReviewCalls]
    BY <1>1, NoMarksTyped DEF ReviewsInit, Rereadings, ReviewCalls
  <2>3. judged \in 0..MaxVerdicts
    <3>1. MaxVerdicts \in Nat /\ judged = 0
      BY <1>1, WebReviewsAssumption DEF ReviewsInit
    <3> QED
      BY <3>1
  <2> QED
    BY <1>1, <2>1, <2>2, <2>3 DEF ReviewsInit, ReviewsTypeOK, Rereadings, ReviewCalls
<1>2. ASSUME ReviewsTypeOK, [ReviewsNext]_reviewVars PROVE ReviewsTypeOK'
  <2>1. CASE UNCHANGED reviewVars
    BY <1>2, <2>1 DEF reviewVars, ReviewsTypeOK
  <2>2. CASE ReviewsNext
    BY <1>2, <2>2, PanelReadsTyped, SceneTyped, ReviewTyped, ReviewEndsTyped DEF ReviewsNext
  <2> QED
    BY <1>2, <2>1, <2>2
<1> QED
  BY <1>1, <1>2

\* The scopes: paths stay paths of listed scopes or none, level by level.
LEMMA PathMoves ==
    ASSUME NEW s \in Path, NEW w \in Workspaces \cup {None, DefaultWorkspace},
           NEW p \in Projects \cup {None, DefaultProject},
           NEW c \in Campaigns \cup {None, DefaultCampaign}
    PROVE  /\ s.w \in Workspaces \cup {None, DefaultWorkspace}
           /\ s.p \in Projects \cup {None, DefaultProject}
           /\ s.c \in Campaigns \cup {None, DefaultCampaign}
           /\ [s EXCEPT !.w = w] \in Path /\ [s EXCEPT !.p = p] \in Path /\ [s EXCEPT !.c = c] \in Path
           /\ [s EXCEPT !.p = p, !.c = c] \in Path
           /\ [w |-> w, p |-> p, c |-> c] \in Path
  BY DEF Path

LEMMA NoPathIs == NoPath \in Path /\ None \in Workspaces \cup {None}
                  /\ None \in Projects \cup {None} /\ None \in Campaigns \cup {None}
  BY DEF NoPath, Path

LEMMA PickTyped == \A S, want : Pick(S, want) \in S \cup {None}
<1> SUFFICES ASSUME NEW S, NEW want
             PROVE  Pick(S, want) \in S \cup {None}
  OBVIOUS
<1> DEFINE active == S \ archived
           T == IF active = {} THEN S ELSE active
<1>1. CASE want \in S \/ S = {}
  BY <1>1 DEF Pick
<1>2. CASE want \notin S /\ S # {}
  <2>1. T # {} /\ T \subseteq S
    BY <1>2
  <2>2. Pick(S, want) = CHOOSE x \in T : TRUE
    BY <1>2, Zenon DEF Pick
  <2> HIDE DEF T
  <2>3. (CHOOSE x \in T : TRUE) \in T
    BY <2>1
  <2> QED
    BY <2>1, <2>2, <2>3
<1> QED
  BY <1>1, <1>2

LEMMA StartedTyped ==
    ASSUME NEW want \in Path, NEW by \in {"user", "action", "cleanup"}
    PROVE  Started(want, by) \in Reading /\ NotReading \in Reading
  BY NoPathIs DEF Started, NotReading, Reading

LEMMA ReadOn ==
    ASSUME NEW t \in Reading
    PROVE  /\ t.want \in Path /\ t.at \in Path
           /\ \A w \in Workspaces \cup {None} :
                [t EXCEPT !.pc = "projects", !.at.w = w, !.want.w = None] \in Reading
           /\ \A p \in Projects \cup {None} :
                [t EXCEPT !.pc = "campaigns", !.at.p = p, !.want.p = None] \in Reading
<1>1. t.want \in Path /\ t.at \in Path
  BY DEF Reading
<1>2. ASSUME NEW w \in Workspaces \cup {None}
      PROVE  [t EXCEPT !.pc = "projects", !.at.w = w, !.want.w = None] \in Reading
  <2> DEFINE a == [t.at EXCEPT !.w = w]
             b == [t.want EXCEPT !.w = None]
  <2>1. a \in Path /\ b \in Path
    BY <1>1 DEF Path
  <2>2. [t EXCEPT !.pc = "projects", !.at.w = w, !.want.w = None]
          = [t EXCEPT !.pc = "projects", !.at = a, !.want = b]
    BY DEF Reading
  <2> HIDE DEF a, b
  <2>3. [t EXCEPT !.pc = "projects", !.at = a, !.want = b] \in Reading
    BY <2>1 DEF Reading
  <2> QED
    BY <2>2, <2>3
<1>3. ASSUME NEW p \in Projects \cup {None}
      PROVE  [t EXCEPT !.pc = "campaigns", !.at.p = p, !.want.p = None] \in Reading
  <2> DEFINE a == [t.at EXCEPT !.p = p]
             b == [t.want EXCEPT !.p = None]
  <2>1. a \in Path /\ b \in Path
    BY <1>1 DEF Path
  <2>2. [t EXCEPT !.pc = "campaigns", !.at.p = p, !.want.p = None]
          = [t EXCEPT !.pc = "campaigns", !.at = a, !.want = b]
    BY DEF Reading
  <2> HIDE DEF a, b
  <2>3. [t EXCEPT !.pc = "campaigns", !.at = a, !.want = b] \in Reading
    BY <2>1 DEF Reading
  <2> QED
    BY <2>2, <2>3
<1> QED
  BY <1>1, <1>2, <1>3

ScopesTyped ==
    /\ alive \subseteq Scopes /\ archived \subseteq Scopes /\ marked \subseteq Scopes
    /\ current \in Path /\ chosen \in Path
    /\ lists \in [Readers -> Lists] /\ tree \in [Readers -> Reading]
    /\ open \in BOOLEAN /\ admin \in Admin /\ cleanup \in Cleanup /\ dash \in BOOLEAN

LEMMA SelectedTyped == ScopesTyped => Selected \in Path
  BY DEF ScopesTyped, Selected, Path

LEMMA NoneBusy == NoAdmin \in Admin /\ NoCleanup \in Cleanup
  BY NoPathIs DEF NoAdmin, Admin, NoCleanup, Cleanup

LEMMA ChooseTyped ==
    ASSUME ScopesTyped, NEW r \in Readers, NEW s \in Path, Choose(r, s)
    PROVE  chosen' \in Path /\ cleanup' \in Cleanup
<1>1. chosen' \in Path
  BY DEF ScopesTyped, Choose
<1>2. cleanup \in Cleanup /\ [cleanup EXCEPT !.busy = "none"] \in Cleanup
  BY DEF ScopesTyped, Cleanup
<1>3. cleanup' = [cleanup EXCEPT !.busy = "none"] \/ cleanup' = cleanup \/ cleanup' = NoCleanup
  BY DEF Choose, CleanupReset
<1> QED
  BY <1>1, <1>2, <1>3, NoneBusy

LEMMA ReadAgainTyped ==
    ASSUME ScopesTyped, NEW s \in Path, NEW want \in Path,
           NEW by \in {"none", "user", "action", "cleanup"}, ReadAgain(s, want, by)
    PROVE  current' \in Path /\ tree' \in [Readers -> Reading] /\ dash' \in BOOLEAN
<1>1. Started(s, "user") \in Reading /\ (by # "none" => Started(want, by) \in Reading)
  BY StartedTyped
<1>2. ASSUME NEW r \in Readers PROVE tree'[r] \in Reading
  BY <1>1, <1>2 DEF ReadAgain, ScopesTyped
<1>3. tree' = [r \in Readers |-> tree'[r]]
  BY DEF ReadAgain
<1>4. dash' \in BOOLEAN
  BY DEF ReadAgain, ScopesTyped
<1> QED
  BY <1>2, <1>3, <1>4 DEF ReadAgain

LEMMA ReadingEndsTyped ==
    ASSUME ScopesTyped, NEW r \in Readers, ReadingEnds(r)
    PROVE  tree' \in [Readers -> Reading] /\ admin' \in Admin
<1> DEFINE z == NotReading
<1>1. z \in Reading /\ tree' = [tree EXCEPT ![r] = z]
  BY NoPathIs, StartedTyped DEF ReadingEnds
<1> HIDE DEF z
<1>2. tree' \in [Readers -> Reading]
  BY <1>1 DEF ScopesTyped
<1> QED
  BY <1>2, NoneBusy DEF ReadingEnds, ScopesTyped

LEMMA ListsMove ==
    ASSUME NEW f \in [Readers -> Lists], NEW r \in Readers
    PROVE  /\ \A x \in Lists : [f EXCEPT ![r] = x] \in [Readers -> Lists]
           /\ NoLists \in Lists
           /\ \A S \in SUBSET Workspaces : [f[r] EXCEPT !.w = S] \in Lists
           /\ \A S \in SUBSET Projects, T \in SUBSET Campaigns : [f[r] EXCEPT !.p = S, !.c = T] \in Lists
           /\ \A S \in SUBSET Campaigns : [f[r] EXCEPT !.c = S] \in Lists
           /\ f[r].c \in SUBSET Campaigns
<1>1. \A x \in Lists : [f EXCEPT ![r] = x] \in [Readers -> Lists]
  OBVIOUS
<1> DEFINE x == f[r]
<1>2. x \in Lists
  OBVIOUS
<1> HIDE DEF x
<1>3. NoLists \in Lists /\ x.c \in SUBSET Campaigns
  BY <1>2 DEF NoLists, Lists
<1>4. \A S \in SUBSET Workspaces : [x EXCEPT !.w = S] \in Lists
  BY <1>2 DEF Lists
<1>5. \A S \in SUBSET Projects, T \in SUBSET Campaigns : [x EXCEPT !.p = S, !.c = T] \in Lists
  BY <1>2 DEF Lists
<1>6. \A S \in SUBSET Campaigns : [x EXCEPT !.c = S] \in Lists
  BY <1>2 DEF Lists
<1> QED
  BY <1>1, <1>3, <1>4, <1>5, <1>6 DEF x

LEMMA WorkspacesTyped ==
    ASSUME ScopesTyped, NEW r \in Readers, WorkspacesRead(r)
    PROVE  ScopesTyped'
<1> DEFINE list == alive \cap Workspaces
           w == Pick(list, tree[r].want.w)
           shown == [lists[r] EXCEPT !.w = list]
           t == [tree[r] EXCEPT !.pc = "projects", !.at.w = w, !.want.w = None]
           s == IF w = None THEN NoPath ELSE [chosen EXCEPT !.w = w]
<1>1. list \in SUBSET Workspaces
  OBVIOUS
<1>2. w \in Workspaces \cup {None}
  BY <1>1, PickTyped
<1>3. /\ lists' = [lists EXCEPT ![r] = IF w = None THEN NoLists ELSE shown]
      /\ marked' \subseteq marked \cup archived
      /\ dash' \in {TRUE, dash}
      /\ ReadingEnds(r) \/ (tree' = [tree EXCEPT ![r] = t] /\ admin' = admin)
      /\ Choose(r, s)
      /\ UNCHANGED <<current, alive, archived, open>>
  <2>1. tree' = [tree EXCEPT ![r].pc = "projects", ![r].at.w = w, ![r].want.w = None]
          => tree' = [tree EXCEPT ![r] = t]
    BY DEF ScopesTyped
  <2> QED
    BY <2>1 DEF WorkspacesRead, ServerStays, ScopesTyped
<1>4. tree[r] \in Reading /\ lists \in [Readers -> Lists] /\ chosen \in Path
      /\ tree \in [Readers -> Reading] /\ admin \in Admin
  BY DEF ScopesTyped
<1>5. t \in Reading
  BY <1>2, <1>4, ReadOn
<1>6. shown \in Lists /\ NoLists \in Lists
  BY <1>1, <1>4, ListsMove
<1>7. s \in Path
  BY <1>2, <1>4, NoPathIs DEF Path
<1> HIDE DEF list, w, shown, t, s
<1>8. lists' \in [Readers -> Lists]
  BY <1>3, <1>4, <1>6
<1>9. tree' \in [Readers -> Reading] /\ admin' \in Admin
  BY <1>3, <1>4, <1>5, ReadingEndsTyped
<1>10. chosen' \in Path /\ cleanup' \in Cleanup
  BY <1>3, <1>7, ChooseTyped
<1>11. marked' \subseteq Scopes /\ dash' \in BOOLEAN
  BY <1>3 DEF ScopesTyped
<1> QED
  BY <1>3, <1>8, <1>9, <1>10, <1>11 DEF ScopesTyped

LEMMA ProjectsTyped ==
    ASSUME ScopesTyped, NEW r \in Readers, ProjectsRead(r)
    PROVE  ScopesTyped'
<1> DEFINE list == Under(alive \cap Projects, tree[r].at.w)
           p == Pick(list, tree[r].want.p)
           rest == IF p = None THEN {} ELSE lists[r].c
           shown == [lists[r] EXCEPT !.p = list, !.c = rest]
           t == [tree[r] EXCEPT !.pc = "campaigns", !.at.p = p, !.want.p = None]
           c == IF p = None THEN None ELSE chosen.c
           s == [chosen EXCEPT !.p = p, !.c = c]
<1>1. list \in SUBSET Projects
  BY DEF Under
<1>2. p \in Projects \cup {None}
  BY <1>1, PickTyped
<1>3. /\ lists' = [lists EXCEPT ![r] = shown]
      /\ marked' \subseteq marked \cup archived
      /\ ReadingEnds(r) \/ (tree' = [tree EXCEPT ![r] = t] /\ admin' = admin)
      /\ Choose(r, s)
      /\ UNCHANGED <<current, alive, archived, open, dash>>
  <2>1. tree' = [tree EXCEPT ![r].pc = "campaigns", ![r].at.p = p, ![r].want.p = None]
          => tree' = [tree EXCEPT ![r] = t]
    BY DEF ScopesTyped
  <2>2. lists' = [lists EXCEPT ![r].p = list, ![r].c = rest]
    BY DEF ProjectsRead, ScopesTyped, Lists
  <2>3. [lists EXCEPT ![r].p = list, ![r].c = rest] = [lists EXCEPT ![r] = shown]
    BY DEF ScopesTyped
  <2> QED
    BY <2>1, <2>2, <2>3 DEF ProjectsRead, ServerStays, ScopesTyped
<1>4. tree[r] \in Reading /\ lists \in [Readers -> Lists] /\ chosen \in Path
      /\ tree \in [Readers -> Reading] /\ admin \in Admin
  BY DEF ScopesTyped
<1>5. t \in Reading
  BY <1>2, <1>4, ReadOn
<1>6. shown \in Lists
  <2>1. rest \in SUBSET Campaigns
    BY <1>4, ListsMove
  <2> HIDE DEF rest, list
  <2> QED
    BY <1>1, <1>4, <2>1, ListsMove
<1>7. s \in Path
  <2>1. c \in Campaigns \cup {None, DefaultCampaign}
    BY <1>4 DEF Path
  <2> HIDE DEF c, p
  <2> QED
    BY <1>2, <1>4, <2>1, PathMoves
<1> HIDE DEF list, p, rest, shown, t, c, s
<1>8. lists' \in [Readers -> Lists]
  BY <1>3, <1>4, <1>6
<1>9. tree' \in [Readers -> Reading] /\ admin' \in Admin
  BY <1>3, <1>4, <1>5, ReadingEndsTyped
<1>10. chosen' \in Path /\ cleanup' \in Cleanup
  BY <1>3, <1>7, ChooseTyped
<1>11. marked' \subseteq Scopes
  BY <1>3 DEF ScopesTyped
<1> QED
  BY <1>3, <1>8, <1>9, <1>10, <1>11 DEF ScopesTyped

LEMMA CampaignsTyped ==
    ASSUME ScopesTyped, NEW r \in Readers, CampaignsRead(r)
    PROVE  ScopesTyped'
<1> DEFINE list == Under(alive \cap Campaigns, tree[r].at.p)
           c == Pick(list, tree[r].want.c)
           shown == [lists[r] EXCEPT !.c = list]
           s == [tree[r].at EXCEPT !.c = c]
           e == [chosen EXCEPT !.c = s.c]
<1>1. list \in SUBSET Campaigns
  BY DEF Under
<1>2. c \in Campaigns \cup {None}
  BY <1>1, PickTyped
<1>3. /\ lists' = [lists EXCEPT ![r] = shown]
      /\ marked' \subseteq marked \cup archived
      /\ \/ ReadAgain(s, NoPath, "none") /\ UNCHANGED <<chosen, admin, cleanup>>
         \/ ReadingEnds(r) /\ Choose(r, e) /\ UNCHANGED <<current, dash>>
      /\ UNCHANGED <<alive, archived, open>>
  <2>1. [lists EXCEPT ![r]["c"] = list] = [lists EXCEPT ![r] = shown]
    BY DEF ScopesTyped
  <2> QED
    BY <2>1 DEF CampaignsRead, Show, ScopesTyped
<1>4. tree[r].at \in Path /\ lists \in [Readers -> Lists] /\ chosen \in Path
  BY DEF ScopesTyped, Reading
<1>5. s \in Path /\ s.c \in Campaigns \cup {None}
  BY <1>2, <1>4 DEF Path
<1>6. shown \in Lists
  BY <1>1, <1>4, ListsMove
<1>7. e \in Path
  BY <1>4, <1>5 DEF Path
<1> HIDE DEF list, c, shown, s, e
<1>8. lists' \in [Readers -> Lists]
  BY <1>3, <1>4, <1>6
<1>9. marked' \subseteq Scopes
  BY <1>3 DEF ScopesTyped
<1>10. CASE ReadAgain(s, NoPath, "none") /\ UNCHANGED <<chosen, admin, cleanup>>
  <2>1. current' \in Path /\ tree' \in [Readers -> Reading] /\ dash' \in BOOLEAN
    BY <1>5, <1>10, NoPathIs, ReadAgainTyped
  <2> QED
    BY <1>3, <1>8, <1>9, <1>10, <2>1 DEF ScopesTyped
<1>11. CASE ReadingEnds(r) /\ Choose(r, e) /\ UNCHANGED <<current, dash>>
  <2>1. tree' \in [Readers -> Reading] /\ admin' \in Admin /\ chosen' \in Path /\ cleanup' \in Cleanup
    BY <1>7, <1>11, ReadingEndsTyped, ChooseTyped
  <2> QED
    BY <1>3, <1>8, <1>9, <1>11, <2>1 DEF ScopesTyped
<1> QED
  BY <1>3, <1>10, <1>11

LEMMA ReadFailsTyped ==
    ASSUME ScopesTyped, NEW r \in Readers, ReadFails(r)
    PROVE  ScopesTyped'
<1>1. lists' \in [Readers -> Lists]
  <2>1. lists \in [Readers -> Lists] /\ lists' \in {lists, [lists EXCEPT ![r] = NoLists]}
    BY DEF ReadFails, ScopesTyped
  <2> QED
    BY <2>1, ListsMove
<1>2. /\ marked' \subseteq marked /\ dash' \in {FALSE, dash} /\ ReadingEnds(r) /\ Choose(r, NoPath)
      /\ UNCHANGED <<current, alive, archived, open>>
  BY DEF ReadFails, ServerStays
<1>3. tree' \in [Readers -> Reading] /\ admin' \in Admin /\ chosen' \in Path /\ cleanup' \in Cleanup
  BY <1>2, NoPathIs, ReadingEndsTyped, ChooseTyped
<1>4. marked' \subseteq Scopes /\ dash' \in BOOLEAN
  BY <1>2 DEF ScopesTyped
<1> QED
  BY <1>1, <1>2, <1>3, <1>4 DEF ScopesTyped

LEMMA CutTyped ==
    ASSUME NEW s \in Path, NEW level \in {"w", "p", "c"}
    PROVE  Cut(s, level) \in Path
<1>1. CASE level = "w"
  BY <1>1, NoPathIs DEF Cut
<1>2. CASE level = "p"
  <2>1. Cut(s, level) = [s EXCEPT !.p = None, !.c = None]
    BY <1>2 DEF Cut
  <2> QED
    BY <2>1, NoPathIs DEF Path
<1>3. CASE level = "c"
  <2>1. Cut(s, level) = [s EXCEPT !.c = None]
    BY <1>3 DEF Cut
  <2> QED
    BY <2>1, NoPathIs DEF Path
<1> QED
  BY <1>1, <1>2, <1>3

LEMMA NormalTyped == ASSUME NEW s \in Path PROVE NormalScope(s) \in Path
  BY DEF NormalScope, Path

LEMMA ActionDoneTyped ==
    ASSUME ScopesTyped, ActionDone
    PROVE  ScopesTyped'
<1> DEFINE x == admin.at[admin.level]
           cut == Cut(admin.at, admin.level)
           cutOff == Cut(admin.was, admin.level)
<1>1. /\ admin \in Admin /\ admin.at \in Path /\ admin.was \in Path
      /\ admin.level \in {"w", "p", "c"} /\ current \in Path
  BY DEF ScopesTyped, Admin
<1>2. cut \in Path /\ NormalScope(cutOff) \in Path
  BY <1>1, CutTyped, NormalTyped
<1>3. /\ x \in alive /\ alive' \subseteq alive /\ archived' \subseteq archived \cup {x}
      /\ admin' = [admin EXCEPT !.pc = "reload"]
      /\ UNCHANGED <<lists, marked, chosen, cleanup, open>>
  BY DEF ActionDone
<1>4. admin' \in Admin
  BY <1>1, <1>3 DEF Admin
<1> DEFINE own == admin.kind = "delete" /\ \A l \in Ancestors(admin.level) : admin.was[l] = admin.at[l]
           s == IF own THEN NormalScope(cutOff) ELSE current
           want == IF admin.kind = "delete" THEN cut ELSE admin.at
<1>5. ReadAgain(s, want, "action")
  BY DEF ActionDone
<1>6. s \in Path /\ want \in Path
  BY <1>1, <1>2
<1> HIDE DEF s, want, x
<1>7. current' \in Path /\ tree' \in [Readers -> Reading] /\ dash' \in BOOLEAN
  BY <1>5, <1>6, ReadAgainTyped
<1>8. alive' \subseteq Scopes /\ archived' \subseteq Scopes
  BY <1>3 DEF ScopesTyped
<1> QED
  BY <1>3, <1>4, <1>7, <1>8 DEF ScopesTyped

LEMMA AnswersTyped ==
    ASSUME ScopesTyped, Answers
    PROVE  ScopesTyped'
<1>1. CASE DashboardRead
  BY <1>1 DEF DashboardRead, ServerStays, ScopesTyped
<1>2. CASE ActionEnds
  BY <1>2, NoneBusy DEF ActionEnds, ServerStays, ScopesTyped
<1>3. CASE Previewed \/ Executed \/ CleanupEnds
  <2>1. cleanup \in Cleanup /\ cleanup.asked \in Path /\ NoPath \in Path /\ NoCleanup \in Cleanup
    BY NoneBusy, NoPathIs DEF ScopesTyped, Cleanup
  <2>2. cleanup' \in Cleanup
    <3> DEFINE z == NoCleanup
    <3>1. z \in Cleanup
      BY <2>1
    <3>2. \/ cleanup' = [z EXCEPT !.token = cleanup.asked]
          \/ cleanup' = [cleanup EXCEPT !.busy = "reload", !.asked = NoPath, !.phrase = FALSE]
          \/ cleanup' = [cleanup EXCEPT !.busy = "none", !.asked = NoPath]
      BY <1>3 DEF Previewed, Executed, CleanupEnds
    <3> HIDE DEF z
    <3> QED
      BY <2>1, <3>1, <3>2 DEF Cleanup
  <2>3. tree' \in [Readers -> Reading] /\ dash' \in BOOLEAN
    <3>1. Started(cleanup.asked, "cleanup") \in Reading
      BY <2>1, StartedTyped
    <3>2. tree' \in {tree, [tree EXCEPT !["manager"] = Started(cleanup.asked, "cleanup")]}
          /\ dash' \in {dash, FALSE}
      BY <1>3 DEF Previewed, Executed, CleanupEnds
    <3> QED
      BY <3>1, <3>2 DEF ScopesTyped
  <2> QED
    BY <1>3, <2>2, <2>3 DEF Previewed, Executed, CleanupEnds, CleanupStep, ServerStays, ScopesTyped
<1> QED
  BY <1>1, <1>2, <1>3, ActionDoneTyped, WorkspacesTyped, ProjectsTyped, CampaignsTyped,
     ReadFailsTyped DEF Answers

\* A step that has the manager or the library read, and nothing else.
LEMMA OnlyReads ==
    ASSUME ScopesTyped, NEW s \in Path, NEW want \in Path,
           NEW by \in {"none", "user", "action", "cleanup"}, ReadAgain(s, want, by), open' = open,
           UNCHANGED <<alive, archived, lists, marked, chosen, admin, cleanup>>
    PROVE  ScopesTyped'
<1>1. current' \in Path /\ tree' \in [Readers -> Reading] /\ dash' \in BOOLEAN
  BY ReadAgainTyped
<1> QED
  BY <1>1 DEF ScopesTyped

LEMMA ManagerReadsTyped ==
    ASSUME ScopesTyped, NEW want \in Path, ManagerReads(want)
    PROVE  ScopesTyped'
<1>1. current \in Path
  BY DEF ScopesTyped
<1> QED
  BY <1>1, OnlyReads DEF ManagerReads

LEMMA LibraryReadsTyped ==
    ASSUME ScopesTyped, NEW want \in Path, LibraryReads(want)
    PROVE  ScopesTyped'
<1>1. Started(want, "user") \in Reading
  BY StartedTyped
<1>2. tree' \in [Readers -> Reading]
  BY <1>1 DEF ScopesTyped, LibraryReads
<1> QED
  BY <1>2 DEF ScopesTyped, LibraryReads, ServerStays

LEMMA PicksTyped ==
    ASSUME ScopesTyped,
           \/ \E w \in Workspaces : PickWorkspace(w) \/ SelectWorkspace(w)
           \/ \E p \in Projects : PickProject(p) \/ SelectProject(p)
           \/ \E c \in Campaigns : PickCampaign(c) \/ SelectCampaign(c)
    PROVE  ScopesTyped'
<1>1. chosen \in Path /\ current \in Path /\ NoPath \in Path
      /\ chosen.w \in Workspaces \cup {None, DefaultWorkspace}
      /\ current.w \in Workspaces \cup {None, DefaultWorkspace}
      /\ None \in Campaigns \cup {None}
  BY NoPathIs DEF ScopesTyped, Path
<1>2. ASSUME NEW w \in Workspaces, PickWorkspace(w) \/ SelectWorkspace(w) PROVE ScopesTyped'
  <2> DEFINE s == [NoPath EXCEPT !.w = w]
  <2>1. s \in Path
    BY <1>1, PathMoves
  <2>2. ManagerReads(s) \/ LibraryReads(s)
    BY <1>2 DEF PickWorkspace, SelectWorkspace
  <2> HIDE DEF s
  <2> QED
    BY <2>1, <2>2, ManagerReadsTyped, LibraryReadsTyped
<1>3. ASSUME NEW p \in Projects, PickProject(p) \/ SelectProject(p) PROVE ScopesTyped'
  <2> DEFINE s == [w |-> chosen.w, p |-> p, c |-> None]
             t == [w |-> current.w, p |-> p, c |-> None]
  <2>1. s \in Path /\ t \in Path
    BY <1>1 DEF Path
  <2>2. ManagerReads(s) \/ LibraryReads(t)
    BY <1>3 DEF PickProject, SelectProject
  <2> HIDE DEF s, t
  <2> QED
    BY <2>1, <2>2, ManagerReadsTyped, LibraryReadsTyped
<1>4. ASSUME NEW c \in Campaigns, PickCampaign(c) PROVE ScopesTyped'
  <2>1. chosen' \in Path
    BY <1>1, <1>4, PathMoves DEF PickCampaign
  <2>2. cleanup' \in Cleanup
    BY <1>4, NoneBusy DEF PickCampaign, CleanupReset, ScopesTyped
  <2> QED
    BY <1>4, <2>1, <2>2 DEF PickCampaign, ServerStays, ScopesTyped
<1>5. ASSUME NEW c \in Campaigns, SelectCampaign(c) PROVE ScopesTyped'
  <2> DEFINE s == [current EXCEPT !.c = c]
  <2>1. s \in Path
    BY <1>1, PathMoves
  <2>2. /\ ReadAgain(s, NoPath, "none") /\ open' = open
        /\ UNCHANGED <<alive, archived, lists, marked, chosen, admin, cleanup>>
    BY <1>5 DEF SelectCampaign
  <2> HIDE DEF s
  <2> QED
    BY <1>1, <2>1, <2>2, OnlyReads
<1> QED
  BY <1>2, <1>3, <1>4, <1>5

LEMMA ActsTyped ==
    ASSUME ScopesTyped, Acts
    PROVE  ScopesTyped'
<1>1. chosen \in Path /\ current \in Path /\ NoPath \in Path /\ Selected \in Path
      /\ tree \in [Readers -> Reading] /\ cleanup \in Cleanup
  BY NoPathIs, SelectedTyped DEF ScopesTyped
<1>2. CASE OpenManager \/ CloseManager
  <2>1. Started(current, "user") \in Reading /\ NotReading \in Reading
    BY <1>1, StartedTyped
  <2>2. tree' \in [Readers -> Reading]
    <3> DEFINE z == NotReading
               s == Started(current, "user")
    <3>1. tree' \in {[tree EXCEPT !["manager"] = s], [tree EXCEPT !["manager"] = z]}
      BY <1>2 DEF OpenManager, CloseManager
    <3>2. s \in Reading /\ z \in Reading
      BY <2>1
    <3> HIDE DEF z, s
    <3> QED
      BY <1>1, <3>1, <3>2
  <2>3. open' \in BOOLEAN /\ dash' \in BOOLEAN
        /\ UNCHANGED <<alive, archived, current, lists, marked, chosen, admin, cleanup>>
    BY <1>2 DEF OpenManager, CloseManager
  <2> QED
    BY <2>2, <2>3 DEF ScopesTyped
<1>3. CASE RefreshTree
  BY <1>1, <1>3, ManagerReadsTyped DEF RefreshTree
<1>4. CASE SetCurrent
  BY <1>1, <1>4, OnlyReads DEF SetCurrent
<1>5. ASSUME NEW kind \in {"rename", "archive", "delete"}, NEW level \in {"w", "p", "c"},
             RunAction(kind, level)
      PROVE  ScopesTyped'
  <2> DEFINE s == Selected
             was == IF kind = "delete" THEN current ELSE NoPath
  <2>1. admin' = [pc |-> "sent", kind |-> kind, level |-> level, at |-> s, was |-> was]
        /\ UNCHANGED <<current, lists, marked, chosen, tree, cleanup, dash, alive, archived, open>>
    BY <1>5 DEF RunAction, ServerStays
  <2>2. s \in Path /\ was \in Path
    BY <1>1
  <2> HIDE DEF s, was
  <2>3. admin' \in Admin
    BY <2>1, <2>2 DEF Admin
  <2> QED
    BY <2>1, <2>3 DEF ScopesTyped
<1>6. CASE AskPreview \/ TypePhrase \/ Execute
  <2> DEFINE s == Selected
  <2>1. /\ \/ cleanup' = [cleanup EXCEPT !.busy = "preview", !.asked = s]
           \/ cleanup' = [cleanup EXCEPT !.phrase = TRUE]
           \/ cleanup' = [cleanup EXCEPT !.busy = "execute", !.asked = s]
        /\ UNCHANGED <<current, lists, marked, chosen, tree, admin, dash, alive, archived, open>>
    BY <1>6 DEF AskPreview, TypePhrase, Execute, CleanupStep, ServerStays
  <2>2. s \in Path
    BY <1>1
  <2> HIDE DEF s
  <2>3. cleanup' \in Cleanup
    BY <1>1, <2>1, <2>2 DEF Cleanup
  <2> QED
    BY <2>1, <2>3 DEF ScopesTyped
<1>7. CASE LibraryStarts
  BY <1>1, <1>7, LibraryReadsTyped DEF LibraryStarts
<1>8. ASSUME NEW x \in Scopes, OthersChange(x) PROVE ScopesTyped'
  BY <1>8 DEF OthersChange, shownVars, ScopesTyped
<1> QED
  BY <1>2, <1>3, <1>4, <1>5, <1>6, <1>7, <1>8, PicksTyped DEF Acts

LEMMA ScopesTypes ==
    /\ ScopesInit => ScopesTypeOK
    /\ ScopesTypeOK /\ [ScopesNext]_scopeVars => ScopesTypeOK'
<1>1. ScopesTypeOK <=> ScopesTyped /\ acts \in 0..MaxActs
  BY DEF ScopesTypeOK, ScopesTyped
<1>2. MaxActs \in Nat
  BY WebScopesAssumption
<1>3. ASSUME ScopesInit PROVE ScopesTypeOK
  <2>1. lists \in [Readers -> Lists]
    <3>1. NoLists \in Lists
      BY DEF NoLists, Lists
    <3> QED
      BY <1>3, <3>1 DEF ScopesInit
  <2>2. tree \in [Readers -> Reading]
    <3>1. NotReading \in Reading
      BY NoPathIs, StartedTyped
    <3> QED
      BY <1>3, <3>1 DEF ScopesInit
  <2>3. acts \in 0..MaxActs
    BY <1>2, <1>3 DEF ScopesInit
  <2>4. DefaultScope \in Path
    BY DEF DefaultScope, Path
  <2> QED
    BY <1>1, <1>3, <2>1, <2>2, <2>3, <2>4, NoPathIs, NoneBusy DEF ScopesInit, ScopesTyped
<1>4. ASSUME ScopesTypeOK, [ScopesNext]_scopeVars PROVE ScopesTypeOK'
  <2>1. CASE UNCHANGED scopeVars
    BY <1>4, <2>1 DEF scopeVars, shownVars, ScopesTypeOK
  <2>2. CASE Answers /\ UNCHANGED acts
    BY <1>1, <1>4, <2>2, AnswersTyped DEF ScopesTypeOK, ScopesTyped
  <2>3. CASE acts < MaxActs /\ acts' = acts + 1 /\ Acts
    <3>1. ScopesTyped'
      BY <1>1, <1>4, <2>3, ActsTyped
    <3>2. acts' \in 0..MaxActs
      BY <1>1, <1>2, <1>4, <2>3
    <3> QED
      BY <3>1, <3>2 DEF ScopesTypeOK, ScopesTyped
  <2> QED
    BY <1>4, <2>1, <2>2, <2>3 DEF ScopesNext
<1> QED
  BY <1>3, <1>4

\* The favourites: cards and their rows, the picker, the dialog.
LEMMA AsManyAsListed ==
    ASSUME NEW s \in Seq(AllIds), OnceEach(s)
    PROVE  IsFiniteSet(Elements(s)) /\ Cardinality(Elements(s)) = Len(s)
<1>1. Len(s) \in Nat /\ DOMAIN s = 1..Len(s) /\ Elements(s) = {s[i] : i \in 1..Len(s)}
  BY ElementsOf
<1> DEFINE S == 1..Len(s)
           T == Elements(s)
           f == [i \in S |-> s[i]]
<1>2. f \in [S -> T] /\ (\A i, j \in S : f[i] = f[j] => i = j) /\ \A t \in T : \E i \in S : f[i] = t
  BY <1>1 DEF OnceEach
<1>3. IsFiniteSet(S) /\ Cardinality(S) = Len(s)
  <2>1. Len(s) = 0 \/ Len(s) >= 1
    BY <1>1
  <2>2. CASE Len(s) >= 1
    BY <1>1, <2>2, FS_Interval
  <2>3. CASE Len(s) = 0
    BY <2>3, FS_EmptySet
  <2> QED
    BY <2>1, <2>2, <2>3
<1> HIDE DEF S, T, f
<1>4. f \in Bijection(S, T)
  BY <1>2 DEF Bijection, Injection, Surjection, IsInjective
<1>5. ExistsBijection(S, T)
  BY <1>4 DEF ExistsBijection
<1> QED
  BY <1>3, <1>5, FS_Bijection DEF T

FavCards == [FavoriteTasks -> Card \cup {Gone}]
PickerStates == [of: SUBSET FavoriteTasks, checked: SUBSET AllIds]
Preferable == AllIds \cup {Nowhere}

FavTyped ==
    /\ nameOf \in [AllIds -> Names \cup {NoName}]
    /\ selected \subseteq AllIds \cup {All}
    /\ cards \in FavCards /\ kept \in FavCards /\ writing \subseteq FavoriteTasks
    /\ picker \in PickerStates
    /\ dialog.kind \in {"none", "default", "delete", "batch"} /\ clicks \in 0..MaxClicks

DragTyped ==
    /\ drag \in [on: BOOLEAN, moved: BOOLEAN, from: SUBSET (AllIds \cup {All})]
    /\ stray \subseteq AllIds \cup {All}

LEMMA FavoriteTypes ==
    ASSUME FavoritesInv, FavTyped, DragTyped
    PROVE  FavoritesTypeOK
<1>1. /\ favorites \in Seq(AllIds) /\ OnceEach(favorites) /\ Listed = Elements(favorites)
      /\ Listed \subseteq AllIds
  BY ListOf
<1>2. Cardinality(Listed) = Len(favorites)
  BY <1>1, AsManyAsListed
<1>3. preferred \in AllIds \cup {Nowhere} /\ activeId \in AllIds \cup {All, Nowhere}
  BY <1>1 DEF FavoritesInv
<1>4. \A t \in FavoriteTasks : {cards[t], kept[t]} \subseteq Card \cup {Gone}
  BY DEF FavTyped, FavCards
<1>5. picker.of \subseteq FavoriteTasks /\ picker.checked \subseteq AllIds
  BY DEF FavTyped, PickerStates
<1> QED
  BY <1>1, <1>2, <1>3, <1>4, <1>5 DEF FavTyped, DragTyped, FavoritesTypeOK

LEMMA CardParts ==
    ASSUME NEW card \in Card \cup {Gone}
    PROVE  card.ids \in SUBSET AllIds
<1>1. CASE card \in Card
  BY <1>1 DEF Card
<1>2. CASE card = Gone
  BY <1>2 DEF Gone
<1> QED
  BY <1>1, <1>2

LEMMA CheckedTyped ==
    ASSUME NEW cs \in FavCards, NEW ts \in SUBSET FavoriteTasks, NEW default \in Preferable
    PROVE  Checked(cs, ts, default) \in SUBSET AllIds
<1> DEFINE member(t) == IF cs[t].ids # {} THEN cs[t].ids
                        ELSE IF cs[t].favorite /\ default # Nowhere THEN {default} ELSE {}
           there     == {t \in ts : cs[t] # Gone}
           sets      == {member(t) : t \in there}
<1>1. \A t \in there : member(t) \in SUBSET AllIds
  BY CardParts DEF FavCards, Preferable
<1>2. sets \subseteq SUBSET AllIds
  BY <1>1
<1>3. Checked(cs, ts, default) = IF UNION sets = {} THEN {default} \ {Nowhere}
                                 ELSE IF Cardinality(sets) = 1 THEN CHOOSE s \in sets : TRUE ELSE {}
  BY Zenon DEF Checked
<1> HIDE DEF sets
<1>4. CASE UNION sets = {}
  BY <1>3, <1>4 DEF Preferable
<1>5. CASE UNION sets # {}
  <2>1. sets # {}
    BY <1>5
  <2>2. (CHOOSE s \in sets : TRUE) \in sets
    BY <2>1
  <2> QED
    BY <1>2, <1>3, <1>5, <2>2
<1> QED
  BY <1>4, <1>5

LEMMA PickerMoves ==
    ASSUME NEW p \in PickerStates, NEW S \in SUBSET AllIds
    PROVE  /\ p.of \in SUBSET FavoriteTasks /\ p.checked \in SUBSET AllIds
           /\ [p EXCEPT !.checked = S] \in PickerStates /\ ClosedPicker \in PickerStates
  BY DEF PickerStates, ClosedPicker

LEMMA PickerFollowsTyped ==
    ASSUME picker \in PickerStates, cards' \in FavCards, preferred' \in Preferable, PickerFollows
    PROVE  picker' \in PickerStates
<1> DEFINE S == Checked(cards', picker.of, preferred')
<1>1. S \in SUBSET AllIds
  <2>1. picker.of \in SUBSET FavoriteTasks
    BY DEF PickerStates
  <2> QED
    BY <2>1, CheckedTyped
<1>2. picker' = picker \/ picker' = [picker EXCEPT !.checked = S]
  BY DEF PickerFollows
<1> HIDE DEF S
<1> QED
  BY <1>1, <1>2, PickerMoves

\* A list with a default has one of that name.
LEMMA NamedListed ==
    ASSUME NEW s \in Seq(AllIds), NEW names
    PROVE  Named(s, names) \in Elements(s) \cup {Nowhere}
<1> DEFINE named == {c \in Elements(s) : c = Default \/ names[c] = DefaultName}
           places == {i \in DOMAIN s : s[i] \in named}
<1>1. CASE Default \in named
  BY <1>1 DEF Named
<1>2. CASE named = {}
  BY <1>2 DEF Named
<1>3. CASE Default \notin named /\ named # {}
  <2>1. Named(s, names)
          = s[CHOOSE i \in DOMAIN s : s[i] \in named /\ \A j \in 1..(i - 1) : s[j] \notin named]
    BY <1>3, Zenon DEF Named
  <2>2. Len(s) \in Nat /\ DOMAIN s = 1..Len(s) /\ Elements(s) = {s[i] : i \in 1..Len(s)}
    BY ElementsOf
  <2>3. places \subseteq Nat /\ places # {}
    BY <1>3, <2>2
  <2>4. PICK i \in places : \A j \in places : i <= j
    BY <2>3, LeastExists
  <2>5. i \in 1..Len(s) /\ \A j \in 1..(i - 1) : s[j] \notin named
    <3>1. i \in 1..Len(s)
      BY <2>2, <2>4
    <3>2. ASSUME NEW j \in 1..(i - 1), s[j] \in named PROVE FALSE
      <4>1. j \in 1..Len(s) /\ ~(i <= j)
        BY <2>2, <3>1
      <4> QED
        BY <2>2, <2>4, <3>2, <4>1
    <3> QED
      BY <3>1, <3>2
  <2>6. s[i] \in named
    BY <2>4
  <2> HIDE DEF named, places
  <2>7. (CHOOSE k \in DOMAIN s : s[k] \in named /\ \A j \in 1..(k - 1) : s[j] \notin named) \in DOMAIN s
    BY <2>2, <2>5, <2>6
  <2> QED
    BY <2>1, <2>2, <2>7
<1> QED
  BY <1>1, <1>2, <1>3

LEMMA DefaultIsNamed ==
    ASSUME NEW s \in Seq(AllIds), OnceEach(s), NEW names, s # <<>>
    PROVE  Named(WithDefault(s, names), names) \in AllIds
<1> DEFINE d == WithDefault(s, names)
<1>1. d \in Seq(AllIds) /\ Elements(d) \subseteq AllIds
  BY WithDefaultOnce, ElementsOf
<1>2. CASE Named(s, names) # Nowhere
  <2>1. d = s
    BY <1>2 DEF WithDefault
  <2>2. Named(s, names) \in Elements(s)
    BY <1>2, NamedListed
  <2> QED
    BY <1>1, <2>1, <2>2
<1>3. CASE Named(s, names) = Nowhere
  <2>1. d = <<Default>> \o s
    BY <1>3 DEF WithDefault
  <2>2. Default \in Elements(d)
    <3>1. Default \in AllIds /\ Len(s) \in Nat
      BY ElementsOf DEF AllIds
    <3>2. <<Default>> \in Seq(AllIds) /\ Len(<<Default>>) = 1 /\ <<Default>>[1] = Default
      BY <3>1
    <3>3. 1 \in DOMAIN d /\ d[1] = Default
      BY <2>1, <3>1, <3>2, ConcatProperties
    <3> QED
      BY <3>3 DEF Elements
  <2>3. Named(d, names) = Default
    BY <2>2 DEF Named
  <2> QED
    BY <2>3 DEF AllIds
<1> QED
  BY <1>2, <1>3

LEMMA HomedTyped ==
    ASSUME NEW card \in Card \cup {Gone}, NEW s, NEW names, Named(s, names) \in AllIds
    PROVE  Homed(card, s, names) \in Card \cup {Gone}
<1> DEFINE known == card.ids \cap Elements(s)
           ids   == IF known # {} THEN known
                    ELSE IF card.favorite THEN {Named(s, names)} ELSE {}
           new   == [ids |-> ids, favorite |-> ids # {} \/ card.favorite]
<1>1. Homed(card, s, names) = IF card = Gone THEN card ELSE new
  BY DEF Homed
<1>2. CASE card = Gone
  BY <1>1, <1>2
<1>3. CASE card # Gone
  <2>1. card \in Card
    BY <1>3
  <2>2. card.ids \in SUBSET AllIds /\ card.favorite \in BOOLEAN
    BY <2>1 DEF Card
  <2>3. ids \in SUBSET AllIds
    BY <2>2
  <2>4. (ids # {} \/ card.favorite) \in BOOLEAN
    BY <2>2
  <2>5. new \in Card
    <3> HIDE DEF ids
    <3> QED
      BY <2>3, <2>4 DEF Card
  <2> QED
    BY <1>1, <1>3, <2>5
<1> QED
  BY <1>2, <1>3

LEMMA NewCard == \A S \in SUBSET AllIds : [ids |-> S, favorite |-> S # {}] \in Card
  BY DEF Card

LEMMA ClicksTyped ==
    ASSUME clicks \in 0..MaxClicks, Clicked \/ clicks' = clicks
    PROVE  clicks' \in 0..MaxClicks
<1>1. MaxClicks \in Nat
  BY WebFavoritesAssumption
<1> QED
  BY <1>1 DEF Clicked

LEMMA CreateTyped ==
    ASSUME FavoritesInv, FavTyped, NEW n \in Names, NEW opened \in BOOLEAN, Create(n, opened)
    PROVE  FavTyped'
<1> DEFINE same == {c \in Listed : nameOf[c] = n}
           new  == CHOOSE c \in CollectionIds : nameOf[c] = NoName
           made == IF same # {} THEN CHOOSE c \in same : TRUE ELSE new
<1>1. /\ new \in CollectionIds /\ nameOf' = [nameOf EXCEPT ![made] = n] /\ Clicked
      /\ picker' = IF opened THEN [picker EXCEPT !.checked = picker.checked \cup {made}] ELSE picker
      /\ UNCHANGED <<selected, cards, kept, writing, dialog>>
  BY DEF Create, cardVars, selectVars
<1>2. made \in AllIds
  <2>1. CASE same # {}
    BY <2>1, ListOf
  <2>2. CASE same = {}
    BY <1>1, <2>2 DEF AllIds
  <2> QED
    BY <2>1, <2>2
<1> HIDE DEF made
<1>3. picker' \in PickerStates
  <2>1. picker \in PickerStates
    BY DEF FavTyped
  <2>2. picker.checked \cup {made} \in SUBSET AllIds
    BY <1>2, <2>1 DEF PickerStates
  <2> QED
    BY <1>1, <2>1, <2>2, PickerMoves
<1>4. nameOf' \in [AllIds -> Names \cup {NoName}]
  BY <1>1, <1>2 DEF FavTyped
<1>5. clicks' \in 0..MaxClicks
  BY <1>1, ClicksTyped DEF FavTyped
<1> QED
  BY <1>1, <1>3, <1>4, <1>5 DEF FavTyped

LEMMA PutTyped ==
    ASSUME FavTyped, NEW new \in FavCards, NEW ts \in SUBSET FavoriteTasks, Put(new, ts)
    PROVE  cards' \in FavCards /\ kept' \in FavCards /\ writing' \subseteq FavoriteTasks
  BY DEF FavTyped, Put

LEMMA BeginTyped ==
    ASSUME FavoritesInv, FavTyped, preferred' \in Preferable, NEW d, NEW c, NEW del, Begin(d, c, del),
           selected' \subseteq selected, dialog'.kind \in {"none", "default", "delete", "batch"},
           clicks' = clicks
    PROVE  FavTyped'
<1>1. CASE c \notin Listed \/ Len(favorites) <= 1
  BY <1>1 DEF Begin, FavTyped, listVars, cardVars
<1>2. CASE ~(c \notin Listed \/ Len(favorites) <= 1)
  <2> DEFINE moved == IF del.images THEN {t \in Members(c) : Left(t, c) # {}} ELSE Members(c)
             new == [t \in FavoriteTasks |-> IF t \in moved
                        THEN [ids |-> Left(t, c), favorite |-> Left(t, c) # {}] ELSE cards[t]]
  <2>1. Put(new, moved) /\ PickerFollows /\ nameOf' = nameOf
    BY <1>2, Zenon DEF Begin
  <2>2. moved \in SUBSET FavoriteTasks
    BY DEF Members, Present
  <2>3. new \in FavCards
    <3>1. \A t \in FavoriteTasks : Left(t, c) \in SUBSET AllIds
      BY ListOf DEF Left
    <3>2. \A t \in FavoriteTasks : [ids |-> Left(t, c), favorite |-> Left(t, c) # {}] \in Card
      BY <3>1, NewCard
    <3>3. \A t \in FavoriteTasks : cards[t] \in Card \cup {Gone}
      BY DEF FavTyped, FavCards
    <3> HIDE DEF moved
    <3> QED
      BY <3>2, <3>3 DEF FavCards
  <2> HIDE DEF moved, new
  <2>4. cards' \in FavCards /\ kept' \in FavCards /\ writing' \subseteq FavoriteTasks
    BY <2>1, <2>2, <2>3, PutTyped
  <2>5. picker' \in PickerStates
    BY <2>1, <2>4, PickerFollowsTyped DEF FavTyped
  <2> QED
    BY <2>1, <2>4, <2>5 DEF FavTyped
<1> QED
  BY <1>1, <1>2

LEMMA DeletionTyped ==
    ASSUME FavoritesInv, FavTyped, preferred' \in Preferable, NEW d \in Deletions,
           Deleted(d) \/ NextDeletion(d) \/ \E images \in BOOLEAN : ConfirmDelete(d, images)
    PROVE  FavTyped'
<1>1. CASE Deleted(d)
  <2> DEFINE doomed == deleting[d].doomed
  <2>1. /\ cards' = [t \in FavoriteTasks |-> IF t \in doomed THEN Gone ELSE cards[t]]
        /\ kept' = [t \in FavoriteTasks |-> IF t \in doomed THEN Gone ELSE kept[t]]
        /\ writing' = writing \ doomed
        /\ selected' \subseteq selected /\ PickerFollows
        /\ nameOf' = nameOf /\ dialog' = dialog /\ clicks' = clicks
    BY <1>1 DEF Deleted, EndsDeletion, listVars
  <2> HIDE DEF doomed
  <2>2. cards' \in FavCards /\ kept' \in FavCards /\ writing' \subseteq FavoriteTasks
    BY <2>1 DEF FavTyped, FavCards
  <2>3. picker' \in PickerStates
    BY <2>1, <2>2, PickerFollowsTyped DEF FavTyped
  <2> QED
    BY <2>1, <2>2, <2>3 DEF FavTyped
<1>2. CASE NextDeletion(d)
  <2> DEFINE del == [deleting[d] EXCEPT !.rest = Tail(@)]
  <2>1. /\ Begin(d, Head(deleting[d].rest), del) /\ selected' \subseteq selected
        /\ dialog' = dialog /\ clicks' = clicks
    BY <1>2 DEF NextDeletion, Unselects
  <2>2. dialog'.kind \in {"none", "default", "delete", "batch"}
    BY <2>1 DEF FavTyped
  <2> HIDE DEF del
  <2> QED
    BY <2>1, <2>2, BeginTyped
<1>3. ASSUME NEW images \in BOOLEAN, ConfirmDelete(d, images) PROVE FavTyped'
  <2> DEFINE del == [NoDeletion EXCEPT !.batch = dialog.kind = "batch", !.rest = Tail(dialog.ids),
                                       !.images = images]
  <2>1. /\ Begin(d, dialog.ids[1], del) /\ selected' \subseteq selected
        /\ dialog' = NoDialog /\ clicks' = clicks
    BY <1>3 DEF ConfirmDelete, Unselects
  <2>2. dialog'.kind \in {"none", "default", "delete", "batch"}
    BY <2>1 DEF NoDialog
  <2> HIDE DEF del
  <2> QED
    BY <2>1, <2>2, BeginTyped
<1> QED
  BY <1>1, <1>2, <1>3

LEMMA ImportTyped ==
    ASSUME FavoritesInv, FavTyped, preferred' \in Preferable, NEW c \in CollectionIds,
           NEW t \in FavoriteTasks, NEW card \in Card, Import(c, t, card)
    PROVE  FavTyped'
<1> DEFINE names == [nameOf EXCEPT ![c] = IF c \in Listed THEN @ ELSE DefaultName]
           with  == IF c \in Listed THEN favorites ELSE Append(favorites, c)
           seq   == WithDefault(with, names)
           imported  == [kept EXCEPT ![t] = card]
<1>1. /\ nameOf' = [names EXCEPT ![Default] = IF Default \in Listed THEN @ ELSE DefaultName]
      /\ cards' = [u \in FavoriteTasks |-> Homed(imported[u], seq, names)]
      /\ kept' = imported /\ writing' = {u \in FavoriteTasks : cards'[u] # imported[u]}
      /\ Clicked /\ selected' = selected /\ dialog' = dialog /\ PickerFollows
  BY DEF Import
<1>2. c \in AllIds /\ Default \in AllIds /\ DefaultName \in Names
  BY NowhereIsNoId DEF AllIds
<1>3. with \in Seq(AllIds) /\ OnceEach(with) /\ with # <<>>
  BY <1>2, ListOf, AppendedOnce
<1>4. nameOf' \in [AllIds -> Names \cup {NoName}]
  <2>1. names \in [AllIds -> Names \cup {NoName}]
    BY <1>2 DEF FavTyped
  <2> HIDE DEF names
  <2> QED
    BY <1>1, <1>2, <2>1
<1>5. imported \in FavCards
  BY DEF FavTyped, FavCards
<1> HIDE DEF with, names, imported
<1>6. Named(seq, names) \in AllIds
  BY <1>3, DefaultIsNamed
<1> HIDE DEF seq
<1>7. cards' \in FavCards
  <2>1. \A u \in FavoriteTasks : imported[u] \in Card \cup {Gone}
    BY <1>5 DEF FavCards
  <2>2. \A u \in FavoriteTasks : Homed(imported[u], seq, names) \in Card \cup {Gone}
    BY <1>6, <2>1, HomedTyped
  <2> QED
    BY <1>1, <2>2 DEF FavCards
<1>8. writing' \subseteq FavoriteTasks
  BY <1>1
<1>9. picker' \in PickerStates
  BY <1>1, <1>7, PickerFollowsTyped DEF FavTyped
<1>10. clicks' \in 0..MaxClicks
  BY <1>1, ClicksTyped DEF FavTyped
<1> QED
  BY <1>1, <1>4, <1>5, <1>7, <1>8, <1>9, <1>10 DEF FavTyped

LEMMA ReloadTyped ==
    ASSUME FavoritesInv, FavTyped, Reload
    PROVE  FavTyped'
<1> DEFINE seq == WithDefault(favorites, nameOf)
<1>1. /\ nameOf' = [nameOf EXCEPT ![Default] = IF Default \in Listed THEN @ ELSE
                                               IF Default \in Elements(seq) THEN DefaultName ELSE @]
      /\ cards' = [t \in FavoriteTasks |-> Homed(kept[t], seq, nameOf)]
      /\ writing' = {t \in FavoriteTasks : cards'[t] # kept[t]} /\ kept' = kept
      /\ selected' = {} /\ picker' = ClosedPicker /\ dialog' = NoDialog /\ Clicked
  BY DEF Reload
<1>2. Default \in AllIds /\ DefaultName \in Names
  BY NowhereIsNoId DEF AllIds
<1>3. Named(seq, nameOf) \in AllIds
  BY ListOf, DefaultIsNamed
<1> HIDE DEF seq
<1>4. nameOf' \in [AllIds -> Names \cup {NoName}]
  BY <1>1, <1>2 DEF FavTyped
<1>5. cards' \in FavCards
  <2>1. \A u \in FavoriteTasks : kept[u] \in Card \cup {Gone}
    BY DEF FavTyped, FavCards
  <2>2. \A u \in FavoriteTasks : Homed(kept[u], seq, nameOf) \in Card \cup {Gone}
    BY <1>3, <2>1, HomedTyped
  <2> QED
    BY <1>1, <2>2 DEF FavCards
<1>6. picker' \in PickerStates
  BY <1>1 DEF PickerStates, ClosedPicker
<1>7. clicks' \in 0..MaxClicks
  BY <1>1, ClicksTyped DEF FavTyped
<1>8. dialog'.kind \in {"none", "default", "delete", "batch"}
  BY <1>1 DEF NoDialog
<1> QED
  BY <1>1, <1>4, <1>5, <1>6, <1>7, <1>8 DEF FavTyped

\* The steps that change neither cards nor names.
LEMMA QuietPageTyped ==
    ASSUME FavTyped, UNCHANGED <<nameOf, cards, kept, writing>>, clicks' = clicks \/ Clicked,
           selected' \subseteq AllIds \cup {All},
           picker' \in PickerStates, dialog'.kind \in {"none", "default", "delete", "batch"}
    PROVE  FavTyped'
<1>1. clicks' \in 0..MaxClicks
  BY ClicksTyped DEF FavTyped
<1> QED
  BY <1>1 DEF FavTyped

LEMMA DialogsTyped ==
    ASSUME FavoritesInv, FavTyped, preferred' \in Preferable,
           \/ \E c \in AllIds : ChooseDefault(c) \/ AskDelete("delete", <<c>>)
           \/ AskDelete("batch", SelectSeq(favorites, LAMBDA c : c \in selected))
           \/ Dismiss \/ ConfirmDefault
    PROVE  FavTyped'
<1>1. /\ UNCHANGED <<nameOf, cards, kept, writing, selected>> /\ (clicks' = clicks \/ Clicked)
      /\ picker' = picker \/ PickerFollows
  BY DEF ChooseDefault, AskDelete, Dismiss, ConfirmDefault, SetPreferred, listVars, cardVars, selectVars
<1>2. dialog'.kind \in {"none", "default", "delete", "batch"}
  <2>1. dialog.kind \in {"none", "default", "delete", "batch"}
    BY DEF FavTyped
  <2>2. ASSUME NEW c \in AllIds, ChooseDefault(c) PROVE dialog' = dialog \/ dialog'.kind = "default"
    BY <2>2 DEF ChooseDefault
  <2>3. ASSUME NEW kind, NEW ids, AskDelete(kind, ids) PROVE dialog'.kind = kind
    BY <2>3 DEF AskDelete
  <2>4. CASE Dismiss \/ ConfirmDefault
    BY <2>4 DEF Dismiss, ConfirmDefault, NoDialog
  <2>5. CASE \E c \in AllIds : ChooseDefault(c)
    BY <2>1, <2>2, <2>5
  <2>6. CASE \E c \in AllIds : AskDelete("delete", <<c>>)
    BY <2>3, <2>6
  <2>7. CASE AskDelete("batch", SelectSeq(favorites, LAMBDA c : c \in selected))
    BY <2>3, <2>7
  <2> QED
    BY <2>4, <2>5, <2>6, <2>7
<1>3. picker' \in PickerStates
  <2>1. cards' \in FavCards /\ picker \in PickerStates
    BY <1>1 DEF FavTyped
  <2> QED
    BY <1>1, <2>1, PickerFollowsTyped
<1>4. selected' \subseteq AllIds \cup {All}
  BY <1>1 DEF FavTyped
<1> QED
  BY <1>1, <1>2, <1>3, <1>4, QuietPageTyped

LEMMA PickingTyped ==
    ASSUME FavoritesInv, FavTyped,
           \/ \E c \in AllIds : Toggle(c)
           \/ \E ts \in SUBSET FavoriteTasks : OpenPicker(ts)
           \/ ClosePicker \/ ConfirmPicker
    PROVE  FavTyped'
<1>1. picker \in PickerStates /\ picker.of \in SUBSET FavoriteTasks /\ picker.checked \in SUBSET AllIds
      /\ cards \in FavCards /\ selected \subseteq AllIds \cup {All}
      /\ dialog.kind \in {"none", "default", "delete", "batch"}
  BY PickerMoves DEF FavTyped
<1>2. ASSUME NEW c \in AllIds, Toggle(c) PROVE FavTyped'
  <2> DEFINE S == IF c \in picker.checked THEN picker.checked \ {c} ELSE picker.checked \cup {c}
  <2>1. S \in SUBSET AllIds
    BY <1>1
  <2>2. /\ picker' = [picker EXCEPT !.checked = S] /\ Clicked
        /\ UNCHANGED <<nameOf, cards, kept, writing, selected, dialog>>
    BY <1>2 DEF Toggle, listVars, cardVars, selectVars
  <2> HIDE DEF S
  <2>3. picker' \in PickerStates
    BY <1>1, <2>1, <2>2, PickerMoves
  <2> QED
    BY <1>1, <2>2, <2>3, QuietPageTyped
<1>3. ASSUME NEW ts \in SUBSET FavoriteTasks, OpenPicker(ts) PROVE FavTyped'
  <2> DEFINE S == Checked(cards, ts, preferred)
  <2>1. preferred \in Preferable
    BY ListOf DEF FavoritesInv, Preferable
  <2>2. S \in SUBSET AllIds
    BY <1>1, <2>1, CheckedTyped
  <2>3. /\ picker' = [of |-> ts, checked |-> S] /\ Clicked
        /\ UNCHANGED <<nameOf, cards, kept, writing, selected, dialog>>
    BY <1>3 DEF OpenPicker, listVars, cardVars, selectVars
  <2> HIDE DEF S
  <2>4. picker' \in PickerStates
    BY <2>2, <2>3 DEF PickerStates
  <2> QED
    BY <1>1, <2>3, <2>4, QuietPageTyped
<1>4. CASE ClosePicker
  <2>1. picker' \in PickerStates
    BY <1>4 DEF ClosePicker, ClosedPicker, PickerStates
  <2>2. UNCHANGED <<nameOf, cards, kept, writing, selected, dialog, clicks>>
    BY <1>4 DEF ClosePicker, listVars, cardVars, selectVars
  <2> QED
    BY <1>1, <2>1, <2>2, QuietPageTyped
<1>5. CASE ConfirmPicker
  <2> DEFINE ids == picker.checked
             ts  == {t \in picker.of \cap Present : MemberOf(cards[t]) # ids}
             new == [t \in FavoriteTasks |-> IF t \in ts THEN [ids |-> ids, favorite |-> ids # {}]
                                             ELSE cards[t]]
  <2>1. Put(new, ts) /\ picker' = ClosedPicker /\ UNCHANGED <<nameOf, selected, dialog, clicks>>
    BY <1>5 DEF ConfirmPicker, listVars, selectVars
  <2>2. ts \in SUBSET FavoriteTasks
    BY DEF Present
  <2>3. new \in FavCards
    <3>1. [ids |-> ids, favorite |-> ids # {}] \in Card
      BY <1>1, NewCard
    <3> HIDE DEF ts, ids
    <3> QED
      BY <1>1, <3>1 DEF FavCards
  <2> HIDE DEF ts, new
  <2>4. cards' \in FavCards /\ kept' \in FavCards /\ writing' \subseteq FavoriteTasks
    BY <2>1, <2>2, <2>3, PutTyped
  <2>5. picker' \in PickerStates
    BY <2>1 DEF ClosedPicker, PickerStates
  <2> QED
    BY <2>1, <2>4, <2>5 DEF FavTyped
<1> QED
  BY <1>2, <1>3, <1>4, <1>5

LEMMA RestOfPageTyped ==
    ASSUME FavoritesInv, FavTyped, DragTyped,
           \/ \E c \in AllIds, n \in Names : Rename(c, n)
           \/ \E c, target \in AllIds, after \in BOOLEAN : Reorder(c, target, after)
           \/ \E ids \in SUBSET (AllIds \cup {All}) : Select(ids) \/ Flip(ids) \/ DragMoves(ids)
           \/ DragBegins \/ \E empties \in BOOLEAN : DragEnds(empties)
           \/ \E c \in AllIds \cup {All, Nowhere} : OpenCollection(c)
           \/ \E t \in FavoriteTasks : Written(t)
    PROVE  FavTyped'
<1>1. picker \in PickerStates /\ selected \subseteq AllIds \cup {All}
      /\ dialog.kind \in {"none", "default", "delete", "batch"}
  BY DEF FavTyped
<1>2. ASSUME NEW c \in AllIds, NEW n \in Names, Rename(c, n) PROVE FavTyped'
  <2>1. nameOf' \in [AllIds -> Names \cup {NoName}] /\ clicks' \in 0..MaxClicks
    BY <1>2, ClicksTyped DEF Rename, FavTyped
  <2> QED
    BY <1>2, <2>1 DEF Rename, cardVars, selectVars, FavTyped
<1>3. ASSUME NEW c \in AllIds, NEW target \in AllIds, NEW after \in BOOLEAN, Reorder(c, target, after)
      PROVE  FavTyped'
  <2>1. UNCHANGED <<nameOf, cards, kept, writing, selected, picker, dialog>> /\ Clicked
    BY <1>3 DEF Reorder, cardVars, selectVars
  <2> QED
    BY <1>1, <2>1, QuietPageTyped
<1>4. ASSUME NEW ids \in SUBSET (AllIds \cup {All}), Select(ids) \/ Flip(ids) \/ DragMoves(ids)
      PROVE  FavTyped'
  <2>1. /\ UNCHANGED <<nameOf, cards, kept, writing, picker, dialog>> /\ (clicks' = clicks \/ Clicked)
        /\ selected' \subseteq selected \cup ids \cup drag.from
    BY <1>4 DEF Select, Flip, DragMoves, cardVars, listVars
  <2>2. drag.from \subseteq AllIds \cup {All}
    BY DEF DragTyped
  <2> QED
    BY <1>1, <2>1, <2>2, QuietPageTyped
<1>5. ASSUME NEW c \in AllIds \cup {All, Nowhere}, OpenCollection(c) PROVE FavTyped'
  <2>1. UNCHANGED <<nameOf, cards, kept, writing, picker, dialog>> /\ Clicked /\ selected' = {}
    BY <1>5 DEF OpenCollection, cardVars, listVars
  <2> QED
    BY <1>1, <2>1, QuietPageTyped
<1>6. ASSUME NEW t \in FavoriteTasks, Written(t) PROVE FavTyped'
  <2>1. kept' \in FavCards /\ writing' \subseteq FavoriteTasks
    BY <1>6 DEF Written, FavTyped, FavCards
  <2> QED
    BY <1>6, <2>1 DEF Written, listVars, selectVars, FavTyped
<1>7. ASSUME NEW empties, DragBegins \/ DragEnds(empties) PROVE FavTyped'
  <2>1. /\ UNCHANGED <<nameOf, cards, kept, writing, picker, dialog>> /\ (clicks' = clicks \/ Clicked)
        /\ selected' \subseteq selected
    BY <1>7 DEF DragBegins, DragEnds, cardVars, listVars
  <2> QED
    BY <1>1, <2>1, QuietPageTyped
<1> QED
  BY <1>2, <1>3, <1>4, <1>5, <1>6, <1>7

\* The steps that fail.
LEMMA FailuresTyped ==
    ASSUME FavoritesInv, FavTyped, preferred' \in Preferable,
           \/ \E t \in FavoriteTasks : WriteFails(t)
           \/ \E d \in Deletions, gone \in SUBSET FavoriteTasks : RemovalFails(d, gone)
    PROVE  FavTyped'
<1>1. ASSUME NEW t, WriteFails(t) PROVE FavTyped'
  BY <1>1 DEF WriteFails, Abandon, listVars, FavTyped
<1>2. ASSUME NEW d, NEW gone, RemovalFails(d, gone) PROVE FavTyped'
  <2>1. /\ \/ cards' = cards
           \/ cards' = [t \in FavoriteTasks |-> IF t \in deleting[d].doomed THEN Gone ELSE cards[t]]
        /\ kept' = [t \in FavoriteTasks |-> IF t \in gone THEN Gone ELSE kept[t]]
        /\ writing' = writing \ gone
        /\ UNCHANGED <<nameOf, selected, dialog, clicks>> /\ PickerFollows
    BY <1>2 DEF RemovalFails, Abandon, listVars
  <2>2. cards' \in FavCards /\ kept' \in FavCards /\ writing' \subseteq FavoriteTasks
    BY <2>1 DEF FavTyped, FavCards
  <2>3. picker' \in PickerStates
    BY <2>1, <2>2, PickerFollowsTyped DEF FavTyped
  <2> QED
    BY <2>1, <2>2, <2>3 DEF FavTyped
<1> QED
  BY <1>1, <1>2

\* Only a drag, its end, failures and loading touch the drag and what is stray.
LEMMA DragsTyped ==
    ASSUME FavTyped, DragTyped, FavTyped', [FavoritesNext]_favoriteVars
    PROVE  DragTyped'
<1>1. ASSUME UNCHANGED <<drag, stray>> PROVE DragTyped'
  BY <1>1 DEF DragTyped
<1>2. CASE UNCHANGED favoriteVars
  BY <1>1, <1>2 DEF favoriteVars, selectVars
<1>3. NoDrag \in [on: BOOLEAN, moved: BOOLEAN, from: SUBSET (AllIds \cup {All})]
  BY DEF NoDrag
<1>4. selected \subseteq AllIds \cup {All} /\ selected' \subseteq AllIds \cup {All}
  BY DEF FavTyped
<1>5. ASSUME NEW n, NEW opened, Create(n, opened) PROVE DragTyped'
  BY <1>1, <1>5 DEF Create, selectVars
<1>6. ASSUME NEW c, NEW n, Rename(c, n) PROVE DragTyped'
  BY <1>1, <1>6 DEF Rename, selectVars
<1>7. ASSUME NEW c, NEW target, NEW after, Reorder(c, target, after) PROVE DragTyped'
  BY <1>1, <1>7 DEF Reorder, selectVars
<1>8. ASSUME NEW c, ChooseDefault(c) \/ Toggle(c) PROVE DragTyped'
  BY <1>1, <1>8 DEF ChooseDefault, SetPreferred, Toggle, selectVars
<1>9. ASSUME NEW kind, NEW ids, AskDelete(kind, ids) PROVE DragTyped'
  BY <1>1, <1>9 DEF AskDelete, selectVars
<1>10. CASE Dismiss \/ ConfirmDefault
  BY <1>1, <1>10 DEF Dismiss, ConfirmDefault, SetPreferred, selectVars
<1>11. ASSUME NEW d, Deleted(d) \/ NextDeletion(d) \/ \E images \in BOOLEAN : ConfirmDelete(d, images)
       PROVE  DragTyped'
  BY <1>1, <1>11 DEF Deleted, EndsDeletion, NextDeletion, ConfirmDelete, Unselects
<1>12. ASSUME NEW ds, Abandon(ds) PROVE DragTyped'
  BY <1>4, <1>12 DEF Abandon, DragTyped
<1>13. ASSUME NEW d, NEW gone, NEW t, RemovalFails(d, gone) \/ WriteFails(t) PROVE DragTyped'
  BY <1>12, <1>13 DEF RemovalFails, WriteFails
<1>14. ASSUME NEW ts, OpenPicker(ts) \/ ClosePicker \/ ConfirmPicker PROVE DragTyped'
  BY <1>1, <1>14 DEF OpenPicker, ClosePicker, ConfirmPicker, selectVars
<1>15. ASSUME NEW ids, Select(ids) \/ Flip(ids) PROVE DragTyped'
  BY <1>1, <1>15 DEF Select, Flip
<1>16. ASSUME NEW ids, DragMoves(ids) PROVE DragTyped'
  BY <1>4, <1>16 DEF DragMoves, DragTyped
<1>17. CASE DragBegins
  BY <1>4, <1>17 DEF DragBegins, DragTyped
<1>18. ASSUME NEW empties, NEW c, DragEnds(empties) \/ OpenCollection(c) PROVE DragTyped'
  BY <1>3, <1>18 DEF DragEnds, OpenCollection, DragTyped
<1>19. ASSUME NEW t, Written(t) PROVE DragTyped'
  BY <1>1, <1>19 DEF Written, selectVars
<1>20. ASSUME NEW c, NEW t, NEW card, Import(c, t, card) PROVE DragTyped'
  <2>1. drag' = drag /\ stray' \subseteq stray
    BY <1>20 DEF Import
  <2> QED
    BY <2>1 DEF DragTyped
<1>21. CASE Reload
  BY <1>3, <1>21 DEF Reload, DragTyped
<1> QED
  BY <1>2, <1>5, <1>6, <1>7, <1>8, <1>9, <1>10, <1>11, <1>13, <1>14, <1>15, <1>16, <1>17, <1>18,
     <1>19, <1>20, <1>21 DEF FavoritesNext

LEMMA FavoritesTypes ==
    /\ FavoritesInit => FavTyped /\ DragTyped
    /\ FavoritesInv /\ FavTyped /\ DragTyped /\ [FavoritesNext]_favoriteVars => FavTyped' /\ DragTyped'
<1>1. ASSUME FavoritesInit PROVE FavTyped /\ DragTyped
  <2>0. PICK s \in Saved :
            cards = [t \in FavoriteTasks |-> [ids |-> Elements(s), favorite |-> s # <<>>]]
    BY <1>1 DEF FavoritesInit
  <2>1. /\ nameOf = [c \in AllIds |-> IF c \in Listed THEN DefaultName ELSE NoName]
        /\ selected = {} /\ kept = cards /\ writing = {} /\ drag = NoDrag /\ stray = {}
        /\ picker = ClosedPicker /\ dialog = NoDialog /\ clicks = 0
    BY <1>1 DEF FavoritesInit
  <2>2. [ids |-> Elements(s), favorite |-> s # <<>>] \in Card
    <3>1. s \in Seq(AllIds)
      <4>1. s \in Seq(CollectionIds)
        BY WebFavoritesAssumption
      <4> QED
        BY <4>1 DEF AllIds
    <3>2. Elements(s) \in SUBSET AllIds
      BY <3>1, ElementsOf
    <3> QED
      BY <3>2 DEF Card
  <2>3. MaxClicks \in Nat
    BY WebFavoritesAssumption
  <2>4. clicks \in 0..MaxClicks
    BY <2>1, <2>3
  <2>5. dialog.kind = "none" /\ picker \in PickerStates
    BY <2>1 DEF NoDialog, ClosedPicker, PickerStates
  <2>6. nameOf \in [AllIds -> Names \cup {NoName}]
    BY <2>1, NowhereIsNoId
  <2>7. cards \in FavCards
    BY <2>0, <2>2 DEF FavCards
  <2>8. DragTyped
    BY <2>1 DEF DragTyped, NoDrag
  <2> QED
    BY <2>1, <2>4, <2>5, <2>6, <2>7, <2>8 DEF FavTyped
<1>2. ASSUME FavoritesInv, FavTyped, DragTyped, [FavoritesNext]_favoriteVars PROVE FavTyped'
  <2>1. FavoritesInv'
    BY <1>2, NextFavoritesInv
  <2>2. preferred' \in Preferable
    <3>1. favorites' \in Seq(AllIds) /\ Listed' = Elements(favorites')
          /\ preferred' \in Listed' \cup {Nowhere}
      BY <2>1 DEF FavoritesInv, ListInv, Listed
    <3>2. Elements(favorites') \subseteq AllIds
      BY <3>1, ElementsOf
    <3> QED
      BY <3>1, <3>2 DEF Preferable
  <2>3. CASE UNCHANGED favoriteVars
    BY <1>2, <2>3 DEF favoriteVars, listVars, cardVars, selectVars, FavTyped
  <2>4. ASSUME NEW n \in Names, NEW opened \in BOOLEAN, Create(n, opened) PROVE FavTyped'
    BY <1>2, <2>4, CreateTyped
  <2>5. ASSUME NEW c \in CollectionIds, NEW t \in FavoriteTasks, NEW card \in Card, Import(c, t, card)
        PROVE  FavTyped'
    BY <1>2, <2>2, <2>5, ImportTyped
  <2>6. CASE Reload
    BY <1>2, <2>6, ReloadTyped
  <2>7. ASSUME NEW d \in Deletions,
               Deleted(d) \/ NextDeletion(d) \/ \E images \in BOOLEAN : ConfirmDelete(d, images)
        PROVE  FavTyped'
    BY <1>2, <2>2, <2>7, DeletionTyped
  <2>8. CASE \/ \E c \in AllIds : ChooseDefault(c) \/ AskDelete("delete", <<c>>)
             \/ AskDelete("batch", SelectSeq(favorites, LAMBDA c : c \in selected))
             \/ Dismiss \/ ConfirmDefault
    BY <1>2, <2>2, <2>8, DialogsTyped
  <2>9. CASE \/ \E c \in AllIds : Toggle(c)
             \/ \E ts \in SUBSET FavoriteTasks : OpenPicker(ts)
             \/ ClosePicker \/ ConfirmPicker
    BY <1>2, <2>9, PickingTyped
  <2>10. CASE \/ \E c \in AllIds, n \in Names : Rename(c, n)
              \/ \E c, target \in AllIds, after \in BOOLEAN : Reorder(c, target, after)
              \/ \E ids \in SUBSET (AllIds \cup {All}) : Select(ids) \/ Flip(ids) \/ DragMoves(ids)
              \/ DragBegins \/ \E empties \in BOOLEAN : DragEnds(empties)
              \/ \E c \in AllIds \cup {All, Nowhere} : OpenCollection(c)
              \/ \E t \in FavoriteTasks : Written(t)
    BY <1>2, <2>10, RestOfPageTyped
  <2>11. CASE \/ \E t \in FavoriteTasks : WriteFails(t)
              \/ \E d \in Deletions, gone \in SUBSET FavoriteTasks : RemovalFails(d, gone)
    BY <1>2, <2>2, <2>11, FailuresTyped
  <2> QED
    BY <1>2, <2>3, <2>4, <2>5, <2>6, <2>7, <2>8, <2>9, <2>10, <2>11 DEF FavoritesNext
<1> QED
  BY <1>1, <1>2, DragsTyped

-----------------------------------------------------------------------------
(* The managed scope. *)

Readings  == [pc: Level \cup {"idle"}, base: Scope, next: Scope, lists: SUBSET Ids]
Creations == [id: Creatable \cup {NoId}, base: Scope]
Keys      == {NoKey} \cup (Ids \X (Ids \cup {NoId}))

\* A scope is loaded under the key it has when its workspace is known, which is
\* so for the settings' scope: it is always complete.
ManagedTyped ==
    /\ served \subseteq Ids /\ options \subseteq Ids
    /\ stored \in Scope /\ Whole(stored) /\ drafted \in Scope /\ wholes \subseteq Scope
    /\ window \in BOOLEAN /\ moves \in 0 .. MaxManaged
    /\ loadKey \in Keys /\ reading \in Readings
    /\ creating \in Creations /\ (creating = NotCreating \/ creating.id \in Creatable)

LEMMA SampleIs == Sample \in Scope /\ Whole(Sample) /\ \A l \in Level : Sample[l] \in Ids
<1>1. /\ Sample = [l \in Level |-> Sample[l]]
      /\ \A l \in Level : Sample[l] # NoId /\ Sample[l] \in Ids
  BY WebManagedAssumption DEF Level, NoId, Ids
<1> QED
  BY <1>1 DEF Scope, Whole

LEMMA ScopesMade ==
    ASSUME NEW s \in Scope
    PROVE  /\ Filled(s) \in Scope /\ Whole(Filled(s))
           /\ \A l, id : id \in Ids \cup {NoId} => Chosen(s, l, id) \in Scope
           /\ Whole(s) => KeyOf(s) \in Keys
           /\ Loading(s) \in Readings
<1>1. \A l \in Level : s[l] \in Ids \cup {NoId}
  BY DEF Scope
<1>2. \A l \in Level : Filled(s)[l] \in Ids /\ Filled(s)[l] # NoId
  BY <1>1, SampleIs DEF Filled, Whole
<1>3. Filled(s) \in Scope /\ Whole(Filled(s))
  <2>1. Filled(s) = [l \in Level |-> Filled(s)[l]]
    BY DEF Filled
  <2>2. Filled(s) \in [Level -> Ids \cup {NoId}]
    BY <1>2, <2>1
  <2> QED
    BY <1>2, <2>2 DEF Scope, Whole
<1>4. ASSUME NEW l, NEW id \in Ids \cup {NoId} PROVE Chosen(s, l, id) \in Scope
  BY <1>1 DEF Chosen, Scope
<1>5. ASSUME Whole(s) PROVE KeyOf(s) \in Keys
  <2>1. s["w"] \in Ids /\ s["p"] \in Ids
    BY <1>1, <1>5 DEF Whole, Level
  <2> QED
    BY <2>1 DEF KeyOf, Keys
<1>6. Loading(s) \in Readings
  BY DEF Loading, Readings, Level
<1> QED
  BY <1>3, <1>4, <1>5, <1>6

LEMMA DraftsTyped ==
    ASSUME NEW s \in Scope, wholes \subseteq Scope, Drafts(s)
    PROVE  drafted' \in Scope /\ wholes' \subseteq Scope
  BY DEF Drafts

LEMMA NotLoadingIs == NotLoading \in Readings /\ NotCreating \in Creations
  BY SampleIs DEF NotLoading, Readings, NotCreating, Creations

LEMMA CommitTyped ==
    ASSUME ManagedTyped, NEW s \in Scope, NEW rest \in Readings, CommitIfComplete(s, rest)
    PROVE  /\ stored' \in Scope /\ Whole(stored') /\ drafted' \in Scope /\ wholes' \subseteq Scope
           /\ loadKey' \in Keys /\ reading' \in Readings
<1>1. drafted' \in Scope /\ wholes' \subseteq Scope
  BY DraftsTyped DEF CommitIfComplete, ManagedTyped
<1>2. CASE Whole(s)
  BY <1>1, <1>2, ScopesMade DEF CommitIfComplete, ManagedTyped
<1>3. CASE ~Whole(s)
  BY <1>1, <1>3 DEF CommitIfComplete, ManagedTyped
<1> QED
  BY <1>2, <1>3

LEMMA MoveTyped == ASSUME moves \in 0 .. MaxManaged, Move PROVE moves' \in 0 .. MaxManaged
<1>1. MaxManaged \in Nat
  BY WebManagedAssumption
<1> QED
  BY <1>1 DEF Move

LEMMA AnswerTyped ==
    ASSUME ManagedTyped, NEW l \in Level, Answer(l)
    PROVE  ManagedTyped'
<1> DEFINE found == Children(l, reading.next)
           next  == IF reading.next[l] \in found THEN reading.next
                    ELSE Chosen(reading.next, l, First(found))
           names == reading.lists \cup found
<1>1. reading \in Readings /\ reading.next \in Scope /\ reading.lists \subseteq Ids
  BY DEF ManagedTyped, Readings
<1>2. found \subseteq served /\ served \subseteq Ids
  BY DEF Children, ManagedTyped
<1>3. First(found) \in Ids \cup {NoId}
  <2> HIDE DEF found
  <2> QED
    BY <1>2 DEF First
<1>4. next \in Scope
  <2> HIDE DEF found
  <2> QED
    BY <1>1, <1>3, ScopesMade
<1>5. names \subseteq Ids
  BY <1>1, <1>2
<1>6. served' = served /\ window' = window /\ creating' = creating /\ moves' = moves
  BY DEF Answer
<1>7. \/ /\ \E q \in Level : reading' = [reading EXCEPT !.pc = q, !.next = next, !.lists = names]
         /\ UNCHANGED <<stored, drafted, options, loadKey, wholes>>
      \/ /\ options' = names
         /\ CommitIfComplete(next, NotLoading)
      \/ /\ options' = names /\ Drafts(next) /\ reading' = NotLoading
         /\ UNCHANGED <<stored, loadKey>>
  BY DEF Answer, Level
<1> HIDE DEF found, next, names
<1>8. CASE /\ \E q \in Level : reading' = [reading EXCEPT !.pc = q, !.next = next, !.lists = names]
           /\ UNCHANGED <<stored, drafted, options, loadKey, wholes>>
  <2>1. PICK q \in Level : reading' = [reading EXCEPT !.pc = q, !.next = next, !.lists = names]
    BY <1>8
  <2>2. reading' \in Readings
    BY <1>1, <1>4, <1>5, <2>1 DEF Readings
  <2> QED
    BY <1>6, <1>8, <2>2, Zenon DEF ManagedTyped, Whole, NotCreating
<1>9. CASE options' = names /\ CommitIfComplete(next, NotLoading)
  <2>1. /\ stored' \in Scope /\ Whole(stored') /\ drafted' \in Scope /\ wholes' \subseteq Scope
        /\ loadKey' \in Keys /\ reading' \in Readings
    BY <1>4, <1>9, CommitTyped, NotLoadingIs
  <2> QED
    BY <1>5, <1>6, <1>9, <2>1 DEF ManagedTyped
<1>10. CASE /\ options' = names /\ Drafts(next) /\ reading' = NotLoading
            /\ UNCHANGED <<stored, loadKey>>
  <2>1. drafted' \in Scope /\ wholes' \subseteq Scope
    BY <1>4, <1>10, DraftsTyped DEF ManagedTyped
  <2> QED
    BY <1>5, <1>6, <1>10, <2>1, NotLoadingIs DEF ManagedTyped
<1> QED
  BY <1>7, <1>8, <1>9, <1>10

LEMMA WindowTyped ==
    ASSUME ManagedTyped, OpenSettings \/ CloseSettings \/ CommitOther \/ BlurScopeId \/ Refresh
    PROVE  ManagedTyped'
<1>1. stored \in Scope /\ Whole(stored) /\ drafted \in Scope /\ reading \in Readings
  BY DEF ManagedTyped
<1>2. CASE OpenSettings
  <2>1. reading' \in Readings /\ loadKey' \in Keys /\ moves' \in 0 .. MaxManaged
    BY <1>1, <1>2, ScopesMade, MoveTyped DEF OpenSettings, ManagedTyped
  <2> QED
    BY <1>2, <2>1 DEF OpenSettings, ManagedTyped
<1>3. CASE CloseSettings
  <2>1. Preserved(drafted) \in Scope
    BY <1>1 DEF Preserved
  <2>2. stored' \in Scope /\ Whole(stored') /\ drafted' \in Scope
    BY <1>3, <2>1, ScopesMade DEF CloseSettings
  <2> QED
    BY <1>3, <2>2 DEF CloseSettings, ManagedTyped, Keys
<1>4. CASE CommitOther
  <2> DEFINE s == Filled(drafted)
  <2>1. s \in Scope /\ Whole(s) /\ Loading(s) \in Readings /\ KeyOf(s) \in Keys
    BY <1>1, ScopesMade
  <2>2. /\ drafted' = s /\ stored' = s
        /\ \/ reading' = Loading(s) /\ loadKey' = KeyOf(s)
           \/ UNCHANGED <<reading, loadKey>>
    BY <1>4 DEF CommitOther, Commit
  <2>3. moves' \in 0 .. MaxManaged
    BY <1>4, MoveTyped DEF CommitOther, ManagedTyped
  <2> HIDE DEF s
  <2> QED
    BY <1>4, <2>1, <2>2, <2>3 DEF CommitOther, ManagedTyped
<1>5. CASE BlurScopeId
  <2>1. /\ stored' \in Scope /\ Whole(stored') /\ drafted' \in Scope /\ wholes' \subseteq Scope
        /\ loadKey' \in Keys /\ reading' \in Readings
    BY <1>1, <1>5, CommitTyped DEF BlurScopeId
  <2> QED
    BY <1>5, <2>1 DEF BlurScopeId, ManagedTyped
<1>6. CASE Refresh
  <2>1. reading' \in Readings /\ loadKey' \in Keys /\ moves' \in 0 .. MaxManaged
    BY <1>1, <1>6, ScopesMade, MoveTyped DEF Refresh, ManagedTyped, Keys
  <2> QED
    BY <1>6, <2>1 DEF Refresh, ManagedTyped
<1> QED
  BY <1>2, <1>3, <1>4, <1>5, <1>6

LEMMA ChoiceTyped ==
    ASSUME ManagedTyped, NEW id \in Ids \cup {NoId}, NEW l,
           \/ ChooseParent(id) \/ ChooseCampaign(id) \/ TypeScopeId(l, id)
    PROVE  ManagedTyped'
<1>1. moves' \in 0 .. MaxManaged
  BY MoveTyped DEF ChooseParent, ChooseCampaign, TypeScopeId, ManagedTyped
<1>2. drafted \in Scope /\ reading \in Readings /\ wholes \subseteq Scope
  BY DEF ManagedTyped
<1>3. CASE ChooseParent(id)
  <2> DEFINE s == Chosen(drafted, LevelOf(id), id)
  <2>1. s \in Scope
    BY <1>2, ScopesMade
  <2>2. Drafts(s) /\ reading' = Loading(s) /\ loadKey' = NoKey
    BY <1>3 DEF ChooseParent
  <2> HIDE DEF s
  <2>3. drafted' \in Scope /\ wholes' \subseteq Scope /\ reading' \in Readings
    BY <1>2, <2>1, <2>2, DraftsTyped, ScopesMade
  <2> QED
    BY <1>1, <1>3, <2>2, <2>3 DEF ChooseParent, ManagedTyped, Keys
<1>4. CASE ChooseCampaign(id)
  <2>1. /\ stored' \in Scope /\ Whole(stored') /\ drafted' \in Scope /\ wholes' \subseteq Scope
        /\ loadKey' \in Keys /\ reading' \in Readings
    BY <1>2, <1>4, CommitTyped, ScopesMade DEF ChooseCampaign
  <2> QED
    BY <1>1, <1>4, <2>1 DEF ChooseCampaign, ManagedTyped
<1>5. CASE TypeScopeId(l, id)
  <2>1. Drafts(Chosen(drafted, l, id))
    BY <1>5 DEF TypeScopeId
  <2>2. drafted' \in Scope /\ wholes' \subseteq Scope
    BY <1>2, <2>1, DraftsTyped, ScopesMade
  <2> QED
    BY <1>1, <1>5, <2>2 DEF TypeScopeId, ManagedTyped
<1> QED
  BY <1>3, <1>4, <1>5

LEMMA CreationTyped ==
    ASSUME ManagedTyped, \/ \E id \in Creatable : StartCreate(id)
                         \/ Created \/ CreateFails
    PROVE  ManagedTyped'
<1>1. creating \in Creations /\ drafted \in Scope
  BY DEF ManagedTyped
<1>2. ASSUME NEW id \in Creatable, StartCreate(id) PROVE ManagedTyped'
  <2>1. creating' = [id |-> id, base |-> drafted] /\ moves' \in 0 .. MaxManaged
    BY <1>2, MoveTyped DEF StartCreate, ManagedTyped
  <2>2. creating' \in Creations /\ creating'.id \in Creatable
    BY <1>1, <2>1 DEF Creations
  <2> QED
    BY <1>2, <2>1, <2>2 DEF StartCreate, ManagedTyped
<1>3. CASE CreateFails
  BY <1>3, NotLoadingIs DEF CreateFails, ManagedTyped
<1>4. CASE Created
  <2> DEFINE l == LevelOf(creating.id)
             s == Chosen(creating.base, l, creating.id)
  <2>1. creating.id \in Creatable /\ creating.base \in Scope
    BY <1>1, <1>4 DEF Created, ManagedTyped, Creations
  <2>2. creating.id \in Ids
    BY <2>1 DEF Ids
  <2>3. s \in Scope
    BY <2>1, <2>2, ScopesMade
  <2>4. /\ Drafts(s) /\ reading' = Loading(s) /\ creating' = NotCreating
        /\ served' = served \cup {creating.id}
        /\ UNCHANGED <<window, options, moves>>
        /\ \/ stored' = s /\ Whole(s) /\ loadKey' \in {KeyOf(s), NoKey}
           \/ stored' = stored /\ loadKey' = NoKey
    BY <1>4 DEF Created
  <2> HIDE DEF l, s
  <2>5. drafted' \in Scope /\ wholes' \subseteq Scope
    BY <2>3, <2>4, DraftsTyped DEF ManagedTyped
  <2>6. reading' \in Readings /\ (Whole(s) => KeyOf(s) \in Keys) /\ NoKey \in Keys
    BY <2>3, <2>4, ScopesMade DEF Keys
  <2>7. stored' \in Scope /\ Whole(stored') /\ loadKey' \in Keys
    BY <2>3, <2>4, <2>6 DEF ManagedTyped
  <2> QED
    BY <2>2, <2>4, <2>5, <2>6, <2>7, NotLoadingIs DEF ManagedTyped
<1> QED
  BY <1>2, <1>3, <1>4

LEMMA ManagedTypes ==
    /\ ManagedInit => ManagedTyped
    /\ ManagedTyped /\ [ManagedNext]_managedVars => ManagedTyped'
    /\ ManagedTyped => ManagedTypeOK
<1>1. ASSUME ManagedInit PROVE ManagedTyped
  <2>1. 0 \in 0 .. MaxManaged
    <3>1. MaxManaged \in Nat
      BY WebManagedAssumption
    <3> QED
      BY <3>1
  <2>2. Served \subseteq Ids
    BY DEF Ids
  <2> QED
    BY <1>1, <2>1, <2>2, SampleIs, NotLoadingIs DEF ManagedInit, ManagedTyped, Keys
<1>2. ASSUME ManagedTyped, ManagedNext PROVE ManagedTyped'
  <2>1. served \subseteq Ids /\ Typable \subseteq Ids
    BY <1>2 DEF ManagedTyped, Ids
  <2>2. ASSUME NEW id \in served, ChooseParent(id) \/ ChooseCampaign(id) PROVE ManagedTyped'
    BY <1>2, <2>1, <2>2, ChoiceTyped
  <2>3. ASSUME NEW l \in Level, NEW id \in Typable \cup {NoId}, TypeScopeId(l, id)
        PROVE  ManagedTyped'
    BY <1>2, <2>1, <2>3, ChoiceTyped
  <2>4. ASSUME NEW l \in Level, Answer(l) PROVE ManagedTyped'
    BY <1>2, <2>4, AnswerTyped
  <2>5. CASE ReadingFails
    BY <1>2, <2>5, NotLoadingIs DEF ReadingFails, ManagedTyped
  <2> QED
    BY <1>2, <2>2, <2>3, <2>4, <2>5, WindowTyped, CreationTyped DEF ManagedNext
<1>3. ASSUME ManagedTyped, UNCHANGED managedVars PROVE ManagedTyped'
  BY <1>3 DEF managedVars, ManagedTyped
<1>4. ASSUME ManagedTyped PROVE ManagedTypeOK
  BY <1>4 DEF ManagedTyped, ManagedTypeOK, Readings, Creations, Keys
<1> QED
  BY <1>1, <1>2, <1>3, <1>4

-----------------------------------------------------------------------------
(* The input bar: its images are listed once, whatever is inserted, moved,   *)
(* replaced or masked.                                                       *)

Lacks(s, x) == \A i \in DOMAIN s : s[i] # x

LEMMA OnceRemoved ==
    ASSUME NEW s \in Seq(InputPictures), IsInjective(s), NEW k \in DOMAIN s
    PROVE  IsInjective(RemoveAt(s, k)) /\ Lacks(RemoveAt(s, k), s[k])
<1> DEFINE d == RemoveAt(s, k)
           at(j) == IF j < k THEN j ELSE j + 1
<1>1. Len(s) \in Nat /\ DOMAIN s = 1..Len(s) /\ k \in 1..Len(s)
  OBVIOUS
<1>2. /\ d \in Seq(InputPictures) /\ Len(d) = Len(s) - 1
      /\ \A j \in 1..(Len(s) - 1) : d[j] = IF j < k THEN s[j] ELSE s[j + 1]
  BY RemoveAtIs
<1> HIDE DEF d
<1>3. DOMAIN d = 1..(Len(s) - 1)
  BY <1>2
<1>4. \A j \in 1..(Len(s) - 1) : at(j) \in DOMAIN s /\ at(j) # k /\ d[j] = s[at(j)]
  BY <1>1, <1>2
<1>5. \A i, j \in 1..(Len(s) - 1) : at(i) = at(j) => i = j
  BY <1>1
<1> HIDE DEF at
<1>6. \A i, j \in DOMAIN s : s[i] = s[j] => i = j
  BY DEF IsInjective
<1>7. Lacks(d, s[k])
  BY <1>3, <1>4, <1>6 DEF Lacks
<1>8. \A i, j \in DOMAIN d : d[i] = d[j] => i = j
  BY <1>3, <1>4, <1>5, <1>6
<1> QED
  BY <1>7, <1>8 DEF IsInjective, d

LEMMA OncePut ==
    ASSUME NEW r \in Seq(InputPictures), IsInjective(r), NEW k \in 1..(Len(r) + 1), NEW x,
           Lacks(r, x), NEW new, IsInserted(new, InputPictures, r, k, x)
    PROVE  IsInjective(new)
<1> DEFINE n == Len(r)
           at(j) == IF j < k THEN j ELSE j - 1
<1>1. n \in Nat /\ DOMAIN r = 1..n /\ k \in 1..(n + 1)
  OBVIOUS
<1>2. /\ DOMAIN new = 1..(n + 1)
      /\ \A i \in 1..(n + 1) : new[i] = IF i < k THEN r[i] ELSE IF i = k THEN x ELSE r[i - 1]
  BY <1>1 DEF IsInserted
<1>3. \A i \in 1..(n + 1) : i # k => at(i) \in DOMAIN r /\ new[i] = r[at(i)]
  BY <1>1, <1>2
<1>4. \A i, j \in 1..(n + 1) : i # k /\ j # k /\ at(i) = at(j) => i = j
  BY <1>1
<1>5. k \in 1..(n + 1) /\ new[k] = x
  BY <1>1, <1>2
<1> HIDE DEF at
<1>6. \A i, j \in DOMAIN r : r[i] = r[j] => i = j
  BY DEF IsInjective
<1>7. \A i \in DOMAIN r : r[i] # x
  BY DEF Lacks
<1>8. \A i, j \in DOMAIN new : new[i] = new[j] => i = j
  BY <1>2, <1>3, <1>4, <1>5, <1>6, <1>7
<1> QED
  BY <1>8 DEF IsInjective

\* An image in front of the others, or behind them.
LEMMA OnceJoined ==
    ASSUME NEW s \in Seq(InputPictures), IsInjective(s), NEW x \in InputPictures, Lacks(s, x)
    PROVE  IsInjective(<<x>> \o s) /\ IsInjective(Append(s, x))
<1> DEFINE n == Len(s)
           f == <<x>> \o s
           a == Append(s, x)
<1>1. n \in Nat /\ DOMAIN s = 1..n
  OBVIOUS
<1>2. /\ DOMAIN f = 1..(n + 1) /\ f[1] = x
      /\ \A i \in 1..(n + 1) : i # 1 => f[i] = s[i - 1]
  OBVIOUS
<1>3. /\ DOMAIN a = 1..(n + 1) /\ a[n + 1] = x
      /\ \A i \in 1..n : a[i] = s[i]
  OBVIOUS
<1> HIDE DEF f, a
<1>4. \A i, j \in 1..n : s[i] = s[j] => i = j
  BY <1>1 DEF IsInjective
<1>5. \A i \in 1..n : s[i] # x
  BY <1>1 DEF Lacks
<1>6. \A i \in 1..(n + 1) : i # 1 => i - 1 \in 1..n
  BY <1>1
<1>7. \A i \in 1..(n + 1) : i # n + 1 => i \in 1..n
  BY <1>1
<1>8. \A i, j \in DOMAIN f : f[i] = f[j] => i = j
  <2> SUFFICES ASSUME NEW i \in 1..(n + 1), NEW j \in 1..(n + 1), f[i] = f[j] PROVE i = j
    BY <1>2
  <2>1. CASE i = 1 \/ j = 1
    BY <1>2, <1>5, <1>6, <2>1
  <2>2. CASE i # 1 /\ j # 1
    <3>1. i - 1 = j - 1
      BY <1>2, <1>4, <1>6, <2>2
    <3> QED
      BY <3>1
  <2> QED
    BY <2>1, <2>2
<1>9. \A i, j \in DOMAIN a : a[i] = a[j] => i = j
  BY <1>3, <1>4, <1>5, <1>7
<1> QED
  BY <1>8, <1>9 DEF IsInjective, f, a

\* One image in the place of another.
LEMMA OnceReplaced ==
    ASSUME NEW s \in Seq(InputPictures), IsInjective(s), NEW k, NEW x, Lacks(s, x)
    PROVE  IsInjective(ReplaceAt(s, k, x))
<1>1. ReplaceAt(s, k, x) = [j \in 1..Len(s) |-> IF j = k THEN x ELSE s[j]]
  BY DEF ReplaceAt
<1>2. DOMAIN s = 1..Len(s)
  OBVIOUS
<1> QED
  BY <1>1, <1>2 DEF IsInjective, Lacks

LEMMA OnceMaskFirst ==
    ASSUME NEW s \in Seq(InputPictures), IsInjective(s), NEW m
    PROVE  IsInjective(MaskFirst(s, m))
<1> DEFINE i == PositionOf(s, m)
<1>1. i \in 0..Len(s) /\ (i # 0 => i \in DOMAIN s /\ s[i] = m) /\ Len(s) \in Nat
  BY PositionIs
<1>2. MaskFirst(s, m) = IF i <= 1 THEN s ELSE <<m>> \o RemoveAt(s, i)
  BY DEF MaskFirst
<1> HIDE DEF i
<1>3. CASE i <= 1
  BY <1>2, <1>3
<1>4. CASE ~(i <= 1)
  <2>1. i \in DOMAIN s /\ s[i] = m
    BY <1>1, <1>4
  <2>2. m \in InputPictures
    BY <2>1
  <2>3. RemoveAt(s, i) \in Seq(InputPictures) /\ IsInjective(RemoveAt(s, i)) /\ Lacks(RemoveAt(s, i), m)
    BY <2>1, RemoveAtIs, OnceRemoved
  <2> QED
    BY <1>2, <1>4, <2>2, <2>3, OnceJoined
<1> QED
  BY <1>3, <1>4

LEMMA OnceDropped ==
    ASSUME NEW s \in Seq(InputPictures), IsInjective(s), NEW x
    PROVE  IsInjective(Dropped(s, x)) /\ Lacks(Dropped(s, x), x)
<1> DEFINE i == PositionOf(s, x)
<1>1. /\ (i # 0 => i \in DOMAIN s /\ s[i] = x) /\ (ListsPicture(s, x) <=> i # 0)
      /\ i = 0 => \A j \in DOMAIN s : s[j] # x
  BY PositionIs
<1>2. Dropped(s, x) = IF ListsPicture(s, x) THEN RemoveAt(s, i) ELSE s
  BY DEF Dropped
<1> HIDE DEF i
<1>3. CASE ListsPicture(s, x)
  BY <1>1, <1>2, <1>3, OnceRemoved
<1>4. CASE ~ListsPicture(s, x)
  BY <1>1, <1>2, <1>4 DEF Lacks
<1> QED
  BY <1>3, <1>4

LEMMA DroppedSeq == ASSUME NEW s \in Seq(InputPictures), NEW x PROVE Dropped(s, x) \in Seq(InputPictures)
  BY DroppedIs

LEMMA OnceTargetReplaced ==
    ASSUME NEW s \in Seq(InputPictures), IsInjective(s), NEW t, NEW c \in InputPictures
    PROVE  IsInjective(MaskTargetReplaced(s, t, c))
<1> DEFINE r == Dropped(Dropped(s, t), c)
           new == MaskTargetReplaced(s, t, c)
<1>1. \/ new = <<c>> \o s /\ Lacks(s, c)
      \/ \E k \in 1..(Len(r) + 1) : IsInserted(new, InputPictures, r, k, c)
  BY MaskTargetType DEF Lacks
<1>2. r \in Seq(InputPictures) /\ IsInjective(r) /\ Lacks(r, c)
  <2>1. Dropped(s, t) \in Seq(InputPictures) /\ IsInjective(Dropped(s, t))
    BY DroppedSeq, OnceDropped
  <2> QED
    BY <2>1, DroppedSeq, OnceDropped
<1> HIDE DEF r, new
<1>3. IsInjective(new)
  BY <1>1, <1>2, OnceJoined, OncePut
<1> QED
  BY <1>3 DEF new

-----------------------------------------------------------------------------
(* What is drawn, mapped or masked keeps the images it is given. *)

LEMMA ImagesSetImages ==
    ASSUME NEW b \in Bar, NEW images, NEW equal, NEW ends
    PROVE  /\ ImagesSet(b, images, equal, ends).images = images
           /\ "images" \in DOMAIN ImagesSet(b, images, equal, ends)
  BY DEF ImagesSet, Bar

LEMMA BarDomain == \A b \in Bar : "images" \in DOMAIN b
  BY DEF Bar

LEMMA SetBarImages ==
    ASSUME NEW next, "images" \in DOMAIN next, NEW fresh \in BOOLEAN, SetBar(next, fresh)
    PROVE  bar'.images = next.images
<1> DEFINE c == fresh \/ next.images # bar.images \/ next.prompt # bar.prompt
<1>1. bar' = Rendered(next, c)
  BY DEF SetBar
<1> HIDE DEF c
<1>2. \/ Rendered(next, c) = next
      \/ Rendered(next, c) = [next EXCEPT !.typed = FALSE]
      \/ Rendered(next, c) = [next EXCEPT !.dom = MentionParts(next.prompt, next.images)]
  BY DEF Rendered
<1> DEFINE d == MentionParts(next.prompt, next.images)
<1> HIDE DEF d
<1>3. [next EXCEPT !.typed = FALSE].images = next.images /\ [next EXCEPT !.dom = d].images = next.images
  OBVIOUS
<1> QED
  BY <1>1, <1>2, <1>3 DEF d

LEMMA SetImagesImages ==
    ASSUME NEW b \in Bar, NEW images, NEW equal, NEW ends, NEW fresh \in BOOLEAN,
           SetBar(ImagesSet(b, images, equal, ends), fresh)
    PROVE  bar'.images = images
<1> DEFINE n == ImagesSet(b, images, equal, ends)
<1>1. n.images = images /\ "images" \in DOMAIN n
  BY ImagesSetImages
<1> HIDE DEF n
<1> QED
  BY <1>1, SetBarImages DEF n

\* What the bar and the number of acts are in every state.
OnceListed(images) == images \in Seq(InputPictures) /\ IsInjective(images)
InputTyped == InputInv /\ OnceListed(bar.images) /\ inputActs \in 0..MaxInputActs

\* The tasks to reuse have each image once.
ImagesOnce == \A t \in Reusable : IsInjective(t.images)

LEMMA MaskFirstListed == ASSUME NEW s, OnceListed(s), NEW m PROVE OnceListed(MaskFirst(s, m))
  BY MaskFirstIs, OnceMaskFirst DEF OnceListed

LEMMA NoImages == OnceListed(<<>>)
  BY DEF OnceListed, IsInjective

\* setInputImages and setMaskDraft
LEMMA InputImagesListed ==
    ASSUME NEW b \in Bar, NEW images, OnceListed(images), NEW equal
    PROVE  OnceListed(InputImagesSet(b, images, equal).images)
<1> DEFINE o == MaskFirst(images, b.mask)
           e == b.mask # NoPicture /\ ~ListsPicture(o, b.mask)
<1>1. OnceListed(o)
  BY MaskFirstListed
<1>2. InputImagesSet(b, images, equal) = ImagesSet(b, o, equal, e)
  BY DEF InputImagesSet
<1> HIDE DEF o, e
<1>3. InputImagesSet(b, images, equal).images = o
  BY <1>2, ImagesSetImages
<1> QED
  BY <1>1, <1>3

LEMMA MaskSetListed ==
    ASSUME NEW b \in Bar, OnceListed(b.images), NEW mask \in MaskIds
    PROVE  OnceListed(MaskSet(b, mask).images) /\ "images" \in DOMAIN MaskSet(b, mask)
<1> DEFINE c == [b EXCEPT !.mask = mask]
           o == MaskFirst(b.images, mask)
<1>1. OnceListed(o)
  BY MaskFirstListed
<1>2. c \in Bar
  BY DEF Bar
<1>3. MaskSet(b, mask) = ImagesSet(c, o, Same, FALSE)
  BY DEF MaskSet
<1> HIDE DEF o, c
<1>4. MaskSet(b, mask).images = o /\ "images" \in DOMAIN MaskSet(b, mask)
  <2>1. ImagesSet(c, o, Same, FALSE).images = o /\ "images" \in DOMAIN ImagesSet(c, o, Same, FALSE)
    BY <1>2, ImagesSetImages
  <2> QED
    BY <1>3, <2>1, Zenon
<1> QED
  BY <1>1, <1>4

LEMMA SavedMaskListed ==
    ASSUME NEW b, Fits(b), OnceListed(b.images), NEW target \in InputPictures
    PROVE  OnceListed(SavedMask(b, target).images) /\ "images" \in DOMAIN SavedMask(b, target)
<1> DEFINE copy   == Copied[target]
           equal  == [Same EXCEPT ![target] = copy]
           s      == MaskTargetReplaced(b.images, target, copy)
           placed == InputImagesSet(b, s, equal)
           c      == MaskSet(placed, copy)
<1>1. copy \in InputPictures /\ copy \in MaskIds
  BY WebInputAssumption DEF MaskIds
<1> HIDE DEF copy
<1>2. s \in Seq(InputPictures) /\ OnceListed(s)
  BY <1>1, MaskTargetType, OnceTargetReplaced DEF OnceListed
<1>3. equal \in [InputPictures -> InputPictures]
  BY <1>1, SameIs
<1> HIDE DEF s, equal
<1>4. Fits(placed) /\ b \in Bar
  BY <1>2, <1>3, InputImagesSetIs DEF Fits
<1>5. OnceListed(placed.images)
  BY <1>2, <1>4, InputImagesListed
<1> HIDE DEF placed
<1>6. OnceListed(c.images) /\ "images" \in DOMAIN c
  BY <1>1, <1>4, <1>5, MaskSetListed DEF Fits
<1>7. SavedMask(b, target) = [c EXCEPT !.editor = NoPicture]
  BY DEF SavedMask, c, placed, equal, s, copy
<1> HIDE DEF c
<1>8. [c EXCEPT !.editor = NoPicture].images = c.images
      /\ "images" \in DOMAIN [c EXCEPT !.editor = NoPicture]
  BY <1>6
<1> QED
  BY <1>6, <1>7, <1>8

-----------------------------------------------------------------------------
(* The handlers *)

LEMMA BarInInv ==
    ASSUME InputTyped
    PROVE  /\ bar \in Bar /\ Fits(bar) /\ OnceListed(bar.images) /\ bar.images \in Seq(InputPictures)
           /\ IsInjective(bar.images) /\ bar.mask \in MaskIds /\ GoodSave(saving)
           /\ "images" \in DOMAIN bar
<1>1. GoodBar(bar) /\ GoodSave(saving) /\ OnceListed(bar.images)
  BY DEF InputTyped, InputInv
<1> QED
  BY <1>1, GoodBarIs, BarDomain DEF OnceListed

\* These leave the images as they are.
LEMMA TextHandlers ==
    ASSUME InputTyped, NEW i, NEW x, NEW t, NEW r,
           \/ TypeText \/ Retype \/ InsertBreak \/ ClearPrompt \/ DeleteMention(i)
           \/ InsertMention(i) \/ OpenMaskEditor(i) \/ PickReplacement(i, x)
           \/ PickFile(x) \/ FileFails(x) \/ ReplacementFails(r)
           \/ CloseMaskEditor \/ RemoveMask \/ SaveMask \/ SaveMaskFails
           \/ ReuseInputs(t)
    PROVE  bar'.images = bar.images
<1>0. "images" \in DOMAIN bar /\ bar \in Bar
  BY BarInInv
<1>1. ASSUME NEW dom, NEW changed, ReadElement(dom, changed) PROVE bar'.images = bar.images
  <2> DEFINE y == ~changed /\ dom = bar.prompt
  <2>1. bar' = [bar EXCEPT !.dom = dom, !.prompt = dom, !.typed = y]
    BY <1>1 DEF ReadElement
  <2> HIDE DEF y
  <2> QED
    BY <1>0, <2>1
<1>2. CASE TypeText \/ Retype \/ DeleteMention(i) \/ InsertMention(i)
  BY <1>1, <1>2 DEF TypeText, Retype, DeleteMention, InsertMention
<1>3. ASSUME NEW n, "images" \in DOMAIN n, n.images = bar.images, NEW fresh \in BOOLEAN, SetBar(n, fresh)
      PROVE  bar'.images = bar.images
  BY <1>3, SetBarImages
<1>4. CASE InsertBreak
  <2> DEFINE n == [bar EXCEPT !.typed = FALSE]
  <2>1. "images" \in DOMAIN n /\ n.images = bar.images
    BY <1>0
  <2>2. SetBar(n, TRUE)
    BY <1>4 DEF InsertBreak
  <2> HIDE DEF n
  <2> QED
    BY <1>3, <2>1, <2>2
<1>5. CASE ClearPrompt
  <2> DEFINE n == [bar EXCEPT !.typed = FALSE, !.prompt = <<>>, !.dom = <<>>]
  <2>1. "images" \in DOMAIN n /\ n.images = bar.images
    BY <1>0
  <2>2. SetBar(n, FALSE)
    BY <1>5 DEF ClearPrompt
  <2> HIDE DEF n
  <2> QED
    BY <1>3, <2>1, <2>2
<1>6. CASE OpenMaskEditor(i)
  <2> DEFINE e == bar.images[i]
             n == [bar EXCEPT !.editor = e]
  <2>1. SetBar(n, FALSE)
    BY <1>6 DEF OpenMaskEditor
  <2> HIDE DEF e
  <2>2. "images" \in DOMAIN n /\ n.images = bar.images
    BY <1>0
  <2> HIDE DEF n
  <2> QED
    BY <1>3, <2>1, <2>2
<1>7. CASE CloseMaskEditor
  <2> DEFINE n == [bar EXCEPT !.editor = NoPicture]
  <2>1. "images" \in DOMAIN n /\ n.images = bar.images
    BY <1>0
  <2>2. SetBar(n, FALSE)
    BY <1>7 DEF CloseMaskEditor
  <2> HIDE DEF n
  <2> QED
    BY <1>3, <2>1, <2>2
<1>8. CASE RemoveMask
  <2> DEFINE n == [bar EXCEPT !.mask = NoPicture, !.editor = NoPicture]
  <2>1. "images" \in DOMAIN n /\ n.images = bar.images
    BY <1>0
  <2>2. SetBar(n, FALSE)
    BY <1>8 DEF RemoveMask
  <2> HIDE DEF n
  <2> QED
    BY <1>3, <2>1, <2>2
<1>9. CASE ReuseInputs(t)
  <2> DEFINE n == [bar EXCEPT !.mask = NoPicture]
  <2>1. "images" \in DOMAIN n /\ n.images = bar.images
    BY <1>0
  <2>2. SetBar(n, FALSE)
    BY <1>9 DEF ReuseInputs
  <2> HIDE DEF n
  <2> QED
    BY <1>3, <2>1, <2>2
<1>10. CASE \/ PickReplacement(i, x) \/ PickFile(x) \/ FileFails(x) \/ ReplacementFails(r)
            \/ SaveMask \/ SaveMaskFails
  BY <1>10 DEF PickReplacement, PickFile, FileFails, ReplacementFails, SaveMask, SaveMaskFails
<1> QED
  BY <1>2, <1>4, <1>5, <1>6, <1>7, <1>8, <1>9, <1>10

LEMMA AddedListed ==
    ASSUME InputTyped, NEW x \in InputPictures, AddImage(x)
    PROVE  OnceListed(bar'.images)
<1> DEFINE s == Append(bar.images, x)
           n == [bar EXCEPT !.images = s]
<1>0. bar \in Bar /\ OnceListed(bar.images) /\ bar.images \in Seq(InputPictures) /\ "images" \in DOMAIN bar
  BY BarInInv
<1>1. CASE ListsPicture(bar.images, x)
  BY <1>0, <1>1 DEF AddImage
<1>2. CASE ~ListsPicture(bar.images, x)
  <2>1. Lacks(bar.images, x)
    BY <1>0, <1>2, PositionIs DEF Lacks
  <2>2. OnceListed(s)
    <3>1. s \in Seq(InputPictures)
      BY <1>0
    <3>2. IsInjective(s)
      BY <1>0, <2>1, OnceJoined DEF OnceListed
    <3> QED
      BY <3>1, <3>2, Zenon DEF OnceListed
  <2> HIDE DEF s
  <2>3. "images" \in DOMAIN n /\ n.images = s
    BY <1>0
  <2>4. SetBar(n, FALSE)
    BY <1>2 DEF AddImage, s
  <2> HIDE DEF n
  <2> QED
    BY <2>2, <2>3, <2>4, SetBarImages
<1> QED
  BY <1>1, <1>2

LEMMA OrderListed ==
    ASSUME InputTyped, NEW i \in DOMAIN bar.images,
           RemoveImage(i) \/ \E gap \in 1..Len(bar.images) + 1 : MoveImage(i, gap)
    PROVE  OnceListed(bar'.images)
<1> DEFINE r == RemoveAt(bar.images, i)
           x == bar.images[i]
<1>0. /\ bar \in Bar /\ bar.images \in Seq(InputPictures) /\ IsInjective(bar.images)
  BY BarInInv
<1>1. r \in Seq(InputPictures) /\ IsInjective(r) /\ Lacks(r, x)
  BY <1>0, RemoveAtIs, OnceRemoved
<1>2. CASE RemoveImage(i)
  <2>1. SetBar(ImagesSet(bar, r, Same, FALSE), FALSE)
    BY <1>2 DEF RemoveImage
  <2> HIDE DEF r
  <2>2. bar'.images = r
    BY <1>0, <2>1, SetImagesImages
  <2> QED
    BY <1>1, <2>2 DEF OnceListed
<1>3. ASSUME NEW gap \in 1..Len(bar.images) + 1, MoveImage(i, gap) PROVE OnceListed(bar'.images)
  <2> DEFINE m == Moved(i, DropTarget(gap))
  <2>1. /\ m \in Seq(InputPictures)
        /\ \E k \in 1..(Len(r) + 1) : IsInserted(m, InputPictures, r, k, x)
    BY <1>0, MovedType
  <2>2. SetBar(ImagesSet(bar, m, Same, FALSE), FALSE)
    BY <1>3 DEF MoveImage
  <2> HIDE DEF m, r, x
  <2>3. OnceListed(m)
    BY <1>1, <2>1, OncePut DEF OnceListed
  <2>4. bar'.images = m
    BY <1>0, <2>2, SetImagesImages
  <2> QED
    BY <2>3, <2>4
<1> QED
  BY <1>2, <1>3

LEMMA ReplacedListed ==
    ASSUME InputTyped, NEW r, ReplacementRead(r), bar'.images \in Seq(InputPictures)
    PROVE  OnceListed(bar'.images)
<1> DEFINE found == PositionOf(bar.images, r.id)
           i     == IF found # 0 THEN found ELSE r.index
           x     == r.by
           previous == bar.images[i]
           equal == [Same EXCEPT ![previous] = x]
           s     == ReplaceAt(bar.images, i, x)
           ends  == previous = bar.mask
<1>0. /\ bar \in Bar /\ OnceListed(bar.images) /\ bar.images \in Seq(InputPictures)
      /\ IsInjective(bar.images)
  BY BarInInv
<1>1. \/ bar' = bar
      \/ ~ListsPicture(bar.images, x) /\ SetBar(ImagesSet(bar, s, equal, ends), FALSE)
  BY DEF ReplacementRead
<1>2. ASSUME ~ListsPicture(bar.images, x), SetBar(ImagesSet(bar, s, equal, ends), FALSE)
      PROVE  OnceListed(bar'.images)
  <2> HIDE DEF x, i
  <2>1. Lacks(bar.images, x)
    BY <1>0, <1>2, PositionIs DEF Lacks
  <2>2. IsInjective(s)
    BY <1>0, <2>1, OnceReplaced
  <2> HIDE DEF s, equal, ends
  <2>3. bar'.images = s
    BY <1>0, <1>2, SetImagesImages
  <2> QED
    BY <2>2, <2>3 DEF OnceListed
<1> QED
  BY <1>0, <1>1, <1>2

LEMMA ClearedListed ==
    ASSUME InputTyped, ClearImages \/ SubmitClears \/ CancelEditing
    PROVE  OnceListed(bar'.images)
<1>0. bar \in Bar
  BY BarInInv
<1>1. CASE ClearImages
  <2>1. SetBar(ImagesSet(bar, <<>>, Same, TRUE), FALSE)
    BY <1>1 DEF ClearImages
  <2>2. bar'.images = <<>>
    BY <1>0, <2>1, SetImagesImages
  <2> QED
    BY <2>2, NoImages
<1> DEFINE b == [bar EXCEPT !.prompt = <<>>]
<1>2. b \in Bar
  BY <1>0, EmptyText DEF Bar
<1>3. CASE SubmitClears
  <2>1. SetBar(ImagesSet(b, <<>>, Same, TRUE), TRUE)
    BY <1>3 DEF SubmitClears
  <2> HIDE DEF b
  <2>2. bar'.images = <<>>
    BY <1>2, <2>1, SetImagesImages
  <2> QED
    BY <2>2, NoImages
<1>4. CASE CancelEditing
  <2> DEFINE c == InputImagesSet(b, <<>>, Same)
             n == [c EXCEPT !.mask = NoPicture]
  <2>1. SetBar(n, TRUE)
    BY <1>4 DEF CancelEditing
  <2> HIDE DEF b
  <2>2. OnceListed(c.images)
    BY <1>2, NoImages, InputImagesListed
  <2>3. "images" \in DOMAIN c
    BY <1>2, ImagesSetImages DEF InputImagesSet
  <2> HIDE DEF c
  <2>4. "images" \in DOMAIN n /\ n.images = c.images
    BY <2>3
  <2> HIDE DEF n
  <2>5. bar'.images = n.images
    BY <2>1, <2>4, SetBarImages
  <2> QED
    BY <2>2, <2>4, <2>5
<1> QED
  BY <1>1, <1>3, <1>4

LEMMA SavedListed ==
    ASSUME InputTyped, SaveMaskEnds
    PROVE  OnceListed(bar'.images)
<1>0. /\ Fits(bar) /\ OnceListed(bar.images) /\ GoodSave(saving)
  BY BarInInv
<1>1. bar' = IF saving.live THEN Rendered(SavedMask(bar, saving.image), TRUE) ELSE bar
  BY DEF SaveMaskEnds
<1>2. CASE saving.live
  <2> DEFINE n == SavedMask(bar, saving.image)
  <2>1. saving.image \in InputPictures
    BY <1>0, <1>2 DEF GoodSave, MaskIds
  <2>2. OnceListed(n.images) /\ "images" \in DOMAIN n
    BY <1>0, <2>1, SavedMaskListed
  <2>3. bar' = Rendered(n, TRUE)
    BY <1>1, <1>2
  <2> HIDE DEF n
  <2> DEFINE d == MentionParts(n.prompt, n.images)
  <2>4. bar' = [n EXCEPT !.typed = FALSE] \/ bar' = [n EXCEPT !.dom = d]
    BY <2>3 DEF Rendered
  <2> HIDE DEF d
  <2>5. bar'.images = n.images
    BY <2>2, <2>4
  <2> QED
    BY <2>2, <2>5
<1>3. CASE ~saving.live
  BY <1>0, <1>1, <1>3
<1> QED
  BY <1>2, <1>3

LEMMA ReusedListed ==
    ASSUME Tidy, ImagesOnce, InputTyped, InputsReused \/ MaskReused
    PROVE  OnceListed(bar'.images)
<1>0. bar \in Bar /\ OnceListed(bar.images)
  BY BarInInv
<1>1. CASE InputsReused
  <2> DEFINE images == StillStored(reusing.images)
             wording == [k \in DOMAIN reusing.mentions |->
                           Mention(reusing.mentions[k], reusing.images[reusing.mentions[k]])]
             masked == ListsPicture(images, reusing.mask)
             b      == InputImagesSet(bar, images, Same)
             next   == [b EXCEPT !.prompt = wording]
             bare   == [next EXCEPT !.mask = NoPicture]
  <2>1. reusing \in Reusable /\ SetBar(IF masked THEN next ELSE bare, TRUE)
    BY <1>1 DEF InputsReused
  <2>2. OnceListed(images)
    BY <2>1 DEF Tidy, ImagesOnce, OnceListed
  <2> HIDE DEF images, wording, masked
  <2>3. OnceListed(b.images) /\ "images" \in DOMAIN b
    BY <1>0, <2>2, InputImagesListed, ImagesSetImages DEF InputImagesSet
  <2> HIDE DEF b
  <2>4. "images" \in DOMAIN next /\ next.images = b.images
    BY <2>3
  <2> HIDE DEF next
  <2>5. "images" \in DOMAIN bare /\ bare.images = b.images
    BY <2>4
  <2> HIDE DEF bare
  <2>6. \E n \in {next, bare} : SetBar(n, TRUE)
    BY <2>1
  <2>7. bar'.images = b.images
    BY <2>4, <2>5, <2>6, SetBarImages
  <2> QED
    BY <2>3, <2>7
<1>2. CASE MaskReused
  <2> DEFINE n == MaskSet(bar, reusing.mask)
  <2>1. reusing \notin Reusable /\ SetBar(n, FALSE)
    BY <1>2 DEF MaskReused
  <2>2. reusing.mask \in MaskIds
    <3>1. PICK m \in MaskIds : reusing = [NoTask EXCEPT !.mask = m]
      BY <2>1 DEF InputTyped, InputInv, Reusing
    <3> QED
      BY <3>1 DEF NoTask
  <2>3. OnceListed(n.images) /\ "images" \in DOMAIN n
    BY <1>0, <2>2, MaskSetListed
  <2> HIDE DEF n
  <2> QED
    BY <2>1, <2>3, SetBarImages
<1> QED
  BY <1>1, <1>2

LEMMA ListedNext ==
    ASSUME Tidy, ImagesOnce, InputTyped, InputNext, bar'.images \in Seq(InputPictures)
    PROVE  OnceListed(bar'.images)
<1>0. OnceListed(bar.images)
  BY DEF InputTyped
<1>1. ASSUME NEW x \in InputPictures, FileRead(x) \/ DropStored(x) PROVE OnceListed(bar'.images)
  BY <1>1, AddedListed DEF FileRead, DropStored
<1>2. ASSUME NEW i \in DOMAIN bar.images,
             \/ InsertMention(i) \/ RemoveImage(i) \/ OpenMaskEditor(i)
             \/ \E gap \in 1..Len(bar.images) + 1 : MoveImage(i, gap)
             \/ \E x \in InputPictures : PickReplacement(i, x)
      PROVE  OnceListed(bar'.images)
  BY <1>0, <1>2, TextHandlers, OrderListed
<1>3. ASSUME NEW x \in InputPictures, PickFile(x) \/ FileFails(x) PROVE OnceListed(bar'.images)
  BY <1>0, <1>3, TextHandlers
<1>4. ASSUME NEW k \in 1..MaxMentions, DeleteMention(k) PROVE OnceListed(bar'.images)
  BY <1>0, <1>4, TextHandlers
<1>5. ASSUME NEW t \in Reusable, ReuseInputs(t) PROVE OnceListed(bar'.images)
  BY <1>0, <1>5, TextHandlers
<1>6. CASE \/ TypeText \/ Retype \/ InsertBreak \/ ClearPrompt
           \/ CloseMaskEditor \/ RemoveMask \/ SaveMask \/ SaveMaskFails
  BY <1>0, <1>6, TextHandlers
<1>7. CASE \/ InputsReused \/ MaskReused \/ ClearImages \/ SubmitClears \/ CancelEditing
           \/ SaveMaskEnds
  BY <1>7, ReusedListed, ClearedListed, ReplacedListed, SavedListed
<1>8. ASSUME NEW r \in replacing, ReplacementRead(r) \/ ReplacementFails(r)
      PROVE  OnceListed(bar'.images)
  BY <1>0, <1>8, TextHandlers, ReplacedListed
<1> QED
  BY <1>1, <1>2, <1>3, <1>4, <1>5, <1>6, <1>7, <1>8 DEF InputNext

LEMMA InputActsTyped ==
    ASSUME inputActs \in 0..MaxInputActs, InputNext
    PROVE  inputActs' \in 0..MaxInputActs
<1>1. ActsOnBar => inputActs' \in 0..MaxInputActs
  <2>1. MaxInputActs \in Nat
    BY WebInputAssumption
  <2> QED
    BY <2>1 DEF ActsOnBar
<1>2. InputNext => ActsOnBar \/ inputActs' = inputActs
  BY DEF InputNext, InputsReused, MaskReused, TypeText, Retype, InsertBreak, ClearPrompt,
         DeleteMention, InsertMention, RemoveImage, OpenMaskEditor, MoveImage, PickReplacement,
         PickFile, FileRead, FileFails, DropStored, ClearImages, SubmitClears, CancelEditing,
         ReplacementRead, ReplacementFails, CloseMaskEditor, RemoveMask, SaveMask, SaveMaskEnds,
         SaveMaskFails, ReuseInputs
<1> QED
  BY <1>1, <1>2

LEMMA InputTypes ==
    /\ InputInit => InputTyped
    /\ Tidy /\ ImagesOnce /\ InputTyped /\ [InputNext]_inputVars => InputTyped'
    /\ InputTyped => InputTypeOK
<1>1. ASSUME InputInit PROVE InputTyped
  <2>1. bar.images = <<>>
    BY <1>1 DEF InputInit
  <2>2. inputActs \in 0..MaxInputActs
    <3>1. MaxInputActs \in Nat /\ inputActs = 0
      BY <1>1, WebInputAssumption DEF InputInit
    <3> QED
      BY <3>1
  <2> QED
    BY <1>1, <2>1, <2>2, NoImages, InputStarts DEF InputTyped
<1>2. ASSUME Tidy, ImagesOnce, InputTyped, InputNext PROVE InputTyped'
  <2>1. InputInv'
    BY <1>2, InputKeeps DEF InputTyped
  <2>2. bar'.images \in Seq(InputPictures)
    BY <2>1, GoodBarIs DEF InputInv
  <2>3. OnceListed(bar'.images)
    BY <1>2, <2>2, ListedNext
  <2>4. inputActs' \in 0..MaxInputActs
    BY <1>2, InputActsTyped DEF InputTyped
  <2> QED
    BY <2>1, <2>3, <2>4 DEF InputTyped
<1>3. ASSUME Tidy, InputTyped, UNCHANGED inputVars PROVE InputTyped'
  <2>1. InputInv'
    BY <1>3, InputKeeps DEF InputTyped
  <2> QED
    BY <1>3, <2>1 DEF inputVars, InputTyped
<1>4. ASSUME InputTyped PROVE InputTypeOK
  <2>1. /\ GoodBar(bar) /\ ByImage /\ GoodSave(saving) /\ arriving \subseteq InputPictures
        /\ OnceListed(bar.images) /\ inputActs \in 0..MaxInputActs
    BY <1>4 DEF InputTyped, InputInv
  <2>2. /\ bar.typed \in BOOLEAN /\ bar.mask \in MaskIds /\ bar.editor \in MaskIds
        /\ bar.prompt \in Text /\ bar.dom \in Text
    BY <2>1, BarIs DEF GoodBar, Fits
  <2>3. \A text \in {bar.prompt, bar.dom} :
           \A k \in DOMAIN text : text[k].n \in Nat /\ text[k].of \in InputPictures
    BY <2>2, TextIs
  <2>4. saving.image \in MaskIds
    BY <2>1 DEF GoodSave
  <2> QED
    BY <2>1, <2>2, <2>3, <2>4 DEF InputTypeOK, MaskIds, OnceListed, ByImage
<1> QED
  BY <1>1, <1>2, <1>3, <1>4

-----------------------------------------------------------------------------
(***************************************************************************)
(* The panels together, as MCWebPanels runs them: a behaviour follows one   *)
(* of them while the others keep their initial state.                      *)
(***************************************************************************)
Panel == {"library", "reviews", "scopes", "context", "favorites", "input", "mask",
          "profiles", "managed"}

\* What the types need of the constants and of the schedule.
Fair == /\ \A p \in ProjectIds : SingleUse(Earlier[p])
        /\ Tidy /\ ImagesOnce /\ OneHand /\ GoodImports

\* Each panel's variables have the shape that its steps keep.
PanelsTyped ==
    /\ focus \in Panel
    /\ LibraryTyped /\ ReviewsTypeOK /\ ScopesTypeOK /\ ContextInv
    /\ FavoritesInv /\ FavTyped /\ DragTyped /\ InputTyped /\ MaskInv
    /\ ProfilesInv /\ ProfilesTyped /\ ManagedTyped

\* A step of the run is a step of one panel and leaves the others alone.
LEMMA PanelsMove ==
    [PanelsNext]_panelsVars =>
        /\ focus' = focus
        /\ [LibraryNext]_libraryVars /\ [ReviewsNext]_reviewVars /\ [ScopesNext]_scopeVars
        /\ [ContextNext]_contextVars /\ [FavoritesNext]_favoriteVars /\ [InputNext]_inputVars
        /\ [MaskNext]_maskVars /\ [ProfilesNext]_profileVars /\ [ManagedNext]_managedVars
  BY Zenon DEF PanelsNext, panelsVars

\* So the run follows the specification of each panel.
LEMMA RunFollowsPanels ==
    PanelsSpec => /\ LibrarySpec /\ ReviewsSpec /\ ScopesSpec /\ ContextSpec /\ FavoritesSpec
                  /\ InputSpec /\ MaskSpec /\ ProfilesSpec /\ ManagedSpec
<1>1. PanelsInit => /\ LibraryInit /\ ReviewsInit /\ ScopesInit /\ ContextInit /\ FavoritesInit
                    /\ InputInit /\ MaskInit /\ ProfilesInit /\ ManagedInit
  BY DEF PanelsInit
<1> QED
  BY <1>1, PanelsMove, PTL
     DEF PanelsSpec, LibrarySpec, ReviewsSpec, ScopesSpec, ContextSpec, FavoritesSpec,
         InputSpec, MaskSpec, ProfilesSpec, ManagedSpec

LEMMA PanelsInitially == PanelsInit => focus \in Panel
  BY DEF PanelsInit, Panel

LEMMA TypedPanels == PanelsTyped => PanelsTypeOK
<1> SUFFICES ASSUME PanelsTyped PROVE PanelsTypeOK
  OBVIOUS
<1>1. focus \in Panel /\ LibraryTyped /\ ReviewsTypeOK /\ ScopesTypeOK /\ ContextInv
      /\ FavoritesInv /\ FavTyped /\ DragTyped /\ InputTyped /\ MaskInv
      /\ ProfilesInv /\ ProfilesTyped /\ ManagedTyped
  BY DEF PanelsTyped
<1>2. /\ LibraryTypeOK /\ ContextTypeOK /\ FavoritesTypeOK /\ InputTypeOK /\ MaskTypeOK
      /\ ProfilesTypeOK /\ ManagedTypeOK
  BY <1>1, LibraryTypes, ContextTyped, FavoriteTypes, InputTypes, MaskTyped, ProfilesTypes,
     ManagedTypes
<1> QED
  BY <1>1, <1>2 DEF PanelsTypeOK, Panel

\* Whatever is answered late, typed, dragged, masked, imported or deleted, the
\* variables of every panel keep their types (InputBar.tsx, SettingsModal.tsx,
\* FavoriteCollections.tsx, MaskEditorModal.tsx, store.ts and the others): each
\* image of the bar and each collection is listed once, and the settings, the
\* draft and the draft a browser prompt has seen always have an active profile.
\* For any assets, scopes, images, pointers, profiles and bounds, when the user
\* and the stored data are as Fair says.
THEOREM PanelsTypesHold == Fair => (PanelsSpec => []PanelsTypeOK)
<1> SUFFICES ASSUME Fair PROVE PanelsSpec => []PanelsTypeOK
  OBVIOUS
<1>0. (\A p \in ProjectIds : SingleUse(Earlier[p])) /\ Tidy /\ ImagesOnce /\ OneHand /\ GoodImports
  BY DEF Fair
<1>1. LibrarySpec => []LibraryTyped
  BY LibraryTypes, PTL DEF LibrarySpec
<1>2. ReviewsSpec => []ReviewsTypeOK
  BY ReviewsTypes, PTL DEF ReviewsSpec
<1>3. ScopesSpec => []ScopesTypeOK
  BY ScopesTypes, PTL DEF ScopesSpec
<1>4. ContextSpec => []ContextInv
  <2>1. ContextInit => ContextInv
    BY <1>0, InitContextInv
  <2> QED
    BY <2>1, NextContextInv, PTL DEF ContextSpec
<1>5. FavoritesSpec => [](FavoritesInv /\ FavTyped /\ DragTyped)
  <2>1. FavoritesInv /\ FavTyped /\ DragTyped /\ [FavoritesNext]_favoriteVars
            => FavoritesInv' /\ FavTyped' /\ DragTyped'
    BY FavoritesTypes, NextFavoritesInv
  <2> QED
    BY <2>1, InitFavoritesInv, FavoritesTypes, PTL DEF FavoritesSpec
<1>6. InputSpec => []InputTyped
  <2>1. InputInit => InputTyped
    BY InputTypes
  <2>2. InputTyped /\ [InputNext]_inputVars => InputTyped'
    BY <1>0, InputTypes
  <2> QED
    BY <2>1, <2>2, PTL DEF InputSpec
<1>7. MaskSpec => []MaskInv
  <2>1. MaskInv /\ [MaskNext]_maskVars => MaskInv'
    BY <1>0, NextMask
  <2> QED
    BY <2>1, InitMask, PTL DEF MaskSpec
<1>8. ProfilesSpec => [](ProfilesInv /\ ProfilesTyped)
  <2>1. ProfilesInit => ProfilesInv /\ ProfilesTyped
    BY ProfilesTypes
  <2>2. ProfilesInv /\ ProfilesTyped /\ [ProfilesNext]_profileVars
           => ProfilesInv' /\ ProfilesTyped'
    BY <1>0, ProfilesTypes
  <2> QED
    BY <2>1, <2>2, PTL DEF ProfilesSpec
<1>9. ManagedSpec => []ManagedTyped
  BY ManagedTypes, PTL DEF ManagedSpec
<1>10. PanelsSpec => [](focus \in Panel)
  <2>1. focus \in Panel /\ [PanelsNext]_panelsVars => (focus \in Panel)'
    BY PanelsMove
  <2> QED
    BY <2>1, PanelsInitially, PTL DEF PanelsSpec
<1>11. /\ focus \in Panel /\ LibraryTyped /\ ReviewsTypeOK /\ ScopesTypeOK /\ ContextInv
       /\ FavoritesInv /\ FavTyped /\ DragTyped /\ InputTyped /\ MaskInv
       /\ ProfilesInv /\ ProfilesTyped /\ ManagedTyped
       => PanelsTypeOK
  BY TypedPanels DEF PanelsTyped
<1> QED
  BY <1>1, <1>2, <1>3, <1>4, <1>5, <1>6, <1>7, <1>8, <1>9, <1>10, <1>11, RunFollowsPanels, PTL

\* What needs no restriction of the user holds of the run, whichever panel it
\* follows: marks are awaited, cleanups are previewed, bindings and collections
\* are sound, and only another setting's commit fills the scope.  The documents
\* the server has at the start bind each use once.
THEOREM PanelsRunHolds ==
    (\A p \in ProjectIds : SingleUse(Earlier[p]))
        => (PanelsSpec => /\ []( /\ PendingIsAwaited /\ CleanupIsPreviewed
                                 /\ OneBindingPerUse /\ FavoritesRefer )
                          /\ OnlyCommitsFill)
<1> SUFFICES ASSUME \A p \in ProjectIds : SingleUse(Earlier[p])
             PROVE  PanelsSpec => /\ []( /\ PendingIsAwaited /\ CleanupIsPreviewed
                                         /\ OneBindingPerUse /\ FavoritesRefer )
                                  /\ OnlyCommitsFill
  OBVIOUS
<1>1. ContextSpec => [](ContextTypeOK /\ OneBindingPerUse)
  BY BindingsHold
<1> QED
  BY <1>1, MarksAreAwaited, CleanupWasPreviewed, FavoritesHold, OnlyThatCommitFills,
     RunFollowsPanels, PTL

=============================================================================
