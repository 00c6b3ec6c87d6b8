----------------------------- MODULE WebReviews -----------------------------
(***************************************************************************)
(* Reviews of the server's assets in two panels of the web client: the     *)
(* cards of the library (ServerAssetLibrary.tsx) and the assets of a scene *)
(* in the production view (ProductionViewModal.tsx).  A review is shown at *)
(* once (lib/reviewFeedback.ts), while its request, the reading of the     *)
(* panel and other reviews are under way.                                  *)
(*                                                                         *)
(* Only the newest reading of a panel counts (WebLibrary), so one is kept. *)
(* The assets are those of one scene.                                      *)
(***************************************************************************)
EXTENDS Naturals

CONSTANTS
    Images,         \* assets of the scene
    MaxCalls,       \* bound on the reviews under way
    MaxVerdicts     \* bound on the reviews

ASSUME WebReviewsAssumption == Images # {} /\ MaxCalls \in Nat /\ MaxVerdicts \in Nat

VARIABLES
    rows,       \* the server's asset rows
    panel,      \* assets and summary: the status each panel shows
    rereading,    \* loadAssets and loadSummary under way
    asking,     \* the production view's filters name a session or batch
    pending,    \* pendingReviews of each panel
    held,       \* pendingAssetIds of the production view
    calls,      \* the requests of the reviews
    judged,     \* reviews begun
    scene       \* pendingSceneKeys and the regenerations under way

reviewVars == <<rows, panel, rereading, asking, pending, held, calls, judged, scene>>

-----------------------------------------------------------------------------
RowStatus  == {"generated", "selected", "rejected", "archived"}
Panels  == {"library", "production"}
Marks == [Images -> RowStatus \cup {"absent"}]
NoMarks == [a \in Images |-> "absent"]
Pending == [Images -> RowStatus \cup {"none"}]
NonePending == [a \in Images |-> "none"]
CallSlots   == 1..MaxCalls
NoCall    == [pc |-> "free", panel |-> "library", image |-> CHOOSE a \in Images : TRUE,
            next |-> "selected"]

ReviewsInit ==
    /\ rows = [a \in Images |-> "generated"]
    /\ panel = [p \in Panels |-> NoMarks]
    /\ rereading = [p \in Panels |-> [pc |-> "idle", answer |-> NoMarks]]
    /\ asking = FALSE
    /\ pending = [p \in Panels |-> NonePending] /\ held = {}
    /\ calls = [k \in CallSlots |-> NoCall] /\ judged = 0
    /\ scene = [held |-> FALSE, pc |-> "idle"]

-----------------------------------------------------------------------------
(* reviewFeedback.ts. *)

\* applySceneReviewStatus: a selection takes back the scene's others.
SceneReviewed(list, a, next) ==
    [b \in Images |-> IF list[b] = "absent" THEN "absent"
                      ELSE IF b = a THEN next
                      ELSE IF next = "selected" /\ list[b] = "selected" THEN "generated"
                      ELSE list[b]]

\* applyPendingReviewsToBatchSummary: one after the other, in the scene's
\* order; of two pending selections the last shows.
SceneOverlay(list, pend) ==
    LET chosen == {a \in Images : list[a] # "absent" /\ pend[a] = "selected"}
    IN  {[b \in Images |->
            IF list[b] = "absent" THEN "absent"
            ELSE IF b \in chosen THEN (IF b = last THEN "selected" ELSE "generated")
            ELSE IF pend[b] # "none" THEN pend[b]
            ELSE IF chosen # {} /\ list[b] = "selected" THEN "generated"
            ELSE list[b]] : last \in IF chosen = {} THEN {"none"} ELSE chosen}

\* applyPendingReviewsToAssetList.
ListOverlay(list, pend) ==
    {[a \in Images |-> IF list[a] # "absent" /\ pend[a] # "none" THEN pend[a] ELSE list[a]]}

Displayed(p) == IF p = "library" THEN ListOverlay(panel[p], pending[p])
                ELSE SceneOverlay(panel[p], pending[p])

\* The buttons of ServerAssetCard and SceneCard: a busy asset has none, an
\* archived one is restored first, a selected one is not archived.
Offers(p, a, status) ==
    IF p = "library"
    THEN IF pending[p][a] # "none" THEN {}
         ELSE IF status = "archived" THEN {"generated"}
         ELSE {"selected", "rejected"} \cup (IF status = "selected" THEN {} ELSE {"archived"})
    ELSE IF a \in held THEN {} ELSE {"selected", "rejected"} \ {status}

-----------------------------------------------------------------------------
(* loadAssets and loadSummary, as far as the reviews meet them. *)

ReviewsStay == UNCHANGED <<rows, pending, held, calls, judged>>

ReadPanel(p) ==
    /\ p = "production" => asking
    /\ rereading' = [rereading EXCEPT ![p] = [pc |-> "sent", answer |-> NoMarks]]
    /\ UNCHANGED <<panel, asking, scene>> /\ ReviewsStay

ReadServed(p) ==
    /\ rereading[p].pc = "sent"
    /\ rereading' = [rereading EXCEPT ![p] = [pc |-> "served", answer |-> rows]]
    /\ UNCHANGED <<panel, asking, scene>> /\ ReviewsStay

ReadEnds(p) ==
    /\ rereading[p].pc = "served"
    /\ rereading' = [rereading EXCEPT ![p] = [pc |-> "idle", answer |-> NoMarks]]
    /\ panel' \in {panel, [panel EXCEPT ![p] = rereading[p].answer]}
    /\ scene' = IF p = "production" /\ scene.pc = "reading"
                THEN [held |-> FALSE, pc |-> "idle"] ELSE scene
    /\ UNCHANGED asking /\ ReviewsStay

-----------------------------------------------------------------------------
(* The production view. *)

SetFilters ==
    /\ ~asking /\ asking' = TRUE
    /\ UNCHANGED <<panel, rereading, scene>> /\ ReviewsStay

\* clearFilters forgets what is under way, but neither the reading nor the
\* pending reviews.
ClearFilters ==
    /\ asking' = FALSE
    /\ panel' = [panel EXCEPT !["production"] = NoMarks]
    /\ held' = {}
    /\ scene' = [scene EXCEPT !.held = FALSE]
    /\ UNCHANGED <<rows, rereading, pending, calls, judged>>

\* A new productionViewSeed: the view of another batch is opened.
Reseed ==
    /\ asking' = TRUE
    /\ pending' = [pending EXCEPT !["production"] = NonePending]
    /\ held' = {}
    /\ UNCHANGED <<rows, panel, rereading, calls, judged, scene>>

\* handleRegenerateScene: the task is created, then the summary read again.
Regenerate ==
    /\ panel["production"] # NoMarks /\ ~scene.held /\ scene.pc = "idle"
    /\ scene' = [held |-> TRUE, pc |-> "sent"]
    /\ UNCHANGED <<panel, rereading, asking>> /\ ReviewsStay

Regenerated ==
    /\ scene.pc = "sent"
    /\ scene' = [scene EXCEPT !.pc = "reading"]
    /\ rereading' = [rereading EXCEPT !["production"] = [pc |-> "sent", answer |-> NoMarks]]
    /\ UNCHANGED <<panel, asking>> /\ ReviewsStay

RegenerateFails ==
    /\ scene.pc = "sent"
    /\ scene' = [held |-> FALSE, pc |-> "idle"]
    /\ UNCHANGED <<panel, rereading, asking>> /\ ReviewsStay

-----------------------------------------------------------------------------
(* selectAsset, rejectAsset, archiveAsset and restoreAsset of the library, *)
(* handleReviewAsset of the production view.                               *)

Review(p, a, next) ==
    /\ \E shown \in Displayed(p) : shown[a] # "absent" /\ next \in Offers(p, a, shown[a])
    /\ judged < MaxVerdicts /\ judged' = judged + 1
    /\ \E k \in CallSlots :
         /\ calls[k].pc = "free" /\ \A j \in 1..(k - 1) : calls[j].pc # "free"
         /\ calls' = [calls EXCEPT ![k] = [pc |-> "sent", panel |-> p, image |-> a, next |-> next]]
    /\ pending' = [pending EXCEPT ![p][a] = next]
    /\ held' = IF p = "production" THEN held \cup {a} ELSE held
    /\ UNCHANGED <<rows, panel, rereading, asking, scene>>

\* The server refuses a verdict that the row no longer allows; the verdict the
\* row already has changes nothing.
Allowed(a, next) ==
    \/ rows[a] = next
    \/ CASE next = "archived"  -> rows[a] # "selected"
         [] next = "generated" -> rows[a] = "archived"
         [] OTHER              -> rows[a] # "archived"

ReviewServed(k) ==
    /\ calls[k].pc = "sent" /\ Allowed(calls[k].image, calls[k].next)
    /\ rows' = [rows EXCEPT ![calls[k].image] = calls[k].next]
    /\ calls' = [calls EXCEPT ![k].pc = "served"]
    /\ UNCHANGED <<panel, rereading, asking, pending, held, judged, scene>>

\* The finally block.
Settled(k) ==
    /\ pending' = [pending EXCEPT ![calls[k].panel][calls[k].image] = "none"]
    /\ held' = IF calls[k].panel = "production" THEN held \ {calls[k].image} ELSE held
    /\ calls' = [calls EXCEPT ![k] = NoCall]

\* updateAsset, and reconcileReviewedAssetInBatchSummary.
Reviewed(k) ==
    LET a == calls[k].image
        p == calls[k].panel
        listed == panel[p][a] # "absent"
    IN  /\ calls[k].pc = "served"
        /\ panel' = IF ~listed THEN panel
                    ELSE IF p = "library" THEN [panel EXCEPT ![p][a] = calls[k].next]
                    ELSE [panel EXCEPT ![p] = SceneReviewed(@, a, calls[k].next)]
        /\ Settled(k)
        /\ UNCHANGED <<rows, rereading, asking, judged, scene>>

\* Mutant: a failed review is not settled.
ReviewFailsOnly(k) ==
    /\ calls[k].pc \in {"sent", "served"}
    /\ calls' = [calls EXCEPT ![k] = NoCall]
    /\ UNCHANGED <<rows, panel, rereading, asking, pending, held, judged, scene>>

ReviewFails(k) ==
    /\ calls[k].pc \in {"sent", "served"}
    /\ Settled(k)
    /\ UNCHANGED <<rows, panel, rereading, asking, judged, scene>>

-----------------------------------------------------------------------------
ReviewsNext ==
    \/ \E p \in Panels :
         \/ ReadPanel(p) \/ ReadServed(p) \/ ReadEnds(p)
         \/ \E a \in Images, next \in RowStatus : Review(p, a, next)
    \/ SetFilters \/ ClearFilters \/ Reseed
    \/ Regenerate \/ Regenerated \/ RegenerateFails
    \/ \E k \in CallSlots : ReviewServed(k) \/ Reviewed(k) \/ ReviewFails(k)

ReviewsSpec == ReviewsInit /\ [][ReviewsNext]_reviewVars

-----------------------------------------------------------------------------
(* Properties *)

ReviewsTypeOK ==
    /\ rows \in [Images -> RowStatus] /\ panel \in [Panels -> Marks]
    /\ rereading \in [Panels -> [pc: {"idle", "sent", "served"}, answer: Marks]]
    /\ asking \in BOOLEAN /\ held \subseteq Images
    /\ pending \in [Panels -> Pending]
    /\ calls \in [CallSlots -> [pc: {"free", "sent", "served"}, panel: Panels, image: Images,
                            next: RowStatus]]
    /\ judged \in 0..MaxVerdicts
    /\ scene \in [held: BOOLEAN, pc: {"idle", "sent", "reading"}]

\* An asset shown as being saved has its review under way: no failure, new
\* batch or cleared filter leaves a verdict shown that nobody will confirm,
\* or a button that stays disabled.
PendingIsAwaited ==
    \A p \in Panels, a \in Images :
      (pending[p][a] # "none" \/ (p = "production" /\ a \in held)) =>
        \E k \in CallSlots : calls[k].pc # "free" /\ calls[k].panel = p /\ calls[k].image = a
=============================================================================
