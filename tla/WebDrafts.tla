----------------------------- MODULE WebDrafts -----------------------------
(***************************************************************************)
(* What the user types in the web client: the composer (prompt, input      *)
(* image, mask) is shared by the gallery and by every agent conversation,  *)
(* and each of these places keeps its own draft (store.ts).  The state is  *)
(* written to localStorage on every change, the conversations to IndexedDB *)
(* by a loop of their own, and a reload puts both together again.          *)
(***************************************************************************)
EXTENDS Naturals, FiniteSets

CONSTANTS
    Convs,          \* identifiers of conversations, numbers above 1 in creation order
    Texts,          \* what may be typed, "" excepted
    PersistInput,   \* settings.persistInputOnRestart
    MaxLoads,       \* bound on the reloads
    QuietStart      \* the user waits for the start-up to end

ASSUME WebDraftsAssumption ==
    /\ Convs \subseteq Nat \ {0, 1}
    /\ MaxLoads \in Nat /\ PersistInput \in BOOLEAN /\ QuietStart \in BOOLEAN

VARIABLES
    mode,       \* appMode
    place,      \* activeAgentConversationId, 0 for null
    composer,   \* prompt, inputImages, maskDraft
    gallery,    \* galleryInputDraft
    drafts,     \* agentInputDrafts
    convs,      \* agentConversations in memory
    saved,      \* localStorage
    stored,     \* the conversations in IndexedDB
    flush,      \* flushAgentConversationsToIndexedDB
    load,       \* runInitStore, as far as it concerns the drafts
    typed       \* history: what the user last left in each place

draftVars == <<mode, place, composer, gallery, drafts, convs, saved, stored,
               flush, load, typed>>

-----------------------------------------------------------------------------
Nowhere == 0
Gallery == 1
Places  == {Gallery} \cup Convs

\* A mask belongs to an image.  An empty draft is null or missing.
Draft == {d \in [text: Texts \cup {""}, image: BOOLEAN, mask: BOOLEAN] : d.mask => d.image}
Empty == [text |-> "", image |-> FALSE, mask |-> FALSE]
NoDrafts == [c \in Convs |-> Empty]

\* used: the conversation has messages.
Known == {c \in Convs : convs[c] # "absent"}
KnownIn(cs) == {c \in Convs : cs[c] # "absent"}
NoConvs == [c \in Convs |-> "absent"]

\* saveActiveAgentInputDrafts and saveGalleryInputDraft.
SavedDrafts(m, p, c, d) == IF m = "agent" /\ p # Nowhere THEN [d EXCEPT ![p] = c] ELSE d
SavedGallery(m, c, g)   == IF m = "gallery" THEN c ELSE g

\* restoreAgentInputDraftState.
DraftAt(d, p) == IF p = Nowhere THEN Empty ELSE d[p]

\* Mutant: drafts of conversations that are not loaded are persisted, and
\* those of the others are not.
PersistShown ==
    saved' = [mode |-> mode', place |-> place',
              gallery |-> IF PersistInput THEN gallery' ELSE Empty,
              drafts |-> [c \in Convs |-> IF c = place' THEN drafts'[c] ELSE Empty]]

\* getPersistedState with getPersistableAgentInputDrafts, on every set().
Persist ==
    saved' = [mode |-> mode', place |-> place',
              gallery |-> IF PersistInput THEN SavedGallery(mode', composer', gallery')
                          ELSE Empty,
              drafts |-> [c \in Convs |->
                            IF c \in KnownIn(convs')
                            THEN SavedDrafts(mode', place', composer', drafts')[c]
                            ELSE Empty]]

\* The subscription: a change of the conversations starts the loop, or is
\* left to the one that runs, or waits until the store is loaded.
Notify ==
    flush' = IF convs' = flush.last THEN flush
             ELSE IF flush.pc \in {"writing", "closed"} THEN [flush EXCEPT !.queued = TRUE]
             ELSE [flush EXCEPT !.pc = "writing", !.queued = FALSE, !.batch = convs']

Set == Persist /\ Notify

DraftsInit ==
    /\ mode = "gallery" /\ place = Nowhere
    /\ composer = Empty /\ gallery = Empty /\ drafts = NoDrafts
    /\ convs = NoConvs /\ stored = NoConvs
    /\ saved = [mode |-> "gallery", place |-> Nowhere, gallery |-> Empty, drafts |-> NoDrafts]
    /\ flush = [pc |-> "idle", queued |-> FALSE, batch |-> NoConvs, last |-> NoConvs]
    /\ load = [pc |-> "done", loads |-> 0, gallery |-> Empty, drafts |-> NoDrafts]
    /\ typed = [p \in Places |-> Empty]

UserMay == QuietStart => load.pc = "done"

-----------------------------------------------------------------------------
(* The composer. *)

Here == IF mode = "gallery" THEN Gallery ELSE place

\* syncActiveInputDraft: the draft of the place follows the composer.
Compose(d) ==
    /\ UserMay
    /\ Here # Nowhere /\ (Here \in Convs => Here \in Known)
    /\ composer' = d
    /\ gallery' = IF mode = "gallery" THEN d ELSE gallery
    /\ drafts' = SavedDrafts(mode, place, d, drafts)
    /\ typed' = [typed EXCEPT ![Here] = d]
    /\ UNCHANGED <<mode, place, convs, stored, load>>
    /\ Set

SetPrompt(text)  == Compose([composer EXCEPT !.text = text])
AddInputImage    == ~composer.image /\ Compose([composer EXCEPT !.image = TRUE])
RemoveInputImage == composer.image /\ Compose([composer EXCEPT !.image = FALSE, !.mask = FALSE])
SetMaskDraft     == composer.image /\ ~composer.mask /\ Compose([composer EXCEPT !.mask = TRUE])
ClearMaskDraft   == composer.mask /\ Compose([composer EXCEPT !.mask = FALSE])

\* A message is sent: the conversation has messages, the composer is empty.
SendMessage ==
    /\ UserMay /\ mode = "agent" /\ place \in Known /\ composer.text # ""
    /\ convs' = [convs EXCEPT ![place] = "used"]
    /\ composer' = Empty
    /\ drafts' = [drafts EXCEPT ![place] = Empty]
    /\ typed' = [typed EXCEPT ![place] = Empty]
    /\ UNCHANGED <<mode, place, gallery, stored, load>>
    /\ Set

-----------------------------------------------------------------------------
(* setAppMode, and the conversations. *)

SetGalleryMode ==
    /\ UserMay
    /\ mode' = "gallery"
    /\ drafts' = SavedDrafts(mode, place, composer, drafts)
    /\ gallery' = SavedGallery(mode, composer, gallery)
    /\ composer' = IF mode = "agent" THEN gallery' ELSE composer
    /\ UNCHANGED <<place, convs, stored, load, typed>>
    /\ Set

SetAgentMode ==
    /\ UserMay
    /\ mode' = "agent"
    /\ gallery' = SavedGallery(mode, composer, gallery)
    /\ composer' = DraftAt(drafts, place)
    /\ UNCHANGED <<place, drafts, convs, stored, load, typed>>
    /\ Set

\* The draft that is left is saved and the other restored.
Go(c) ==
    /\ place' = c
    /\ drafts' = SavedDrafts(mode, place, composer, drafts)
    /\ composer' = DraftAt(drafts', c)

\* createAgentConversation: an empty one is used again if it is the latest.
CreateConversation(c) ==
    /\ UserMay /\ mode = "agent"
    /\ \/ convs[c] = "empty"
       \/ /\ convs[c] = "absent" /\ stored[c] = "absent" /\ c # place /\ drafts[c] = Empty
          /\ Known = {} \/ \E b \in Known : convs[b] = "used"
          /\ \A b \in Convs : b < c => convs[b] # "absent" \/ stored[b] # "absent"
    /\ convs' = [convs EXCEPT ![c] = "empty"]
    /\ Go(c)
    /\ typed' = IF convs[c] = "absent" THEN [typed EXCEPT ![c] = Empty] ELSE typed
    /\ UNCHANGED <<mode, gallery, stored, load>>
    /\ Set

\* setActiveAgentConversationId.
OpenConversation(c) ==
    /\ UserMay /\ mode = "agent" /\ c \in Known \ {place}
    /\ Go(c)
    /\ UNCHANGED <<mode, gallery, convs, stored, load, typed>>
    /\ Set

\* deleteAgentConversation.
DeleteConversation(c) ==
    /\ UserMay /\ mode = "agent" /\ c \in Known
    /\ convs' = [convs EXCEPT ![c] = "absent"]
    /\ drafts' = [drafts EXCEPT ![c] = Empty]
    /\ place' = IF place = c THEN Nowhere ELSE place
    /\ composer' = IF place = c THEN Empty ELSE composer
    /\ typed' = [typed EXCEPT ![c] = Empty]
    /\ UNCHANGED <<mode, gallery, stored, load>>
    /\ Set

-----------------------------------------------------------------------------
(* flushAgentConversationsToIndexedDB. *)

\* Mutant: the loop does not look whether the conversations changed meanwhile.
FlushWrittenOnce ==
    /\ flush.pc = "writing"
    /\ stored' = flush.batch
    /\ flush' = [flush EXCEPT !.pc = "idle", !.last = flush.batch]
    /\ UNCHANGED <<mode, place, composer, gallery, drafts, convs, saved, load, typed>>

FlushWritten ==
    /\ flush.pc = "writing"
    /\ stored' = flush.batch
    /\ flush' = IF flush.queued \/ convs # flush.batch
                THEN [flush EXCEPT !.last = flush.batch, !.queued = FALSE, !.batch = convs]
                ELSE [flush EXCEPT !.last = flush.batch, !.pc = "idle"]
    /\ UNCHANGED <<mode, place, composer, gallery, drafts, convs, saved, load, typed>>

\* The transaction fails: the next change starts the loop again.
FlushFails ==
    /\ flush.pc = "writing"
    /\ flush' = [flush EXCEPT !.pc = "failed"]
    /\ UNCHANGED <<mode, place, composer, gallery, drafts, convs, saved, stored, load, typed>>

-----------------------------------------------------------------------------
(* A reload: mergePersistedState, then runInitStore. *)

\* A conversation that was not yet written is lost with its draft.
PageReload ==
    /\ load.loads < MaxLoads
    /\ load' = [pc |-> "conversations", loads |-> load.loads + 1,
                gallery |-> Empty, drafts |-> NoDrafts]
    /\ mode' = saved.mode /\ place' = saved.place
    /\ gallery' = saved.gallery /\ drafts' = saved.drafts
    /\ composer' = IF saved.mode = "agent" /\ DraftAt(saved.drafts, saved.place) # Empty
                   THEN saved.drafts[saved.place] ELSE saved.gallery
    /\ convs' = NoConvs
    /\ flush' = [pc |-> "closed", queued |-> FALSE, batch |-> NoConvs, last |-> NoConvs]
    /\ typed' = [p \in Places |->
                   IF p = Gallery THEN (IF PersistInput THEN typed[p] ELSE Empty)
                   ELSE IF p \in KnownIn(stored) /\ (load.pc # "conversations" => p \in Known)
                   THEN typed[p] ELSE Empty]
    /\ UNCHANGED <<saved, stored>>

\* The stored conversations are loaded; drafts of others are dropped.
LoadConversations ==
    /\ load.pc = "conversations"
    /\ load' = [load EXCEPT !.pc = "tasks"]
    /\ convs' = [c \in Convs |-> IF stored[c] # "absent" THEN stored[c] ELSE convs[c]]
    /\ IF KnownIn(convs') = {}
       THEN /\ flush' = [flush EXCEPT !.pc = "idle"]
            /\ UNCHANGED <<place, drafts, composer, saved>>
       ELSE /\ place' = IF place \in KnownIn(convs') THEN place
                        ELSE CHOOSE c \in KnownIn(convs') : \A b \in KnownIn(convs') : c <= b
            /\ drafts' = [c \in Convs |-> IF c \in KnownIn(convs') THEN drafts[c] ELSE Empty]
            /\ composer' = IF mode = "agent" THEN DraftAt(drafts', place') ELSE composer
            /\ flush' = [flush EXCEPT !.pc = "writing", !.batch = convs']
            /\ UNCHANGED <<mode, gallery>> /\ Persist
    /\ UNCHANGED <<mode, gallery, stored, typed>>

\* The drafts whose images are to be read from IndexedDB.
ReadDrafts ==
    /\ load.pc = "tasks"
    /\ load' = [load EXCEPT !.pc = "images", !.gallery = gallery, !.drafts = drafts]
    /\ UNCHANGED <<mode, place, composer, gallery, drafts, convs, saved, stored, flush, typed>>

\* Drafts with images are put back as they were read, with their images.
RestoreDrafts ==
    LET withImage == \E c \in Convs : load.drafts[c].image
    IN  /\ load.pc = "images"
        /\ load' = [load EXCEPT !.pc = "done", !.gallery = Empty, !.drafts = NoDrafts]
        /\ gallery' = IF load.gallery.image THEN load.gallery ELSE gallery
        /\ drafts' = IF withImage THEN load.drafts ELSE drafts
        /\ composer' = IF mode = "gallery" /\ load.gallery.image THEN load.gallery
                       ELSE IF mode = "agent" /\ withImage THEN DraftAt(load.drafts, place)
                       ELSE composer
        /\ UNCHANGED <<mode, place, convs, stored, typed>>
        /\ Set

-----------------------------------------------------------------------------
DraftsNext ==
    \/ \E text \in Texts \cup {""} : SetPrompt(text)
    \/ AddInputImage \/ RemoveInputImage \/ SetMaskDraft \/ ClearMaskDraft
    \/ SendMessage \/ SetGalleryMode \/ SetAgentMode
    \/ \E c \in Convs : CreateConversation(c) \/ OpenConversation(c) \/ DeleteConversation(c)
    \/ FlushWritten \/ FlushFails
    \/ PageReload \/ LoadConversations \/ ReadDrafts \/ RestoreDrafts

DraftsSpec == DraftsInit /\ [][DraftsNext]_draftVars

-----------------------------------------------------------------------------
(* Properties *)

DraftsTypeOK ==
    /\ mode \in {"gallery", "agent"}
    /\ place \in Convs \cup {Nowhere}
    /\ composer \in Draft /\ gallery \in Draft
    /\ drafts \in [Convs -> Draft] /\ typed \in [Places -> Draft]
    /\ convs \in [Convs -> {"absent", "empty", "used"}]
    /\ stored \in [Convs -> {"absent", "empty", "used"}]
    /\ saved \in [mode: {"gallery", "agent"}, place: Convs \cup {Nowhere}, gallery: Draft,
                  drafts: [Convs -> Draft]]
    /\ flush.pc \in {"idle", "writing", "failed", "closed"}
    /\ load.pc \in {"conversations", "tasks", "images", "done"}

\* What the user typed in the gallery or in a conversation is what that place
\* shows, now or when the user comes back to it, and what localStorage holds:
\* switching mode or conversation and reloading neither lose nor mix drafts.
TypedIsKept ==
    load.pc = "done" =>
      \A p \in {Gallery} \cup Known :
        /\ (IF p = Here THEN composer ELSE IF p = Gallery THEN gallery ELSE drafts[p]) = typed[p]
        /\ (p = Gallery => PersistInput) =>
              (IF p = Gallery THEN saved.gallery ELSE saved.drafts[p]) = typed[p]

\* When the writing loop rests, IndexedDB has the conversations of the page,
\* however they changed while it was writing.
ConversationsAreStored ==
    load.pc = "done" /\ flush.pc = "idle" => stored = convs

=============================================================================
