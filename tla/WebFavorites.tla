----------------------------- MODULE WebFavorites -----------------------------
(***************************************************************************)
(* The favourites of the web client: tasks kept in named collections       *)
(* (store.ts, FavoriteCollections.tsx, InputBar.tsx).  The collections are *)
(* persisted with the settings at once, the tasks row by row by writes     *)
(* that end later, or fail.  Deleting collections waits for such writes    *)
(* between its steps, while everything else goes on, and a failure drops   *)
(* what is left of it.                                                     *)
(*                                                                         *)
(* Writes of one row that are under way are taken together.  A task is     *)
(* removed in one step; how, is in WebTasks.                               *)
(***************************************************************************)
EXTENDS Naturals, Sequences, FiniteSets, SequencesExt

CONSTANTS
    CollectionIds,  \* ids genId makes
    CollectionNames,
    FavoriteTasks,  \* tasks
    Saved,          \* collections, after the default one, that an earlier session left
    Deletions,      \* deletions that may be under way at once
    MaxClicks       \* bound on what the user does

ASSUME WebFavoritesAssumption ==
    /\ MaxClicks \in Nat
    /\ {"none", "__default_favorites__"} \cap CollectionIds = {}  \* "none" stands for null
    /\ "no name" \notin CollectionNames
    /\ \A s \in Saved : s \in Seq(CollectionIds) /\ IsInjective(s)

VARIABLES
    favorites,  \* favoriteCollections: a sequence of ids
    nameOf,     \* the names of all collections that have been made
    preferred,  \* defaultFavoriteCollectionId
    activeId,    \* activeFavoriteCollectionId
    selected,   \* selectedFavoriteCollectionIds
    drag,       \* whether a selection is being drawn, and the one it began with
    stray,      \* history: ids that a failed deletion, or a drag, left selected
    cards,      \* tasks: their favoriteCollectionIds and isFavorite
    kept,       \* the rows of IndexedDB
    writing,    \* tasks whose row is being written
    picker,     \* favoritePickerTaskIds and the checked ids
    dialog,     \* the confirmation that is asked for
    deleting,   \* deleteFavoriteCollection under way
    clicks

listVars     == <<favorites, nameOf, preferred>>
selectVars   == <<selected, drag, stray>>
cardVars     == <<cards, kept, writing>>
favoriteVars == <<listVars, activeId, selectVars, cardVars, picker, dialog, deleting, clicks>>

-----------------------------------------------------------------------------
Default     == "__default_favorites__"
All         == "__all_favorites__"
DefaultName == "default name"
Nowhere     == "none"

AllIds    == CollectionIds \cup {Default}
Names  == CollectionNames \cup {DefaultName}
NoName == "no name"

Elements(seq) == {seq[i] : i \in DOMAIN seq}
Listed        == Elements(favorites)

\* An id is listed once.
Without(seq, x) ==
    IF x \in Elements(seq) THEN RemoveAt(seq, CHOOSE i \in DOMAIN seq : seq[i] = x) ELSE seq

Card == [ids: SUBSET AllIds, favorite: BOOLEAN]
Gone == [ids |-> {}, favorite |-> FALSE, gone |-> TRUE]

ClosedPicker == [of |-> {}, checked |-> {}]
NoDrag       == [on |-> FALSE, moved |-> FALSE, from |-> {}]
NoDialog     == [kind |-> "none", ids |-> <<>>]
\* at: collection being deleted.  batch, rest: of a batch, with these to come.
\* images: with its tasks.  doomed: the tasks to remove.  until: the rows it
\* waits for.
NoDeletion == [at |-> Nowhere, batch |-> FALSE, rest |-> <<>>, images |-> FALSE,
               doomed |-> {}, until |-> {}]

FavoritesInit ==
    /\ \E s \in Saved :
          /\ favorites = <<Default>> \o s
          /\ cards = [t \in FavoriteTasks |-> [ids |-> Elements(s), favorite |-> s # <<>>]]
    /\ nameOf = [c \in AllIds |-> IF c \in Listed THEN DefaultName ELSE NoName]
    /\ preferred = Default /\ activeId = Nowhere
    /\ selected = {} /\ drag = NoDrag /\ stray = {}
    /\ kept = cards /\ writing = {}
    /\ picker = ClosedPicker /\ dialog = NoDialog
    /\ deleting = [d \in Deletions |-> NoDeletion] /\ clicks = 0

-----------------------------------------------------------------------------
(* Collections. *)

Named(seq, names) ==
    LET named == {c \in Elements(seq) : c = Default \/ names[c] = DefaultName}
    IN  IF Default \in named THEN Default
        ELSE IF named = {} THEN Nowhere
        ELSE seq[CHOOSE i \in DOMAIN seq : seq[i] \in named /\ \A j \in 1..(i - 1) : seq[j] \notin named]

\* resolveDefaultFavoriteCollectionId.
Resolved(seq, want) ==
    IF want = Nowhere \/ want \in Elements(seq) THEN want
    ELSE IF Default \in Elements(seq) THEN Default ELSE Head(seq)

\* ensureDefaultNamedCollection.
WithDefault(seq, names) == IF Named(seq, names) = Nowhere THEN <<Default>> \o seq ELSE seq

\* getTaskFavoriteCollectionIds: a favourite of no collection is one of the
\* preferred.
MemberOf(card) ==
    IF card.ids # {} THEN card.ids
    ELSE IF card.favorite /\ preferred # Nowhere THEN {preferred} ELSE {}

\* normalizeTaskFavoriteState.
Homed(card, seq, names) ==
    LET known == card.ids \cap Elements(seq)
        ids   == IF known # {} THEN known
                 ELSE IF card.favorite THEN {Named(seq, names)} ELSE {}
    IN  IF card = Gone THEN card ELSE [ids |-> ids, favorite |-> ids # {} \/ card.favorite]

Present == {t \in FavoriteTasks : cards[t] # Gone}

\* getInitialCheckedCollectionIds, for the tasks ts with the cards cs.
Checked(cs, ts, default) ==
    LET member(t) == IF cs[t].ids # {} THEN cs[t].ids
                     ELSE IF cs[t].favorite /\ default # Nowhere THEN {default} ELSE {}
        there     == {t \in ts : cs[t] # Gone}
        sets      == {member(t) : t \in there}
    IN  IF UNION sets = {} THEN {default} \ {Nowhere}
        ELSE IF Cardinality(sets) = 1 THEN CHOOSE s \in sets : TRUE ELSE {}

\* The effect of the open picker: any change of the tasks, or of the default,
\* makes it check what the tasks are in.
PickerFollows ==
    picker' = IF picker.of # {} /\ (cards' # cards \/ preferred' # preferred)
              THEN [picker EXCEPT !.checked = Checked(cards', picker.of, preferred')] ELSE picker

\* setTasks and putTask.
Put(new, ts) ==
    /\ cards' = new
    /\ writing' = writing \cup ts
    /\ UNCHANGED kept

Clicked == clicks < MaxClicks /\ clicks' = clicks + 1

\* createFavoriteCollection: the one of that name, or a new one.
Create(name, open) ==
    /\ Clicked /\ open = (picker.of # {})
    /\ LET same == {c \in Listed : nameOf[c] = name}
           new  == CHOOSE c \in CollectionIds : nameOf[c] = NoName
           made == IF same # {} THEN CHOOSE c \in same : TRUE ELSE new
       IN  /\ \E c \in CollectionIds : nameOf[c] = NoName
           /\ favorites' = IF same # {} THEN favorites ELSE Append(favorites, new)
           /\ nameOf' = [nameOf EXCEPT ![made] = name]
           /\ picker' = IF open THEN [picker EXCEPT !.checked = @ \cup {made}] ELSE picker
    /\ UNCHANGED <<preferred, activeId, selectVars, cardVars, dialog, deleting>>

Rename(c, name) ==
    /\ Clicked /\ c \in Listed /\ nameOf[c] # name
    /\ nameOf' = [nameOf EXCEPT ![c] = name]
    /\ UNCHANGED <<favorites, preferred, activeId, selectVars, cardVars, picker, dialog, deleting>>

\* handleDrop and handleTouchEnd: c is put before or after another.
Reorder(c, target, after) ==
    LET left == Without(favorites, c)
        at   == CHOOSE i \in DOMAIN left : left[i] = target
        cut  == IF after THEN at ELSE at - 1
    IN  /\ Clicked /\ {c, target} \subseteq Listed /\ c # target
        /\ favorites' = SubSeq(left, 1, cut) \o <<c>> \o SubSeq(left, cut + 1, Len(left))
        /\ UNCHANGED <<nameOf, preferred, activeId, selectVars, cardVars, picker, dialog, deleting>>

\* setDefaultFavoriteCollectionId.
SetPreferred(c) ==
    /\ preferred' = IF c = Nowhere \/ c \in Listed THEN c ELSE preferred
    /\ UNCHANGED <<favorites, nameOf, activeId, selectVars, cardVars, deleting>>
    /\ PickerFollows

\* handleSetDefault: another default is asked for first.
ChooseDefault(c) ==
    /\ Clicked /\ c \in Listed /\ dialog.kind = "none"
    /\ IF preferred # c /\ preferred \in Listed
       THEN /\ dialog' = [kind |-> "default", ids |-> <<c>>]
            /\ UNCHANGED <<listVars, activeId, selectVars, cardVars, picker, deleting>>
       ELSE SetPreferred(IF preferred = c THEN Nowhere ELSE c) /\ UNCHANGED dialog

\* handleDelete, and handleDeleteSelectedFavoriteCollections for a batch.
AskDelete(kind, ids) ==
    /\ Clicked /\ dialog.kind = "none"
    /\ ids # <<>> /\ Len(favorites) > Len(ids)
    /\ dialog' = [kind |-> kind, ids |-> ids]
    /\ UNCHANGED <<listVars, activeId, selectVars, cardVars, picker, deleting>>

Dismiss ==
    /\ dialog.kind # "none" /\ dialog' = NoDialog
    /\ UNCHANGED <<listVars, activeId, selectVars, cardVars, picker, deleting, clicks>>

ConfirmDefault ==
    /\ dialog.kind = "default" /\ dialog' = NoDialog
    /\ SetPreferred(dialog.ids[1]) /\ UNCHANGED clicks

-----------------------------------------------------------------------------
(* deleteFavoriteCollection, for c and then for the rest of a batch. *)

Members(c) == {t \in Present : c \in MemberOf(cards[t])}

Left(t, c) == MemberOf(cards[t]) \cap (Listed \ {c})

\* What is left of a batch, or of a single deletion, when one collection is done.
Rest(del) == IF del.rest = <<>> THEN NoDeletion
             ELSE [NoDeletion EXCEPT !.batch = del.batch, !.rest = del.rest, !.images = del.images]

\* The part up to the first await, of the deletion del of c; without members
\* there is none.
Begin(d, c, del) ==
    LET moved == IF del.images THEN {t \in Members(c) : Left(t, c) # {}} ELSE Members(c)
        next  == Without(favorites, c)
    IN  IF c \notin Listed \/ Len(favorites) <= 1
        THEN /\ deleting' = [deleting EXCEPT ![d] = Rest(del)]
             /\ UNCHANGED <<listVars, activeId, cardVars, picker>>
        ELSE /\ favorites' = next
             /\ preferred' = IF preferred = c THEN Head(next) ELSE Resolved(next, preferred)
             /\ activeId' = IF activeId = c THEN Nowhere ELSE activeId
             /\ Put([t \in FavoriteTasks |-> IF t \in moved
                        THEN [ids |-> Left(t, c), favorite |-> Left(t, c) # {}] ELSE cards[t]], moved)
             /\ deleting' = [deleting EXCEPT ![d] =
                   IF Members(c) = {} THEN Rest(del)
                   ELSE [del EXCEPT !.at = c, !.until = moved,
                                    !.doomed = IF del.images THEN Members(c) \ moved ELSE {}]]
             /\ UNCHANGED nameOf
             /\ PickerFollows

\* Leaving the opened collection, and the end of a batch, selects nothing; a
\* deletion that had nothing to wait for is done with c.
Unselects(d, c, del) ==
    /\ selected' = IF activeId' # activeId \/ (del.batch /\ deleting'[d] = NoDeletion) THEN {}
                   ELSE IF c \in Listed \ Elements(favorites') /\ deleting'[d].at = Nowhere
                   THEN selected \ {c} ELSE selected
    /\ UNCHANGED <<drag, stray>>

ConfirmDelete(d, images) ==
    LET del == [NoDeletion EXCEPT !.batch = dialog.kind = "batch", !.rest = Tail(dialog.ids),
                                  !.images = images]
    IN  /\ dialog.kind \in {"delete", "batch"} /\ dialog' = NoDialog /\ deleting[d] = NoDeletion
        /\ Begin(d, dialog.ids[1], del)
        /\ Unselects(d, dialog.ids[1], del)
        /\ UNCHANGED clicks

\* Mutant: the collection stays selected.
EndsSelected(d) == selected' = selected /\ UNCHANGED <<drag, stray>>

\* What follows the last await of one collection.
EndsDeletion(d) ==
    /\ selected' = IF deleting[d].batch /\ deleting[d].rest = <<>> THEN {}
                   ELSE selected \ {deleting[d].at}
    /\ UNCHANGED <<drag, stray>>

\* The rows are written; the tasks of no other collection are removed.
Deleted(d) ==
    LET del == deleting[d]
    IN  /\ del.at # Nowhere /\ del.until \cap writing = {}
        /\ cards' = [t \in FavoriteTasks |-> IF t \in del.doomed THEN Gone ELSE cards[t]]
        /\ kept' = [t \in FavoriteTasks |-> IF t \in del.doomed THEN Gone ELSE kept[t]]
        /\ writing' = writing \ del.doomed
        /\ EndsDeletion(d)
        /\ deleting' = [deleting EXCEPT ![d] = Rest(del)]
        /\ UNCHANGED <<listVars, activeId, dialog, clicks>>
        /\ PickerFollows

\* The deletions ds end where they are, with the rest of their batches; what
\* they were deleting stays selected.
Abandon(ds) ==
    /\ deleting' = [d \in Deletions |-> IF d \in ds THEN NoDeletion ELSE deleting[d]]
    /\ stray' = stray \cup (selected \cap {deleting[d].at : d \in ds})
    /\ UNCHANGED <<listVars, activeId, selected, drag, dialog, clicks>>

\* Removing the tasks fails: before the list has changed, or with some of the
\* rows gone.
RemovalFails(d, rows) ==
    LET del == deleting[d]
    IN  /\ del.doomed # {} /\ del.until \cap writing = {} /\ rows \subseteq del.doomed
        /\ \/ rows = {} /\ UNCHANGED cards
           \/ cards' = [t \in FavoriteTasks |-> IF t \in del.doomed THEN Gone ELSE cards[t]]
        /\ kept' = [t \in FavoriteTasks |-> IF t \in rows THEN Gone ELSE kept[t]]
        /\ writing' = writing \ rows
        /\ Abandon({d})
        /\ PickerFollows

\* A row is not written: the deletions that wait for it are abandoned.
WriteFails(t) ==
    /\ t \in writing /\ writing' = writing \ {t}
    /\ Abandon({d \in Deletions : t \in deleting[d].until})
    /\ UNCHANGED <<cards, kept, picker>>

\* The next collection of the batch.
NextDeletion(d) ==
    LET del == [deleting[d] EXCEPT !.rest = Tail(@)]
    IN  /\ deleting[d].at = Nowhere /\ deleting[d].rest # <<>>
        /\ Begin(d, Head(deleting[d].rest), del)
        /\ Unselects(d, Head(deleting[d].rest), del)
        /\ UNCHANGED <<dialog, clicks>>

-----------------------------------------------------------------------------
(* The picker. *)

OpenPicker(ts) ==
    /\ Clicked /\ picker.of = {} /\ ts # {} /\ ts \subseteq Present
    /\ picker' = [of |-> ts, checked |-> Checked(cards, ts, preferred)]
    /\ UNCHANGED <<listVars, activeId, selectVars, cardVars, dialog, deleting>>

Toggle(c) ==
    /\ Clicked /\ picker.of # {} /\ c \in Listed
    /\ picker' = [picker EXCEPT !.checked = IF c \in @ THEN @ \ {c} ELSE @ \cup {c}]
    /\ UNCHANGED <<listVars, activeId, selectVars, cardVars, dialog, deleting>>

ClosePicker ==
    /\ picker.of # {} /\ picker' = ClosedPicker
    /\ UNCHANGED <<listVars, activeId, selectVars, cardVars, dialog, deleting, clicks>>

\* updateTasksFavoriteCollections.
ConfirmPicker ==
    LET ids == picker.checked
        ts  == {t \in picker.of \cap Present : MemberOf(cards[t]) # ids}
    IN  /\ picker.of # {} /\ picker' = ClosedPicker
        /\ Put([t \in FavoriteTasks |-> IF t \in ts THEN [ids |-> ids, favorite |-> ids # {}]
                                        ELSE cards[t]], ts)
        /\ UNCHANGED <<listVars, activeId, selectVars, dialog, deleting, clicks>>

-----------------------------------------------------------------------------
(* The rest of the page. *)

Shown == Listed \cup {All}

\* The batch bar: all cards that the search shows, or none.
Select(ids) ==
    /\ Clicked /\ ids \subseteq Shown /\ ids # selected
    /\ selected' = ids
    /\ UNCHANGED <<drag, stray, listVars, activeId, cardVars, picker, dialog, deleting>>

\* The cards ids change sides: one card, or all that the search shows.
Flip(ids) ==
    /\ Clicked /\ ids \subseteq Shown /\ ids # {}
    /\ selected' = (selected \ ids) \cup (ids \ selected)
    /\ UNCHANGED <<drag, stray, listVars, activeId, cardVars, picker, dialog, deleting>>

\* beginSelection: the drag keeps the selection it begins with.
DragBegins ==
    /\ Clicked /\ activeId = Nowhere /\ ~drag.on /\ dialog.kind = "none" /\ picker.of = {}
    /\ drag' = [on |-> TRUE, moved |-> FALSE, from |-> selected]
    /\ UNCHANGED <<selected, stray, listVars, activeId, cardVars, picker, dialog, deleting>>

\* updateSelectionFromPoint: the box lies over the cards hit.
DragMoves(hit) ==
    /\ drag.on /\ hit \subseteq Shown
    /\ selected' = (drag.from \ hit) \cup (hit \ drag.from)
    /\ drag' = [drag EXCEPT !.moved = TRUE]
    /\ stray' = stray \cup (selected' \ (selected \cup Shown))
    /\ UNCHANGED <<listVars, activeId, cardVars, picker, dialog, deleting, clicks>>

\* endSelection; one that did not move, off the cards, selects nothing.
DragEnds(empties) ==
    /\ drag.on /\ drag' = NoDrag /\ (empties => ~drag.moved)
    /\ selected' = IF empties THEN {} ELSE selected
    /\ UNCHANGED <<stray, listVars, activeId, cardVars, picker, dialog, deleting, clicks>>

OpenCollection(c) ==
    /\ Clicked /\ c \in Listed \cup {All, Nowhere} /\ c # activeId
    /\ activeId' = c /\ selected' = {} /\ drag' = NoDrag
    /\ UNCHANGED <<stray, listVars, cardVars, picker, dialog, deleting>>

Written(t) ==
    /\ t \in writing
    /\ writing' = writing \ {t} /\ kept' = [kept EXCEPT ![t] = cards[t]]
    /\ deleting' = [d \in Deletions |-> [deleting[d] EXCEPT !.until = @ \ {t}]]
    /\ UNCHANGED <<listVars, activeId, selectVars, cards, picker, dialog, clicks>>

\* importData: the collections of the file are added, a row is replaced, and the
\* tasks are given homes.
Import(c, t, card) ==
    LET names == [nameOf EXCEPT ![c] = IF c \in Listed THEN @ ELSE DefaultName]
        seq   == WithDefault(IF c \in Listed THEN favorites ELSE Append(favorites, c), names)
        rows  == [kept EXCEPT ![t] = card]
    IN  /\ Clicked
        /\ nameOf' = [names EXCEPT ![Default] = IF Default \in Listed THEN @ ELSE DefaultName]
        /\ favorites' = seq /\ preferred' = Resolved(seq, c)
        /\ cards' = [u \in FavoriteTasks |-> Homed(rows[u], seq, names)]
        /\ kept' = rows
        /\ writing' = {u \in FavoriteTasks : cards'[u] # rows[u]}
        /\ stray' = stray \ Elements(seq)
        /\ UNCHANGED <<activeId, selected, drag, dialog, deleting>>
        /\ PickerFollows

\* The page is loaded again: the collections as they were, the tasks as far as
\* they were written, each favourite with a home.
Reload ==
    LET seq == WithDefault(favorites, nameOf)
    IN  /\ Clicked
        /\ favorites' = seq /\ preferred' = Resolved(seq, preferred)
        /\ nameOf' = [nameOf EXCEPT ![Default] = IF Default \in Listed THEN @ ELSE
                                                 IF Default \in Elements(seq) THEN DefaultName ELSE @]
        /\ cards' = [t \in FavoriteTasks |-> Homed(kept[t], seq, nameOf)]
        /\ writing' = {t \in FavoriteTasks : cards'[t] # kept[t]}
        /\ activeId' = Nowhere /\ selected' = {} /\ drag' = NoDrag /\ stray' = {}
        /\ picker' = ClosedPicker /\ dialog' = NoDialog
        /\ deleting' = [d \in Deletions |-> NoDeletion]
        /\ UNCHANGED kept

FavoritesNext ==
    \/ \E n \in Names, open \in BOOLEAN : Create(n, open)
    \/ \E c \in AllIds, n \in Names : Rename(c, n)
    \/ \E c, target \in AllIds, after \in BOOLEAN : Reorder(c, target, after)
    \/ \E c \in AllIds : ChooseDefault(c) \/ Toggle(c) \/ AskDelete("delete", <<c>>)
    \/ AskDelete("batch", SelectSeq(favorites, LAMBDA c : c \in selected))
    \/ Dismiss \/ ConfirmDefault
    \/ \E d \in Deletions : \/ \E images \in BOOLEAN : ConfirmDelete(d, images)
                            \/ Deleted(d) \/ NextDeletion(d)
                            \/ \E rows \in SUBSET FavoriteTasks : RemovalFails(d, rows)
    \/ \E ts \in SUBSET FavoriteTasks : OpenPicker(ts)
    \/ ClosePicker \/ ConfirmPicker
    \/ \E ids \in SUBSET (AllIds \cup {All}) : Select(ids) \/ Flip(ids) \/ DragMoves(ids)
    \/ DragBegins \/ \E empties \in BOOLEAN : DragEnds(empties)
    \/ \E c \in AllIds \cup {All, Nowhere} : OpenCollection(c)
    \/ \E t \in FavoriteTasks : Written(t) \/ WriteFails(t)
    \/ \E c \in CollectionIds, t \in FavoriteTasks, card \in Card : Import(c, t, card)
    \/ Reload

FavoritesSpec == FavoritesInit /\ [][FavoritesNext]_favoriteVars

-----------------------------------------------------------------------------
(* Properties *)

FavoritesTypeOK ==
    /\ Listed \subseteq AllIds /\ Cardinality(Listed) = Len(favorites)
    /\ nameOf \in [AllIds -> Names \cup {NoName}]
    /\ preferred \in AllIds \cup {Nowhere} /\ activeId \in AllIds \cup {All, Nowhere}
    /\ selected \cup drag.from \subseteq AllIds \cup {All} /\ {drag.on, drag.moved} \subseteq BOOLEAN
    /\ stray \subseteq AllIds \cup {All}
    /\ \A t \in FavoriteTasks : {cards[t], kept[t]} \subseteq Card \cup {Gone}
    /\ writing \subseteq FavoriteTasks
    /\ picker.of \subseteq FavoriteTasks /\ picker.checked \subseteq AllIds
    /\ dialog.kind \in {"none", "default", "delete", "batch"} /\ clicks \in 0..MaxClicks

\* However deletions, single and in batches, overlap with each other, with
\* failing writes and with what else the user does, there is always a collection,
\* and the default and the opened one exist.  A collection that does not exist is
\* selected only while it is being deleted, or because its deletion failed or a
\* drag that began before it was gone brought it back.
FavoritesRefer ==
    /\ favorites # <<>>
    /\ preferred \in Listed \cup {Nowhere}
    /\ activeId \in Listed \cup {All, Nowhere}
    /\ selected \subseteq Shown \cup {deleting[d].at : d \in Deletions} \cup stray

=============================================================================
