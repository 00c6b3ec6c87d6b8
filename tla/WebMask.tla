------------------------------- MODULE WebMask -------------------------------
(***************************************************************************)
(* The canvas of the mask editor (MaskEditorModal.tsx): strokes of one     *)
(* pointer, which a second pointer turns into a pinch and takes back, the  *)
(* stacks of undo and redo, of whole canvases, and the save.  WebInput has *)
(* what a saved mask does to the input bar.                                *)
(*                                                                         *)
(* A canvas is the sequence of the strokes on it.  Pan, zoom and cursor    *)
(* change nothing here.                                                    *)
(***************************************************************************)
EXTENDS Naturals, Sequences, SequencesExt

CONSTANTS
    Pointers,    \* pointer ids
    MaxHistory,  \* snapshots kept for undo
    MaxStrokes,  \* bound on strokes and clears
    OneHand      \* no button is pressed while a pointer is on the canvas

ASSUME WebMaskAssumption ==
    /\ "none" \notin Pointers  \* stands for null
    /\ MaxHistory \in Nat \ {0} /\ MaxStrokes \in Nat /\ OneHand \in BOOLEAN

VARIABLES
    pad,      \* the editor: closed, loading, ready or saving
    canvas,   \* the mask canvas
    history,  \* undoStackRef, redoStackRef
    touch,    \* pointerPositionsRef, activePointerIdRef, pinchGestureRef
    savedMask,    \* maskDraft: the mask that was saved
    strokes   \* strokes so far; the last is the number of the stroke being drawn

maskVars == <<pad, canvas, history, touch, savedMask, strokes>>

-----------------------------------------------------------------------------
NoPointer == "none"
White     == <<>>
NoHistory == [undo |-> <<>>, redo |-> <<>>]
NoTouch   == [down |-> {}, active |-> NoPointer, pinch |-> FALSE]

MaskInit ==
    /\ pad = "closed" /\ canvas = White /\ history = NoHistory
    /\ touch = NoTouch /\ savedMask = White /\ strokes = 0

\* Mutant: a new stroke leaves what could be redone.
PushKeepsRedo(h, content) == [h EXCEPT !.undo = Append(@, content)]

\* Mutant: the oldest snapshot stays.
PushUnlimited(h, content) == [undo |-> Append(h.undo, content), redo |-> <<>>]

\* pushUndoSnapshot: the oldest snapshot goes; nothing can be redone.
PushUndo(h, content) ==
    [undo |-> LET all == Append(h.undo, content) IN IF Len(all) > MaxHistory THEN Tail(all) ELSE all,
     redo |-> <<>>]

\* cancelActiveStroke: the canvas before the stroke comes back.
Cancelled(before) ==
    IF touch.active # NoPointer /\ before.undo # <<>>
    THEN /\ canvas'  = Last(before.undo)
         /\ history' = [before EXCEPT !.undo = Front(@)]
    ELSE UNCHANGED <<canvas, history>>

ButtonFree == pad = "ready" /\ (OneHand => touch.down = {})

-----------------------------------------------------------------------------
\* The effect of a new imageId: the history starts anew.
OpenCanvas ==
    /\ pad = "closed" /\ pad' = "loading"
    /\ history' = NoHistory /\ touch' = NoTouch
    /\ UNCHANGED <<canvas, savedMask, strokes>>

\* loadCanvases: white, or the draft of this image, unless that cannot be read.
CanvasLoaded ==
    /\ pad = "loading" /\ pad' = "ready"
    /\ canvas' \in {White, savedMask}
    /\ UNCHANGED <<history, touch, savedMask, strokes>>

CloseCanvas ==
    /\ pad \in {"loading", "ready"} /\ pad' = "closed"
    /\ history' = NoHistory /\ touch' = NoTouch
    /\ UNCHANGED <<canvas, savedMask, strokes>>

\* handlePointerDown: one pointer draws, with a snapshot first; a second one
\* takes the stroke back and pinches.
PointerDown(p) ==
    /\ pad = "ready" /\ p \notin touch.down
    /\ IF touch.down = {}
       THEN /\ strokes < MaxStrokes /\ strokes' = strokes + 1
            /\ touch'   = [touch EXCEPT !.down = {p}, !.active = p]
            /\ history' = PushUndo(history, canvas)
            /\ canvas'  = Append(canvas, strokes')
       ELSE /\ touch' = [down |-> touch.down \cup {p}, active |-> NoPointer, pinch |-> TRUE]
            /\ Cancelled(history) /\ UNCHANGED strokes
    /\ UNCHANGED <<pad, savedMask>>

\* handlePointerMove: the active pointer goes on drawing its stroke.
PointerMove(p) ==
    /\ pad = "ready" /\ touch.active = p
    /\ canvas' = IF Contains(canvas, strokes) THEN canvas ELSE Append(canvas, strokes)
    /\ UNCHANGED <<pad, history, touch, savedMask, strokes>>

\* finishStroke; the pointer that is left after a pinch does not draw.
PointerUp(p) ==
    /\ p \in touch.down
    /\ LET down == touch.down \ {p}
       IN  touch' = [down   |-> down,
                     active |-> IF touch.active = p THEN NoPointer ELSE touch.active,
                     pinch  |-> touch.pinch /\ \E q, r \in down : q # r]
    /\ UNCHANGED <<pad, canvas, history, savedMask, strokes>>

UndoStroke ==
    /\ ButtonFree /\ history.undo # <<>>
    /\ history' = [undo |-> Front(history.undo), redo |-> Append(history.redo, canvas)]
    /\ canvas'  = Last(history.undo)
    /\ UNCHANGED <<pad, touch, savedMask, strokes>>

RedoStroke ==
    /\ ButtonFree /\ history.redo # <<>>
    /\ history' = [undo |-> Append(history.undo, canvas), redo |-> Front(history.redo)]
    /\ canvas'  = Last(history.redo)
    /\ UNCHANGED <<pad, touch, savedMask, strokes>>

ClearCanvas ==
    /\ ButtonFree /\ strokes < MaxStrokes /\ strokes' = strokes + 1
    /\ history' = PushUndo(history, canvas) /\ canvas' = White
    /\ UNCHANGED <<pad, touch, savedMask>>

SaveCanvas ==
    /\ ButtonFree /\ pad' = "saving"
    /\ UNCHANGED <<canvas, history, touch, savedMask, strokes>>

\* The saved mask becomes the draft and the editor closes, or it stays open.
CanvasSaved ==
    /\ pad = "saving"
    /\ \/ pad' = "closed" /\ savedMask' = canvas /\ history' = NoHistory /\ touch' = NoTouch
       \/ pad' = "ready" /\ UNCHANGED <<savedMask, history, touch>>
    /\ UNCHANGED <<canvas, strokes>>

\* handleRemoveMask
DropMask ==
    /\ ButtonFree /\ savedMask # White
    /\ pad' = "closed" /\ savedMask' = White
    /\ history' = NoHistory /\ touch' = NoTouch
    /\ UNCHANGED <<canvas, strokes>>

MaskNext ==
    \/ OpenCanvas \/ CanvasLoaded \/ CloseCanvas
    \/ \E p \in Pointers : PointerDown(p) \/ PointerMove(p) \/ PointerUp(p)
    \/ UndoStroke \/ RedoStroke \/ ClearCanvas
    \/ SaveCanvas \/ CanvasSaved \/ DropMask

MaskSpec == MaskInit /\ [][MaskNext]_maskVars

-----------------------------------------------------------------------------
(* Properties *)

MaskTypeOK ==
    /\ pad \in {"closed", "loading", "ready", "saving"}
    /\ {canvas, savedMask} \subseteq Seq(1..MaxStrokes)
    /\ history \in [undo : Seq(Seq(1..MaxStrokes)), redo : Seq(Seq(1..MaxStrokes))]
    /\ Len(history.undo) + Len(history.redo) <= MaxHistory
    /\ touch.down \subseteq Pointers /\ touch.active \in touch.down \cup {NoPointer}
    /\ strokes \in 0..MaxStrokes

\* However strokes, pinches, undo, redo and clear follow each other, undo and
\* redo walk one line of canvases, each one stroke or one clear after the one
\* before: nothing finished is lost, and no stroke that a pinch took back is left.
HistoryIsOneLine ==
    LET line == history.undo \o <<canvas>> \o Reverse(history.redo)
    IN  pad \in {"ready", "saving"} =>
            \A k \in 1..Len(line) - 1 :
                line[k + 1] = White \/ (line[k + 1] # White /\ Front(line[k + 1]) = line[k])

=============================================================================
