------------------------------- MODULE WebInput -------------------------------
(***************************************************************************)
(* The input bar of the web client (InputBar.tsx, store.ts): the reference *)
(* images in their order, the prompt whose mentions "image n" name them by *)
(* position, and the mask, whose target must be the first image.  The      *)
(* prompt exists twice, in the store and in the editable element of the    *)
(* page; every input event copies the element into the store, every change *)
(* of the store is drawn into the element unless it comes from the user.   *)
(* Files are read, replacements made, masks saved and the inputs of a task *)
(* reused over awaits, while the user goes on.                             *)
(*                                                                         *)
(* A prompt is the sequence of its mentions; "of" is not in the code: it   *)
(* is the image the user meant, for the property below.  A mention with    *)
(* number 0 has become plain text.                                         *)
(***************************************************************************)
EXTENDS Naturals, Sequences, FiniteSets, SequencesExt

CONSTANTS
    InputPictures,  \* ids of images (hashes of their data)
    Copied,         \* working copies the mask editor makes: image -> image
    LostPictures,   \* images no longer stored
    Reusable,       \* tasks to reuse: [images, mask, mentions]
    MaxImages,      \* API_MAX_IMAGES
    MaxReading,     \* bound on files, and on replacements, read at once
    MaxMentions,    \* bound on the mentions of the prompt
    MaxInputActs,   \* bound on what the user does
    InMemory,       \* the images of a reused task are cached: no event comes between
    Retyped         \* an input event may leave the text as it was

ASSUME WebInputAssumption ==
    /\ "none" \notin InputPictures
    /\ LostPictures \subseteq InputPictures /\ Copied \in [InputPictures -> InputPictures]
    /\ {MaxImages, MaxReading, MaxMentions, MaxInputActs} \subseteq Nat
    /\ {InMemory, Retyped} \subseteq BOOLEAN

VARIABLES
    bar,        \* inputImages, prompt, maskDraft, maskEditorImageId; the element's text
    arriving,   \* files being read
    replacing,  \* replacements being read: [index, id, by]
    saving,     \* handleSave of the mask editor
    reusing,    \* reuseConfig under way
    inputActs

inputVars == <<bar, arriving, replacing, saving, reusing, inputActs>>

-----------------------------------------------------------------------------
NoPicture     == "none"
NoSaving      == [image |-> NoPicture, live |-> FALSE]
NoTask        == [images |-> <<>>, mask |-> NoPicture, mentions |-> <<>>]

Mention(n, image) == [n |-> n, of |-> image]
PlainText(image)  == Mention(0, image)

PositionOf(images, x) == SelectInSeq(images, LAMBDA y : y = x)
ListsPicture(images, x) == PositionOf(images, x) # 0

InputInit ==
    /\ bar = [images |-> <<>>, prompt |-> <<>>, dom |-> <<>>, typed |-> FALSE,
              mask |-> NoPicture, editor |-> NoPicture]
    /\ arriving = {} /\ replacing = {} /\ saving = NoSaving
    /\ reusing = NoTask /\ inputActs = 0

-----------------------------------------------------------------------------
(* Mentions, orders and masks as values *)

\* Mutant: mentions keep their numbers when the order changes.
RemapNothing(prompt, previous, next, equal) == prompt

\* remapImageMentionsForOrder: a mention follows its image, or becomes text.
Remap(prompt, previous, next, equal) ==
    [k \in DOMAIN prompt |->
        LET m == prompt[k]
            x == equal[previous[m.n]]
        IN  IF m.n = 0 \/ m.n > Len(previous) THEN m
            ELSE IF ListsPicture(next, x) THEN Mention(PositionOf(next, x), equal[m.of])
            ELSE PlainText(m.of)]

Same == [x \in InputPictures |-> x]

\* getPromptMentionParts: a mention of an image that is not there is shown as text.
MentionParts(prompt, images) ==
    [k \in DOMAIN prompt |-> IF prompt[k].n > Len(images) THEN PlainText(prompt[k].of) ELSE prompt[k]]

\* orderImagesWithMaskFirst
MaskFirst(images, mask) ==
    LET i == PositionOf(images, mask)
    IN  IF i <= 1 THEN images ELSE <<mask>> \o RemoveAt(images, i)

\* Ids are listed once: an image is left out at its place.
Dropped(images, x) ==
    IF ListsPicture(images, x) THEN RemoveAt(images, PositionOf(images, x)) ELSE images

\* replaceMaskTargetImage: the working copy takes the first place of the two.
MaskTargetReplaced(images, target, copy) ==
    LET before == SelectInSeq(images, LAMBDA x : x \in {target, copy})
    IN  IF before = 0 THEN <<copy>> \o images
        ELSE InsertAt(Dropped(Dropped(images, target), copy), before, copy)

\* The images are changed, with the mentions; a mask whose target is lost ends.
ImagesSet(b, images, equal, endsMask) ==
    [b EXCEPT !.images = images, !.prompt = Remap(b.prompt, b.images, images, equal),
              !.mask   = IF endsMask THEN NoPicture ELSE @,
              !.editor = IF endsMask THEN NoPicture ELSE @]

\* setInputImages
InputImagesSet(b, images, equal) ==
    LET ordered == MaskFirst(images, b.mask)
    IN  ImagesSet(b, ordered, equal, b.mask # NoPicture /\ ~ListsPicture(ordered, b.mask))

\* setMaskDraft
MaskSet(b, mask) == ImagesSet([b EXCEPT !.mask = mask], MaskFirst(b.images, mask), Same, FALSE)

\* The effect that draws the prompt into the element: after an input event it
\* is skipped once.
Rendered(b, changed) ==
    IF ~changed THEN b
    ELSE IF b.typed THEN [b EXCEPT !.typed = FALSE]
    ELSE [b EXCEPT !.dom = MentionParts(b.prompt, b.images)]

\* A save is overtaken when the editor is closed or opened on another image.
SetBar(next, fresh) ==
    /\ bar' = Rendered(next, fresh \/ next.images # bar.images \/ next.prompt # bar.prompt)
    /\ saving' = IF bar'.editor = bar.editor THEN saving ELSE [saving EXCEPT !.live = FALSE]

\* The user acts; the mask editor covers the bar.
ActsOnBar ==
    /\ bar.editor = NoPicture
    /\ inputActs < MaxInputActs /\ inputActs' = inputActs + 1

-----------------------------------------------------------------------------
(* The text *)

\* syncPromptFromContentEditable, onInput: the element's text becomes the prompt.
\* When that changes the prompt the effect runs, and is skipped.
ReadElement(dom, textChanged) ==
    /\ bar' = [bar EXCEPT !.dom = dom, !.prompt = dom, !.typed = ~textChanged /\ dom = bar.prompt]
    /\ UNCHANGED <<arriving, replacing, saving, reusing>>

TypeText == ActsOnBar /\ bar.dom # <<>> /\ ReadElement(bar.dom, TRUE)

\* A character is replaced by itself.
Retype == Retyped /\ ActsOnBar /\ bar.dom # <<>> /\ ReadElement(bar.dom, FALSE)

\* Chosen in the @ menu or from the menu of a thumbnail, which inserts by position.
InsertMention(i) ==
    /\ ActsOnBar /\ i \in DOMAIN bar.images /\ Len(bar.dom) < MaxMentions
    /\ ReadElement(Append(bar.dom, Mention(i, bar.images[i])), TRUE)

DeleteMention(k) ==
    ActsOnBar /\ k \in DOMAIN bar.dom /\ ReadElement(RemoveAt(bar.dom, k), TRUE)

\* A line break is put into the prompt and drawn from there.
InsertBreak ==
    /\ ActsOnBar /\ SetBar([bar EXCEPT !.typed = FALSE], TRUE)
    /\ UNCHANGED <<arriving, replacing, reusing>>

ClearPrompt ==
    /\ ActsOnBar /\ bar.prompt # <<>>
    /\ SetBar([bar EXCEPT !.typed = FALSE, !.prompt = <<>>, !.dom = <<>>], FALSE)
    /\ UNCHANGED <<arriving, replacing, reusing>>

-----------------------------------------------------------------------------
(* The images *)

AddImage(x) ==
    IF ListsPicture(bar.images, x) THEN UNCHANGED <<bar, saving>>
    ELSE SetBar([bar EXCEPT !.images = Append(@, x)], FALSE)

\* handleFiles: the limit is checked before the file is read.
PickFile(x) ==
    /\ ActsOnBar /\ Len(bar.images) < MaxImages /\ Cardinality(arriving) < MaxReading
    /\ arriving' = arriving \cup {x}
    /\ UNCHANGED <<bar, replacing, saving, reusing>>

FileRead(x) ==
    /\ x \in arriving /\ arriving' = arriving \ {x} /\ AddImage(x)
    /\ UNCHANGED <<replacing, reusing, inputActs>>

FileFails(x) ==
    /\ x \in arriving /\ arriving' = arriving \ {x}
    /\ UNCHANGED <<bar, replacing, saving, reusing, inputActs>>

\* An image of an agent round is dropped, or the outputs of a task are edited.
DropStored(x) ==
    /\ ActsOnBar /\ x \notin LostPictures /\ AddImage(x)
    /\ UNCHANGED <<arriving, replacing, reusing>>

\* normalizeImageDropIndex: no gap before the target of the mask.
DropTarget(gap) == IF ListsPicture(bar.images, bar.mask) /\ gap = 1 THEN 2 ELSE gap

\* moveInputImage: out of position i, into what is then that gap.
Moved(i, gap) ==
    InsertAt(RemoveAt(bar.images, i), IF i < gap THEN gap - 1 ELSE gap, bar.images[i])

\* An image is dragged, by mouse or touch; never the mask's target.
MoveImage(i, gap) ==
    /\ ActsOnBar /\ i \in DOMAIN bar.images /\ bar.images[i] # bar.mask
    /\ DropTarget(gap) \notin {i, i + 1}
    /\ SetBar(ImagesSet(bar, Moved(i, DropTarget(gap)), Same, FALSE), FALSE)
    /\ UNCHANGED <<arriving, replacing, reusing>>

\* The button is not shown on the mask's target.
RemoveImage(i) ==
    /\ ActsOnBar /\ i \in DOMAIN bar.images /\ bar.images[i] # bar.mask
    /\ SetBar(ImagesSet(bar, RemoveAt(bar.images, i), Same, FALSE), FALSE)
    /\ UNCHANGED <<arriving, replacing, reusing>>

ClearImages ==
    /\ ActsOnBar /\ bar.images # <<>>
    /\ SetBar(ImagesSet(bar, <<>>, Same, TRUE), FALSE)
    /\ UNCHANGED <<arriving, replacing, reusing>>

\* A submitted task clears the input.
SubmitClears ==
    /\ ActsOnBar
    /\ SetBar(ImagesSet([bar EXCEPT !.prompt = <<>>], <<>>, Same, TRUE), TRUE)
    /\ UNCHANGED <<arriving, replacing, reusing>>

\* handleEditReferenceImage, then a file is chosen: x takes the place of image i,
\* whatever other replacement is still being read.
PickReplacement(i, x) ==
    /\ ActsOnBar /\ Cardinality(replacing) < MaxReading
    /\ i \in DOMAIN bar.images /\ bar.mask = NoPicture
    /\ replacing' = replacing \cup {[index |-> i, id |-> bar.images[i], by |-> x]}
    /\ UNCHANGED <<bar, arriving, saving, reusing>>

\* handleReplaceFileUpload: found by its id, else whatever has its position now,
\* which may be an image the user did not choose to replace.
ReplacementRead(r) ==
    /\ r \in replacing /\ replacing' = replacing \ {r}
    /\ LET found    == PositionOf(bar.images, r.id)
           i        == IF found # 0 THEN found ELSE r.index
           previous == bar.images[i]
           equal    == [Same EXCEPT ![previous] = r.by]
       IN  IF i \notin DOMAIN bar.images \/ ListsPicture(bar.images, r.by)
           THEN UNCHANGED <<bar, saving>>
           ELSE SetBar(ImagesSet(bar, ReplaceAt(bar.images, i, r.by), equal, previous = bar.mask), FALSE)
    /\ UNCHANGED <<arriving, reusing, inputActs>>

ReplacementFails(r) ==
    /\ r \in replacing /\ replacing' = replacing \ {r}
    /\ UNCHANGED <<bar, arriving, saving, reusing, inputActs>>

-----------------------------------------------------------------------------
(* The mask *)

\* With a mask only its target can be edited.
OpenMaskEditor(i) ==
    /\ ActsOnBar /\ i \in DOMAIN bar.images
    /\ bar.mask = NoPicture \/ bar.images[i] = bar.mask \/ ~ListsPicture(bar.images, bar.mask)
    /\ SetBar([bar EXCEPT !.editor = bar.images[i]], FALSE)
    /\ UNCHANGED <<arriving, replacing, reusing>>

\* Closed, or the image could not be loaded; not while it is saved.
CloseMaskEditor ==
    /\ bar.editor # NoPicture /\ saving = NoSaving
    /\ SetBar([bar EXCEPT !.editor = NoPicture], FALSE)
    /\ UNCHANGED <<arriving, replacing, reusing, inputActs>>

RemoveMask ==
    /\ bar.editor # NoPicture /\ bar.editor = bar.mask /\ saving = NoSaving
    /\ SetBar([bar EXCEPT !.mask = NoPicture, !.editor = NoPicture], FALSE)
    /\ UNCHANGED <<arriving, replacing, reusing, inputActs>>

\* handleSave: the mask and the working copy are stored first.
SaveMask ==
    /\ bar.editor # NoPicture /\ saving = NoSaving
    /\ saving' = [image |-> bar.editor, live |-> TRUE]
    /\ UNCHANGED <<bar, arriving, replacing, reusing, inputActs>>

SavedMask(b, target) ==
    LET copy     == Copied[target]
        placed   == InputImagesSet(b, MaskTargetReplaced(b.images, target, copy), [Same EXCEPT ![target] = copy])
    IN  [MaskSet(placed, copy) EXCEPT !.editor = NoPicture]

\* An overtaken save leaves only what it has stored.
SaveMaskEnds ==
    /\ saving # NoSaving /\ saving' = NoSaving
    /\ bar' = IF saving.live THEN Rendered(SavedMask(bar, saving.image), TRUE) ELSE bar
    /\ UNCHANGED <<arriving, replacing, reusing, inputActs>>

SaveMaskFails ==
    /\ saving # NoSaving /\ saving' = NoSaving
    /\ UNCHANGED <<bar, arriving, replacing, reusing, inputActs>>

-----------------------------------------------------------------------------
(* The inputs of a task or of an earlier message *)

ReuseInputs(t) ==
    /\ ActsOnBar /\ reusing = NoTask /\ t \in Reusable
    /\ reusing' = t
    /\ SetBar([bar EXCEPT !.mask = NoPicture], FALSE)
    /\ UNCHANGED <<arriving, replacing>>

\* The images that are still stored.
StillStored(images) == SelectSeq(images, LAMBDA x : x \notin LostPictures)

\* Then the prompt as it was.
InputsReused ==
    /\ reusing \in Reusable
    /\ LET images == StillStored(reusing.images)
           prompt == [k \in DOMAIN reusing.mentions |->
                         Mention(reusing.mentions[k], reusing.images[reusing.mentions[k]])]
           masked == ListsPicture(images, reusing.mask)
           next   == [InputImagesSet(bar, images, Same) EXCEPT !.prompt = prompt]
       IN  /\ SetBar(IF masked THEN next ELSE [next EXCEPT !.mask = NoPicture], TRUE)
           /\ reusing' = IF masked THEN [NoTask EXCEPT !.mask = reusing.mask] ELSE NoTask
    /\ UNCHANGED <<arriving, replacing, inputActs>>

\* The mask is read after the images; its target is not looked up again.
MaskReused ==
    /\ reusing # NoTask /\ reusing \notin Reusable
    /\ SetBar(MaskSet(bar, reusing.mask), FALSE)
    /\ reusing' = NoTask
    /\ UNCHANGED <<arriving, replacing, inputActs>>

CancelEditing ==
    /\ ActsOnBar
    /\ SetBar([InputImagesSet([bar EXCEPT !.prompt = <<>>], <<>>, Same) EXCEPT !.mask = NoPicture], TRUE)
    /\ UNCHANGED <<arriving, replacing, reusing>>

-----------------------------------------------------------------------------
InputNext ==
    \/ InputsReused \/ MaskReused
    \/ /\ InMemory => reusing = NoTask
       /\ \/ TypeText \/ Retype \/ InsertBreak \/ ClearPrompt
          \/ \E k \in 1..MaxMentions : DeleteMention(k)
          \/ \E i \in DOMAIN bar.images :
                \/ InsertMention(i) \/ RemoveImage(i) \/ OpenMaskEditor(i)
                \/ \E gap \in 1..Len(bar.images) + 1 : MoveImage(i, gap)
                \/ \E x \in InputPictures : PickReplacement(i, x)
          \/ \E x \in InputPictures : PickFile(x) \/ FileRead(x) \/ FileFails(x) \/ DropStored(x)
          \/ ClearImages \/ SubmitClears \/ CancelEditing
          \/ \E r \in replacing : ReplacementRead(r) \/ ReplacementFails(r)
          \/ CloseMaskEditor \/ RemoveMask \/ SaveMask \/ SaveMaskEnds \/ SaveMaskFails
          \/ \E t \in Reusable : ReuseInputs(t)

InputSpec == InputInit /\ [][InputNext]_inputVars

-----------------------------------------------------------------------------
(* Properties *)

InputTypeOK ==
    /\ bar.images \in Seq(InputPictures) /\ IsInjective(bar.images)
    /\ \A text \in {bar.prompt, bar.dom} :
          \A k \in DOMAIN text : text[k].n \in Nat /\ text[k].of \in InputPictures
    /\ {bar.mask, bar.editor} \subseteq InputPictures \cup {NoPicture}
    /\ bar.typed \in BOOLEAN /\ arriving \subseteq InputPictures
    /\ \A r \in replacing : r.by \in InputPictures
    /\ saving.image \in InputPictures \cup {NoPicture} /\ inputActs \in 0..MaxInputActs

\* Whatever is added, moved, removed, replaced or masked meanwhile, a mention in
\* the prompt names the image the user chose, or the one put in its place.  That
\* one may have been chosen for another image: a replacement whose image is gone
\* when its file has been read takes the image that has the position by then, and
\* the mentions of that image follow it.
MentionsFollowImages ==
    \A k \in DOMAIN bar.prompt :
        LET m == bar.prompt[k] IN m.n > 0 => m.n \in DOMAIN bar.images /\ bar.images[m.n] = m.of

=============================================================================
