------------------------------ MODULE WebContext ------------------------------
(***************************************************************************)
(* The project's visual context in the web client                          *)
(* (ProjectContextModal.tsx): characters, references and prompt recipes    *)
(* are read as one document, changed on the page and written back as one   *)
(* document.  The page reads again when it opens, when the project of the  *)
(* settings changes and after a save; no answer is matched with its        *)
(* request.                                                                *)
(*                                                                         *)
(* The order of the lists and the texts of a card are left out.            *)
(***************************************************************************)
EXTENDS Naturals, FiniteSets

CONSTANTS
    OfProject,      \* the assets of each project
    CharacterIds, RecipeIds,
    Slug,           \* slugPart of a character's id: not injective
    Requests,       \* slots for requests under way
    MaxSaves,       \* bound on the saves
    Earlier         \* the documents of earlier visits

ASSUME WebContextAssumption == MaxSaves \in Nat /\ CharacterIds \subseteq DOMAIN Slug

VARIABLES
    document,   \* the visual context the server has of each project
    project,    \* imageflowProjectId of the settings
    page,       \* the state of the modal, or what is left of it when it is closed
    inFlight,      \* the requests under way
    saves       \* begun so far

contextVars == <<document, project, page, inFlight, saves>>

-----------------------------------------------------------------------------
ProjectIds      == DOMAIN OfProject
Assets   == UNION {OfProject[p] : p \in ProjectIds}
Nobody   == "nobody"
NoAsset  == "no asset"
Purposes == {"character", "style"}

Characters == [id: CharacterIds, archived: BOOLEAN, primary: Assets \cup {NoAsset}, refs: SUBSET Assets]
References == [id: Purposes \X ({Slug[c] : c \in CharacterIds} \cup {Nobody}) \X Assets,
               asset: Assets, purpose: Purposes, character: CharacterIds \cup {Nobody},
               archived: BOOLEAN]
Recipes    == [id: RecipeIds, archived: BOOLEAN]
\* What normalizeContext makes of a missing document.
EmptyContext == [characters |-> {}, references |-> {}, recipes |-> {}]

\* editing: editingCharacterId.  quick: quickBindingCharacterId.  asset: the one
\* the page was opened for.
FreshPage == [open |-> TRUE, shown |-> EmptyContext, loading |-> FALSE, saving |-> FALSE,
              unauthorized |-> FALSE, editing |-> Nobody, recipe |-> Nobody,
              quick |-> Nobody, asset |-> NoAsset]
NoRequest == [kind |-> "none", of |-> Nobody, doc |-> EmptyContext, read |-> FALSE, mine |-> FALSE]

Documents == [characters: SUBSET Characters, references: SUBSET References,
              recipes: SUBSET Recipes]

ASSUME EarlierAssumption == Earlier \in [ProjectIds -> Documents]

ContextInit ==
    /\ document = Earlier
    /\ project \in ProjectIds
    /\ page = [FreshPage EXCEPT !.open = FALSE]
    /\ inFlight = [r \in Requests |-> NoRequest]
    /\ saves = 0

-----------------------------------------------------------------------------
(* Changes of a document. *)

IdsOf(items) == {x.id : x \in items}

ReplacedIn(items, id, new) == {IF x.id = id THEN new ELSE x : x \in items}

Toggled(items, id) == {IF x.id = id THEN [x EXCEPT !.archived = ~@] ELSE x : x \in items}

\* The new card replaces the edited one, if it is still there, or is appended.
\* A card with the id of another is refused.
Submitted(items, editing, new) ==
    IF editing = Nobody THEN items \cup {new} ELSE ReplacedIn(items, editing, new)

Duplicate(items, editing, id) == \E x \in items : x.id = id /\ x.id # editing

\* createReferenceBindingId.
BindingId(asset, purpose, character) ==
    <<purpose, IF character = Nobody THEN Nobody ELSE Slug[character], asset>>

\* Mutant: a binding is always appended, under an id of its own.
UpsertAppends(doc, asset, purpose, character) ==
    [doc EXCEPT !.references = @ \cup
        {[id |-> <<IF \E x \in doc.references : x.id = BindingId(asset, purpose, character)
                   THEN "style" ELSE purpose, Nobody, asset>>,
          asset |-> asset, purpose |-> purpose, character |-> character, archived |-> FALSE]}]

\* upsertProjectReferenceBinding: the binding of the same asset, purpose and
\* character is replaced and keeps its id.
Upsert(doc, asset, purpose, character) ==
    LET same == {x \in doc.references :
                   x.asset = asset /\ x.purpose = purpose /\ x.character = character}
        id   == IF same = {} THEN BindingId(asset, purpose, character)
                ELSE (CHOOSE x \in same : TRUE).id
        new  == [id |-> id, asset |-> asset, purpose |-> purpose, character |-> character,
                 archived |-> FALSE]
    IN  [doc EXCEPT !.references = IF same = {} THEN @ \cup {new} ELSE ReplacedIn(@, id, new)]

SetPrimary(doc, c, asset) ==
    [doc EXCEPT !.characters =
        {IF x.id = c THEN [x EXCEPT !.primary = asset] ELSE x : x \in @}]

AddReference(doc, c, asset) ==
    [doc EXCEPT !.characters =
        {IF x.id = c THEN [x EXCEPT !.refs = @ \cup {asset}] ELSE x : x \in @}]

\* External: what the server refuses (ids used twice, unknown characters, assets
\* of other projects).
AssetsIn(doc) ==
    {x.primary : x \in doc.characters} \cup UNION {x.refs : x \in doc.characters}
        \cup {x.asset : x \in doc.references}

Accepted(p, doc) ==
    /\ \A x, y \in doc.references : x.id = y.id => x = y
    /\ \A x, y \in doc.characters : x.id = y.id => x = y
    /\ \A x, y \in doc.recipes : x.id = y.id => x = y
    /\ \A x \in doc.references : x.character \in IdsOf(doc.characters) \cup {Nobody}
    /\ AssetsIn(doc) \subseteq OfProject[p] \cup {NoAsset}

-----------------------------------------------------------------------------
(* Reading. *)

Ask(kind, p, doc) ==
    \E r \in Requests :
        /\ inFlight[r].kind = "none"
        /\ inFlight' = [inFlight EXCEPT ![r] = [kind |-> kind, of |-> p, doc |-> doc,
                                           read |-> FALSE, mine |-> TRUE]]

Active(doc) == {x.id : x \in {y \in doc.characters : ~y.archived}}

\* The effect on the active characters: the quick binding's character is kept
\* while it is one of them.
Shows(pg, doc) ==
    [pg EXCEPT !.shown = doc,
               !.quick = IF pg.asset = NoAsset \/ Active(doc) = {} THEN Nobody
                         ELSE IF @ \in Active(doc) THEN @
                         ELSE CHOOSE c \in Active(doc) : TRUE]

\* The modal is mounted, with nothing of an earlier one.
OpenContext(asset) ==
    /\ ~page.open
    /\ page' = [FreshPage EXCEPT !.asset = asset, !.loading = TRUE]
    /\ Ask("load", project, EmptyContext)
    /\ UNCHANGED <<document, project, saves>>

\* Nothing waits any more for the answers under way; the saves go on.
CloseContext ==
    /\ page.open
    /\ page' = [FreshPage EXCEPT !.open = FALSE]
    /\ inFlight' = [r \in Requests |-> IF inFlight[r].kind = "put" THEN [inFlight[r] EXCEPT !.mine = FALSE]
                                    ELSE NoRequest]
    /\ UNCHANGED <<document, project, saves>>

Load == page' = [page EXCEPT !.loading = TRUE] /\ Ask("load", project', EmptyContext)

\* The button is disabled while the page loads or saves.
RefreshContext ==
    /\ page.open /\ ~page.loading /\ ~page.saving
    /\ UNCHANGED <<document, project, saves>> /\ Load

\* The project of the settings changes; the page reads it, beside what it has
\* asked for before.
ChangeProject(p) ==
    /\ p # project /\ project' = p
    /\ IF page.open THEN Load ELSE UNCHANGED <<page, inFlight>>
    /\ UNCHANGED <<document, saves>>

ServerReads(r) ==
    /\ inFlight[r].kind = "load" /\ ~inFlight[r].read
    /\ inFlight' = [inFlight EXCEPT ![r].read = TRUE, ![r].doc = document[inFlight[r].of]]
    /\ UNCHANGED <<document, project, page, saves>>

\* The document is written; the page then reads it.
ServerWrites(r) ==
    /\ inFlight[r].kind = "put" /\ Accepted(inFlight[r].of, inFlight[r].doc)
    /\ document' = [document EXCEPT ![inFlight[r].of] = inFlight[r].doc]
    /\ inFlight' = [inFlight EXCEPT ![r] = IF ~inFlight[r].mine THEN NoRequest ELSE
                   [inFlight[r] EXCEPT !.kind = "reload", !.doc = EmptyContext]]
    /\ UNCHANGED <<project, page, saves>>

ServerReloads(r) ==
    /\ inFlight[r].kind = "reload" /\ ~inFlight[r].read
    /\ inFlight' = [inFlight EXCEPT ![r].read = TRUE, ![r].doc = document[inFlight[r].of]]
    /\ UNCHANGED <<document, project, page, saves>>

Ended(r, pg) ==
    /\ page' = IF ~inFlight[r].mine THEN page
               ELSE IF inFlight[r].kind = "load" THEN [pg EXCEPT !.loading = FALSE]
               ELSE [pg EXCEPT !.saving = FALSE]
    /\ inFlight' = [inFlight EXCEPT ![r] = NoRequest]
    /\ UNCHANGED <<document, project, saves>>

\* The answer is shown, whatever the project now is and whatever was shown since.
Answered(r) ==
    /\ inFlight[r].kind # "none" /\ inFlight[r].read
    /\ Ended(r, [Shows(page, inFlight[r].doc) EXCEPT !.unauthorized = FALSE])

\* A refused save ends here too.
Failed(r, unauthorized) ==
    /\ inFlight[r].kind # "none" /\ ~inFlight[r].read
    /\ Ended(r, [page EXCEPT !.unauthorized = @ \/ unauthorized])

-----------------------------------------------------------------------------
(* Saving (saveContext).  The forms are shown to an authorized user and their  *)
(* buttons disabled while a save is under way, and the drafts are emptied as   *)
(* soon as the save has begun.                                                 *)

Usable == page.open /\ ~page.saving /\ ~page.unauthorized

Save(doc, pg) ==
    /\ Usable /\ saves < MaxSaves /\ saves' = saves + 1
    /\ Ask("put", project, doc)
    /\ page' = [pg EXCEPT !.saving = TRUE]
    /\ UNCHANGED <<document, project>>

EditCharacter(c) ==
    /\ page.open /\ ~page.unauthorized /\ c \in IdsOf(page.shown.characters) \cup {Nobody}
    /\ page.editing # c /\ page' = [page EXCEPT !.editing = c]
    /\ UNCHANGED <<document, project, inFlight, saves>>

\* The draft of a card holds the references of the edited one, none for a new one.
SubmitCharacter(id, archived, primary) ==
    LET refs == UNION {x.refs : x \in {y \in page.shown.characters : y.id = page.editing}}
        new  == [id |-> id, archived |-> archived, primary |-> primary, refs |-> refs]
    IN  /\ ~Duplicate(page.shown.characters, page.editing, id)
        /\ Save([page.shown EXCEPT !.characters = Submitted(@, page.editing, new)],
                [page EXCEPT !.editing = Nobody])

ArchiveCharacter(c) ==
    /\ c \in IdsOf(page.shown.characters)
    /\ Save([page.shown EXCEPT !.characters = Toggled(@, c)], page)

SubmitReference(asset, purpose, character) ==
    /\ character \in IdsOf(page.shown.characters) \cup {Nobody}
    /\ Save(Upsert(page.shown, asset, purpose, character), page)

ArchiveReference(id) ==
    /\ id \in IdsOf(page.shown.references)
    /\ Save([page.shown EXCEPT !.references = Toggled(@, id)], page)

\* savePendingAssetAs...: the quick bindings of the asset the page was opened for.
QuickBinding ==
    /\ page.asset # NoAsset /\ page.quick # Nobody
    /\ \E doc \in {SetPrimary(page.shown, page.quick, page.asset),
                   AddReference(page.shown, page.quick, page.asset),
                   Upsert(page.shown, page.asset, "character", page.quick)} : Save(doc, page)

PickQuick(c) ==
    /\ page.open /\ page.asset # NoAsset /\ c \in Active(page.shown) /\ c # page.quick
    /\ page' = [page EXCEPT !.quick = c]
    /\ UNCHANGED <<document, project, inFlight, saves>>

EditRecipe(id) ==
    /\ page.open /\ ~page.unauthorized /\ id \in IdsOf(page.shown.recipes) \cup {Nobody}
    /\ page.recipe # id /\ page' = [page EXCEPT !.recipe = id]
    /\ UNCHANGED <<document, project, inFlight, saves>>

SubmitRecipe(new) ==
    /\ ~Duplicate(page.shown.recipes, page.recipe, new.id)
    /\ Save([page.shown EXCEPT !.recipes = Submitted(@, page.recipe, new)],
            [page EXCEPT !.recipe = Nobody])

ArchiveRecipe(id) ==
    /\ id \in IdsOf(page.shown.recipes)
    /\ Save([page.shown EXCEPT !.recipes = Toggled(@, id)], page)

-----------------------------------------------------------------------------
ContextNext ==
    \/ \E a \in Assets \cup {NoAsset} : OpenContext(a)
    \/ CloseContext \/ RefreshContext \/ \E p \in ProjectIds : ChangeProject(p)
    \/ \E r \in Requests : \/ ServerReads(r) \/ ServerWrites(r) \/ ServerReloads(r) \/ Answered(r)
                           \/ \E u \in BOOLEAN : Failed(r, u)
    \/ \E c \in CharacterIds \cup {Nobody} : EditCharacter(c) \/ PickQuick(c) \/ ArchiveCharacter(c)
    \/ \E c \in CharacterIds, x \in BOOLEAN, a \in Assets \cup {NoAsset} : SubmitCharacter(c, x, a)
    \/ \E a \in Assets, use \in Purposes, c \in CharacterIds \cup {Nobody} : SubmitReference(a, use, c)
    \/ \E x \in page.shown.references : ArchiveReference(x.id)
    \/ QuickBinding
    \/ \E id \in RecipeIds \cup {Nobody} : EditRecipe(id) \/ ArchiveRecipe(id)
    \/ \E new \in Recipes : SubmitRecipe(new)

ContextSpec == ContextInit /\ [][ContextNext]_contextVars

-----------------------------------------------------------------------------
(* Properties *)

IsContext(doc) ==
    /\ doc.characters \subseteq Characters /\ doc.references \subseteq References
    /\ doc.recipes \subseteq Recipes

ContextTypeOK ==
    /\ project \in ProjectIds /\ saves \in 0..MaxSaves
    /\ \A p \in ProjectIds : IsContext(document[p])
    /\ \A r \in Requests : IsContext(inFlight[r].doc) /\ inFlight[r].of \in ProjectIds \cup {Nobody}
                           /\ inFlight[r].kind \in {"none", "load", "put", "reload"}
    /\ IsContext(page.shown)
    /\ page.editing \in CharacterIds \cup {Nobody} /\ page.quick \in CharacterIds \cup {Nobody}
    /\ page.recipe \in RecipeIds \cup {Nobody} /\ page.asset \in Assets \cup {NoAsset}

SingleUse(doc) ==
    \A x, y \in doc.references :
        x.asset = y.asset /\ x.purpose = y.purpose /\ x.character = y.character => x = y

\* However late or misplaced the documents are that the page is shown and writes
\* back, no project has two bindings of one asset, for one purpose, to one
\* character.
OneBindingPerUse ==
    \A p \in ProjectIds : SingleUse(document[p])

=============================================================================
