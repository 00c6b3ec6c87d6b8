------------------------------ MODULE WebProfiles ------------------------------
(***************************************************************************)
(* The API profiles of the web client (apiProfiles.ts, urlSettings.ts, the *)
(* settings window of SettingsModal.tsx and the start-up of App.tsx).  A   *)
(* profile calls one provider and remembers the connection it had with     *)
(* each of the others.  The window edits a draft of the whole settings,    *)
(* and every commit writes that draft over the settings.                   *)
(*                                                                         *)
(* A connection stands for the URL, model, mode and switches of a profile; *)
(* Standard[q] is the one a provider starts with, Blank a field the user   *)
(* emptied.  Keys, names and the mapping of custom providers are left out: *)
(* two profiles are equivalent when provider and connection agree, as for  *)
(* the imports that carry no key.                                          *)
(***************************************************************************)
EXTENDS Naturals, Sequences, FiniteSets, SequencesExt

CONSTANTS
    CustomProviders,    \* ids of custom providers
    Standard,           \* the default connection of "openai" and "fal"
    TypedConnections,   \* what the user may type, Blank among them
    Imports,            \* the profile of a pasted, linked or configured import
    MaxProfiles,        \* bound on the profiles ever made
    MaxEdits            \* bound on what the user does

ASSUME WebProfilesAssumption ==
    /\ DOMAIN Standard = {"openai", "fal"}
    /\ MaxProfiles \in Nat \ {0} /\ MaxEdits \in Nat

VARIABLES
    settings,   \* profiles, activeProfileId, customProviders of the store
    draft,      \* the same in the window
    showing,    \* showSettings
    typing,     \* a field with text that is not committed has the focus
    reusedId,   \* reusedTaskApiProfileId
    prompt,     \* a permission or the clipboard is awaited
    configured, \* the import of the configured URL
    lastId,     \* the ids given to profiles
    entered,    \* per profile, the connection last entered for each provider
    edits       \* counts what the user does

profileVars == <<settings, draft, showing, typing, reusedId, prompt, configured, lastId,
                 entered, edits>>

-----------------------------------------------------------------------------
Blank       == ""
BuiltIn     == {"openai", "fal"}
ProviderIds == BuiltIn \cup CustomProviders
Connections == {Standard[q] : q \in BuiltIn} \cup TypedConnections \cup {i.conn : i \in Imports}
ProfileIds  == 1 .. MaxProfiles
FirstId     == 1    \* DEFAULT_OPENAI_PROFILE_ID
Memories    == UNION {[known -> Connections] : known \in SUBSET ProviderIds}

NoMemory    == [q \in {} |-> Blank]
NewProfile(id, q, conn) ==
    [id |-> id, provider |-> q, conn |-> conn, memory |-> NoMemory, unnamed |-> FALSE]

\* createDefaultOpenAIProfile, and the settings of a first visit.  unnamed: the
\* profile still has the name of a new one.
Pristine(id)    == [NewProfile(id, "openai", Standard["openai"]) EXCEPT !.unnamed = id # FirstId]
DefaultSettings == [profiles |-> <<Pristine(FirstId)>>, active |-> FirstId, custom |-> {}]

PromptKinds == {"notify", "paste"}
NoPrompt    == [kind |-> "none", seen |-> DefaultSettings]

Remember(memory, q, conn) ==
    [p \in DOMAIN memory \cup {q} |-> IF p = q THEN conn ELSE memory[p]]

IndexOf(s, id)  == CHOOSE i \in 1 .. Len(s.profiles) : s.profiles[i].id = id
Of(s, id)       == s.profiles[IndexOf(s, id)]
IdsIn(s)        == {s.profiles[i].id : i \in 1 .. Len(s.profiles)}
ActiveOf(s)     == Of(s, s.active)
WithProfile(s, p) ==
    [s EXCEPT !.profiles = [i \in DOMAIN s.profiles |->
        IF s.profiles[i].id = p.id THEN p ELSE s.profiles[i]]]
Activated(s, id) == [s EXCEPT !.active = id]

ProfilesInit ==
    /\ settings = DefaultSettings /\ draft = DefaultSettings
    /\ showing = FALSE /\ typing = FALSE /\ reusedId = 0
    /\ prompt = NoPrompt /\ configured \in {"none", "awaited"} /\ lastId = FirstId
    /\ entered = [id \in {FirstId} |-> [q \in {"openai"} |-> Standard["openai"]]]
    /\ edits = 0

-----------------------------------------------------------------------------
(* Operators of apiProfiles.ts. *)

\* A provider that starts without a saved draft: fal with its own connection,
\* openai with its own, a custom one with the profile's unless that was fal's.
FirstConnection(p, q) ==
    IF q \in BuiltIn THEN Standard[q]
    ELSE IF p.provider = "fal" \/ p.conn = Blank THEN Standard["openai"]
    ELSE p.conn

\* A mutant of SwitchProvider: what the profile had with the provider is not
\* taken back.
SwitchAfresh(p, q) ==
    [p EXCEPT !.provider = q, !.memory = Remember(p.memory, p.provider, p.conn),
              !.conn = FirstConnection(p, q)]

\* switchApiProfileProvider
SwitchProvider(p, q) ==
    LET memory == Remember(p.memory, p.provider, p.conn)
    IN  [p EXCEPT !.provider = q, !.memory = memory,
                  !.conn = IF q \in DOMAIN memory THEN memory[q] ELSE FirstConnection(p, q)]

\* normalizeApiProfile and normalizeProviderDrafts.
NormalProfile(p, custom) ==
    LET known == BuiltIn \cup custom IN
    [p EXCEPT !.provider = IF @ \in known THEN @ ELSE "openai",
              !.memory = [q \in DOMAIN @ \cap known |-> @[q]]]

\* normalizeSettings
Normal(s) ==
    LET profiles == [i \in DOMAIN s.profiles |-> NormalProfile(s.profiles[i], s.custom)]
    IN  [s EXCEPT !.profiles = profiles,
                  !.active = IF @ \in IdsIn(s) THEN @ ELSE profiles[1].id]

\* The normalisation of commitSettings: an empty field gets its default.
Completed(p) ==
    IF p.conn # Blank THEN p
    ELSE [p EXCEPT !.conn = Standard[IF p.provider = "fal" THEN "fal" ELSE "openai"]]
Committed(s) ==
    Normal([s EXCEPT !.profiles = [i \in DOMAIN s.profiles |-> Completed(s.profiles[i])]])

\* hasOnlyDefaultProfiles, isPristineNewOpenAIProfile
OnlyDefault(s) == s.custom = {} /\ s.profiles = <<Pristine(FirstId)>>
IsPristine(p)  == p.unnamed /\ p.provider = "openai" /\ p.conn = Standard["openai"]

\* findEquivalentApiProfile, hasEquivalentApiProfile
Equivalents(s, i) ==
    {id \in IdsIn(s) : Of(s, id).provider = i.provider /\ Of(s, id).conn = i.conn}

\* An equal profile is used again, else the import is added as id.
Added(s, i, id) ==
    [s EXCEPT !.custom = @ \cup ({i.provider} \ BuiltIn),
              !.profiles = IF Equivalents(s, i) # {} THEN @
                           ELSE Append(@, NewProfile(id, i.provider, i.conn))]

\* mergeImportedSettings with one profile: it replaces untouched defaults.
Merged(s, i, id) ==
    IF OnlyDefault(s)
    THEN [profiles |-> <<NewProfile(FirstId, i.provider, i.conn)>>, active |-> FirstId,
          custom |-> {i.provider} \ BuiltIn]
    ELSE Added(s, i, id)

\* activateFirstImportedProfile
WithImportActive(s, i) ==
    IF Equivalents(s, i) = {} THEN s
    ELSE Activated(s, CHOOSE id \in Equivalents(s, i) : TRUE)

-----------------------------------------------------------------------------
(* What the handlers share. *)

Edit == edits < MaxEdits /\ edits' = edits + 1

\* A handler of the window; a click takes the focus from the field first.
InWindow == showing /\ ~typing

\* commitSettings; setSettings forgets a reused profile that becomes active.
CommitSettings(s) ==
    /\ draft' = Committed(s) /\ settings' = Committed(s)
    /\ typing' = FALSE

ForgetsReused == reusedId' = IF settings'.active = reusedId THEN 0 ELSE reusedId

\* entered keeps what the profiles of s show, and forgets other profiles.
Enter(s) ==
    entered' = [id \in IdsIn(s) |->
        LET p == Of(s, id) IN
        IF id \in DOMAIN entered
        THEN LET kept == [q \in DOMAIN entered[id] \cap (BuiltIn \cup s.custom) |-> entered[id][q]]
             IN  IF p.provider \in DOMAIN kept THEN kept ELSE Remember(kept, p.provider, p.conn)
        ELSE Remember(p.memory, p.provider, p.conn)]

\* What entered says of s, when s is about to overwrite a draft that may have
\* moved on: of a profile that the draft has otherwise, what s has.
Recorded(s) ==
    [id \in IdsIn(s) |->
        LET p == Of(s, id) IN
        IF id \in IdsIn(draft) /\ Of(draft, id) = p THEN entered[id]
        ELSE Remember(p.memory, p.provider, p.conn)]

\* The same after an import into settings that old records, which made s: the
\* profiles in fresh were replaced by it.
EnterImport(s, fresh, old) ==
    entered' = [id \in IdsIn(s) |->
        IF id \in fresh \/ id \notin DOMAIN old
        THEN Remember(NoMemory, Of(s, id).provider, Of(s, id).conn) ELSE old[id]]
NumberImport(s) == lastId' = IF lastId + 1 \in IdsIn(s) THEN lastId + 1 ELSE lastId
Replaced(s) == IF OnlyDefault(s) THEN {FirstId} ELSE {}

-----------------------------------------------------------------------------
(* Start-up, and the reuse of a task. *)

\* The effect of App.tsx with a link: ?settings= is merged and activated, the
\* profile of ?apiUrl= and the like is only added.
OpenLink(i, single) ==
    LET merged == IF single THEN Added(settings, i, lastId + 1) ELSE Merged(settings, i, lastId + 1)
        s      == Normal(WithImportActive(merged, i))
    IN /\ ~showing /\ prompt = NoPrompt /\ configured # "merged" /\ Edit /\ lastId < MaxProfiles
       /\ single => i.provider = "openai"
       /\ settings' = s /\ draft' = s /\ ForgetsReused
       /\ EnterImport(s, IF single THEN {} ELSE Replaced(settings), Recorded(settings))
       /\ NumberImport(s)
       /\ UNCHANGED <<showing, typing, prompt, configured>>

\* loadCustomProviderSettingsFromUrl answers: the import is merged into the
\* settings of that moment.  The draft of an open window is without it, and
\* the next commit takes it out again.
ConfiguredArrives(i) ==
    LET s == Normal(Merged(settings, i, lastId + 1)) IN
    /\ configured = "awaited" /\ i.provider \in CustomProviders /\ lastId < MaxProfiles
    /\ configured' = "merged" /\ settings' = s /\ ForgetsReused /\ NumberImport(s)
    /\ \/ showing /\ UNCHANGED <<draft, entered>>
       \/ ~showing /\ draft' = s /\ EnterImport(s, Replaced(settings), Recorded(settings))
    /\ UNCHANGED <<showing, typing, prompt, edits>>

ConfiguredFails ==
    /\ configured = "awaited" /\ configured' = "failed"
    /\ UNCHANGED <<settings, draft, showing, typing, reusedId, prompt, lastId, entered, edits>>

\* reuseConfig with reuseTaskApiProfileTemporarily.
ReuseProfile(id) ==
    /\ ~showing /\ Edit /\ id \in IdsIn(settings)
    /\ reusedId' = IF id = settings.active THEN 0 ELSE id
    /\ UNCHANGED <<settings, draft, showing, typing, prompt, configured, lastId, entered>>

-----------------------------------------------------------------------------
(* The window. *)

\* The draft shows the reused profile as the active one.
OpenWindow ==
    /\ ~showing /\ Edit
    /\ showing' = TRUE
    /\ draft' = IF reusedId \in IdsIn(settings) THEN Activated(settings, reusedId) ELSE settings
    /\ UNCHANGED <<settings, typing, reusedId, prompt, configured, lastId, entered>>

\* handleClose, also by Escape from a field.
CloseWindow ==
    /\ showing /\ showing' = FALSE
    /\ CommitSettings(draft) /\ ForgetsReused
    /\ UNCHANGED <<prompt, configured, lastId, entered, edits>>

\* updateActiveProfile without a commit.
TypeConnection(conn) ==
    LET p == [ActiveOf(draft) EXCEPT !.conn = conn] IN
    /\ showing /\ Edit
    /\ typing' = TRUE /\ draft' = WithProfile(draft, p)
    /\ entered' = [entered EXCEPT ![p.id] = Remember(@, p.provider, Completed(p).conn)]
    /\ UNCHANGED <<settings, showing, reusedId, prompt, configured, lastId>>

BlurField ==
    /\ showing /\ typing
    /\ CommitSettings(draft) /\ ForgetsReused
    /\ UNCHANGED <<showing, prompt, configured, lastId, entered, edits>>

\* A handler that commits s.
Commits(s) ==
    /\ InWindow /\ Edit
    /\ CommitSettings(s) /\ ForgetsReused /\ Enter(Committed(s))
    /\ UNCHANGED <<showing, prompt, configured>>

\* handleProviderTypeChange, saveCustomProvider
ChooseProvider(q) ==
    /\ q # ActiveOf(draft).provider /\ UNCHANGED lastId
    /\ Commits([WithProfile(draft, SwitchProvider(ActiveOf(draft), q))
                EXCEPT !.custom = @ \cup ({q} \ BuiltIn)])

\* deleteCustomProvider: its profiles switch to openai.
DeleteProvider(q) ==
    /\ q \in draft.custom /\ UNCHANGED lastId
    /\ Commits([draft EXCEPT
            !.custom = @ \ {q},
            !.profiles = [i \in DOMAIN @ |->
                IF @[i].provider = q THEN SwitchProvider(@[i], "openai") ELSE @[i]]])

\* createNewProfile, duplicateActiveProfile
AddProfile(copied) ==
    LET id == lastId + 1
        p  == IF copied THEN [ActiveOf(draft) EXCEPT !.id = id, !.unnamed = FALSE] ELSE Pristine(id)
    IN /\ lastId < MaxProfiles /\ lastId' = id
       /\ InWindow /\ Edit /\ reusedId' = 0
       /\ LET s == [draft EXCEPT !.profiles = Append(@, p), !.active = id]
          IN  CommitSettings(s) /\ Enter(Committed(s))
       /\ UNCHANGED <<showing, prompt, configured>>

\* switchProfile
ChooseProfile(id) ==
    /\ id \in IdsIn(draft) /\ id # draft.active
    /\ InWindow /\ Edit /\ reusedId' = 0
    /\ CommitSettings(Activated(draft, id))
    /\ UNCHANGED <<showing, prompt, configured, lastId, entered>>

\* moveProfileToDropTarget
MoveProfile(i, j) ==
    /\ {i, j} \subseteq DOMAIN draft.profiles /\ i # j /\ UNCHANGED lastId
    /\ Commits([draft EXCEPT !.profiles = InsertAt(RemoveAt(@, i), j, @[i])])

\* deleteProfile: never the last one.
DeleteProfile(id) ==
    LET left == RemoveAt(draft.profiles, IndexOf(draft, id))
        s    == [draft EXCEPT !.profiles = left, !.active = IF @ = id THEN left[1].id ELSE @]
    IN /\ id \in IdsIn(draft) /\ Len(draft.profiles) > 1
       /\ InWindow /\ Edit /\ reusedId' = IF id = reusedId THEN 0 ELSE reusedId
       /\ CommitSettings(s) /\ Enter(Committed(s))
       /\ UNCHANGED <<showing, prompt, configured, lastId>>

\* handleImport, after importData merged a backup into the settings.
ImportFile(i) ==
    LET s == Normal(Merged(settings, i, lastId + 1)) IN
    /\ InWindow /\ Edit /\ lastId < MaxProfiles
    /\ settings' = s /\ draft' = s /\ ForgetsReused
    /\ EnterImport(s, Replaced(settings), Recorded(settings)) /\ NumberImport(s)
    /\ UNCHANGED <<showing, typing, prompt, configured>>

\* handleClearAllData
ClearConfig ==
    /\ InWindow /\ Edit
    /\ settings' = DefaultSettings /\ draft' = DefaultSettings /\ ForgetsReused
    /\ EnterImport(DefaultSettings, {FirstId}, entered)
    /\ UNCHANGED <<showing, typing, prompt, configured, lastId>>

-----------------------------------------------------------------------------
(* Handlers that await the browser; they then commit the draft of their     *)
(* click, over whatever was done to it meanwhile.                            *)

AskBrowser(kind) ==
    /\ InWindow /\ Edit /\ prompt = NoPrompt
    /\ prompt' = [kind |-> kind, seen |-> draft]
    /\ UNCHANGED <<settings, draft, showing, typing, reusedId, configured, lastId, entered>>

\* toggleTaskCompletionNotification
PermissionGiven ==
    /\ prompt.kind = "notify" /\ prompt' = NoPrompt
    /\ CommitSettings(prompt.seen) /\ ForgetsReused
    /\ entered' = Recorded(prompt.seen)
    /\ UNCHANGED <<showing, configured, lastId, edits>>

PromptRefused ==
    /\ prompt # NoPrompt /\ prompt' = NoPrompt
    /\ UNCHANGED <<settings, draft, showing, typing, reusedId, configured, lastId, entered, edits>>

\* handleCustomProviderJsonPaste: an equal profile is chosen, a pristine one
\* overwritten, else the import is added and chosen.
Pasted(i) ==
    LET was    == prompt.seen
        merged == Merged(was, i, lastId + 1)
        equal  == Equivalents(was, i)
        over   == ~OnlyDefault(was) /\ equal = {} /\ IsPristine(ActiveOf(was))
        s == Normal(
            IF over THEN [WithProfile(was, NewProfile(was.active, i.provider, i.conn))
                          EXCEPT !.custom = merged.custom]
            ELSE WithImportActive(merged, i))
    IN /\ prompt.kind = "paste" /\ prompt' = NoPrompt
       /\ i.provider \in CustomProviders /\ lastId < MaxProfiles
       /\ settings' = s /\ draft' = s /\ typing' = FALSE /\ ForgetsReused
       /\ EnterImport(s, IF over THEN {was.active} ELSE Replaced(was), Recorded(was))
       /\ NumberImport(s)
       /\ UNCHANGED <<showing, configured, edits>>

ProfilesNext ==
    \/ \E i \in Imports : OpenLink(i, TRUE) \/ OpenLink(i, FALSE) \/ ConfiguredArrives(i)
                           \/ ImportFile(i) \/ Pasted(i)
    \/ \E id \in ProfileIds : ReuseProfile(id) \/ ChooseProfile(id) \/ DeleteProfile(id)
    \/ ConfiguredFails \/ ClearConfig \/ OpenWindow \/ CloseWindow \/ BlurField
    \/ \E conn \in TypedConnections : TypeConnection(conn)
    \/ \E q \in ProviderIds : ChooseProvider(q) \/ DeleteProvider(q)
    \/ \E copied \in BOOLEAN : AddProfile(copied)
    \/ \E i, j \in ProfileIds : MoveProfile(i, j)
    \/ \E kind \in PromptKinds : AskBrowser(kind)
    \/ PermissionGiven \/ PromptRefused

ProfilesSpec == ProfilesInit /\ [][ProfilesNext]_profileVars

-----------------------------------------------------------------------------
Profile  == [id: ProfileIds, provider: ProviderIds, conn: Connections, memory: Memories,
             unnamed: BOOLEAN]
Settings == [profiles: Seq(Profile), active: ProfileIds, custom: SUBSET CustomProviders]

ProfilesTypeOK ==
    /\ \A s \in {settings, draft, prompt.seen} :
        /\ \A i \in DOMAIN s.profiles : s.profiles[i] \in Profile
        /\ s.active \in IdsIn(s) /\ s.custom \subseteq CustomProviders
    /\ showing \in BOOLEAN /\ typing \in BOOLEAN /\ reusedId \in {0} \cup ProfileIds
    /\ prompt.kind \in PromptKinds \cup {"none"}
    /\ configured \in {"none", "awaited", "merged", "failed"}
    /\ lastId \in ProfileIds /\ edits \in 0 .. MaxEdits
    /\ \A id \in DOMAIN entered : entered[id] \in Memories

\* While the window is closed the settings hold exactly the profiles that were
\* made or imported and not deleted, each once and of a provider that exists,
\* and each gives for every provider it was ever used with what was last
\* entered there, although every commit writes the whole draft and a change
\* of provider overwrites the connection.  Two commits do lose something, and
\* no other: one after the configured import came into an open window, which
\* takes the import out again, and that of a browser prompt, which undoes
\* what was done to a profile since its click (Recorded).
ConnectionOf(p, q) == IF q = p.provider THEN p.conn ELSE p.memory[q]
ProfilesAreKept ==
    ~showing =>
        /\ DOMAIN entered = IdsIn(settings)
        /\ Cardinality(IdsIn(settings)) = Len(settings.profiles)
        /\ \A id \in IdsIn(settings) :
            LET p == Of(settings, id) IN
            /\ p.provider \in BuiltIn \cup settings.custom
            /\ \A q \in DOMAIN entered[id] :
                /\ q \in DOMAIN p.memory \cup {p.provider}
                /\ ConnectionOf(p, q) = entered[id][q]
===============================================================================
