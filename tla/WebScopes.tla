------------------------------ MODULE WebScopes ------------------------------
(***************************************************************************)
(* The business scopes in the web client: the scope manager                *)
(* (ScopeManagerModal.tsx) and the selectors of the asset library          *)
(* (ServerAssetLibrary.tsx) read the tree of workspaces, projects and      *)
(* campaigns level by level, while scopes are renamed, archived, deleted,  *)
(* chosen and cleaned up.  Both write the scope of the settings, which     *)
(* makes both read again.                                                  *)
(*                                                                         *)
(* Of each reader only the newest reading counts, so one is kept.  A list  *)
(* is as the server has it when its answer comes.                          *)
(***************************************************************************)
EXTENDS Naturals, FiniteSets

CONSTANTS
    Workspaces, Projects, Campaigns,
    ParentOf,       \* the workspace of a project, the project of a campaign
    DefaultWorkspace, DefaultProject, DefaultCampaign,  \* ids normalizeSettings fills in
    MaxActs         \* bound on what the user and others do

ASSUME WebScopesAssumption ==
    /\ ParentOf \in [Projects \cup Campaigns -> Workspaces \cup Projects]
    /\ "none" \notin {DefaultWorkspace, DefaultProject, DefaultCampaign}
    /\ MaxActs \in Nat

VARIABLES
    alive, archived,    \* the server's scopes
    current,    \* imageflowWorkspaceId, ProjectId, CampaignId of the settings
    lists,      \* the lists each reader shows
    marked,     \* the scopes the manager shows as archived
    chosen,     \* selectedWorkspaceId, ProjectId, CampaignId of the manager
    tree,       \* reloadHierarchy and reloadScopeHierarchy under way
    open,       \* showScopeManager
    admin,      \* runAction
    cleanup,    \* cleanupBusy, cleanupPreview and the confirmation phrase
    dash,       \* dashboardLoading: the statistics are awaited
    acts        \* begun by the user, or done by others

shownVars == <<lists, marked, chosen, tree, dash>>
scopeVars == <<alive, archived, current, open, admin, cleanup, acts, shownVars>>

-----------------------------------------------------------------------------
Scopes == Workspaces \cup Projects \cup Campaigns
None   == "none"
Path   == [w: Workspaces \cup {None, DefaultWorkspace}, p: Projects \cup {None, DefaultProject},
           c: Campaigns \cup {None, DefaultCampaign}]
NoPath == [w |-> None, p |-> None, c |-> None]
DefaultScope == [w |-> DefaultWorkspace, p |-> DefaultProject, c |-> DefaultCampaign]
Complete(s) == None \notin {s.w, s.p, s.c}

Readers   == {"manager", "library"}
Lists     == [w: SUBSET Workspaces, p: SUBSET Projects, c: SUBSET Campaigns]
NoLists   == [w |-> {}, p |-> {}, c |-> {}]
Reading   == [pc: {"idle", "workspaces", "projects", "campaigns"}, want: Path, at: Path,
              by: {"user", "action", "cleanup"}]
NotReading == [pc |-> "idle", want |-> NoPath, at |-> NoPath, by |-> "user"]

Admin     == [pc: {"idle", "sent", "reload"}, kind: {"rename", "archive", "delete"},
              level: {"w", "p", "c"}, at: Path, was: Path]
NoAdmin   == [pc |-> "idle", kind |-> "rename", level |-> "w", at |-> NoPath, was |-> NoPath]

\* asked: the scope of the request.  token: the scope the preview is of.
Cleanup   == [busy: {"none", "preview", "execute", "reload"}, asked: Path, token: Path,
              phrase: BOOLEAN]
NoCleanup == [busy |-> "none", asked |-> NoPath, token |-> NoPath, phrase |-> FALSE]

ScopesInit ==
    /\ alive = Scopes /\ archived = {}
    /\ current = DefaultScope
    /\ lists = [r \in Readers |-> NoLists] /\ marked = {} /\ chosen = NoPath
    /\ tree = [r \in Readers |-> NotReading]
    /\ open = FALSE /\ admin = NoAdmin /\ cleanup = NoCleanup /\ dash = FALSE
    /\ acts = 0

-----------------------------------------------------------------------------
(* Readings. *)

Under(s, parent) == {x \in s : ParentOf[x] = parent}

\* pickPreferredId and pickScopeId: the wanted scope if it is listed, else the
\* first that is not archived, else the first.
Pick(list, want) ==
    IF want \in list THEN want
    ELSE IF list = {} THEN None
    ELSE LET active == list \ archived
         IN  CHOOSE x \in IF active = {} THEN list ELSE active : TRUE

Started(want, by) == [pc |-> "workspaces", want |-> want, at |-> NoPath, by |-> by]

\* The readings after a handler: the settings became s, and the handler itself
\* had the manager read want.  A changed scope makes both read it, the manager
\* if it is open.
ReadAgain(s, want, by) ==
    /\ current' = s
    /\ tree' = [r \in Readers |->
                  IF s # current /\ (r = "library" \/ open') THEN Started(s, "user")
                  ELSE IF r = "manager" /\ by # "none" THEN Started(want, by)
                  ELSE tree[r]]
    /\ dash' = IF by # "none" \/ (s # current /\ open') THEN FALSE ELSE dash

\* Mutant: the preview survives the change of the selection.
CleanupKept == cleanup' = cleanup

\* The effect of the manager on a change of its selection.
CleanupReset == cleanup' = IF chosen' = chosen THEN cleanup ELSE NoCleanup

Show(r, level, list) == lists' = [lists EXCEPT ![r][level] = list]

\* What runAction and runCleanupExecute wait for has ended.
ReadingEnds(r) ==
    /\ tree' = [tree EXCEPT ![r] = NotReading]
    /\ admin' = IF r = "manager" /\ tree[r].by = "action" THEN NoAdmin ELSE admin

\* The manager's selection, and the cleanup that depends on it.
Choose(r, s) ==
    /\ chosen' = IF r = "manager" THEN s ELSE chosen
    /\ IF chosen' = chosen /\ tree'[r].pc = "idle" /\ tree[r].by = "cleanup" /\ cleanup.busy = "reload"
       THEN cleanup' = [cleanup EXCEPT !.busy = "none"]
       ELSE CleanupReset

ServerStays == UNCHANGED <<alive, archived, open>>

WorkspacesRead(r) ==
    LET list == alive \cap Workspaces
        w    == Pick(list, tree[r].want.w)
    IN  /\ tree[r].pc = "workspaces"
        /\ lists' = [lists EXCEPT ![r] = IF w = None THEN NoLists ELSE [@ EXCEPT !.w = list]]
        /\ marked' = IF r = "manager" THEN (marked \ Workspaces) \cup (list \cap archived) ELSE marked
        /\ dash' = IF r = "manager" THEN TRUE ELSE dash
        /\ IF w = None THEN ReadingEnds(r) ELSE
             /\ tree' = [tree EXCEPT ![r].pc = "projects", ![r].at.w = w, ![r].want.w = None]
             /\ UNCHANGED admin
        /\ Choose(r, IF w = None THEN NoPath ELSE [chosen EXCEPT !.w = w])
        /\ UNCHANGED current /\ ServerStays

ProjectsRead(r) ==
    LET list == Under(alive \cap Projects, tree[r].at.w)
        p    == Pick(list, tree[r].want.p)
    IN  /\ tree[r].pc = "projects"
        /\ lists' = [lists EXCEPT ![r].p = list, ![r].c = IF p = None THEN {} ELSE @]
        /\ marked' = IF r = "manager" THEN (marked \ Projects) \cup (list \cap archived) ELSE marked
        /\ IF p = None THEN ReadingEnds(r) ELSE
             /\ tree' = [tree EXCEPT ![r].pc = "campaigns", ![r].at.p = p, ![r].want.p = None]
             /\ UNCHANGED admin
        /\ Choose(r, [chosen EXCEPT !.p = p, !.c = IF p = None THEN None ELSE @])
        /\ UNCHANGED <<current, dash>> /\ ServerStays

\* The library commits the scope it has found (commitScope), and then reads it
\* again if it is another.
CampaignsRead(r) ==
    LET list == Under(alive \cap Campaigns, tree[r].at.p)
        s    == [tree[r].at EXCEPT !.c = Pick(list, tree[r].want.c)]
    IN  /\ tree[r].pc = "campaigns"
        /\ Show(r, "c", list)
        /\ marked' = IF r = "manager" THEN (marked \ Campaigns) \cup (list \cap archived) ELSE marked
        /\ IF r = "library" /\ Complete(s) /\ s # current
           THEN /\ open' = open /\ ReadAgain(s, NoPath, "none")
                /\ UNCHANGED <<chosen, admin, cleanup>>
           ELSE /\ ReadingEnds(r)
                /\ Choose(r, [chosen EXCEPT !.c = s.c])
                /\ UNCHANGED <<current, dash, open>>
        /\ UNCHANGED <<alive, archived>>

\* A request fails: the manager shows nothing, the library what it had.
ReadFails(r) ==
    /\ tree[r].pc # "idle"
    /\ lists' = IF r = "manager" THEN [lists EXCEPT ![r] = NoLists] ELSE lists
    /\ marked' = IF r = "manager" THEN {} ELSE marked
    /\ dash' = IF r = "manager" THEN FALSE ELSE dash
    /\ ReadingEnds(r)
    /\ Choose(r, NoPath)
    /\ UNCHANGED current /\ ServerStays

\* scheduleDashboardStats and loadDashboardStats end with the newest's answers.
DashboardRead ==
    /\ dash /\ dash' = FALSE
    /\ UNCHANGED <<current, lists, marked, chosen, tree, admin, cleanup>> /\ ServerStays

-----------------------------------------------------------------------------
(* The manager. *)

OpenManager ==
    /\ ~open /\ open' = TRUE
    /\ tree' = [tree EXCEPT !["manager"] = Started(current, "user")]
    /\ dash' = FALSE
    /\ UNCHANGED <<alive, archived, current, lists, marked, chosen, admin, cleanup>>

CloseManager ==
    /\ open /\ open' = FALSE
    /\ tree' = [tree EXCEPT !["manager"] = NotReading]
    /\ dash' = FALSE
    /\ UNCHANGED <<alive, archived, current, lists, marked, chosen, admin, cleanup>>

ManagerReads(want) ==
    /\ open /\ open' = open
    /\ ReadAgain(current, want, "user")
    /\ UNCHANGED <<alive, archived, lists, marked, chosen, admin, cleanup>>

\* The button is disabled while the tree is read; the lists are not.
RefreshTree == tree["manager"].pc = "idle" /\ ManagerReads(chosen)

PickWorkspace(w) == w \in lists["manager"].w /\ ManagerReads([NoPath EXCEPT !.w = w])

PickProject(p) ==
    /\ p \in lists["manager"].p /\ chosen.w # None
    /\ ManagerReads([w |-> chosen.w, p |-> p, c |-> None])

PickCampaign(c) ==
    /\ open /\ c \in lists["manager"].c /\ chosen.p # None
    /\ chosen' = [chosen EXCEPT !.c = c]
    /\ CleanupReset
    /\ UNCHANGED <<current, lists, marked, tree, admin, dash>> /\ ServerStays

\* selectedWorkspace, selectedProject and selectedCampaign.
Selected ==
    [w |-> IF chosen.w \in lists["manager"].w THEN chosen.w ELSE None,
     p |-> IF chosen.p \in lists["manager"].p THEN chosen.p ELSE None,
     c |-> IF chosen.c \in lists["manager"].c THEN chosen.c ELSE None]

\* setCurrentManagedScope.
SetCurrent ==
    /\ open /\ admin.pc = "idle" /\ Complete(Selected)
    /\ {Selected.w, Selected.p, Selected.c} \cap marked = {}
    /\ open' = open /\ ReadAgain(Selected, NoPath, "none")
    /\ UNCHANGED <<alive, archived, lists, marked, chosen, admin, cleanup>>

\* The action panels: enabled for a scope whose ancestors are selected too.
Ancestors(level) == CASE level = "w" -> {"w"} [] level = "p" -> {"w", "p"} [] OTHER -> {"w", "p", "c"}

RunAction(kind, level) ==
    /\ open /\ admin.pc = "idle"
    /\ \A l \in Ancestors(level) : Selected[l] # None
    /\ admin' = [pc |-> "sent", kind |-> kind, level |-> level, at |-> Selected,
                  was |-> IF kind = "delete" THEN current ELSE NoPath]
    /\ UNCHANGED <<current, lists, marked, chosen, tree, cleanup, dash>> /\ ServerStays

\* The scope with everything below it.
Below(x) == {y \in Scopes : y = x \/ (y \notin Workspaces /\
                (ParentOf[y] = x \/ (ParentOf[y] \in Projects /\ ParentOf[ParentOf[y]] = x)))}

\* The scope that is left, cut off at the one that is gone.
Cut(s, level) ==
    CASE level = "w" -> NoPath
      [] level = "p" -> [s EXCEPT !.p = None, !.c = None]
      [] OTHER       -> [s EXCEPT !.c = None]

\* normalizeSettings: an empty id becomes the default one.
NormalScope(s) == [w |-> IF s.w = None THEN DefaultWorkspace ELSE s.w,
              p |-> IF s.p = None THEN DefaultProject ELSE s.p,
              c |-> IF s.c = None THEN DefaultCampaign ELSE s.c]

\* deleteAgentImageflow...: the settings are those captured when the dialog was
\* opened, without the scope that is gone, if it was theirs, and normalized.
ActionDone ==
    LET x     == admin.at[admin.level]
        other == admin.kind = "archive" /\ x \notin marked
        own   == admin.kind = "delete" /\ \A l \in Ancestors(admin.level) : admin.was[l] = admin.at[l]
        want  == IF admin.kind = "delete" THEN Cut(admin.at, admin.level) ELSE admin.at
    IN  /\ admin.pc = "sent" /\ x \in alive
        /\ alive' = IF admin.kind = "delete" THEN alive \ Below(x) ELSE alive
        /\ archived' = IF other THEN archived \cup {x} ELSE
                       IF admin.kind = "rename" THEN archived ELSE archived \ {x}
        /\ admin' = [admin EXCEPT !.pc = "reload"]
        /\ open' = open
        /\ ReadAgain(IF own THEN NormalScope(Cut(admin.was, admin.level)) ELSE current, want, "action")
        /\ UNCHANGED <<lists, marked, chosen, cleanup>>

\* The request fails, or the reading it waits for was overtaken by another.
ActionEnds ==
    /\ admin.pc = "sent" \/ (admin.pc = "reload" /\ tree["manager"].by # "action")
    /\ admin' = NoAdmin
    /\ UNCHANGED <<current, lists, marked, chosen, tree, cleanup, dash>> /\ ServerStays

-----------------------------------------------------------------------------
(* runCleanupPreview and runCleanupExecute. *)

CleanupStep == UNCHANGED <<current, lists, marked, chosen, admin>> /\ ServerStays

AskPreview ==
    /\ open /\ cleanup.busy = "none" /\ Complete(Selected)
    /\ cleanup' = [cleanup EXCEPT !.busy = "preview", !.asked = Selected]
    /\ UNCHANGED <<tree, dash>> /\ CleanupStep

Previewed ==
    /\ cleanup.busy = "preview"
    /\ cleanup' = [NoCleanup EXCEPT !.token = cleanup.asked]
    /\ UNCHANGED <<tree, dash>> /\ CleanupStep

TypePhrase ==
    /\ open /\ cleanup.token # NoPath /\ cleanup.busy # "execute"
    /\ cleanup' = [cleanup EXCEPT !.phrase = TRUE]
    /\ UNCHANGED <<tree, dash>> /\ CleanupStep

Execute ==
    /\ open /\ cleanup.busy = "none" /\ Complete(Selected)
    /\ cleanup.token # NoPath /\ cleanup.phrase
    /\ cleanup' = [cleanup EXCEPT !.busy = "execute", !.asked = Selected]
    /\ UNCHANGED <<tree, dash>> /\ CleanupStep

\* The tree is read again, and the buttons stay disabled until it is.
Executed ==
    /\ cleanup.busy = "execute"
    /\ cleanup' = [cleanup EXCEPT !.busy = "reload", !.asked = NoPath, !.phrase = FALSE]
    /\ tree' = [tree EXCEPT !["manager"] = Started(cleanup.asked, "cleanup")]
    /\ dash' = FALSE
    /\ CleanupStep

\* The request fails, or the reading it waits for was overtaken by another.
CleanupEnds ==
    /\ \/ cleanup.busy \in {"preview", "execute"}
       \/ cleanup.busy = "reload" /\ tree["manager"].by # "cleanup"
    /\ cleanup' = [cleanup EXCEPT !.busy = "none", !.asked = NoPath]
    /\ UNCHANGED <<tree, dash>> /\ CleanupStep

-----------------------------------------------------------------------------
(* The library's selectors, disabled while its tree is read. *)

LibraryReads(want) ==
    /\ tree["library"].pc = "idle"
    /\ tree' = [tree EXCEPT !["library"] = Started(want, "user")]
    /\ UNCHANGED <<current, lists, marked, chosen, admin, cleanup, dash>> /\ ServerStays

SelectWorkspace(w) == w \in lists["library"].w /\ LibraryReads([NoPath EXCEPT !.w = w])

SelectProject(p) == p \in lists["library"].p /\ LibraryReads([w |-> current.w, p |-> p, c |-> None])

SelectCampaign(c) ==
    LET s == [current EXCEPT !.c = c]
    IN  /\ c \in lists["library"].c /\ tree["library"].pc = "idle" /\ Complete(s) /\ s # current
        /\ open' = open /\ ReadAgain(s, NoPath, "none")
        /\ UNCHANGED <<alive, archived, lists, marked, chosen, admin, cleanup>>

\* The session is checked, or the console's user logs in.
LibraryStarts == LibraryReads(current)

\* External: scopes are deleted and archived by others.
OthersChange(x) ==
    /\ x \in alive
    /\ \/ alive' = alive \ Below(x) /\ UNCHANGED archived
       \/ archived' = archived \cup {x} /\ x \notin archived /\ UNCHANGED alive
    /\ UNCHANGED <<current, open, admin, cleanup, shownVars>>

-----------------------------------------------------------------------------
Answers ==
    \/ \E r \in Readers : WorkspacesRead(r) \/ ProjectsRead(r) \/ CampaignsRead(r) \/ ReadFails(r)
    \/ DashboardRead \/ ActionDone \/ ActionEnds \/ Previewed \/ Executed \/ CleanupEnds

Acts ==
    \/ OpenManager \/ CloseManager \/ RefreshTree \/ SetCurrent
    \/ \E w \in Workspaces : PickWorkspace(w) \/ SelectWorkspace(w)
    \/ \E p \in Projects : PickProject(p) \/ SelectProject(p)
    \/ \E c \in Campaigns : PickCampaign(c) \/ SelectCampaign(c)
    \/ \E kind \in {"rename", "archive", "delete"}, level \in {"w", "p", "c"} : RunAction(kind, level)
    \/ AskPreview \/ TypePhrase \/ Execute
    \/ LibraryStarts \/ \E x \in Scopes : OthersChange(x)

ScopesNext ==
    \/ Answers /\ UNCHANGED acts
    \/ acts < MaxActs /\ acts' = acts + 1 /\ Acts

ScopesSpec == ScopesInit /\ [][ScopesNext]_scopeVars

-----------------------------------------------------------------------------
(* Properties *)

ScopesTypeOK ==
    /\ alive \subseteq Scopes /\ archived \subseteq Scopes /\ marked \subseteq Scopes
    /\ current \in Path /\ chosen \in Path
    /\ lists \in [Readers -> Lists] /\ tree \in [Readers -> Reading]
    /\ open \in BOOLEAN /\ admin \in Admin /\ cleanup \in Cleanup
    /\ dash \in BOOLEAN /\ acts \in 0..MaxActs

\* A cleanup preview that is shown, or awaited, is of the selected scope, and a
\* cleanup is executed for the scope its preview was made of: no change of the
\* selection, by the user or by a reading of the tree, comes between them.
CleanupIsPreviewed ==
    /\ cleanup.token # NoPath => cleanup.token = chosen
    /\ cleanup.busy \in {"preview", "execute"} => cleanup.asked = chosen
    /\ cleanup.busy = "execute" => cleanup.asked = cleanup.token

=============================================================================
