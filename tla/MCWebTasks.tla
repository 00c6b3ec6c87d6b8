----------------------------- MODULE MCWebTasks -----------------------------
(***************************************************************************)
(* The page's tasks and its thumbnails, which share nothing but the stored *)
(* images: each behaviour follows one of the two.                          *)
(***************************************************************************)
EXTENDS WebTasks, WebThumbs

CONSTANTS t1, t2, p1, p2
VARIABLE focus

MCViewers == {<<p1, 1>>}

TasksInit == focus \in {"tasks", "thumbs"} /\ Init /\ ThumbsInit
TasksNext ==
    /\ UNCHANGED focus
    /\ \/ focus = "tasks"  /\ Next       /\ UNCHANGED thumbVars
       \/ focus = "thumbs" /\ ThumbsNext /\ UNCHANGED vars
TasksSpec == TasksInit /\ [][TasksNext]_<<focus, vars, thumbVars>>

\* The variables of both keep their types.
TasksTypeOK == IF focus = "tasks" THEN TypeOK ELSE ThumbsTypeOK
=============================================================================
