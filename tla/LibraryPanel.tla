---------------------------- MODULE LibraryPanel ----------------------------
(***************************************************************************)
(* The library beside the workbench: its tabs and project filter, the      *)
(* cards of the history with what each offers, the projects with their     *)
(* inline renaming, and the dialogs that confirm.                          *)
(*                                                                         *)
(* A handler that awaits goes on, when its answer comes, with what it saw  *)
(* when the user clicked; the panel has moved on meanwhile.  The records   *)
(* change as RecordClient says; here a step moves the status of one.  What *)
(* the search text finds is left to PagedRecords.                          *)
(***************************************************************************)
EXTENDS Naturals, FiniteSets

CONSTANTS
    Cards,       \* records of the history
    ProjectIds,
    Names, Given,   \* names the user types, and names a project had before the panel opened
    None,
    MaxActs      \* bound: handlers that call the server

VARIABLES
    cards, projects, activeId,     \* of the provider: history, projects, activeHistoryId
    tab, projectFilter,            \* the tab and the filter
    creating, editing,             \* the dialog and the inputs that name a project
    deleteRecordTarget, cancelRecordTarget, deleteProjectTarget,
    jobs,                          \* handlers that wait for an answer
    reselected, raced,             \* ghosts: projects chosen, records moved to them, under their deletion
    acts

targets  == <<deleteRecordTarget, cancelRecordTarget, deleteProjectTarget>>
place    == <<tab, projectFilter>>
provider == <<cards, projects, activeId>>
naming   == <<creating, editing>>
ghosts   == <<reselected, raced>>
vars == <<provider, place, naming, targets, jobs, ghosts, acts>>

-----------------------------------------------------------------------------
Statuses   == {"waiting", "running", "completed", "failed"}
Unfinished == {"waiting", "running"}
Tabs       == {"history", "projects", "favorites"}

Card == [status : Statuses, favorite : BOOLEAN, project : ProjectIds \cup {None},
         image : {"none", "url", "error"}]

\* undefined shows all records, null those of no project.
Filters == ProjectIds \cup {"all", "inbox"}

Visible == DOMAIN cards

-----------------------------------------------------------------------------
(* What is shown, and what it offers.                                      *)

\* The lists: the history under the filter, and the favorites.
HistoryTab == {i \in Visible :
    \/ projectFilter = "all"
    \/ projectFilter = "inbox" /\ cards[i].project = None
    \/ projectFilter = cards[i].project}

FavoritesTab == {i \in Visible : cards[i].favorite}

Listed == CASE tab = "history" -> HistoryTab [] tab = "favorites" -> FavoritesTab [] OTHER -> {}

ImageLoading(i) == cards[i].status = "completed" /\ cards[i].image = "none"

\* The effect of a thumbnail that comes into view.
WantsImage(i) == ImageLoading(i)

\* Buttons of a card by the status of its record.
HistoryCardActions(status) ==
    {"reuse", "copy"} \cup
    CASE status = "failed"    -> {"details", "retry", "delete"}
      [] status = "completed" -> {"favorite", "move", "create", "delete"}
      [] OTHER                -> {"cancel"}

\* A card whose image is on its way is a skeleton that can only be selected.
HistoryCardSkeleton == {"select"}

HistoryCard(i) ==
    IF ImageLoading(i) THEN HistoryCardSkeleton ELSE {"select"} \cup HistoryCardActions(cards[i].status)

\* The dialogs are modal: while one is open nothing else of the panel can be used.
CreateDialog   == creating.open
ConfirmDialogs == \E t \in {deleteRecordTarget, cancelRecordTarget, deleteProjectTarget} : t # None
Modal          == CreateDialog \/ ConfirmDialogs

Offers(i, action) == ~Modal /\ i \in Listed /\ action \in HistoryCard(i)

\* The projects, the one for records of none, and the button for a new one.
ProjectsTab == ~Modal /\ tab = "projects"

-----------------------------------------------------------------------------
(* Handlers that end at once.                                              *)

GoTo(t, f) == tab' = t /\ projectFilter' = f

\* The tabs, the cross of the filter, the inbox, a project.
Navigate ==
    /\ ~Modal
    /\ \/ \E t \in Tabs : tab' = t /\ UNCHANGED <<projectFilter, reselected>>
       \/ tab = "history" /\ projectFilter # "all" /\ GoTo(tab, "all") /\ UNCHANGED reselected
       \/ ProjectsTab /\ GoTo("history", "inbox") /\ UNCHANGED reselected
       \/ \E p \in DOMAIN projects :
            /\ ProjectsTab /\ editing[p] = None
            /\ GoTo("history", p)
            /\ reselected' = IF \E j \in jobs : j.kind = "deleteProject" /\ j.id = p
                             THEN reselected \cup {p} ELSE reselected
    /\ UNCHANGED <<provider, naming, targets, jobs, raced, acts>>

Select(i) ==
    /\ Offers(i, "select")
    /\ activeId' = i
    /\ UNCHANGED <<cards, projects, place, naming, targets, jobs, ghosts, acts>>

\* The dialogs hold the record or project as it was when they were opened.
AskDelete(i) ==
    /\ Offers(i, "delete")
    /\ deleteRecordTarget' = i
    /\ UNCHANGED <<provider, place, naming, cancelRecordTarget, deleteProjectTarget, jobs, ghosts, acts>>

AskCancel(i) ==
    /\ Offers(i, "cancel")
    /\ cancelRecordTarget' = i
    /\ UNCHANGED <<provider, place, naming, deleteRecordTarget, deleteProjectTarget, jobs, ghosts, acts>>

AskDeleteProject(p) ==
    /\ ProjectsTab /\ p \in DOMAIN projects /\ editing[p] = None
    /\ deleteProjectTarget' = p
    /\ UNCHANGED <<provider, place, naming, deleteRecordTarget, cancelRecordTarget, jobs, ghosts, acts>>

Dismiss ==
    /\ Modal
    /\ creating' = [open |-> FALSE, name |-> None]
    /\ deleteRecordTarget' = None /\ cancelRecordTarget' = None /\ deleteProjectTarget' = None
    /\ UNCHANGED <<provider, place, editing, jobs, ghosts, acts>>

\* The dialog of a new project and its input.
NameProject ==
    /\ \/ /\ \/ ProjectsTab
             \/ \E i \in Visible : Offers(i, "create")
          /\ creating' = [creating EXCEPT !.open = TRUE]
       \/ \E n \in Names : CreateDialog /\ creating' = [creating EXCEPT !.name = n]
    /\ UNCHANGED <<provider, place, editing, targets, jobs, ghosts, acts>>

\* The input that renames a project begins with its name; escape closes it.
EditName(p) ==
    /\ ProjectsTab /\ p \in DOMAIN projects
    /\ \/ editing[p] = None /\ editing' = [editing EXCEPT ![p] = projects[p]]
       \/ editing[p] # None /\ \E n \in Names \cup {None} : editing' = [editing EXCEPT ![p] = n]
    /\ UNCHANGED <<provider, place, creating, targets, jobs, ghosts, acts>>

-----------------------------------------------------------------------------
(* Handlers that await.                                                    *)

Job(kind, id, arg) == [kind |-> kind, id |-> id, arg |-> arg, filter |-> projectFilter]

Await(kind, id, arg) ==
    /\ acts < MaxActs /\ acts' = acts + 1
    /\ jobs' = jobs \cup {Job(kind, id, arg)}

ToggleFavorite(i) ==
    /\ Offers(i, "favorite") /\ Await("favorite", i, ~cards[i].favorite)
    /\ UNCHANGED <<provider, place, naming, targets, ghosts>>

MoveToProject(i, p) ==
    /\ Offers(i, "move") /\ p \in DOMAIN projects \cup {None} /\ Await("move", i, p)
    /\ UNCHANGED <<provider, place, naming, targets, ghosts>>

RetryCard(i) ==
    /\ Offers(i, "retry") /\ Await("retry", i, None)
    /\ UNCHANGED <<provider, place, naming, targets, ghosts>>

\* The action of a dialog runs its handler and closes it.
ConfirmDelete ==
    /\ deleteRecordTarget # None /\ deleteRecordTarget' = None
    /\ Await("delete", deleteRecordTarget, None)
    /\ UNCHANGED <<provider, place, naming, cancelRecordTarget, deleteProjectTarget, ghosts>>

ConfirmCancel ==
    /\ cancelRecordTarget # None /\ cancelRecordTarget' = None
    /\ Await("cancel", cancelRecordTarget, None)
    /\ UNCHANGED <<provider, place, naming, deleteRecordTarget, deleteProjectTarget, ghosts>>

ConfirmDeleteProject ==
    /\ deleteProjectTarget # None /\ deleteProjectTarget' = None
    /\ Await("deleteProject", deleteProjectTarget, None)
    /\ UNCHANGED <<provider, place, naming, deleteRecordTarget, cancelRecordTarget, ghosts>>

CreateProject ==
    /\ creating.open /\ creating.name # None
    /\ Await("create", None, creating.name)
    /\ UNCHANGED <<provider, place, naming, targets, ghosts>>

\* Enter or blur: nothing typed, or the name it has, ends the editing.
CommitName(p) ==
    /\ p \in DOMAIN projects /\ editing[p] # None
    /\ \/ /\ editing[p] # projects[p] /\ Await("rename", p, editing[p])
          /\ UNCHANGED editing
       \/ /\ editing' = [editing EXCEPT ![p] = None]
          /\ UNCHANGED <<jobs, acts>>
    /\ UNCHANGED <<provider, place, creating, targets, ghosts>>

-----------------------------------------------------------------------------
(* Their answers.                                                          *)

Ends(j, kinds) == j \in jobs /\ j.kind \in kinds /\ jobs' = jobs \ {j}

Patch(i, card) == [k \in Visible |-> IF k = i THEN card ELSE cards[k]]

\* Whether the server took the change or not, the record shows it and a toast says that it is done.
Updated(j) ==
    /\ Ends(j, {"favorite", "move"})
    /\ cards' = IF j.kind = "favorite" THEN Patch(j.id, [cards[j.id] EXCEPT !.favorite = j.arg])
                ELSE Patch(j.id, [cards[j.id] EXCEPT !.project = j.arg])
    /\ raced' = IF j.kind = "move" /\ j.arg \notin DOMAIN projects \cup {None}
                THEN raced \cup {j.id} ELSE raced
    /\ UNCHANGED <<projects, activeId, place, naming, targets, reselected, acts>>

Retried(j) ==
    /\ Ends(j, {"retry"})
    /\ \/ /\ cards' = Patch(j.id, [cards[j.id] EXCEPT !.status = "waiting"])
          /\ activeId' = j.id
       \/ UNCHANGED <<cards, activeId>>
    /\ UNCHANGED <<projects, place, naming, targets, ghosts, acts>>

\* The record goes whatever the answer is; the dialog is closed again, though it may have been
\* opened for another record since.
Deleted(j) ==
    /\ Ends(j, {"delete", "cancel"})
    /\ cards' = [k \in Visible \ {j.id} |-> cards[k]]
    /\ activeId' = IF activeId = j.id THEN None ELSE activeId
    /\ deleteRecordTarget' = IF j.kind = "delete" THEN None ELSE deleteRecordTarget
    /\ cancelRecordTarget' = IF j.kind = "cancel" THEN None ELSE cancelRecordTarget
    /\ UNCHANGED <<projects, place, naming, deleteProjectTarget, ghosts, acts>>

\* An operation on a project that fails throws: the rest of the handler does not run.
Throws(j) ==
    /\ Ends(j, {"create", "rename", "deleteProject"})
    /\ UNCHANGED <<provider, place, naming, targets, ghosts, acts>>

ProjectCreated(j) ==
    /\ Ends(j, {"create"})
    /\ \E p \in ProjectIds \ (DOMAIN projects \cup {k.id : k \in jobs} \cup {k.arg : k \in jobs}) :
        /\ projects' = [q \in DOMAIN projects \cup {p} |-> IF q = p THEN j.arg ELSE projects[q]]
        /\ raced' = {i \in raced : cards[i].project # p}
        /\ projectFilter # p /\ \A i \in Visible : cards[i].project # p
    /\ creating' = [open |-> FALSE, name |-> None]
    /\ UNCHANGED <<cards, activeId, place, editing, targets, reselected, acts>>

ProjectRenamed(j) ==
    /\ Ends(j, {"rename"})
    /\ projects' = [p \in DOMAIN projects |-> IF p = j.id THEN j.arg ELSE projects[p]]
    /\ editing' = [editing EXCEPT ![j.id] = None]
    /\ UNCHANGED <<cards, activeId, place, creating, targets, ghosts, acts>>

\* projects/delete: the records of the project belong to none.
DropProject(p) ==
    /\ projects' = [q \in DOMAIN projects \ {p} |-> projects[q]]
    /\ cards' = [k \in Visible |-> IF cards[k].project = p THEN [cards[k] EXCEPT !.project = None] ELSE cards[k]]

\* Mutant of FilterAfter: the filter stays on the deleted project.
FilterKept(j) == projectFilter

\* The filter the handler saw when it was clicked decides.
FilterAfter(j) == IF j.filter = j.id THEN "all" ELSE projectFilter

ProjectDeleted(j) ==
    /\ Ends(j, {"deleteProject"})
    /\ DropProject(j.id)
    /\ projectFilter' = FilterAfter(j)
    /\ editing' = [editing EXCEPT ![j.id] = None]
    /\ deleteProjectTarget' = None
    /\ UNCHANGED <<activeId, tab, creating, deleteRecordTarget, cancelRecordTarget, ghosts, acts>>

-----------------------------------------------------------------------------
\* The history changes beneath the panel.
Progress(i) ==
    /\ i \in Visible
    /\ \/ cards[i].status = "waiting" /\ cards' = Patch(i, [cards[i] EXCEPT !.status = "running"])
       \/ /\ cards[i].status = "running"
          /\ \E s \in {"completed", "failed"} : cards' = Patch(i, [cards[i] EXCEPT !.status = s])
       \/ /\ WantsImage(i)
          /\ \E m \in {"url", "error"} : cards' = Patch(i, [cards[i] EXCEPT !.image = m])
    /\ UNCHANGED <<projects, activeId, place, naming, targets, jobs, ghosts, acts>>

Init ==
    /\ cards \in [Cards -> {[status |-> s, favorite |-> FALSE, project |-> None, image |-> "none"] :
                            s \in {"waiting", "completed"}}]
    /\ \E p \in ProjectIds, n \in Given : projects = [q \in {p} |-> n]
    /\ activeId = None
    /\ tab = "history" /\ projectFilter = "all"
    /\ creating = [open |-> FALSE, name |-> None]
    /\ editing = [p \in ProjectIds |-> None]
    /\ deleteRecordTarget = None /\ cancelRecordTarget = None /\ deleteProjectTarget = None
    /\ jobs = {}
    /\ reselected = {} /\ raced = {} /\ acts = 0

Answers(j) ==
    \/ Updated(j) \/ Retried(j) \/ Deleted(j) \/ Throws(j)
    \/ ProjectCreated(j) \/ ProjectRenamed(j) \/ ProjectDeleted(j)

Next ==
    \/ Navigate \/ Dismiss \/ NameProject
    \/ \E i \in Cards :
        \/ Select(i) \/ AskDelete(i) \/ AskCancel(i) \/ ToggleFavorite(i) \/ RetryCard(i) \/ Progress(i)
        \/ \E p \in ProjectIds \cup {None} : MoveToProject(i, p)
    \/ \E p \in ProjectIds : AskDeleteProject(p) \/ EditName(p) \/ CommitName(p)
    \/ ConfirmDelete \/ ConfirmCancel \/ ConfirmDeleteProject \/ CreateProject
    \/ \E j \in jobs : Answers(j)

Spec == Init /\ [][Next]_vars

-----------------------------------------------------------------------------
\* The list is filtered by a project there is, unless it was chosen while it was being deleted.
FilterExists == projectFilter \in DOMAIN projects \cup {"all", "inbox"} \cup reselected

\* A record is shown in a project there is, unless it was moved there while that was being deleted.
NoOrphans == \A i \in Visible \ raced : cards[i].project \in DOMAIN projects \cup {None}

\* Whatever refers to a project refers to one there is, although projects are deleted here while
\* answers that name them are under way.
ProjectsExist == FilterExists /\ NoOrphans
=============================================================================
