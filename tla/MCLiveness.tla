---------------------------- MODULE MCLiveness ----------------------------
(***************************************************************************)
(* What must happen some time in the client, for TLC: its records and its  *)
(* sessions next to its lists (Lists, extended), one at a time.            *)
(***************************************************************************)
EXTENDS Lists, TLC

CONSTANTS
    Nil, t1, k1, k2, n1, c1, c2

\* "a" finds all records, "b" one of them.
Searches == "a" :> {1, 2, 3} @@ "b" :> {2}

\* Of one's own records "a" finds all, "b" those that have a status, or are a favourite.
Profiled == {{"a"}, {"a", "b"}}

-----------------------------------------------------------------------------
VARIABLES
    rec_rows, rec_user, rec_history, rec_active, rec_ready, rec_apiStatus, rec_pollers,
    rec_loaders, rec_blobs, rec_timers, rec_calls, rec_lost, rec_patched, rec_cut, rec_issued,
    rec_faults, rec_switches, rec_remote

recVars ==
    <<rec_rows, rec_user, rec_history, rec_active, rec_ready, rec_apiStatus, rec_pollers,
    rec_loaders, rec_blobs, rec_timers, rec_calls, rec_lost, rec_patched, rec_cut, rec_issued,
    rec_faults, rec_switches, rec_remote>>
Rec == INSTANCE RecordClient WITH
    Ids <- {1}, Accounts <- {n1}, Slots <- {c1, c2}, NoUser <- Nil, NoId <- Nil, MaxCalls <- 1,
    MaxFaults <- 1, MaxSwitches <- 1, MaxRemote <- 0, rows <- rec_rows, user <- rec_user,
    history <- rec_history, active <- rec_active, ready <- rec_ready, apiStatus <- rec_apiStatus,
    pollers <- rec_pollers, loaders <- rec_loaders, blobs <- rec_blobs, timers <- rec_timers,
    calls <- rec_calls, lost <- rec_lost, patched <- rec_patched, cut <- rec_cut,
    issued <- rec_issued, faults <- rec_faults, switches <- rec_switches, remote <- rec_remote

VARIABLES
    ses_valid, ses_cookie, ses_access, ses_refreshing, ses_who, ses_initializing, ses_form,
    ses_flows, ses_over, ses_mishaps

sesVars ==
    <<ses_valid, ses_cookie, ses_access, ses_refreshing, ses_who, ses_initializing, ses_form,
    ses_flows, ses_over, ses_mishaps>>
Ses == INSTANCE BrowserSession WITH
    Tabs <- {t1}, Flows <- {c1}, Tokens <- {k1, k2}, NoToken <- Nil, MaxMishaps <- 1,
    valid <- ses_valid, cookie <- ses_cookie, access <- ses_access, refreshing <- ses_refreshing,
    who <- ses_who, initializing <- ses_initializing, form <- ses_form, flows <- ses_flows,
    over <- ses_over, mishaps <- ses_mishaps

-----------------------------------------------------------------------------
\* One part moves, the others stay where they begin: they share no state.
AllVars == <<part, recVars, sesVars, pagVars, galVars>>

SumInit ==
    /\ part \in {"records", "session", "paged", "gallery"}
    /\ Rec!Init /\ (part # "records" => rec_rows[1].status = "unborn")
    /\ Ses!Init /\ (part # "session" => ses_cookie = Nil) /\ ses_cookie \in {Nil, k1}
    /\ ListsInit
    /\ pag_created = {1, 2} /\ pag_query = "b" /\ pag_enabled
    /\ IF part = "paged" THEN "b" \in pag_profile[2] ELSE \A r \in {1, 2} : pag_profile[r] = {"a"}
    /\ gal_published = <<2, 1>> /\ gal_query = "a"

SumNext ==
    /\ ListsNext
    /\ IF part = "records" THEN Rec!Next ELSE UNCHANGED recVars
    /\ IF part = "session" THEN Ses!Next ELSE UNCHANGED sesVars

SumSpec == SumInit /\ [][SumNext]_AllVars

\* The fairness of each part, while it is the one that moves: a part never changes into another, so
\* that the n-th fair action may be that of whichever part it is.  Calls are served and answers
\* handled, the queue works on records, tokens run out, observers call back, the user scrolls on, and
\* the browser loads the images it is told to.
Fair(n) ==
    /\ UNCHANGED part
    /\ \/ /\ part = "records"
          /\ CASE n = 1 -> Rec!Serve(c1)  [] n = 2 -> Rec!Serve(c2)
               [] n = 3 -> Rec!Handle(c1) [] n = 4 -> Rec!Handle(c2) [] OTHER -> Rec!Advance(1)
       \/ /\ part = "session"
          /\ CASE n = 1 -> Ses!Serve(c1)  [] n = 2 -> Ses!Answer(c1)
               [] n = 3 -> Ses!ServeRefresh(t1) [] n = 4 -> Ses!Refreshed(t1)
               [] OTHER -> \E k \in {k1, k2} : Ses!Lapse(k)
       \/ /\ part = "paged"
          /\ CASE n = 1 -> \E r \in pag_requests :
                              Pag!Count(r) \/ Pag!Find(r) \/ Pag!Loaded(r) \/ Pag!LoadFailed(r)
               [] n = 2 -> Pag!Notified [] n = 3 -> Pag!Scroll [] OTHER -> FALSE
       \/ /\ part = "gallery"
          /\ CASE n = 1 -> Gal!Answered /\ Gal!Relist [] n = 2 -> Gal!ImageEnds /\ Gal!Relist
               [] n = 3 -> \E r \in 1..3 : Gal!Measured(r) [] OTHER -> FALSE

\* A timer that is due fires some time, though a slot for its request is not always free.
Polls == UNCHANGED part /\ part = "records" /\ \E c \in {c1, c2} : Rec!Tick(1, c)

\* What moves.
Moving ==
    CASE part = "records" -> recVars [] part = "session" -> sesVars
      [] part = "paged"   -> pagVars [] part = "gallery" -> galVars

SumFairSpec == SumSpec /\ (\A n \in 1..5 : WF_Moving(Fair(n))) /\ SF_Moving(Polls)

-----------------------------------------------------------------------------
(* The properties of the parts.  A part that does not move has nothing to  *)
(* live up to.                                                             *)

Waits ==
    \/ part = "records" /\ 1 \in rec_pollers /\ Rec!Exists(1, rec_user)
    \/ part = "session" /\ Ses!Busy(c1)

\* Whatever the client waits for comes to an end: an unfinished record is polled until it is seen
\* finished or is no longer there, and a call of a session ends however often
\* its token runs out.
EveryWaitEnds == Waits ~> ~Waits

\* The lists come to rest.  A user who scrolls on sees the last page in the end, unless the first page
\* failed or left the sentinel in view (PagedRecords!Stranded): the failure of a later page and a later
\* page that is short end nothing.  However often the list of the gallery changes while images are
\* loaded for their size, in the end each is laid out by its own (GalleryView!AllMeasured).
ListsSettle ==
    <>[](/\ part = "paged" => Pag!AtRest
         /\ part = "gallery" => Gal!AllMeasured)
=============================================================================
