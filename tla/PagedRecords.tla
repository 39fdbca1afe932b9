---------------------------- MODULE PagedRecords ----------------------------
(***************************************************************************)
(* usePagedRecords, the hook behind every list of one's own records, and   *)
(* the sentinel at the end of the list that asks for the next page.        *)
(*                                                                         *)
(* A query (filter, search text) that changes while a page is being loaded *)
(* starts over; the old request goes on and is answered all the same.  The *)
(* records on the server change between two pages: a new one moves all     *)
(* others down, so that the next page repeats some, and a change of status,*)
(* favourite or project lets an old one begin or cease to match.  The list *)
(* is filtered by the copies that the history holds, which lag behind.     *)
(***************************************************************************)
EXTENDS Naturals, Sequences, FiniteSets, SequencesExt, Listing

CONSTANTS
    Queries, Records,
    Profiles,     \* the sets of queries that a record can match at a time
    PageSize,
    MaxChanges,   \* bound: changes of the query and of the switch "enabled"
    MaxTurns      \* bound: records that change or go, copies that are wrong, requests that fail

VARIABLES
    created, existing, profile,       \* the server: ids given so far, rows, the queries each matches
    known, copy,                      \* the history: the records it holds, and what each copy matches
    query, enabled,                   \* the props of the hook
    ids, page, totalPages, status,    \* its state
    loading,                          \* loadingRef
    requests,                         \* requests in flight; "current" is requestIdRef's
    inView, notice,                   \* the sentinel, and a notice its observer has to give
    ever,                             \* ghost: the records that have ever matched each query
    entered,                          \* ghost: those that came to match since the query was asked
    left,                             \* ghost: one that matched ceased to, or the history dropped it
    torn,                             \* ghost: one came between count and rows of the last page
    changes, turns

vars == <<created, existing, profile, known, copy, query, enabled, ids, page, totalPages, status,
          loading, requests, inView, notice, ever, entered, left, torn, changes, turns>>
server   == <<created, existing, profile>>
history  == <<known, copy>>
ghosts   == <<ever, entered, left>>
budget   == <<changes, turns>>
props    == <<query, enabled>>
state    == <<ids, page, totalPages, status, torn>>
sentinel == <<inView, notice>>

-----------------------------------------------------------------------------
(* The server.                                                             *)

Found(q) == {r \in existing : q \in profile[r]}

Pages(q) == LET n == Cardinality(Found(q)) IN
            IF n = 0 THEN 1 ELSE (n + PageSize - 1) \div PageSize

PageOf(q, p) ==
    LET all  == Descending(Found(q))
        last == IF p * PageSize < Len(all) THEN p * PageSize ELSE Len(all)
    IN SubSeq(all, (p - 1) * PageSize + 1, last)

Answerable(r) == r.phase \in {"sent", "counted"}

Turned == turns < MaxTurns /\ turns' = turns + 1

Becomes(r, a) == requests' = (requests \ {r}) \cup {a}

\* List counts and reads with two statements.  Nobody looks at the count for a request that is
\* superseded.
Count(r) ==
    /\ r \in requests /\ r.phase = "sent" /\ r.current
    /\ Becomes(r, [r EXCEPT !.phase = "counted", !.total = Pages(r.query)])
    /\ UNCHANGED <<server, history, ghosts, props, state, loading, sentinel, budget>>

Find(r) ==
    /\ r \in requests /\ r.phase = IF r.current THEN "counted" ELSE "sent"
    /\ LET rows == PageOf(r.query, r.page) IN
       Becomes(r, [r EXCEPT !.phase = "done", !.ids = rows,
                            !.copies = [x \in Records |-> IF x \in ToSet(rows) THEN profile[x] ELSE {}]])
    /\ UNCHANGED <<server, history, ghosts, props, state, loading, sentinel, budget>>

Fail(r) ==
    /\ r \in requests /\ Answerable(r) /\ Turned
    /\ Becomes(r, [r EXCEPT !.phase = "failed"])
    /\ UNCHANGED <<server, history, ghosts, props, state, loading, sentinel, changes>>

\* r, which matched the queries of old, now matches those of new.
Matches(r, old, new) ==
    /\ profile' = [profile EXCEPT ![r] = new]
    /\ ever' = [q \in Queries |-> IF q \in new THEN ever[q] \cup {r} ELSE ever[q]]
    /\ entered' = IF query \in new \ old THEN entered \cup {r} ELSE entered
    /\ left' = (left \/ query \in old \ new)
    /\ requests' = {[a EXCEPT !.torn = @ \/ (a.current /\ a.phase = "counted" /\ query \in new \ old)] :
                      a \in requests}
    /\ UNCHANGED <<props, state, loading, sentinel, changes>>

\* A record is created, here or on another device.  Its id is higher than any that was given before.
Appear(r, p) ==
    /\ r \in Records \ created /\ \A s \in created : s < r
    /\ created' = created \cup {r} /\ existing' = existing \cup {r}
    /\ Matches(r, {}, p)
    /\ UNCHANGED <<history, turns>>

\* The worker finishes it, or it is retried, made a favourite or moved, here or elsewhere.
Turn(r, p) ==
    /\ r \in existing /\ p # profile[r] /\ Turned
    /\ Matches(r, profile[r], p)
    /\ UNCHANGED <<created, existing, history>>

\* It is deleted, here or elsewhere.
Vanish(r) ==
    /\ r \in existing /\ Turned
    /\ existing' = existing \ {r}
    /\ Matches(r, profile[r], {})
    /\ UNCHANGED <<created, history>>

-----------------------------------------------------------------------------
(* The history of the provider.                                            *)

\* An answer of another call brings a record: that of its creation, of a poll, of an update, of the
\* first load.  A late answer brings the record as it was, and an update that failed is applied to the
\* copy all the same.
Learn(r, p) ==
    /\ r \in created /\ (r \notin known \/ copy[r] # p)
    /\ IF r \in entered /\ p = profile[r] THEN UNCHANGED turns ELSE Turned
    /\ known' = known \cup {r} /\ copy' = [copy EXCEPT ![r] = p]
    /\ UNCHANGED <<server, ghosts, props, state, loading, requests, sentinel, changes>>

\* deleteRecord drops it, also when the server did not delete it.
Forget(r) ==
    /\ r \in known /\ Turned
    /\ known' = known \ {r} /\ copy' = [copy EXCEPT ![r] = {}]
    /\ left' = (left \/ r \in Found(query))
    /\ UNCHANGED <<server, ever, entered, props, state, loading, requests, sentinel, changes>>

\* loadRecordsPage merges what a page brings, whether the hook still wants it or not.
Merge(r) ==
    /\ known' = known \cup ToSet(r.ids)
    /\ copy' = [x \in Records |-> IF x \in ToSet(r.ids) THEN r.copies[x] ELSE copy[x]]

-----------------------------------------------------------------------------
(* The hook.                                                               *)

\* Of what is superseded only the rows still matter, to the history.
Superseded ==
    {[r EXCEPT !.current = FALSE, !.phase = IF @ = "counted" THEN "sent" ELSE @,
               !.total = 0, !.torn = FALSE] : r \in requests}

NewRequest(q, p, mode) ==
    [query |-> q, page |-> p, mode |-> mode, current |-> TRUE, phase |-> "sent", total |-> 0,
     torn |-> FALSE, ids |-> <<>>, copies |-> [x \in Records |-> {}]]

\* The effect of a change of query or of "enabled": what is in flight is superseded, and page 1 of
\* the new query is asked for at once.
Reset(q, on) ==
    /\ changes < MaxChanges /\ changes' = changes + 1
    /\ query' = q /\ enabled' = on /\ <<q, on>> # <<query, enabled>>
    /\ ids' = <<>> /\ page' = 0 /\ totalPages' = 1
    /\ loading' = on
    /\ status' = IF on THEN "loading" ELSE "idle"
    /\ requests' = IF on THEN Superseded \cup {NewRequest(q, 1, "reset")} ELSE Superseded
    /\ entered' = {} /\ left' = FALSE /\ torn' = FALSE
    /\ UNCHANGED <<server, history, ever, turns>>

HasMore     == page < totalPages
LoadingMore == status = "loadingMore"

\* The views disable the sentinel while there is nothing to load, and while a later page is loaded,
\* but not during the first.  Enabled again it observes anew, and an observer reports where it finds
\* the sentinel; after that it reports when the sentinel comes into view or goes out of it.
Armed(more, busy) == more /\ ~busy

\* Mutant of Rearm: an observer that is kept reports changes only.
RearmOnce ==
    notice' = (Armed(page' < totalPages', status' = "loadingMore") /\ (notice \/ inView' # inView))

Rearm ==
    notice' = IF Armed(page' < totalPages', status' = "loadingMore")
              THEN notice \/ ~Armed(HasMore, LoadingMore) \/ inView' # inView ELSE FALSE

\* A list that is cut or grows may move the sentinel in either direction.
ChangeQuery == \E q \in Queries, on \in BOOLEAN : Reset(q, on) /\ inView' \in BOOLEAN /\ Rearm

MayLoad == enabled /\ ~loading /\ HasMore

\* loadMore and loadPage: only one request of the current query at a time.
LoadMore ==
    /\ MayLoad
    /\ loading' = TRUE
    /\ status' = "loadingMore"
    /\ requests' = Superseded \cup {NewRequest(query, page + 1, "append")}
    /\ UNCHANGED <<ids, page, totalPages, torn>>

\* The observer of the sentinel calls back.
Notified ==
    /\ notice
    /\ \/ inView /\ LoadMore /\ Rearm
       \/ ~(inView /\ MayLoad) /\ notice' = FALSE /\ UNCHANGED <<state, loading, requests>>
    /\ UNCHANGED <<server, history, ghosts, props, inView, budget>>

\* The user scrolls to the end of the list.
Scroll ==
    /\ ~inView /\ inView' = TRUE
    /\ notice' = Armed(HasMore, LoadingMore)
    /\ UNCHANGED <<server, history, ghosts, props, state, loading, requests, budget>>

\* Mutant of AppendUniqueIds: a record that has moved to the next page is listed twice.
AppendIds(current, incoming) == current \o incoming

AppendUniqueIds(current, incoming) ==
    current \o Keep(incoming, {n \in DOMAIN incoming : incoming[n] \notin ToSet(current)})

\* Only the answer to the latest request counts.
Concerns(r) == r.current

Loaded(r) ==
    /\ r \in requests /\ r.phase = "done" /\ Concerns(r)
    /\ Merge(r)
    /\ ids' = IF r.mode = "reset" THEN r.ids ELSE AppendUniqueIds(ids, r.ids)
    /\ page' = r.page /\ totalPages' = r.total /\ torn' = r.torn
    /\ status' = "ready" /\ loading' = FALSE
    /\ requests' = requests \ {r}
    /\ inView' \in BOOLEAN /\ Rearm
    /\ UNCHANGED <<server, ghosts, props, budget>>

LoadFailed(r) ==
    /\ r \in requests /\ r.phase = "failed" /\ Concerns(r)
    /\ status' = "error" /\ loading' = FALSE
    /\ requests' = requests \ {r}
    /\ UNCHANGED <<server, history, ghosts, props, ids, page, totalPages, torn, inView, budget>>
    /\ Rearm

Ignored(r) ==
    /\ r \in requests /\ ~Answerable(r) /\ ~Concerns(r)
    /\ IF r.phase = "done" THEN Merge(r) ELSE UNCHANGED history
    /\ requests' = requests \ {r}
    /\ UNCHANGED <<server, ghosts, props, state, loading, sentinel, budget>>

\* The client filters by itself what the history holds.
matchesParams(r) == query \in copy[r]

\* Mutant of Shown: what is created while the list is open waits for the next reload.
ShownLoaded == {r \in known \cap ToSet(ids) : matchesParams(r)}

\* pagedRecords: the loaded records the history still has, and those of the history that are newer
\* than the first of them; of both, what matches.
Shown ==
    LET mine   == {r \in known : matchesParams(r)}
        loaded == Keep(ids, {n \in DOMAIN ids : ids[n] \in mine})
    IN ToSet(loaded) \cup
       {r \in mine \ ToSet(ids) : loaded # <<>> => r > Head(loaded)}

Init ==
    /\ created \in SUBSET Records /\ \A r \in created, s \in Records \ created : r < s
    /\ existing = created
    /\ profile \in [Records -> Profiles \cup {{}}]
    /\ \A r \in Records : IF r \in existing THEN profile[r] \in Profiles ELSE profile[r] = {}
    /\ known = {} /\ copy = [r \in Records |-> {}]
    /\ query \in Queries /\ enabled \in BOOLEAN
    /\ ids = <<>> /\ page = 0 /\ totalPages = 1
    /\ status = IF enabled THEN "loading" ELSE "idle"
    /\ loading = enabled
    /\ requests = IF enabled THEN {NewRequest(query, 1, "reset")} ELSE {}
    /\ inView = TRUE /\ notice = TRUE
    /\ ever = [q \in Queries |-> Found(q)] /\ entered = {} /\ left = FALSE /\ torn = FALSE
    /\ changes = 0 /\ turns = 0

Next ==
    \/ \E r \in requests : Count(r) \/ Find(r) \/ Fail(r) \/ Loaded(r) \/ LoadFailed(r) \/ Ignored(r)
    \/ \E r \in Records, p \in Profiles : Appear(r, p) \/ Turn(r, p) \/ Learn(r, p)
    \/ \E r \in Records : Vanish(r) \/ Forget(r)
    \/ ChangeQuery \/ Notified \/ Scroll

Spec == Init /\ [][Next]_vars

-----------------------------------------------------------------------------
\* The list is what PagedList promises, of the records that have ever matched a query: an entry stays
\* when its record ceases to match, and only the display leaves it out.
List == INSTANCE PagedList WITH
    Queries <- Queries, Records <- Records, found <- ever, asked <- query, listed <- ids

ImplementsPagedList == List!Spec

\* The hook waits if and only if one request, of the query it shows, can still wake it: the answer
\* to a request of an earlier query neither ends the wait nor counts for the new query.
LoadingHasRequest ==
    LET current == {r \in requests : r.current} IN
    /\ loading => \E r \in current : current = {r} /\ r.query = query
    /\ ~loading => current = {}

\* What keeps a record that matches out of a list that has ended.  It came to match while the list was
\* open, and the history does not know it, or a listed record is newer: the list puts in front what is
\* newer than all of it, and an old record that begins to match is not asked for again.  Or the history
\* holds an outdated copy of it, which does not match.
NotSeen(r) ==
    \/ r \in entered /\ (r \notin known \/ \E s \in ToSet(ids) : s > r)
    \/ r \in known /\ ~matchesParams(r)

\* When the last page has come, every record that matches on the server is shown, but for those: the
\* records that came to match between two pages move the others down and hide none.  A record that
\* ceases to match does hide one, and so does one that comes between the count and the rows of the
\* last page.
AllShown ==
    (status = "ready" /\ ~HasMore /\ ~left /\ ~torn) =>
        \A r \in Found(query) : r \in Shown \/ NotSeen(r)

\* Where the user cannot scroll on, as the sentinel stays in view and its observer silent: the first
\* page has failed, or did not fill the view.  The notice came while it was being loaded.
Stranded ==
    /\ inView /\ ~notice
    /\ (status = "error" /\ page = 0) \/ (status = "ready" /\ page = 1)

\* Where a list comes to rest when the user scrolls on.
AtRest == ~enabled \/ (status = "ready" /\ ~HasMore) \/ Stranded
=============================================================================
