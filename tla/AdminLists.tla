----------------------------- MODULE AdminLists -----------------------------
(***************************************************************************)
(* A list of the admin console: the users card, with its search field, the *)
(* reset of a password and the disabling of a user; or the records card,   *)
(* with its filter and the deletion of a record; both with the pagination. *)
(*                                                                         *)
(* Every change of query or page loads the list anew, and the answers come *)
(* in any order: the last one to arrive is the one shown.                  *)
(***************************************************************************)
EXTENDS Integers, Sequences, FiniteSets, SequencesExt, Listing

CONSTANTS
    Rows,           \* users or records, numbers: the lists are in ascending order
    Admins,         \* the users among them with the role admin
    Matching,       \* the rows each query (search text or status) finds
    Start,          \* the query the card begins with
    Cards,          \* the cards explored: a subset of {"users", "records"}
    PageSize,
    Nobody,         \* no row
    MaxActs,        \* bound: clicks and edits of the admin
    Leaving,        \* bound: the records that their users may delete
    MaxChanges      \* bound: how many they delete, and calls that fail

VARIABLES
    card,                        \* the card on the screen
    query, page,                 \* its state: the page asked for,
    rows, off, total,            \* the rows, those shown as disabled, and the total
    loading,
    due,                         \* the effect's timer that will load the list
    working, target,             \* the row marked as being worked on; the open dialog and its row
    existing, disabled,          \* the server: rows, and users that are disabled
    calls,                       \* calls in flight
    acts, changes

vars == <<card, query, page, rows, off, total, loading, due, working, target, existing, disabled,
          calls, acts, changes>>
list   == <<query, page, rows, off, total, loading, due>>
dialog == <<working, target>>
server == <<existing, disabled>>

NoDialog == [ask |-> "none", row |-> Nobody]

-----------------------------------------------------------------------------
(* The pagination.                                                         *)

Smaller(a, b) == IF a < b THEN a ELSE b
Larger(a, b)  == IF a > b THEN a ELSE b

PagesFor(n)    == Larger(1, (n + PageSize - 1) \div PageSize)
Bounded(p, n)  == Smaller(Larger(1, p), n)
Current        == Bounded(page, PagesFor(total))

Ellipsis   == 0
From(a, b) == IF a > b THEN <<>> ELSE [i \in 1..(b - a + 1) |-> a + i - 1]
Gap(b)     == IF b THEN <<Ellipsis>> ELSE <<>>

\* Mutant of visiblePages: the neighbours are not kept between the first page and the last.
visiblePagesUnclamped(current, n) ==
    <<1>> \o Gap(current - 1 > 2) \o From(current - 1, current + 1) \o Gap(current + 1 < n - 1) \o <<n>>

\* The first page, the neighbours of the current one and the last page, with an ellipsis where
\* pages are left out.
visiblePages(current, n) ==
    LET first == Larger(2, current - 1)
        last  == Smaller(n - 1, current + 1)
    IN <<1>> \o Gap(first > 2) \o From(first, last) \o Gap(last < n - 1) \o From(Larger(n, 2), n)

-----------------------------------------------------------------------------
(* The server.                                                             *)

Found(q) == Matching[q] \cap existing

PageOf(q, p) ==
    LET last == Smaller(p * PageSize, Cardinality(Found(q)))
    IN [i \in 1..Larger(0, last - (p - 1) * PageSize) |-> Nth(Found(q), (p - 1) * PageSize + i)]

Call(kind, q, p, row) ==
    [kind |-> kind, query |-> q, page |-> p, row |-> row, phase |-> "sent", rows |-> <<>>,
     off |-> {}, total |-> 0]

Served(c) ==
    CASE c.kind = "list"   -> [c EXCEPT !.phase = "done", !.rows = PageOf(c.query, c.page),
                                        !.off = disabled, !.total = Cardinality(Found(c.query))]
      [] c.kind = "delete" -> [c EXCEPT !.phase = IF c.row \in existing THEN "done" ELSE "failed"]
      [] OTHER             -> [c EXCEPT !.phase = "done"]

Serve(c) ==
    /\ c \in calls /\ c.phase = "sent"
    /\ calls' = (calls \ {c}) \cup {Served(c)}
    /\ existing' = IF c.kind = "delete" THEN existing \ {c.row} ELSE existing
    /\ disabled' = IF c.kind = "disable" THEN disabled \cup {c.row} ELSE disabled
    /\ UNCHANGED <<card, list, dialog, acts, changes>>

Refuse(c) ==
    /\ c \in calls /\ c.phase = "sent" /\ changes < MaxChanges
    /\ changes' = changes + 1
    /\ calls' = (calls \ {c}) \cup {[c EXCEPT !.phase = "failed"]}
    /\ UNCHANGED <<card, list, dialog, server, acts>>

\* A record is deleted by its user.
Vanish(r) ==
    /\ card = "records" /\ r \in existing /\ changes < MaxChanges
    /\ changes' = changes + 1
    /\ existing' = existing \ {r}
    /\ UNCHANGED <<card, list, dialog, disabled, calls, acts>>

-----------------------------------------------------------------------------
(* The list.                                                               *)

Act == acts < MaxActs /\ acts' = acts + 1 /\ UNCHANGED <<card, changes, server>>

\* The effect of a new query or page: a timer of 0 ms that loads; the one before it is cleared.
Relist(q, p) ==
    /\ query' = q /\ page' = p
    /\ due' = (due \/ <<q, p>> # <<query, page>>)

Load ==
    /\ due /\ due' = FALSE
    /\ loading' = TRUE
    /\ calls' = calls \cup {Call("list", query, page, Nobody)}
    /\ UNCHANGED <<card, query, page, rows, off, total, dialog, server, acts, changes>>

\* An answer is shown whatever has been asked since, and ends the loading.
LoadEnds(c) == loading' = FALSE
Loaded(c) ==
    /\ c \in calls /\ c.kind = "list" /\ c.phase # "sent"
    /\ calls' = calls \ {c}
    /\ LoadEnds(c)
    /\ IF c.phase = "done" THEN rows' = c.rows /\ off' = c.off /\ total' = c.total
       ELSE UNCHANGED <<rows, off, total>>
    /\ UNCHANGED <<card, query, page, due, dialog, server, acts, changes>>

\* A dialog covers the card.
Free == target = NoDialog

\* The search field gives every text; the toggle group gives another status than the one chosen.
Search(q) ==
    /\ Free /\ Act
    /\ q # query
    /\ Relist(q, 1)
    /\ UNCHANGED <<rows, off, total, loading, dialog, calls>>

\* The pagination goes to a page of those there are, and to another one than it shows.
GoTo(p) ==
    /\ Free /\ Act
    /\ LET next == Bounded(p, PagesFor(total)) IN
       /\ next # Current
       /\ Relist(query, next)
    /\ UNCHANGED <<rows, off, total, loading, dialog, calls>>

Click == \E p \in ToSet(visiblePages(Current, PagesFor(total))) \ {Ellipsis} : GoTo(p)
Step  == GoTo(Current - 1) \/ GoTo(Current + 1)

-----------------------------------------------------------------------------
(* The rows.                                                               *)

Shown == IF loading THEN {} ELSE ToSet(rows)

\* What a row offers, by what it looked like when its list was loaded.
RowOffers(ask, r) ==
    CASE ask = "reset"   -> card = "users" /\ working # r
      [] ask = "disable" -> card = "users" /\ working # r /\ r \notin Admins \cup off
      [] ask = "delete"  -> card = "records"

Ask(ask, r) ==
    /\ Free /\ r \in Shown /\ RowOffers(ask, r) /\ Act
    /\ target' = [ask |-> ask, row |-> r]
    /\ UNCHANGED <<list, working, calls>>

Cancel ==
    /\ ~Free /\ Act
    /\ target' = NoDialog
    /\ UNCHANGED <<list, working, calls>>

\* The dialog closes and its operation begins; only the users card marks the row.
Confirm ==
    /\ ~Free /\ Act
    /\ target' = NoDialog
    /\ working' = IF card = "users" THEN target.row ELSE working
    /\ calls' = calls \cup {Call(target.ask, query, page, target.row)}
    /\ UNCHANGED list

\* Mutant of Unmark: a row whose operation has failed keeps the mark.
UnmarkIfDone(c) == working' = IF c.phase = "done" THEN Nobody ELSE working

Unmark(c) == working' = Nobody

\* The end of an operation takes the mark off whatever row has it, and closes the dialog of its
\* kind whatever row that is open for.
Ended(c) ==
    /\ c \in calls /\ c.kind # "list" /\ c.phase # "sent"
    /\ calls' = calls \ {c}
    /\ Unmark(c)
    /\ target' = IF target.ask = c.kind THEN NoDialog ELSE target
    /\ rows' = IF c.kind = "delete" /\ c.phase = "done"
               THEN Keep(rows, {n \in DOMAIN rows : rows[n] # c.row}) ELSE rows
    /\ off' = IF c.kind = "disable" /\ c.phase = "done" THEN off \cup {c.row} ELSE off
    /\ UNCHANGED <<card, query, page, total, loading, due, server, acts, changes>>

-----------------------------------------------------------------------------
Init ==
    /\ card \in Cards
    /\ query = Start /\ page = 1 /\ rows = <<>> /\ off = {} /\ total = 0
    /\ loading = TRUE /\ due = TRUE
    /\ working = Nobody /\ target = NoDialog
    /\ existing = Rows /\ disabled = {}
    /\ calls = {} /\ acts = 0 /\ changes = 0

Answered == Load \/ \E c \in calls : Loaded(c) \/ Ended(c)
Replied  == \E c \in calls : Serve(c) \/ Refuse(c)

Next ==
    \/ Answered \/ Replied
    \/ \E r \in Leaving : Vanish(r)
    \/ \E q \in DOMAIN Matching : Search(q)
    \/ Click \/ Step
    \/ \E ask \in {"reset", "disable", "delete"}, r \in Rows : Ask(ask, r)
    \/ Cancel \/ Confirm

Spec == Init /\ [][Next]_vars

-----------------------------------------------------------------------------
(* Properties.                                                             *)

\* A row whose buttons are disabled as being worked on is one whose operation is still under way,
\* although operations on several rows overlap and share one mark (users-card.tsx, "working").
MarkedIsUnderWay ==
    working # Nobody => \E c \in calls : c.kind \in {"reset", "disable"} /\ c.row = working

\* The pagination shows, in ascending order and once each, pages that exist: the first, the last,
\* the current one and its neighbours; an ellipsis stands exactly where pages are left out
\* (admin-pagination.tsx, visiblePages).
PaginationIsTrue ==
    LET n     == PagesFor(total)
        pages == visiblePages(Current, n)
    IN /\ ToSet(pages) \ {Ellipsis} =
             {p \in 1..n : p \in {1, n} \/ (p >= Current - 1 /\ p <= Current + 1)}
       /\ \A i, j \in DOMAIN pages :
             i < j /\ Ellipsis \notin {pages[i], pages[j]} => pages[i] < pages[j]
       /\ \A i \in DOMAIN pages : pages[i] = Ellipsis =>
             /\ i > 1 /\ i < Len(pages)
             /\ pages[i + 1] > pages[i - 1] + 1
       /\ \A i \in 1..(Len(pages) - 1) : Ellipsis \notin {pages[i], pages[i + 1]} =>
             pages[i + 1] = pages[i] + 1
=============================================================================
