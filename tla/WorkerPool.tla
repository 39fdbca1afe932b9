----------------------------- MODULE WorkerPool -----------------------------
(***************************************************************************)
(* The worker pool of shadraw (internal/worker/pool.go): how many worker   *)
(* goroutines live, how Resize adds and removes them, how Wake reaches an  *)
(* idle one, and how Stop waits for all of them.  What a worker does with  *)
(* a record is one step here, "tick"; RecordQueue says what is in it.      *)
(*                                                                         *)
(* A goroutine looks at the counters under the mutex and acts on what it   *)
(* saw after it has given the mutex back, so each of the two is a step.    *)
(***************************************************************************)
EXTENDS Integers, FiniteSets

CONSTANTS
    Goroutines,  \* bound: goroutines that exist at the same time
    Targets,     \* values that Start and Resize are called with
    Ceiling,     \* the most workers Resize allows: 16 in the code
    MaxResizes   \* bound: calls of Resize, the one of Start included

ASSUME PoolAssumption ==
    /\ IsFiniteSet(Goroutines)
    /\ Targets \subseteq Int
    /\ Ceiling \in Nat /\ MaxResizes \in Nat

VARIABLES
    desired,   \* p.desired
    current,   \* p.current
    wg,        \* the counter of p.wg
    closed,    \* p.closed, and the closed channel p.stopCh
    wake,      \* whether the channel p.wake, of capacity 1, holds a token
    pc,        \* where each goroutine is in run(); "none": not started, or gone
    stop,      \* the caller of Stop: "none", "waiting", "done" or "timeout"
    resizes,   \* calls of Resize so far
    peak       \* history: the largest value that desired has had

vars == <<desired, current, wg, closed, wake, pc, stop, resizes, peak>>

At(places) == {g \in Goroutines : pc[g] \in places}

\* Goroutines that p.current counts, and those that p.wg counts.
Loop    == {"check", "poll", "tick", "idle"}
Counted == At(Loop \cup {"leave"})
Live    == At(Loop \cup {"leave", "done"})

Init ==
    /\ desired = 0 /\ current = 0 /\ wg = 0
    /\ closed = FALSE /\ wake = FALSE
    /\ pc = [g \in Goroutines |-> "none"]
    /\ stop = "none"
    /\ resizes = 0 /\ peak = 0

\* Resize keeps its target between 0 and 16.
Clamp(n) == IF n < 0 THEN 0 ELSE IF n > Ceiling THEN Ceiling ELSE n

Larger(m, n) == IF m > n THEN m ELSE n

\* Mutant of Missing: the workers that are there are forgotten.
MissingAll(n) == n

\* delta: the workers that a target of n lacks.
Missing(n) == IF n > current THEN n - current ELSE 0

\* Resize, under the mutex: new goroutines start at once, surplus ones find out by themselves.
\* Start is its first call, and nothing keeps it from being called after Stop.
Resize(target) ==
    LET n == Clamp(target) IN
    /\ resizes < MaxResizes /\ resizes' = resizes + 1
    /\ desired' = n
    /\ peak' = Larger(peak, n)
    /\ \E new \in SUBSET At({"none"}) :
        /\ Cardinality(new) = Missing(n)
        /\ pc' = [g \in Goroutines |-> IF g \in new THEN "check" ELSE pc[g]]
        /\ current' = current + Cardinality(new)
        /\ wg' = wg + Cardinality(new)
    /\ UNCHANGED <<closed, wake, stop>>

\* A request that has made work sends a token, unless one is there already.
Wake ==
    /\ ~wake /\ wake' = TRUE
    /\ UNCHANGED <<desired, current, wg, closed, pc, stop, resizes, peak>>

Goto(g, place) == pc' = [pc EXCEPT ![g] = place]

\* Mutant of CheckExcess: a worker never finds that it is one too many.
CheckNothing(g) ==
    /\ pc[g] = "check"
    /\ Goto(g, "poll")
    /\ UNCHANGED <<desired, current, wg, closed, wake, stop, resizes, peak>>

\* Mutant of CheckExcess: a surplus worker gives its place back here, and once more in Leave.
CheckGivesBack(g) ==
    /\ pc[g] = "check"
    /\ Goto(g, IF current > desired THEN "leave" ELSE "poll")
    /\ current' = IF current > desired THEN current - 1 ELSE current
    /\ UNCHANGED <<desired, wg, closed, wake, stop, resizes, peak>>

\* The head of the loop: excess is computed under the mutex and acted on without it.
CheckExcess(g) ==
    /\ pc[g] = "check"
    /\ Goto(g, IF current > desired THEN "leave" ELSE "poll")
    /\ UNCHANGED <<desired, current, wg, closed, wake, stop, resizes, peak>>

\* Mutant of PollStop: the loop does not look at stopCh before it works.
PollNothing(g) ==
    /\ pc[g] = "poll"
    /\ Goto(g, "tick")
    /\ UNCHANGED <<desired, current, wg, closed, wake, stop, resizes, peak>>

\* The select with a default: stopCh is looked at without waiting.
PollStop(g) ==
    /\ pc[g] = "poll"
    /\ Goto(g, IF closed THEN "leave" ELSE "tick")
    /\ UNCHANGED <<desired, current, wg, closed, wake, stop, resizes, peak>>

\* tickOnce returns: at once after work, else to the waiting select.
EndTick(g) ==
    /\ pc[g] = "tick"
    /\ \E place \in {"check", "idle"} : Goto(g, place)
    /\ UNCHANGED <<desired, current, wg, closed, wake, stop, resizes, peak>>

\* The waiting select: the backoff has passed, ...
Backoff(g) ==
    /\ pc[g] = "idle"
    /\ Goto(g, "check")
    /\ UNCHANGED <<desired, current, wg, closed, wake, stop, resizes, peak>>

\* ... a token has come, ...
Woken(g) ==
    /\ pc[g] = "idle" /\ wake
    /\ wake' = FALSE
    /\ Goto(g, "check")
    /\ UNCHANGED <<desired, current, wg, closed, stop, resizes, peak>>

\* ... or the pool was stopped.
StopSeen(g) ==
    /\ pc[g] = "idle" /\ closed
    /\ Goto(g, "leave")
    /\ UNCHANGED <<desired, current, wg, closed, wake, stop, resizes, peak>>

\* The deferred calls of run(), in the order they run: first current--, under the mutex, ...
Leave(g) ==
    /\ pc[g] = "leave"
    /\ current' = current - 1
    /\ Goto(g, "done")
    /\ UNCHANGED <<desired, wg, closed, wake, stop, resizes, peak>>

\* ... then wg.Done().
Done(g) ==
    /\ pc[g] = "done"
    /\ wg' = wg - 1
    /\ Goto(g, "none")
    /\ UNCHANGED <<desired, current, closed, wake, stop, resizes, peak>>

\* Stop closes stopCh and waits for the WaitGroup, as long as its context lasts.  A second call
\* returns at once.
Stop ==
    /\ ~closed /\ closed' = TRUE
    /\ stop' = "waiting"
    /\ UNCHANGED <<desired, current, wg, wake, pc, resizes, peak>>

StopReturns ==
    /\ stop = "waiting" /\ wg = 0
    /\ stop' = "done"
    /\ UNCHANGED <<desired, current, wg, closed, wake, pc, resizes, peak>>

StopTimesOut ==
    /\ stop = "waiting"
    /\ stop' = "timeout"
    /\ UNCHANGED <<desired, current, wg, closed, wake, pc, resizes, peak>>

RunStep(g) ==
    \/ CheckExcess(g) \/ PollStop(g) \/ EndTick(g)
    \/ Backoff(g) \/ Woken(g) \/ StopSeen(g)
    \/ Leave(g) \/ Done(g)

Next ==
    \/ \E target \in Targets : Resize(target)
    \/ \E g \in Goroutines : RunStep(g)
    \/ Wake \/ Stop \/ StopReturns \/ StopTimesOut

Spec == Init /\ [][Next]_vars

\* Every goroutine goes on: a tick ends because its context does, after six minutes at most,
\* and an idle worker goes on because its backoff does.
FairSpec == Spec /\ \A g \in Goroutines : WF_vars(RunStep(g))

(***************************************************************************)
(* Properties.                                                             *)
(***************************************************************************)

\* Every variable has its type.
TypeOK ==
    /\ desired \in 0..Ceiling
    /\ current \in Int /\ wg \in Int
    /\ closed \in BOOLEAN /\ wake \in BOOLEAN
    /\ pc \in [Goroutines -> {"none", "leave", "done"} \cup Loop]
    /\ stop \in {"none", "waiting", "done", "timeout"}
    /\ resizes \in 0..MaxResizes
    /\ peak \in 0..Ceiling

\* Both counters tell the truth at every moment of any mix of Resize, Stop and leaving workers:
\* current counts the goroutines before their first deferred call, wg those before their last.
CountsExact == current = Cardinality(Counted) /\ wg = Cardinality(Live)

\* docs/api.md, workerConcurrency: no more jobs are in process than the largest setting there
\* has been.  (After a reduction the jobs in process are finished first.)
BusyWithinPeak == Cardinality(At({"tick"})) <= peak

\* Stop "signals all workers to exit and waits for them": when it has returned without an error,
\* no worker processes anything, and none does later, even if Resize adds workers again.
NoWorkAfterStop == stop = "done" => At({"tick"}) = {}

\* Resize says that surplus workers exit: a pool that is too large shrinks to its setting.
SurplusLeaves == current > desired ~> current <= desired

\* After Stop the pool drains: the workers all leave, and nobody is left who could claim a record.
StopDrains == closed ~> wg = 0

\* Resize says that surplus workers exit: when none is on its way out and the pool was not
\* stopped, as many are left as the setting asks for.
NeverShort == ~closed /\ At({"leave"}) = {} => current >= desired

\* What the proofs need to know besides: current never passes peak, and after a successful Stop
\* a goroutine only ever comes as far as the look at stopCh.
PoolInv ==
    /\ TypeOK /\ CountsExact
    /\ desired <= peak /\ current <= peak
    /\ stop # "none" => closed
    /\ stop = "done" => At({"tick", "idle"}) = {}
=============================================================================
