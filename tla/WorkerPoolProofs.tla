-------------------------- MODULE WorkerPoolProofs --------------------------
(***************************************************************************)
(* Proofs about WorkerPool, for any goroutines, targets and ceiling: the   *)
(* counters are exact, no more jobs are in process than the largest        *)
(* setting, and none is after a successful Stop.                           *)
(***************************************************************************)
EXTENDS WorkerPool, FiniteSetTheorems, TLAPS

\* The sets of goroutines that are counted are finite, so their cardinalities are numbers.
LEMMA Finite ==
  \A places : /\ IsFiniteSet(At(places)) /\ Cardinality(At(places)) \in Nat
              /\ At(places) \subseteq Goroutines
<1>1. ASSUME NEW places PROVE IsFiniteSet(At(places)) /\ At(places) \subseteq Goroutines
  <2>1. At(places) \in SUBSET Goroutines
    BY DEF At
  <2> QED
    BY <2>1, FS_Subset, PoolAssumption DEF PoolAssumption
<1> QED
  BY <1>1, FS_CardinalityType

\* A target, once clamped, is a setting.
LEMMA ClampType == \A n \in Int : Clamp(n) \in 0..Ceiling
  BY PoolAssumption DEF PoolAssumption, Clamp

\* The initial state.
LEMMA PoolInit == Init => PoolInv
<1> SUFFICES ASSUME Init PROVE PoolInv
  OBVIOUS
<1>1. TypeOK
  <2>1. closed \in BOOLEAN /\ wake \in BOOLEAN
    BY Zenon DEF Init
  <2> QED
    BY <2>1, PoolAssumption DEF Init, TypeOK, PoolAssumption
<1>2. Counted = {} /\ Live = {} /\ At({"tick", "idle"}) = {}
  BY DEF Init, Counted, Live, At, Loop
<1>3. CountsExact
  BY <1>2, FS_EmptySet DEF Init, CountsExact
<1> QED
  BY <1>1, <1>2, <1>3 DEF Init, PoolInv

\* Every step of a goroutine and of the callers keeps the types.
LEMMA PoolType == ASSUME TypeOK, [Next]_vars PROVE TypeOK'
<1> USE PoolAssumption DEF PoolAssumption, TypeOK, Loop
<1>1. CASE UNCHANGED vars
  BY <1>1 DEF vars
<1>2. ASSUME NEW target \in Targets, Resize(target) PROVE TypeOK'
  <2>1. desired' \in 0..Ceiling /\ peak' \in 0..Ceiling
    BY <1>2, ClampType DEF Resize, Larger
  <2>2. PICK new \in SUBSET At({"none"}) :
          /\ pc' = [g \in Goroutines |-> IF g \in new THEN "check" ELSE pc[g]]
          /\ current' = current + Cardinality(new)
          /\ wg' = wg + Cardinality(new)
    BY <1>2, Zenon DEF Resize
  <2>3. Cardinality(new) \in Nat
    BY <2>2, Finite, FS_Subset, FS_CardinalityType
  <2> QED
    BY <1>2, <2>1, <2>2, <2>3 DEF Resize
<1>3. ASSUME NEW g \in Goroutines, RunStep(g) PROVE TypeOK'
  <2>1. CASE CheckExcess(g) \/ PollStop(g) \/ EndTick(g) \/ Backoff(g) \/ StopSeen(g)
    BY <2>1 DEF CheckExcess, PollStop, EndTick, Backoff, StopSeen, Goto
  <2>2. CASE Woken(g)
    <3>1. wake' \in BOOLEAN
      BY <2>2, Zenon DEF Woken
    <3> QED
      BY <2>2, <3>1 DEF Woken, Goto
  <2>3. CASE Leave(g) \/ Done(g)
    BY <2>3 DEF Leave, Done, Goto
  <2> QED
    BY <1>3, <2>1, <2>2, <2>3 DEF RunStep
<1>4. CASE Wake
  <2>1. wake' \in BOOLEAN
    BY <1>4, Zenon DEF Wake
  <2> QED
    BY <1>4, <2>1 DEF Wake
<1>5. CASE Stop
  <2>1. closed' \in BOOLEAN
    BY <1>5, Zenon DEF Stop
  <2> QED
    BY <1>5, <2>1 DEF Stop
<1>6. CASE StopReturns \/ StopTimesOut
  BY <1>6 DEF StopReturns, StopTimesOut
<1> QED
  BY <1>1, <1>2, <1>3, <1>4, <1>5, <1>6 DEF Next

\* New goroutines join both counts, one for one.
LEMMA ResizeCounts ==
  ASSUME TypeOK, CountsExact, NEW target \in Targets, Resize(target)
  PROVE  CountsExact'
<1>1. PICK new \in SUBSET At({"none"}) :
        /\ pc' = [g \in Goroutines |-> IF g \in new THEN "check" ELSE pc[g]]
        /\ current' = current + Cardinality(new)
        /\ wg' = wg + Cardinality(new)
  BY Zenon DEF Resize
<1>2. Counted' = Counted \cup new /\ Live' = Live \cup new
  BY <1>1 DEF TypeOK, Counted, Live, At, Loop
<1>3. Counted \cap new = {} /\ Live \cap new = {}
  BY <1>1 DEF Counted, Live, At, Loop
<1>4. IsFiniteSet(new) /\ IsFiniteSet(Counted) /\ IsFiniteSet(Live)
  BY <1>1, Finite, FS_Subset DEF Counted, Live
<1>5. Cardinality(Counted \cup new) = Cardinality(Counted) + Cardinality(new) - 0
  BY <1>3, <1>4, FS_Union, FS_EmptySet
<1>6. Cardinality(Live \cup new) = Cardinality(Live) + Cardinality(new) - 0
  BY <1>3, <1>4, FS_Union, FS_EmptySet
<1>7. Cardinality(new) \in Nat /\ Cardinality(Counted) \in Nat /\ Cardinality(Live) \in Nat
  BY <1>4, FS_CardinalityType
<1> QED
  BY <1>1, <1>2, <1>5, <1>6, <1>7 DEF CountsExact

\* A goroutine on its way through the loop stays in both counts.
LEMMA LoopCounts ==
  ASSUME TypeOK, CountsExact, NEW g \in Goroutines,
         CheckExcess(g) \/ PollStop(g) \/ EndTick(g) \/ Backoff(g) \/ Woken(g) \/ StopSeen(g)
  PROVE  CountsExact'
<1>1. PICK place \in Loop \cup {"leave"} : pc' = [pc EXCEPT ![g] = place]
  BY DEF CheckExcess, PollStop, EndTick, Backoff, Woken, StopSeen, Goto, Loop
<1>2. pc[g] \in Loop
  BY DEF CheckExcess, PollStop, EndTick, Backoff, Woken, StopSeen, Loop
<1>3. Counted' = Counted /\ Live' = Live
  BY <1>1, <1>2 DEF TypeOK, Counted, Live, At
<1>4. UNCHANGED <<current, wg>>
  BY DEF CheckExcess, PollStop, EndTick, Backoff, Woken, StopSeen
<1> QED
  BY <1>3, <1>4 DEF CountsExact

\* A leaving goroutine gives back its place in current, then the one in wg.
LEMMA LeaveCounts ==
  ASSUME TypeOK, CountsExact, NEW g \in Goroutines, Leave(g) \/ Done(g)
  PROVE  CountsExact'
<1>0. IsFiniteSet(Counted) /\ IsFiniteSet(Live)
  BY Finite DEF Counted, Live
<1>1. CASE Leave(g)
  <2>1. g \in Counted /\ Counted' = Counted \ {g} /\ Live' = Live
    BY <1>1 DEF Leave, Goto, TypeOK, Counted, Live, At, Loop
  <2>2. Cardinality(Counted') = Cardinality(Counted) - 1
    BY <1>0, <2>1, FS_RemoveElement
  <2> QED
    BY <1>1, <2>1, <2>2 DEF Leave, CountsExact
<1>2. CASE Done(g)
  <2>1. g \in Live /\ Live' = Live \ {g} /\ Counted' = Counted
    BY <1>2 DEF Done, Goto, TypeOK, Counted, Live, At, Loop
  <2>2. Cardinality(Live') = Cardinality(Live) - 1
    BY <1>0, <2>1, FS_RemoveElement
  <2> QED
    BY <1>2, <2>1, <2>2 DEF Done, CountsExact
<1> QED
  BY <1>1, <1>2

\* Every step keeps both counters exact.
LEMMA PoolCounts == ASSUME TypeOK, CountsExact, [Next]_vars PROVE CountsExact'
<1>1. CASE UNCHANGED <<pc, current, wg>>
  BY <1>1 DEF CountsExact, Counted, Live, At
<1>2. CASE UNCHANGED vars \/ Wake \/ Stop \/ StopReturns \/ StopTimesOut
  BY <1>1, <1>2 DEF vars, Wake, Stop, StopReturns, StopTimesOut
<1> QED
  BY <1>2, ResizeCounts, LoopCounts, LeaveCounts DEF Next, RunStep

\* Resize adds workers up to the clamped target, and leaving workers only lower current.
LEMMA PoolPeak ==
  ASSUME TypeOK, desired <= peak, current <= peak, [Next]_vars
  PROVE  desired' <= peak' /\ current' <= peak'
<1>1. ASSUME NEW target \in Targets, Resize(target) PROVE desired' <= peak' /\ current' <= peak'
  <2> DEFINE n == Clamp(target)
  <2>1. n \in 0..Ceiling
    BY ClampType, PoolAssumption DEF PoolAssumption
  <2>2. desired' = n /\ peak' = Larger(peak, n)
    BY <1>1 DEF Resize
  <2>3. current' = current + Missing(n)
    BY <1>1 DEF Resize
  <2> HIDE DEF n
  <2> QED
    BY <2>1, <2>2, <2>3, PoolAssumption DEF PoolAssumption, TypeOK, Larger, Missing
<1>2. ASSUME NEW g \in Goroutines, RunStep(g) PROVE desired' <= peak' /\ current' <= peak'
  BY <1>2, PoolAssumption
  DEF PoolAssumption, TypeOK, RunStep, CheckExcess, PollStop, EndTick, Backoff, Woken, StopSeen, Leave, Done
<1>3. CASE UNCHANGED vars \/ Wake \/ Stop \/ StopReturns \/ StopTimesOut
  BY <1>3 DEF vars, Wake, Stop, StopReturns, StopTimesOut
<1> QED
  BY <1>1, <1>2, <1>3 DEF Next

\* Once Stop has returned, a goroutine that Resize starts meets the closed channel before any work.
LEMMA PoolStopped ==
  ASSUME PoolInv, [Next]_vars
  PROVE  /\ stop' # "none" => closed'
         /\ stop' = "done" => At({"tick", "idle"})' = {}
<1> USE DEF PoolInv
<1>1. ASSUME NEW target \in Targets, Resize(target)
      PROVE  /\ stop' # "none" => closed'
             /\ stop' = "done" => At({"tick", "idle"})' = {}
  BY <1>1 DEF Resize, At, TypeOK
<1>2. ASSUME NEW g \in Goroutines, RunStep(g)
      PROVE  /\ stop' # "none" => closed'
             /\ stop' = "done" => At({"tick", "idle"})' = {}
  <2>1. stop' = stop /\ closed' = closed
    BY <1>2 DEF RunStep, CheckExcess, PollStop, EndTick, Backoff, Woken, StopSeen, Leave, Done
  <2>2. ASSUME stop = "done" PROVE pc'[g] \notin {"tick", "idle"} /\ \A h \in Goroutines \ {g} : pc'[h] = pc[h]
    BY <1>2, <2>2
    DEF TypeOK, At, RunStep, CheckExcess, PollStop, EndTick, Backoff, Woken, StopSeen, Leave, Done, Goto
  <2> QED
    BY <2>1, <2>2 DEF At
<1>3. CASE StopReturns
  <2>1. Live = {}
    <3>1. IsFiniteSet(Live) /\ Cardinality(Live) = 0
      BY <1>3, Finite DEF StopReturns, CountsExact, Live
    <3> QED
      BY <3>1, FS_EmptySet
  <2>2. At({"tick", "idle"})' = {}
    BY <1>3, <2>1 DEF StopReturns, Live, At, Loop
  <2> QED
    BY <1>3, <2>2 DEF StopReturns
<1>4. CASE UNCHANGED vars \/ Wake \/ Stop \/ StopTimesOut
  BY <1>4 DEF vars, Wake, Stop, StopTimesOut, At
<1> QED
  BY <1>1, <1>2, <1>3, <1>4 DEF Next

\* The inductive invariant of the pool holds in every reachable state.
THEOREM PoolInvariant == Spec => []PoolInv
<1>1. PoolInv /\ [Next]_vars => PoolInv'
  BY PoolType, PoolCounts, PoolPeak, PoolStopped DEF PoolInv
<1> QED
  BY <1>1, PoolInit, PTL DEF Spec

\* Every variable of the pool always has its type.
THEOREM PoolTypeTheorem == Spec => []TypeOK
  BY PoolInvariant, PTL DEF PoolInv

\* The counters of the pool are always exact.
THEOREM CountsTheorem == Spec => []CountsExact
  BY PoolInvariant, PTL DEF PoolInv

\* No more jobs are in process than the largest setting there has been.
THEOREM BusyTheorem == Spec => []BusyWithinPeak
<1>1. PoolInv => BusyWithinPeak
  <2> SUFFICES ASSUME PoolInv PROVE BusyWithinPeak
    OBVIOUS
  <2>1. At({"tick"}) \in SUBSET Counted /\ IsFiniteSet(Counted)
    BY Finite DEF Counted, At, Loop
  <2>2. Cardinality(At({"tick"})) <= Cardinality(Counted)
    BY <2>1, FS_Subset
  <2>3. Cardinality(Counted) <= peak
    BY DEF PoolInv, CountsExact
  <2>4. Cardinality(At({"tick"})) \in Nat /\ Cardinality(Counted) \in Nat /\ peak \in Int
    BY Finite, PoolAssumption DEF Counted, PoolInv, TypeOK, PoolAssumption
  <2> QED
    BY <2>2, <2>3, <2>4 DEF BusyWithinPeak
<1> QED
  BY <1>1, PoolInvariant, PTL

\* After a successful Stop no worker processes anything, whatever Resize does.
THEOREM StopTheorem == Spec => []NoWorkAfterStop
<1>1. PoolInv => NoWorkAfterStop
  BY DEF PoolInv, NoWorkAfterStop, At
<1> QED
  BY <1>1, PoolInvariant, PTL
=============================================================================
