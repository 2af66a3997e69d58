--------------------------- MODULE ShmRingProofs ---------------------------
(***************************************************************************)
(* The safety of the shared-memory ring for every number of round trips    *)
(* and every fault: IInv is inductive, and the properties follow from it.  *)
(***************************************************************************)
EXTENDS ShmRing, TLAPS

\* The initial state satisfies the invariant.
LEMMA InitIInv == Init => IInv
BY RingAssumption DEF Init, IInv, TypeOK, ParentInv, ChildInv

\* Every step of either process, and every fault, keeps the invariant.
LEMMA NextIInv == IInv /\ [Next]_vars => IInv'
<1> SUFFICES ASSUME IInv, [Next]_vars PROVE IInv'
  OBVIOUS
<1> USE RingAssumption DEF IInv, TypeOK, ParentInv, ChildInv
<1>1. CASE Fork
  BY <1>1 DEF Fork
<1>2. CASE StoreReq
  BY <1>2 DEF StoreReq, childVars
<1>3. CASE SpinRsp
  BY <1>3 DEF SpinRsp, childVars
<1>4. CASE StoreStop
  BY <1>4 DEF StoreStop, childVars
<1>5. CASE Report
  BY <1>5 DEF Report, childVars
<1>6. CASE Reap
  BY <1>6 DEF Reap, childVars
<1>7. CASE PollReq
  BY <1>7 DEF PollReq, parentVars
<1>8. CASE LoadReq
  BY <1>8 DEF LoadReq, parentVars
<1>9. CASE StoreRsp
  BY <1>9 DEF StoreRsp, parentVars
<1>10. CASE KillChild
  BY <1>10 DEF KillChild, parentVars, ChildRuns
<1>11. CASE KillParent
  BY <1>11 DEF KillParent, childVars
<1>12. CASE UNCHANGED vars
  BY <1>12 DEF vars
<1>13. CASE Spin \/ Ended
  BY <1>12, <1>13 DEF Spin, Ended
<1> QED
  BY <1>1, <1>2, <1>3, <1>4, <1>5, <1>6, <1>7, <1>8, <1>9, <1>10, <1>11,
     <1>12, <1>13 DEF Next, Parent, Child

\* The invariant of the ring: each word has the value its writer's position
\* says it has, whatever the other process does or suffers.
THEOREM RingInvariant == Spec => []IInv
BY InitIInv, NextIInv, PTL DEF Spec

\* report() prints measured round trips only (probe.c:11), for every ITERS.
THEOREM RingReports == Spec => []ReportIsMeasured
<1>1. IInv => ReportIsMeasured
  BY RingAssumption DEF IInv, TypeOK, ParentInv, ReportIsMeasured
<1> QED
  BY <1>1, RingInvariant, PTL

\* The child's second load of req returns the value that ended its spin.
THEOREM RingLoads == Spec => LoadIsStable
<1>1. IInv /\ [Next]_vars => [child = "load" => req' = req]_vars
  <2> SUFFICES ASSUME IInv, Next, child = "load" PROVE req' = req
    OBVIOUS
  <2> USE RingAssumption DEF IInv, TypeOK, ParentInv, ChildInv
  <2>1. CASE StoreReq
    BY <2>1 DEF StoreReq
  <2>2. CASE StoreStop
    BY <2>2 DEF StoreStop
  <2>3. CASE ~(StoreReq \/ StoreStop)
    BY <2>3 DEF Next, Parent, Child, Fork, SpinRsp, Report, Reap, PollReq,
       LoadReq, StoreRsp, KillChild, KillParent, Spin, Ended, vars,
       parentVars, childVars
  <2> QED
    BY <2>1, <2>2, <2>3
<1> QED
  BY <1>1, RingInvariant, PTL DEF Spec, LoadIsStable
\* The two processes never spin, or wait, for each other: each request is
\* answered unless the other process is lost, for every ITERS.
THEOREM RingNeverStuck == Spec => []NeverBothWait
<1>1. IInv => NeverBothWait
  BY RingAssumption DEF IInv, TypeOK, ParentInv, ChildInv, NeverBothWait,
     ParentWaits, ChildWaits
<1> QED
  BY <1>1, RingInvariant, PTL
-----------------------------------------------------------------------------
(* The refinement *)

\* The three counters of RoundTrip, read off the two words and the parent's
\* counter, start where RoundTrip starts.
LEMMA InitRefines == Init => RT!Init
BY RingAssumption DEF Init, RT!Init

\* Each step of the ring is a step of RoundTrip or leaves its state alone.
LEMMA NextRefines == IInv /\ [Next]_vars => [RT!Next]_(RT!vars)
<1> SUFFICES ASSUME IInv, [Next]_vars PROVE RT!Next \/ UNCHANGED RT!vars
  OBVIOUS
<1> USE RingAssumption DEF IInv, TypeOK, ParentInv, ChildInv
<1>1. CASE StoreReq
  <2>1. RT!Send
    BY <1>1 DEF StoreReq, RT!Send
  <2> QED
    BY <2>1 DEF RT!Next
<1>2. CASE SpinRsp
  <2>1. RT!Measure
    BY <1>2 DEF SpinRsp, RT!Measure
  <2> QED
    BY <2>1 DEF RT!Next
<1>3. CASE StoreRsp
  <2>1. RT!Answer
    BY <1>3 DEF StoreRsp, parentVars, RT!Answer
  <2> QED
    BY <2>1 DEF RT!Next
<1>4. CASE StoreStop
  BY <1>4 DEF StoreStop, RT!vars
<1>5. CASE ~(StoreReq \/ SpinRsp \/ StoreRsp \/ StoreStop)
  BY <1>5 DEF Next, Parent, Child, Fork, Report, Reap, PollReq, LoadReq,
     KillChild, KillParent, Spin, Ended, vars, parentVars, childVars, RT!vars
<1> QED
  BY <1>1, <1>2, <1>3, <1>4, <1>5

\* The ring implements RoundTrip: for every ITERS and whatever is killed,
\* requests, answers and samples alternate one round trip at a time.
THEOREM RingImplements == Spec => Implements
BY InitRefines, NextRefines, RingInvariant, PTL
   DEF Spec, Implements, RT!Spec
=============================================================================
