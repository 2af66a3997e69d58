-------------------------- MODULE UnixPairProofs ---------------------------
(***************************************************************************)
(* The safety of the socketpair probe for every number of round trips and  *)
(* every fault.                                                            *)
(***************************************************************************)
EXTENDS UnixPair, TLAPS

\* The initial state satisfies the invariant.
LEMMA InitIInv == Init => IInv
BY PairAssumption DEF Init, IInv, TypeOK, Alternate, Holding, ChildRuns

\* Closing one end, or all ends of a process that is gone, leaves a table of
\* the processes that hold each end.
LEMMA HoldersType ==
  ASSUME holders \in [{0, 1} -> SUBSET {"parent", "child"}],
         NEW p, NEW e \in {0, 1}
  PROVE  /\ Closed(p, e) \in [{0, 1} -> SUBSET {"parent", "child"}]
         /\ Released(p) \in [{0, 1} -> SUBSET {"parent", "child"}]
BY DEF Closed, Released

\* Closing takes one process off one end, and ending takes it off both.
LEMMA HoldersAfter ==
  ASSUME holders \in [{0, 1} -> SUBSET {"parent", "child"}],
         NEW p, NEW e \in {0, 1}, NEW q, NEW f \in {0, 1}
  PROVE  /\ q \in Closed(p, e)[f] <=> q \in holders[f] /\ ~(q = p /\ f = e)
         /\ q \in Released(p)[f] <=> q \in holders[f] /\ q # p
BY DEF Closed, Released

\* Every step of either process, and every fault, keeps the types and the
\* counters in step.
LEMMA NextCounters == IInv /\ [Next]_vars => TypeOK' /\ Alternate'
<1> SUFFICES ASSUME IInv, [Next]_vars PROVE TypeOK' /\ Alternate'
  OBVIOUS
<1> USE PairAssumption DEF IInv, TypeOK, Alternate
<1>1. type' = type
  BY DEF Next, Parent, Child, KillChild, KillParent, vars
<1>2. CASE SocketPair
  BY <1>1, <1>2 DEF SocketPair, counters
<1>3. CASE Fork
  BY <1>1, <1>3 DEF Fork, counters
<1>4. CASE ParentCloses1
  BY <1>1, <1>4, HoldersType DEF ParentCloses1, counters
<1>5. CASE WriteReq
  BY <1>1, <1>5 DEF WriteReq
<1>6. CASE ParentSigpipe
  BY <1>1, <1>6, HoldersType DEF ParentSigpipe, counters
<1>7. CASE ParentWriteEnds
  BY <1>1, <1>7 DEF ParentWriteEnds, counters
<1>8. CASE ReadRsp
  BY <1>1, <1>8 DEF ReadRsp
<1>9. CASE ReadEnds
  BY <1>1, <1>9 DEF ReadEnds, counters
<1>10. CASE Report
  BY <1>1, <1>10 DEF Report, counters
<1>11. CASE ParentCloses0
  BY <1>1, <1>11, HoldersType DEF ParentCloses0, counters
<1>12. CASE Reap
  BY <1>1, <1>12 DEF Reap, counters
<1>13. CASE ChildCloses0
  BY <1>1, <1>13, HoldersType DEF ChildCloses0, counters
<1>14. CASE ReadReq
  BY <1>1, <1>14 DEF ReadReq
<1>15. CASE ChildReadEnds
  BY <1>1, <1>15, HoldersType DEF ChildReadEnds, counters
<1>16. CASE WriteRsp
  BY <1>1, <1>16, HoldersType DEF WriteRsp
<1>17. CASE ChildWriteEnds
  BY <1>1, <1>17, HoldersType DEF ChildWriteEnds, counters
<1>18. CASE KillChild
  BY <1>1, <1>18, HoldersType DEF KillChild, counters, ChildRuns
<1>19. CASE KillParent
  BY <1>1, <1>19, HoldersType DEF KillParent, counters
<1>20. CASE UNCHANGED vars
  BY <1>20 DEF vars
<1> QED
  BY <1>2, <1>3, <1>4, <1>5, <1>6, <1>7, <1>8, <1>9, <1>10, <1>11,
     <1>12, <1>13, <1>14, <1>15, <1>16, <1>17, <1>18, <1>19, <1>20
     DEF Next, Parent, Child

\* And it keeps account of who has which end open.
LEMMA NextHolding == IInv /\ [Next]_vars => Holding'
<1> SUFFICES ASSUME IInv, [Next]_vars PROVE Holding'
  OBVIOUS
<1> USE DEF IInv, Holding, ChildRuns
<1>1. holders \in [{0, 1} -> SUBSET {"parent", "child"}]
  BY DEF TypeOK
<1>2. CASE SocketPair
  BY <1>1, <1>2 DEF SocketPair
<1>3. CASE Fork
  BY <1>1, <1>3 DEF Fork
<1>4. CASE ParentCloses1
  BY <1>1, <1>4, HoldersAfter DEF ParentCloses1
<1>5. CASE WriteReq
  BY <1>5 DEF WriteReq
<1>6. CASE ParentSigpipe
  BY <1>1, <1>6, HoldersAfter DEF ParentSigpipe
<1>7. CASE ParentWriteEnds
  BY <1>7 DEF ParentWriteEnds
<1>8. CASE ReadRsp
  BY <1>8 DEF ReadRsp
<1>9. CASE ReadEnds
  BY <1>9 DEF ReadEnds
<1>10. CASE Report
  BY <1>10 DEF Report
<1>11. CASE ParentCloses0
  BY <1>1, <1>11, HoldersAfter DEF ParentCloses0
<1>12. CASE Reap
  BY <1>12 DEF Reap
<1>13. CASE ChildCloses0
  BY <1>1, <1>13, HoldersAfter DEF ChildCloses0
<1>14. CASE ReadReq
  BY <1>14 DEF ReadReq
<1>15. CASE ChildReadEnds
  BY <1>1, <1>15, HoldersAfter DEF ChildReadEnds
<1>16. CASE WriteRsp
  BY <1>1, <1>16, HoldersAfter DEF WriteRsp
<1>17. CASE ChildWriteEnds
  BY <1>1, <1>17, HoldersAfter DEF ChildWriteEnds
<1>18. CASE KillChild
  BY <1>1, <1>18, HoldersAfter DEF KillChild
<1>19. CASE KillParent
  BY <1>1, <1>19, HoldersAfter DEF KillParent
<1>20. CASE UNCHANGED vars
  BY <1>20 DEF vars
<1> QED
  BY <1>2, <1>3, <1>4, <1>5, <1>6, <1>7, <1>8, <1>9, <1>10, <1>11,
     <1>12, <1>13, <1>14, <1>15, <1>16, <1>17, <1>18, <1>19, <1>20
     DEF Next, Parent, Child

\* Every step of either process, and every fault, keeps the invariant.
LEMMA NextIInv == IInv /\ [Next]_vars => IInv'
BY NextCounters, NextHolding DEF IInv

\* The counters of the two loops follow each other, and the ends are open
\* where they should be, whatever fails.
THEOREM PairInvariant == Spec => []IInv
BY InitIInv, NextIInv, PTL DEF Spec

\* At most one message is under way, for every ITERS and every fault: a
\* SOCK_STREAM read of 32 bytes (probe.c:113, :123) never sees two.
THEOREM PairOneInFlight == Spec => []OneInFlight
<1>1. IInv => OneInFlight
  BY DEF IInv, TypeOK, Alternate, OneInFlight
<1> QED
  BY <1>1, PairInvariant, PTL

\* Neither process waits for one that is gone or that waits itself, for every
\* ITERS and every fault: the close() calls of probe.c:109, :117 and :128 are
\* made before any wait that hangs on them.
THEOREM PairNeverStuck == Spec => []NobodyStuck
<1>1. ASSUME IInv PROVE NobodyStuck
  <2> USE <1>1 DEF IInv, TypeOK, Alternate, Holding, ChildRuns, ParentWaits, ChildWaits
  <2>1. ASSUME ParentWaits PROVE ChildRuns
    <3>1. holders[1] \subseteq {"parent", "child"}
      OBVIOUS
    <3> QED
      BY <2>1, <3>1
  <2>2. ASSUME ChildWaits PROVE parent \notin {"done", "killed"}
    <3>1. holders[0] \subseteq {"parent", "child"}
      OBVIOUS
    <3> QED
      BY <2>2, <3>1
  <2>3. ~(ParentWaits /\ ChildWaits)
    <3>1. holders[0] \subseteq {"parent", "child"}
      OBVIOUS
    <3> QED
      BY <3>1
  <2> QED
    BY <2>1, <2>2, <2>3 DEF NobodyStuck
<1> QED
  BY <1>1, PairInvariant, PTL
-----------------------------------------------------------------------------
(* A machine without faults *)

\* Nobody is lost: the child answers every request, and the parent leaves its
\* loop at the end only.
Complete == /\ parent # "killed" /\ child \notin {"failed", "killed"}
            /\ child = "unborn" <=> parent \in {"socketpair", "fork"}
            /\ ChildRuns => answered < Iters
            /\ child = "exited" => answered = Iters
            /\ parent \in {"report", "close0", "reap", "done"} => i = Iters

\* Nothing has been answered when the child is forked.
LEMMA InitComplete == Init => Complete
BY DEF Init, Complete, ChildRuns

\* No end is closed early, so that no read or write is cut short.
LEMMA NextComplete ==
  ASSUME ~Faults PROVE IInv /\ Complete /\ [Next]_vars => Complete'
<1> SUFFICES ASSUME IInv, Complete, [Next]_vars PROVE Complete'
  OBVIOUS
<1> USE PairAssumption DEF IInv, TypeOK, Alternate, Holding, Complete, ChildRuns
<1>1. CASE SocketPair \/ Fork \/ ParentCloses1 \/ WriteReq
  BY <1>1 DEF SocketPair, Fork, ParentCloses1, WriteReq, counters
<1>2. ASSUME parent \in {"write", "read"}, holders[1] = {}, answered = i PROVE FALSE
  BY <1>2
<1>3. CASE ParentSigpipe \/ ParentWriteEnds \/ ReadEnds
  BY <1>2, <1>3 DEF ParentSigpipe, ParentWriteEnds, ReadEnds
<1>4. CASE ReadRsp
  BY <1>4 DEF ReadRsp
<1>5. CASE Report \/ ParentCloses0 \/ Reap
  BY <1>5 DEF Report, ParentCloses0, Reap, counters
<1>6. CASE ChildCloses0 \/ ReadReq
  BY <1>6 DEF ChildCloses0, ReadReq, counters
<1>7. CASE ChildReadEnds \/ ChildWriteEnds
  BY <1>7 DEF ChildReadEnds, ChildWriteEnds
<1>8. CASE WriteRsp
  BY <1>8 DEF WriteRsp
<1>9. CASE KillChild \/ KillParent
  BY <1>9 DEF KillChild, KillParent
<1>10. CASE UNCHANGED vars
  BY <1>10 DEF vars
<1> QED
  BY <1>1, <1>3, <1>4, <1>5, <1>6, <1>7, <1>8, <1>9, <1>10
     DEF Next, Parent, Child

\* Where no call fails and nobody is killed, report() prints measured samples
\* only (probe.c:11), for every ITERS: a lost process is the one cause of the
\* garbage it may print.
THEOREM PairReportsUnlessLost == ASSUME ~Faults PROVE Spec => []ReportIsMeasured
<1>1. IInv /\ Complete /\ [Next]_vars => Complete'
  BY NextComplete
<1>2. Complete => ReportIsMeasured
  BY DEF Complete, ReportIsMeasured
<1> QED
  BY <1>1, <1>2, InitComplete, PairInvariant, PTL DEF Spec
-----------------------------------------------------------------------------
(* The refinement *)

\* The counters of the two loops start where RoundTrip starts.
LEMMA InitRefines == Init => RT!Init
BY DEF Init, RT!Init

\* Each step of the probe is a step of RoundTrip or leaves its state alone.
LEMMA NextRefines == IInv /\ [Next]_vars => [RT!Next]_(RT!vars)
<1> SUFFICES ASSUME IInv, [Next]_vars PROVE RT!Next \/ UNCHANGED RT!vars
  OBVIOUS
<1> USE PairAssumption DEF IInv, TypeOK, Alternate
<1>1. CASE WriteReq
  <2>1. RT!Send
    BY <1>1 DEF WriteReq, RT!Send
  <2> QED
    BY <2>1 DEF RT!Next
<1>2. CASE ReadRsp
  <2>1. RT!Measure
    BY <1>2 DEF ReadRsp, RT!Measure
  <2> QED
    BY <2>1 DEF RT!Next
<1>3. CASE WriteRsp
  <2>1. RT!Answer
    BY <1>3 DEF WriteRsp, RT!Answer
  <2> QED
    BY <2>1 DEF RT!Next
<1>4. CASE ReadReq
  BY <1>4 DEF ReadReq, RT!vars
<1>5. CASE ~(WriteReq \/ ReadRsp \/ WriteRsp \/ ReadReq)
  BY <1>5 DEF Next, Parent, Child, SocketPair, Fork, ParentCloses1,
     ParentSigpipe, ParentWriteEnds, ReadEnds, Report, ParentCloses0, Reap, ChildCloses0,
     ChildReadEnds, ChildWriteEnds, KillChild, KillParent, counters, vars,
     RT!vars
<1> QED
  BY <1>1, <1>2, <1>3, <1>4, <1>5

\* The socketpair probe implements RoundTrip for every ITERS and every fault.
THEOREM PairImplements == Spec => Implements
BY InitRefines, NextRefines, PairInvariant, PTL
   DEF Spec, Implements, RT!Spec
=============================================================================
