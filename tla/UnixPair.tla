------------------------------ MODULE UnixPair ------------------------------
(***************************************************************************)
(* probe_unix of rfd/2060-guest-transport-measured-on-fly/probe.c: the     *)
(* same ping-pong over a socketpair.  Here a lost process is noticed once  *)
(* no process holds the other end: a read returns <= 0, and a write raises *)
(* SIGPIPE on SOCK_STREAM but returns -1 on SOCK_SEQPACKET, as Linux has   *)
(* it.  That makes the two close() calls at lines 109 and 117 part of the  *)
(* protocol, so the model keeps who holds each end.                        *)
(*                                                                         *)
(* A message is 32 bytes of no interest; a queue is the difference of two  *)
(* counters of messages written and read.  sv[0] is end 0, sv[1] is end 1. *)
(***************************************************************************)
EXTENDS Naturals

CONSTANTS Iters,    \* ITERS
          Faults    \* TRUE: a call may fail and either process may be killed

ASSUME PairAssumption == Iters \in Nat \ {0} /\ Faults \in BOOLEAN

VARIABLES type,            \* the type of the sockets, an argument
          parent, child,   \* where each process is
          holders,         \* holders[e]: the processes with end e open
          sent, taken,     \* requests written to end 0, read from end 1
          answered,        \* answers written to end 1: the child's counter
          i                \* answers read from end 0: the parent's counter

vars == <<type, parent, child, holders, sent, taken, answered, i>>

counters == <<sent, taken, answered, i>>

TypeOK == /\ type \in {"SOCK_SEQPACKET", "SOCK_STREAM"}
          /\ parent \in {"socketpair", "fork", "close1", "write", "read",
                         "report", "close0", "reap", "done", "killed"}
          /\ child \in {"unborn", "failed", "close0", "read", "write",
                        "exited", "killed"}
          /\ holders \in [{0, 1} -> SUBSET {"parent", "child"}]
          /\ sent \in 0..Iters /\ taken \in 0..Iters
          /\ answered \in 0..Iters /\ i \in 0..Iters

Init == /\ type \in {"SOCK_SEQPACKET", "SOCK_STREAM"}
        /\ parent = "socketpair" /\ child = "unborn"
        /\ holders = [e \in {0, 1} |-> {}]
        /\ sent = 0 /\ taken = 0 /\ answered = 0 /\ i = 0

ChildRuns == child \in {"close0", "read", "write"}

\* What the kernel does to the descriptors of a process that ends.
Released(p) == [e \in {0, 1} |-> holders[e] \ {p}]

Closed(p, e) == [holders EXCEPT ![e] = @ \ {p}]
-----------------------------------------------------------------------------
(* The parent *)

SocketPair == /\ parent = "socketpair"
              /\ \/ /\ parent' = "fork"
                    /\ holders' = [e \in {0, 1} |-> {"parent"}]
                 \/ /\ Faults
                    /\ parent' = "done"
                    /\ UNCHANGED holders
              /\ UNCHANGED <<child, counters>>

\* The child inherits both ends.  fork() is not tested for -1.
Fork == /\ parent = "fork"
        /\ parent' = "close1"
        /\ \/ /\ child' = "close0"
              /\ holders' = [e \in {0, 1} |-> {"parent", "child"}]
           \/ /\ Faults
              /\ child' = "failed"
              /\ UNCHANGED holders
        /\ UNCHANGED counters

\* Mutant: line 117 is missing.
ParentKeeps1 == /\ parent = "close1"
                /\ parent' = "write"
                /\ UNCHANGED <<child, holders, counters>>

ParentCloses1 == /\ parent = "close1"
                 /\ holders' = Closed("parent", 1)
                 /\ parent' = "write"
                 /\ UNCHANGED <<child, counters>>

WriteReq == /\ parent = "write"
            /\ holders[1] # {}
            /\ sent' = sent + 1
            /\ parent' = "read"
            /\ UNCHANGED <<child, holders, taken, answered, i>>

\* Nobody ignores SIGPIPE: the write at line 122 ends the program, and the
\* probe that follows in main() does not run.
ParentSigpipe == /\ parent = "write"
                 /\ holders[1] = {}
                 /\ type = "SOCK_STREAM"
                 /\ parent' = "killed"
                 /\ holders' = Released("parent")
                 /\ UNCHANGED <<child, counters>>

\* write() < 0: the loop breaks.
ParentWriteEnds == /\ parent = "write"
                   /\ holders[1] = {}
                   /\ type = "SOCK_SEQPACKET"
                   /\ parent' = "report"
                   /\ UNCHANGED <<child, holders, counters>>

\* Mutant: a read that does not block.
ReadRspNoWait == /\ parent = "read"
                 /\ i' = i + 1
                 /\ parent' = IF i + 1 < Iters THEN "write" ELSE "report"
                 /\ UNCHANGED <<child, holders, sent, taken, answered>>

ReadRsp == /\ parent = "read"
           /\ answered > i
           /\ i' = i + 1
           /\ parent' = IF i + 1 < Iters THEN "write" ELSE "report"
           /\ UNCHANGED <<child, holders, sent, taken, answered>>

\* read() <= 0: the loop breaks, and report() still sorts all ITERS elements.
ReadEnds == /\ parent = "read"
            /\ answered = i
            /\ holders[1] = {}
            /\ parent' = "report"
            /\ UNCHANGED <<child, holders, counters>>

Report == /\ parent = "report"
          /\ parent' = "close0"
          /\ UNCHANGED <<child, holders, counters>>

ParentCloses0 == /\ parent = "close0"
                 /\ holders' = Closed("parent", 0)
                 /\ parent' = "reap"
                 /\ UNCHANGED <<child, counters>>

Reap == /\ parent = "reap"
        /\ ~ChildRuns
        /\ parent' = "done"
        /\ UNCHANGED <<child, holders, counters>>

Parent == /\ \/ SocketPair \/ Fork \/ ParentCloses1 \/ WriteReq
             \/ ParentSigpipe \/ ParentWriteEnds \/ ReadRsp \/ ReadEnds
             \/ Report \/ ParentCloses0 \/ Reap
          /\ UNCHANGED type
-----------------------------------------------------------------------------
(* The child *)

\* Mutant: line 109 is missing.
ChildKeeps0 == /\ child = "close0"
               /\ child' = "read"
               /\ UNCHANGED <<parent, holders, counters>>

ChildCloses0 == /\ child = "close0"
                /\ holders' = Closed("child", 0)
                /\ child' = "read"
                /\ UNCHANGED <<parent, counters>>

ReadReq == /\ child = "read"
           /\ sent > taken
           /\ taken' = taken + 1
           /\ child' = "write"
           /\ UNCHANGED <<parent, holders, sent, answered, i>>

\* _exit(1) when the parent's end is gone.
ChildReadEnds == /\ child = "read"
                 /\ sent = taken
                 /\ holders[0] = {}
                 /\ child' = "exited"
                 /\ holders' = Released("child")
                 /\ UNCHANGED <<parent, counters>>

\* Mutants: the child's loop stops one short, and an answer is written twice.
WriteRspShort == /\ child = "write"
                 /\ holders[0] # {}
                 /\ answered' = answered + 1
                 /\ IF answered + 2 < Iters
                      THEN child' = "read" /\ UNCHANGED holders
                      ELSE child' = "exited" /\ holders' = Released("child")
                 /\ UNCHANGED <<parent, sent, taken, i>>

WriteRspTwice == /\ child = "write"
                 /\ holders[0] # {}
                 /\ answered' = answered + 2
                 /\ child' = "read"
                 /\ UNCHANGED <<parent, holders, sent, taken, i>>

\* The answer, and after the last one _exit(0).
WriteRsp == /\ child = "write"
            /\ holders[0] # {}
            /\ answered' = answered + 1
            /\ IF answered + 1 < Iters
                 THEN child' = "read" /\ UNCHANGED holders
                 ELSE child' = "exited" /\ holders' = Released("child")
            /\ UNCHANGED <<parent, sent, taken, i>>

\* The signal, or _exit(1) after write() < 0.
ChildWriteEnds ==
  /\ child = "write"
  /\ holders[0] = {}
  /\ child' = IF type = "SOCK_STREAM" THEN "killed" ELSE "exited"
  /\ holders' = Released("child")
  /\ UNCHANGED <<parent, counters>>

Child == /\ \/ ChildCloses0 \/ ReadReq \/ ChildReadEnds \/ WriteRsp
            \/ ChildWriteEnds
         /\ UNCHANGED type
-----------------------------------------------------------------------------
KillChild == /\ Faults /\ ChildRuns
             /\ child' = "killed"
             /\ holders' = Released("child")
             /\ UNCHANGED <<type, parent, counters>>

KillParent == /\ Faults /\ parent \notin {"done", "killed"}
              /\ parent' = "killed"
              /\ holders' = Released("parent")
              /\ UNCHANGED <<type, child, counters>>

Next == Parent \/ Child \/ KillChild \/ KillParent

\* The kernel gives each runnable process the processor again and again.
Spec == Init /\ [][Next]_vars /\ WF_vars(Parent) /\ WF_vars(Child)
-----------------------------------------------------------------------------
(* Properties *)

\* The counters follow each other round the ping-pong, and each process's
\* position fixes its own: the inductive invariant of probe.c:111-124.
Alternate == /\ i <= answered /\ answered <= taken /\ taken <= sent
             /\ taken <= answered + 1 /\ sent <= i + 1
             /\ parent \in {"socketpair", "fork", "close1"} => sent = 0
             /\ parent = "write" => sent = i
             /\ parent = "read" => sent = i + 1
             /\ parent \in {"write", "read"} => i < Iters
             /\ child \in {"unborn", "failed", "close0", "read"}
                  => taken = answered
             /\ child = "write" => taken = answered + 1

\* Which descriptors are open where: the parent keeps end 1 only until line
\* 117, the child end 0 only until line 109, and a process that has ended none.
Holding ==
  /\ "parent" \in holders[0] <=>
       parent \in {"fork", "close1", "write", "read", "report", "close0"}
  /\ "parent" \in holders[1] <=> parent \in {"fork", "close1"}
  /\ "child" \in holders[0] <=> child = "close0"
  /\ "child" \in holders[1] <=> ChildRuns
  /\ child = "unborn" => parent \in {"socketpair", "fork", "done", "killed"}
  /\ parent \in {"socketpair", "fork"} => child = "unborn"

IInv == TypeOK /\ Alternate /\ Holding

\* Whatever is lost and whenever, at most one message is under way in the two
\* directions together.  On the SOCK_STREAM run a read of 32 bytes has no
\* message boundary to stop at (probe.c:113, :123), so this is what keeps a
\* sample from being another round trip's.
OneInFlight == /\ sent <= taken + 1 /\ answered <= i + 1
               /\ sent = taken \/ answered = i

\* Requests and answers alternate as RoundTrip says, for every fault.
RT == INSTANCE RoundTrip WITH measured <- i
Implements == RT!Spec

\* The numbers report() prints are all measured ones (probe.c:11).  Refuted by
\* a child lost in mid-loop.
ReportIsMeasured == parent \in {"close0", "reap", "done"} /\ child # "unborn"
                      => i = Iters

\* Blocked in read() or waitpid(), on an end that somebody has open or on a
\* child that runs.
ParentWaits == \/ parent = "read" /\ answered = i /\ holders[1] # {}
               \/ parent = "reap" /\ ChildRuns
ChildWaits  == child = "read" /\ sent = taken /\ holders[0] # {}

\* A process only ever waits for one that is there and does not wait itself,
\* whatever is killed: what ParentReturns and NoOrphan rest on (probe.c:109,
\* :117, :128).
NobodyStuck == /\ ParentWaits => ChildRuns /\ ~ChildWaits
               /\ ChildWaits => parent \notin {"done", "killed"} /\ ~ParentWaits

\* Unless a call fails or a process is killed, the probe ends with every round
\* trip made and measured (probe.c:111, :120).
CompletesUnlessLost == <>(\/ parent = "done" /\ child = "exited" /\ i = Iters
                          \/ "killed" \in {parent, child}
                          \/ child = "failed"
                          \/ parent = "done" /\ child = "unborn")

\* A lost child never leaves the parent blocked in read() or waitpid(): this
\* hangs on the parent having closed its own copy of end 1 (probe.c:117).
ParentReturns == <>(parent \in {"done", "killed"})

\* A lost parent never leaves the child behind: this hangs on the child having
\* closed its copy of end 0 (probe.c:109).
NoOrphan == <>[]~ChildRuns
=============================================================================
