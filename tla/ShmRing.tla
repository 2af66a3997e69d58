------------------------------ MODULE ShmRing ------------------------------
(***************************************************************************)
(* probe_shm_ring of rfd/2060-guest-transport-measured-on-fly/probe.c: two *)
(* processes ping-pong over two 64-bit words of shared memory, busy-polled.*)
(*                                                                         *)
(* Each word has one writer, and between storing a word and reading the    *)
(* peer's answer the writer only spins, so a store that becomes visible    *)
(* late is the same behaviour as a store executed late: the words are      *)
(* modelled sequentially consistent.  The payload is never touched by the  *)
(* code and is left out, as is the clock: a sample is the index of the     *)
(* array element s[i - 1] that has been written.                           *)
(***************************************************************************)
EXTENDS Naturals

CONSTANTS Iters,    \* ITERS
          Stop,     \* UINT64_MAX, the word that tells the child to exit
          Faults    \* TRUE: the fork may fail and either process may be killed

ASSUME RingAssumption == /\ Iters \in Nat \ {0}
                         /\ Stop \in Nat /\ Stop > Iters
                         /\ Faults \in BOOLEAN

VARIABLES req, rsp,  \* the two words of struct ring
          parent,    \* where the parent is in the function
          i,         \* its loop counter
          samples,   \* indices of s[] that hold a measured time
          child,     \* where the child is in its loop
          seen       \* the child's local copy of the last request

vars == <<req, rsp, parent, i, samples, child, seen>>

parentVars == <<parent, i, samples>>
childVars  == <<child, seen>>

ChildRuns == child \in {"poll", "load", "reply"}
Gone      == child \in {"failed", "exited", "killed"}

TypeOK == /\ req \in 0..Iters \cup {Stop}
          /\ rsp \in 0..Iters
          /\ parent \in {"fork", "store", "spin", "stop", "report", "reap",
                         "done", "killed"}
          /\ i \in 1..(Iters + 1)
          /\ samples \in SUBSET (1..Iters)
          /\ child \in {"unborn", "poll", "load", "reply",
                        "failed", "exited", "killed"}
          /\ seen \in 0..Iters \cup {Stop}

\* The mapping is fresh and both words are stored as 0 before the fork.
Init == /\ req = 0 /\ rsp = 0
        /\ parent = "fork" /\ i = 1 /\ samples = {}
        /\ child = "unborn" /\ seen = 0
-----------------------------------------------------------------------------
(* The parent *)

\* fork() is not tested for -1: after a failure the parent carries on alone.
Fork == /\ parent = "fork"
        /\ parent' = "store"
        /\ \/ child' = "poll"
           \/ Faults /\ child' = "failed"
        /\ UNCHANGED <<req, rsp, i, samples, seen>>

StoreReq == /\ parent = "store"
            /\ req' = i
            /\ parent' = "spin"
            /\ UNCHANGED <<rsp, i, samples, childVars>>

\* Mutants: a loop that stops one short, and one that does not wait.
SpinRspShort == /\ parent = "spin"
                /\ rsp = i
                /\ samples' = samples \cup {i}
                /\ i' = i + 1
                /\ parent' = IF i + 1 < Iters THEN "store" ELSE "stop"
                /\ UNCHANGED <<req, rsp, childVars>>

SpinRspNoWait == /\ parent = "spin"
                 /\ samples' = samples \cup {i}
                 /\ i' = i + 1
                 /\ parent' = IF i < Iters THEN "store" ELSE "stop"
                 /\ UNCHANGED <<req, rsp, childVars>>

\* The spin ends on the answer to this very request; the loop then advances.
SpinRsp == /\ parent = "spin"
           /\ rsp = i
           /\ samples' = samples \cup {i}
           /\ i' = i + 1
           /\ parent' = IF i < Iters THEN "store" ELSE "stop"
           /\ UNCHANGED <<req, rsp, childVars>>

\* Mutant: line 171 is missing.
StopForgotten == /\ parent = "stop"
                 /\ parent' = "report"
                 /\ UNCHANGED <<req, rsp, i, samples, childVars>>

StoreStop == /\ parent = "stop"
             /\ req' = Stop
             /\ parent' = "report"
             /\ UNCHANGED <<rsp, i, samples, childVars>>

\* report() sorts all ITERS elements of s[], whether or not they were written.
Report == /\ parent = "report"
          /\ parent' = "reap"
          /\ UNCHANGED <<req, rsp, i, samples, childVars>>

\* waitpid() waits for the child, and returns at once when there is none.
Reap == /\ parent = "reap"
        /\ Gone
        /\ parent' = "done"
        /\ UNCHANGED <<req, rsp, i, samples, childVars>>

Parent == Fork \/ StoreReq \/ SpinRsp \/ StoreStop \/ Report \/ Reap
-----------------------------------------------------------------------------
(* The child: two loads of req, one that ends the spin and one it acts on. *)

PollReq == /\ child = "poll"
           /\ req # seen
           /\ child' = "load"
           /\ UNCHANGED <<req, rsp, parentVars, seen>>

LoadReq == /\ child = "load"
           /\ seen' = req
           /\ child' = IF req = Stop THEN "exited" ELSE "reply"
           /\ UNCHANGED <<req, rsp, parentVars>>

\* Mutant: the answer is one ahead of the request.
StoreRspAhead == /\ child = "reply"
                 /\ rsp' = seen + 1
                 /\ child' = "poll"
                 /\ UNCHANGED <<req, parentVars, seen>>

StoreRsp == /\ child = "reply"
            /\ rsp' = seen
            /\ child' = "poll"
            /\ UNCHANGED <<req, parentVars, seen>>

Child == PollReq \/ LoadReq \/ StoreRsp
-----------------------------------------------------------------------------
(* The machine: the OOM killer or a signal ends either process. *)

KillChild == /\ Faults
             /\ ChildRuns
             /\ child' = "killed"
             /\ UNCHANGED <<req, rsp, parentVars, seen>>

KillParent == /\ Faults
              /\ parent \notin {"done", "killed"}
              /\ parent' = "killed"
              /\ UNCHANGED <<req, rsp, i, samples, childVars>>

\* The two empty loop bodies: neither process blocks, it burns its time slice.
Spin == /\ \/ parent = "spin" /\ rsp # i
           \/ child = "poll" /\ req = seen
        /\ UNCHANGED vars

\* The function has returned, or was killed, and no child runs.
Ended == /\ parent \in {"done", "killed"}
         /\ ~ChildRuns
         /\ UNCHANGED vars

Next == Parent \/ Child \/ KillChild \/ KillParent \/ Spin \/ Ended

\* The kernel gives each runnable process the processor again and again.
Spec == Init /\ [][Next]_vars /\ WF_vars(Parent) /\ WF_vars(Child)
-----------------------------------------------------------------------------
(* Properties *)

\* What the parent's position says of the words it has stored and read.
ParentInv == /\ samples = 1..(i - 1)
             /\ rsp \in {i - 1, i}
             /\ req \in {i - 1, i} \/ (req = Stop /\ i = Iters + 1)
             /\ rsp = i => req = i
             /\ parent = "fork" => child = "unborn" /\ req = 0 /\ i = 1
             /\ parent = "store" => i <= Iters /\ req = i - 1
             /\ parent = "spin" => i <= Iters /\ req = i
             /\ parent = "stop" => i = Iters + 1 /\ req = Iters
             /\ parent \in {"report", "reap", "done"}
                  => i = Iters + 1 /\ req = Stop

\* What the child's position says of its copy of the request.
ChildInv == /\ child = "unborn" => parent \in {"fork", "killed"} /\ seen = 0
            /\ child \in {"poll", "load"} => seen = rsp
            /\ child = "load" => req # seen
            /\ child = "reply" => seen = req /\ seen # Stop /\ rsp = seen - 1

\* The single-writer discipline of the two words: the inductive invariant
\* behind the safety properties below (probe.c:154-167).
IInv == TypeOK /\ ParentInv /\ ChildInv

\* The numbers report() prints are all measured ones (probe.c:11), also when
\* the child is lost: without its answer the parent never leaves the spin.
ReportIsMeasured == parent \in {"report", "reap", "done"} => samples = 1..Iters

\* The child loads req twice (probe.c:154 and :157) and acts on the second
\* value; the parent never stores between the two, so no request is skipped.
LoadIsStable == [][child = "load" => req' = req]_vars

\* The ring does what RoundTrip says, one request at a time, for every fault.
RT == INSTANCE RoundTrip
        WITH sent     <- IF req = Stop THEN Iters ELSE req,
             answered <- rsp,
             measured <- i - 1
Implements == RT!Spec

\* Spinning, or blocked in waitpid(), until the other process acts.
ParentWaits == \/ parent = "spin" /\ rsp # i
               \/ parent = "reap" /\ ChildRuns
ChildWaits  == child = "poll" /\ req = seen

\* The two are never waiting for each other (probe.c:154, :166, :175).
NeverBothWait == ~(ParentWaits /\ ChildWaits)

\* The probe ends and the child has been told to, unless a process was lost on
\* the way: neither side is left spinning (probe.c:166 and :154).
EndsUnlessLost == <>(\/ parent = "done" /\ child = "exited"
                     \/ parent = "killed"
                     \/ child \in {"failed", "killed"})
=============================================================================
