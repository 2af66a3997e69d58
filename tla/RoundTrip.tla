----------------------------- MODULE RoundTrip -----------------------------
(***************************************************************************)
(* What a transport probe of rfd/2060 promises, whatever carries the       *)
(* messages: "every number is a round trip between two processes".         *)
(* Requests go out one at a time, an answer follows its request, and a     *)
(* sample is taken only once its own answer is there.  ShmRing and         *)
(* UnixPair implement this specification.                                  *)
(***************************************************************************)
EXTENDS Naturals

CONSTANT Iters          \* ITERS, the number of round trips of one probe

VARIABLES sent,         \* requests published so far
          answered,     \* requests the other process has answered
          measured      \* samples recorded

vars == <<sent, answered, measured>>

Init == sent = 0 /\ answered = 0 /\ measured = 0

\* A request goes out only when the previous round trip has been measured.
Send == /\ sent = measured
        /\ sent < Iters
        /\ sent' = sent + 1
        /\ UNCHANGED <<answered, measured>>

Answer == /\ answered < sent
          /\ answered' = answered + 1
          /\ UNCHANGED <<sent, measured>>

Measure == /\ measured < answered
           /\ measured' = measured + 1
           /\ UNCHANGED <<sent, answered>>

Next == Send \/ Answer \/ Measure

Spec == Init /\ [][Next]_vars
=============================================================================
