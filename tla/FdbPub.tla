------------------------------- MODULE FdbPub -------------------------------
(***************************************************************************)
(* rfd/2061-pubsub-belongs-in-userspace/fdbpub.c: one thread measures      *)
(* commits, watch wake-ups, the number of watches and appends against a    *)
(* FoundationDB that answers from another one.  The database is modelled   *)
(* from this use: a commit is done, fails, or its outcome is unknown; a    *)
(* watch wakes up when the value it has read is no longer there, and may   *)
(* fail at any time; beyond Limit a new watch is refused.                  *)
(***************************************************************************)
EXTENDS Integers, FiniteSets

CONSTANTS COMMITS,        \* commits of parts 1 and 4
          Fires,          \* wake-ups of part 2, 100 in the code
          WATCHES_TRY,    \* watches tried in part 3
          Limit,          \* watches that one database handle may have
          MaxFaults,      \* bound on the database's failures
          Nothing

ASSUME FdbAssumption == /\ {COMMITS, Fires, WATCHES_TRY, Limit} \subseteq Nat \ {0}
                        /\ MaxFaults \in Nat

VARIABLES pc,       \* the loop, or the call in it, that comes next
          i,        \* its index
          n,        \* the samples of parts 1, 2 and 4
          took,     \* the commits of those parts that took effect
          topic,    \* the value of zf/pub/topic
          w,        \* the watch of part 2: its state and the value it has read
          held,     \* the watches that part 3 counts
          armed,    \* those of them that the database still serves
          last,     \* the error that ended part 3
          faults    \* the database's failures so far

vars == <<pc, i, n, took, topic, w, held, armed, last, faults>>

Parts == {"tick", "fire", "append"}

\* Each value is written once: the loops number them.
Values == {"tick", "fire"} \X Nat

NoWatch == [state |-> "none", read |-> Nothing]

TypeOK == /\ pc \in {"tick", "watch", "publish", "block", "hold", "release",
                     "append", "done"}
          /\ i \in Nat
          /\ n \in [Parts -> Nat] /\ took \in [Parts -> Nat]
          /\ topic \in Values \cup {Nothing}
          /\ w \in [state : {"none", "armed", "fired", "failed"},
                    read : Values \cup {Nothing}]
          /\ held \in 0..WATCHES_TRY /\ armed \subseteq 0..held - 1
          /\ last \in {"none", "too_many_watches", "other"}
          /\ faults \in 0..MaxFaults

\* An earlier run may have left its value in the topic.
Init == /\ pc = "tick" /\ i = 0 /\ faults = 0
        /\ n = [p \in Parts |-> 0] /\ took = [p \in Parts |-> 0]
        /\ topic \in {Nothing} \cup ({"fire"} \X (0..Fires - 1))
        /\ w = NoWatch /\ held = 0 /\ armed = {} /\ last = "none"

Fault == faults < MaxFaults /\ faults' = faults + 1

\* The next round of a loop, or what follows it.
Round(here, bound, next) ==
  /\ i < bound
  /\ IF i + 1 < bound THEN pc' = here /\ i' = i + 1 ELSE pc' = next /\ i' = 0

\* How a transaction ends, and whether it is in the database then.
Commit(part, ok, applied) ==
  /\ \/ ok /\ applied /\ UNCHANGED faults
     \/ ~ok /\ Fault
  /\ took' = [took EXCEPT ![part] = IF applied THEN @ + 1 ELSE @]

Sample(part, counted) == n' = [n EXCEPT ![part] = IF counted THEN @ + 1 ELSE @]

Tick == /\ pc = "tick"
        /\ \E ok, applied \in BOOLEAN :
             /\ Commit("tick", ok, applied)
             /\ Sample("tick", ok)
             /\ topic' = IF applied THEN <<"tick", i>> ELSE topic
        /\ Round("tick", COMMITS, "watch")
        /\ UNCHANGED <<w, held, armed, last>>

\* The watches that the database serves.
Outstanding == Cardinality(armed) + (IF w.state = "armed" THEN 1 ELSE 0)

\* A new watch, once its transaction is through: its error and that of the
\* commit are not looked at (98-101).
Watch == /\ pc = "watch"
         /\ \/ /\ Outstanding < Limit
               /\ w' = [state |-> "armed", read |-> topic]
               /\ UNCHANGED faults
            \/ Fault /\ w' = [state |-> "failed", read |-> topic]
         /\ pc' = "publish"
         /\ UNCHANGED <<i, n, took, topic, held, armed, last>>

\* Mutant: every wake-up is published with one value.
PublishSame == /\ pc = "publish"
               /\ Commit("fire", TRUE, TRUE)
               /\ topic' = <<"fire", 0>>
               /\ pc' = "block"
               /\ UNCHANGED <<i, n, w, held, armed, last>>

\* Mutant: the watch is not destroyed before the break (106).
PublishKeeps == /\ pc = "publish"
                /\ \E ok, applied \in BOOLEAN :
                     /\ Commit("fire", ok, applied)
                     /\ topic' = IF applied THEN <<"fire", i>> ELSE topic
                     /\ IF ok THEN pc' = "block" /\ UNCHANGED i
                              ELSE pc' = "hold" /\ i' = 0
                /\ UNCHANGED <<n, w, held, armed, last>>

Publish == /\ pc = "publish"
           /\ \E ok, applied \in BOOLEAN :
                /\ Commit("fire", ok, applied)
                /\ topic' = IF applied THEN <<"fire", i>> ELSE topic
                /\ IF ok THEN pc' = "block" /\ UNCHANGED <<i, w>>
                         ELSE pc' = "hold" /\ i' = 0 /\ w' = NoWatch
           /\ UNCHANGED <<n, held, armed, last>>

\* Mutant: block_until_ready is forgotten (107).
BlockNot == /\ pc = "block"
            /\ Sample("fire", TRUE)
            /\ w' = NoWatch
            /\ Round("watch", Fires, "hold")
            /\ UNCHANGED <<took, topic, held, armed, last, faults>>

\* The wait for the watch has no time limit, and a watch that failed is a
\* sample like one that woke up.
Block == /\ pc = "block"
         /\ w.state \in {"fired", "failed"}
         /\ Sample("fire", TRUE)
         /\ w' = NoWatch
         /\ Round("watch", Fires, "hold")
         /\ UNCHANGED <<took, topic, held, armed, last, faults>>

\* One more watch on a key of its own, tested once its transaction is through.
Hold == /\ pc = "hold"
        /\ Outstanding < Limit
        /\ held' = held + 1 /\ armed' = armed \cup {held}
        /\ Round("hold", WATCHES_TRY, "release")
        /\ UNCHANGED <<n, took, topic, w, last, faults>>

\* The database refuses the watch, or fails the commit or the watch itself.
HoldError == /\ pc = "hold"
             /\ \/ /\ Outstanding >= Limit
                   /\ last' = "too_many_watches"
                   /\ UNCHANGED faults
                \/ Fault /\ last' = "other"
             /\ pc' = "release" /\ i' = 0
             /\ UNCHANGED <<n, took, topic, w, held, armed>>

\* Mutant: the count is cleared, the watches are not destroyed (140).
ReleaseNone == /\ pc = "release"
               /\ pc' = "append"
               /\ held' = 0
               /\ UNCHANGED <<i, n, took, topic, w, armed, last, faults>>

\* The line on the watches is printed, and all of them are destroyed.
Release == /\ pc = "release"
           /\ pc' = "append"
           /\ armed' = {}
           /\ UNCHANGED <<i, n, took, topic, w, held, last, faults>>

Append == /\ pc = "append"
          /\ \E ok, applied \in BOOLEAN : /\ Commit("append", ok, applied)
                                          /\ Sample("append", ok)
          /\ Round("append", COMMITS, "done")
          /\ UNCHANGED <<topic, w, held, armed, last>>

\* fdb_database_create_transaction fails: the loop ends there.
NoTransaction == /\ \/ pc = "watch" /\ pc' = "hold"
                    \/ pc = "hold" /\ pc' = "release"
                    \/ pc = "append" /\ pc' = "done"
                 /\ i' = 0
                 /\ Fault
                 /\ UNCHANGED <<n, took, topic, w, held, armed, last>>

Program == \/ Tick \/ Watch \/ Publish \/ Block \/ Hold \/ HoldError \/ Release
           \/ Append \/ NoTransaction

\* The database tells of the change.
Fire == /\ w.state = "armed" /\ w.read # topic
        /\ w' = [w EXCEPT !.state = "fired"]
        /\ UNCHANGED <<pc, i, n, took, topic, held, armed, last, faults>>

\* A watch ends with an error.
Lapse == /\ \/ w.state = "armed" /\ w' = [w EXCEPT !.state = "failed"] /\ UNCHANGED armed
            \/ \E k \in armed : armed' = armed \ {k} /\ UNCHANGED w
         /\ Fault
         /\ UNCHANGED <<pc, i, n, took, topic, held, last>>

Next == Program \/ Fire \/ Lapse

\* The thread runs on and the database answers; nothing else is fair.
Spec == Init /\ [][Next]_vars /\ WF_vars(Program) /\ WF_vars(Fire)
-----------------------------------------------------------------------------
(* Properties *)

\* A sample stands for a commit that took effect, whatever failed: an outcome
\* that is unknown is not counted (81-90, 143-165).
SamplesTookEffect == \A p \in Parts : n[p] <= took[p]

InPart2 == pc \in {"watch", "publish", "block"}

\* Each loop counts below its bound, and what belongs to a later part is as the
\* program starts it.
Positions == /\ pc \in {"tick", "append"} => i < COMMITS
             /\ InPart2 => i < Fires
             /\ pc = "hold" => i < WATCHES_TRY /\ held = i
             /\ pc = "tick" \/ InPart2 => held = 0
             /\ pc \in {"release", "done"} => i = 0
             /\ pc \notin {"release", "append", "done"} => last = "none"

\* Part 2 gives its watch back before it goes on, however it ends (106, 109),
\* and no watch is taken beyond the limit.
Places == /\ w.state # "none" <=> pc \in {"publish", "block"}
          /\ pc \notin {"hold", "release"} => armed = {}
          /\ Outstanding <= Limit

\* Only a failure of the database ends a watch otherwise than by a change.
FailedByFault == w.state = "failed" => faults > 0

\* What the topic holds when a watch reads it, and when it is published.
TopicFollows ==
  /\ pc = "tick" \/ (pc \in {"watch", "publish"} /\ i = 0)
       => took["tick"] = 0 \/ topic \in {"tick"} \X Nat
  /\ pc \in {"watch", "publish"} /\ i > 0 => topic = <<"fire", i - 1>>
  /\ pc = "publish" => w.read = topic
  /\ pc = "block" => topic = <<"fire", i>>

\* The publish that a wait follows has taken effect and has no sample yet.
PublishedBefore == pc = "block" => n["fire"] < took["fire"]

\* The program never waits for a watch that no change can end (107), unless not
\* one tick took effect and the first wake-up writes the value that an earlier
\* run has left in the topic.
WaitCanEnd == pc = "block" /\ w.read = topic => i = 0 /\ took["tick"] = 0

\* As long as the database does not fail, every round of every loop gives a
\* sample, and part 3 ends at the limit or at the number tried, whichever is
\* lower.
WithoutFaults ==
  faults = 0 =>
    /\ n["tick"] = IF pc = "tick" THEN i ELSE COMMITS
    /\ n["fire"] = IF pc = "tick" THEN 0 ELSE IF InPart2 THEN i ELSE Fires
    /\ n["append"] = IF pc = "append" THEN i ELSE IF pc = "done" THEN COMMITS ELSE 0
    /\ pc \in {"hold", "release"} => armed = 0..held - 1
    /\ pc \in {"release", "append", "done"} =>
         /\ held = IF Limit < WATCHES_TRY THEN Limit ELSE WATCHES_TRY
         /\ last = IF Limit < WATCHES_TRY THEN "too_many_watches" ELSE "none"

\* The inductive invariant behind the properties of the four parts (79-166).
IInv == /\ TypeOK /\ SamplesTookEffect /\ Positions /\ Places /\ FailedByFault
        /\ TopicFollows /\ PublishedBefore /\ WaitCanEnd /\ WithoutFaults

\* Where part 3 stops because a watch is refused, the number it prints is the
\* limit of the database, plus the watches it lost on the way: no watch of part
\* 2 takes a place, however that part ended (92-111, 130-137).
HeldIsTheLimit ==
  [][last' # last /\ last' = "too_many_watches"
       => held = Limit + Cardinality((0..held - 1) \ armed)]_vars

\* As long as the database does not fail, the time of a sample ends with the
\* wake-up of the watch and not before (107-108).
SamplesAreWakeups == [][n'.fire # n.fire /\ faults = 0 => w.state = "fired"]_vars

\* The program ends, whatever fails on the way, though it waits without a time
\* limit (107): unless not one tick took effect and the first wake-up writes
\* the value that an earlier run has left in the topic.
Ends == <>(\/ pc = "done"
           \/ pc = "block" /\ i = 0 /\ took.tick = 0 /\ w.read = topic)
=============================================================================
