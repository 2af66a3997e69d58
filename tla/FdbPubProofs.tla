---------------------------- MODULE FdbPubProofs ----------------------------
(***************************************************************************)
(* The safety of the FoundationDB publisher for any number of commits,     *)
(* wake-ups, watches and failures of the database.                         *)
(***************************************************************************)
EXTENDS FdbPub, FiniteSetTheorems, TLAPS

\* The watches that are served are finitely many.
LEMMA ArmedFinite ==
  ASSUME TypeOK
  PROVE  IsFiniteSet(armed) /\ Cardinality(armed) \in Nat
<1>1. IsFiniteSet(0..held - 1)
  BY FS_Interval DEF TypeOK
<1>2. IsFiniteSet(armed)
  BY <1>1, FS_Subset DEF TypeOK
<1> QED
  BY <1>2, FS_CardinalityType

\* The initial state satisfies the invariant.
LEMMA InitIInv == Init => IInv
<1> SUFFICES ASSUME Init PROVE IInv
  OBVIOUS
<1>1. TypeOK
  BY FdbAssumption DEF Init, TypeOK, NoWatch, Values, Parts
<1>2. Places
  BY FS_EmptySet, FdbAssumption DEF Init, Places, Outstanding, NoWatch
<1>3. SamplesTookEffect /\ Positions /\ FailedByFault
  BY FdbAssumption DEF Init, SamplesTookEffect, Positions, InPart2, FailedByFault, NoWatch, Parts
<1>4. TopicFollows /\ PublishedBefore /\ WaitCanEnd /\ WithoutFaults
  BY DEF Init, TopicFollows, PublishedBefore, WaitCanEnd, WithoutFaults, InPart2, Parts
<1> QED
  BY <1>1, <1>2, <1>3, <1>4 DEF IInv

\* A transaction: its sample counts only if it took effect, and only a failure
\* of the database loses either.
LEMMA CommitCounts ==
  ASSUME TypeOK, SamplesTookEffect, NEW part \in Parts,
         NEW ok \in BOOLEAN, NEW applied \in BOOLEAN,
         Commit(part, ok, applied)
  PROVE  /\ took' \in [Parts -> Nat] /\ faults' \in 0..MaxFaults
         /\ took'[part] = took[part] + (IF applied THEN 1 ELSE 0)
         /\ \A p \in Parts \ {part} : took'[p] = took[p]
         /\ ok => applied
         /\ faults' >= faults /\ (faults' = 0 => ok /\ faults = 0)
BY FdbAssumption DEF TypeOK, Commit, Fault

\* A sample is counted once, for its own part, and only where it says so.
LEMMA SampleCounts ==
  ASSUME TypeOK, NEW part \in Parts, NEW counted \in BOOLEAN,
         Sample(part, counted)
  PROVE  /\ n' \in [Parts -> Nat]
         /\ n'[part] = n[part] + (IF counted THEN 1 ELSE 0)
         /\ \A p \in Parts \ {part} : n'[p] = n[p]
BY DEF TypeOK, Sample

\* Part 1 (81-90): a tick that took effect is what the topic holds.
LEMMA TickKeeps == IInv /\ Tick => IInv'
<1> SUFFICES ASSUME IInv, Tick PROVE IInv'
  OBVIOUS
<1> USE FdbAssumption DEF IInv
<1>1. PICK ok \in BOOLEAN, applied \in BOOLEAN :
        /\ Commit("tick", ok, applied) /\ Sample("tick", ok)
        /\ topic' = IF applied THEN <<"tick", i>> ELSE topic
  BY DEF Tick
<1>2. /\ pc = "tick" /\ Round("tick", COMMITS, "watch")
      /\ UNCHANGED <<w, held, armed, last>>
  BY <1>1 DEF Tick
<1>3. "tick" \in Parts /\ "fire" \in Parts /\ "append" \in Parts
  BY DEF Parts
<1>4. /\ took' \in [Parts -> Nat] /\ faults' \in 0..MaxFaults
      /\ took'["tick"] = took["tick"] + (IF applied THEN 1 ELSE 0)
      /\ \A p \in Parts \ {"tick"} : took'[p] = took[p]
      /\ ok => applied
      /\ faults' >= faults /\ (faults' = 0 => ok /\ faults = 0)
  BY <1>1, <1>3, CommitCounts
<1>5. /\ n' \in [Parts -> Nat]
      /\ n'["tick"] = n["tick"] + (IF ok THEN 1 ELSE 0)
      /\ \A p \in Parts \ {"tick"} : n'[p] = n[p]
  BY <1>1, <1>3, SampleCounts
<1>6. i \in Nat /\ i < COMMITS /\ took["tick"] \in Nat
  BY <1>2, <1>3 DEF TypeOK, Positions
<1>7. TypeOK'
  <2>1. topic' \in Values \cup {Nothing}
    BY <1>1, <1>6 DEF TypeOK, Values
  <2> QED
    BY <1>2, <1>4, <1>5, <1>6, <2>1 DEF TypeOK, Round
<1>8. SamplesTookEffect'
  BY <1>3, <1>4, <1>5 DEF SamplesTookEffect, TypeOK
<1>9. Positions'
  BY <1>2, <1>6 DEF Positions, InPart2, Round
<1>10. Places' /\ FailedByFault'
  BY <1>2, <1>4 DEF Places, FailedByFault, Outstanding, Round, TypeOK
<1>11. TopicFollows' /\ PublishedBefore' /\ WaitCanEnd'
  BY <1>1, <1>2, <1>4, <1>6 DEF TopicFollows, PublishedBefore, WaitCanEnd, Round
<1>12. WithoutFaults'
  BY <1>2, <1>3, <1>4, <1>5, <1>6 DEF WithoutFaults, InPart2, Round
<1> QED
  BY <1>7, <1>8, <1>9, <1>10, <1>11, <1>12

\* A watch is taken only where there is room, or has failed from the start.
LEMMA WatchKeeps == IInv /\ Watch => IInv'
<1> SUFFICES ASSUME IInv, Watch PROVE IInv'
  OBVIOUS
<1> USE FdbAssumption DEF IInv
<1>1. /\ pc = "watch" /\ pc' = "publish"
      /\ UNCHANGED <<i, n, took, topic, held, armed, last>>
      /\ w' \in {[state |-> "armed", read |-> topic], [state |-> "failed", read |-> topic]}
      /\ w'.read = topic
  BY DEF Watch
<1>2. \/ Outstanding < Limit /\ w'.state = "armed" /\ faults' = faults
      \/ w'.state = "failed" /\ faults' = faults + 1 /\ faults < MaxFaults
  BY DEF Watch, Fault
<1>3. faults' \in 0..MaxFaults /\ (faults' = 0 => faults = 0)
  BY <1>2 DEF TypeOK
<1>4. TypeOK'
  BY <1>1, <1>3 DEF TypeOK
<1>5. Places'
  <2>1. w.state = "none" /\ Cardinality(armed) \in Nat /\ Outstanding = Cardinality(armed)
    BY <1>1, ArmedFinite DEF Places, Outstanding
  <2>2. Outstanding' <= Limit
    BY <1>1, <1>2, <2>1 DEF Outstanding, Places
  <2> QED
    BY <1>1, <2>2 DEF Places
<1>6. SamplesTookEffect' /\ Positions'
  BY <1>1 DEF SamplesTookEffect, Positions, InPart2
<1>7. FailedByFault'
  BY <1>2 DEF FailedByFault, TypeOK
<1>8. TopicFollows' /\ PublishedBefore' /\ WaitCanEnd'
  BY <1>1 DEF TopicFollows, PublishedBefore, WaitCanEnd
<1>9. WithoutFaults'
  BY <1>1, <1>3 DEF WithoutFaults, InPart2
<1> QED
  BY <1>4, <1>5, <1>6, <1>7, <1>8, <1>9

\* What is published is not what the watch has read, but for the one case; if
\* it fails the watch is given back.
LEMMA PublishKeepsIt == IInv /\ Publish => IInv'
<1> SUFFICES ASSUME IInv, Publish PROVE IInv'
  OBVIOUS
<1> USE FdbAssumption DEF IInv
<1>1. PICK ok \in BOOLEAN, applied \in BOOLEAN :
        /\ Commit("fire", ok, applied)
        /\ topic' = IF applied THEN <<"fire", i>> ELSE topic
        /\ IF ok THEN pc' = "block" /\ UNCHANGED <<i, w>>
                 ELSE pc' = "hold" /\ i' = 0 /\ w' = NoWatch
  BY DEF Publish
<1>2. pc = "publish" /\ UNCHANGED <<n, held, armed, last>>
  BY DEF Publish
<1>3. "tick" \in Parts /\ "fire" \in Parts /\ "append" \in Parts
  BY DEF Parts
<1>4. /\ took' \in [Parts -> Nat] /\ faults' \in 0..MaxFaults
      /\ took'["fire"] = took["fire"] + (IF applied THEN 1 ELSE 0)
      /\ \A p \in Parts \ {"fire"} : took'[p] = took[p]
      /\ ok => applied
      /\ faults' >= faults /\ (faults' = 0 => ok /\ faults = 0)
  BY <1>1, <1>3, CommitCounts
<1>5. i \in Nat /\ i < Fires /\ held = 0 /\ last = "none"
  BY <1>2 DEF TypeOK, Positions, InPart2
<1>6. TypeOK'
  <2>1. topic' \in Values \cup {Nothing}
    BY <1>1, <1>5 DEF TypeOK, Values
  <2>2. w' \in [state : {"none", "armed", "fired", "failed"},
                read : Values \cup {Nothing}]
    BY <1>1 DEF TypeOK, NoWatch
  <2> QED
    BY <1>1, <1>2, <1>4, <1>5, <2>1, <2>2 DEF TypeOK
<1>7. SamplesTookEffect'
  BY <1>2, <1>3, <1>4 DEF SamplesTookEffect, TypeOK
<1>8. Positions'
  BY <1>1, <1>2, <1>5 DEF Positions, InPart2
<1>9. Places'
  <2>1. Cardinality(armed) \in Nat
    BY ArmedFinite
  <2>2. armed = {} /\ w.state # "none"
    BY <1>2 DEF Places
  <2> QED
    BY <1>1, <1>2, <2>1, <2>2 DEF Places, Outstanding, NoWatch
<1>10. FailedByFault'
  BY <1>1, <1>4 DEF FailedByFault, TypeOK, NoWatch
<1>11. TopicFollows' /\ PublishedBefore'
  BY <1>1, <1>2, <1>3, <1>4 DEF TopicFollows, PublishedBefore, SamplesTookEffect, TypeOK
<1>12. WaitCanEnd'
  <2> SUFFICES ASSUME pc' = "block", w'.read = topic'
               PROVE  i = 0 /\ took'["tick"] = 0 /\ i' = i
    BY DEF WaitCanEnd
  <2>1. ok /\ topic' = <<"fire", i>> /\ w.read = topic' /\ i' = i
    BY <1>1, <1>4
  <2>2. topic = <<"fire", i>>
    BY <1>2, <2>1 DEF TopicFollows
  <2>3. i = 0
    BY <1>2, <1>5, <2>2 DEF TopicFollows
  <2>4. took["tick"] = 0
    BY <1>2, <2>2, <2>3 DEF TopicFollows
  <2> QED
    BY <1>3, <1>4, <2>1, <2>3, <2>4
<1>13. WithoutFaults'
  BY <1>1, <1>2, <1>4 DEF WithoutFaults, InPart2
<1> QED
  BY <1>6, <1>7, <1>8, <1>9, <1>10, <1>11, <1>12, <1>13

\* The wake-up is a sample for a publish that took effect before the wait.
LEMMA BlockKeeps == IInv /\ Block => IInv'
<1> SUFFICES ASSUME IInv, Block PROVE IInv'
  OBVIOUS
<1> USE FdbAssumption DEF IInv
<1>1. /\ pc = "block" /\ Sample("fire", TRUE) /\ w' = NoWatch
      /\ Round("watch", Fires, "hold")
      /\ UNCHANGED <<took, topic, held, armed, last, faults>>
  BY DEF Block
<1>2. "tick" \in Parts /\ "fire" \in Parts /\ "append" \in Parts
  BY DEF Parts
<1>3. /\ n' \in [Parts -> Nat]
      /\ n'["fire"] = n["fire"] + 1
      /\ \A p \in Parts \ {"fire"} : n'[p] = n[p]
  BY <1>1, <1>2, SampleCounts
<1>4. i \in Nat /\ i < Fires /\ held = 0 /\ last = "none"
  BY <1>1 DEF TypeOK, Positions, InPart2
<1>5. TypeOK'
  BY <1>1, <1>3, <1>4 DEF TypeOK, NoWatch, Round
<1>6. SamplesTookEffect'
  BY <1>1, <1>2, <1>3 DEF SamplesTookEffect, PublishedBefore, TypeOK
<1>7. Positions'
  BY <1>1, <1>4 DEF Positions, InPart2, Round
<1>8. Places'
  <2>1. Cardinality(armed) \in Nat /\ armed = {}
    BY <1>1, ArmedFinite DEF Places
  <2> QED
    BY <1>1, <2>1 DEF Places, Outstanding, NoWatch, Round
<1>9. FailedByFault' /\ TopicFollows' /\ PublishedBefore' /\ WaitCanEnd'
  BY <1>1, <1>4 DEF FailedByFault, TopicFollows, PublishedBefore, WaitCanEnd, NoWatch, Round
<1>10. WithoutFaults'
  BY <1>1, <1>2, <1>3, <1>4 DEF WithoutFaults, InPart2, Round, Places
<1> QED
  BY <1>5, <1>6, <1>7, <1>8, <1>9, <1>10

\* A watch on a key that has none yet takes one of the places that are left.
LEMMA HoldKeeps == IInv /\ Hold => IInv'
<1> SUFFICES ASSUME IInv, Hold PROVE IInv'
  OBVIOUS
<1> USE FdbAssumption DEF IInv
<1>1. /\ pc = "hold" /\ Outstanding < Limit
      /\ held' = held + 1 /\ armed' = armed \cup {held}
      /\ Round("hold", WATCHES_TRY, "release")
      /\ UNCHANGED <<n, took, topic, w, last, faults>>
  BY DEF Hold
<1>2. /\ i \in Nat /\ i < WATCHES_TRY /\ held = i /\ last = "none" /\ w.state = "none"
      /\ armed \subseteq 0..held - 1
  BY <1>1 DEF TypeOK, Positions, Places
<1>3. TypeOK'
  BY <1>1, <1>2 DEF TypeOK, Round
<1>4. Positions'
  BY <1>1, <1>2 DEF Positions, InPart2, Round
<1>5. Places'
  <2>1. Outstanding = Cardinality(armed) /\ Cardinality(armed) \in Nat
    BY <1>2, ArmedFinite DEF Outstanding
  <2>2. Cardinality(armed') = Cardinality(armed) + 1
    BY <1>1, <1>2, ArmedFinite, FS_AddElement
  <2>3. Outstanding' <= Limit
    BY <1>1, <1>2, <2>1, <2>2 DEF Outstanding
  <2> QED
    BY <1>1, <1>2, <2>3 DEF Places, Round
<1>6. SamplesTookEffect' /\ FailedByFault'
  BY <1>1 DEF SamplesTookEffect, FailedByFault
<1>7. TopicFollows' /\ PublishedBefore' /\ WaitCanEnd'
  BY <1>1, <1>2 DEF TopicFollows, PublishedBefore, WaitCanEnd, Round
<1>8. WithoutFaults'
  <2> SUFFICES ASSUME faults = 0 PROVE WithoutFaults'
    BY <1>1 DEF WithoutFaults
  <2>1. armed' = 0..held' - 1
    BY <1>1, <1>2 DEF WithoutFaults
  <2>2. pc' = "release" => WATCHES_TRY <= Limit /\ held' = WATCHES_TRY
    <3>1. Outstanding = Cardinality(armed)
      BY <1>2, ArmedFinite DEF Outstanding
    <3>2. Cardinality(armed) = held
      BY <1>1, <1>2, FS_Interval DEF WithoutFaults
    <3> QED
      BY <1>1, <1>2, <3>1, <3>2 DEF Round
  <2> QED
    BY <1>1, <1>2, <2>1, <2>2 DEF WithoutFaults, InPart2, Round
<1> QED
  BY <1>3, <1>4, <1>5, <1>6, <1>7, <1>8

\* Where a watch is refused, the watches that are served are the limit.
LEMMA RefusedAtLimit ==
  ASSUME IInv, pc = "hold", Outstanding >= Limit
  PROVE  Cardinality(armed) = Limit
BY ArmedFinite, FdbAssumption DEF IInv, Places, Outstanding

\* Part 3 stops, and what it has counted stays.
LEMMA HoldErrorKeeps == IInv /\ HoldError => IInv'
<1> SUFFICES ASSUME IInv, HoldError PROVE IInv'
  OBVIOUS
<1> USE FdbAssumption DEF IInv
<1>1. /\ pc = "hold" /\ pc' = "release" /\ i' = 0
      /\ UNCHANGED <<n, took, topic, w, held, armed>>
  BY DEF HoldError
<1>2. \/ /\ Outstanding >= Limit /\ last' = "too_many_watches"
         /\ faults' = faults
      \/ /\ last' = "other" /\ faults < MaxFaults /\ faults' = faults + 1
  BY DEF HoldError, Fault
<1>3. faults' \in 0..MaxFaults /\ faults \in Nat
  BY <1>2 DEF TypeOK
<1>4. TypeOK'
  BY <1>1, <1>2, <1>3 DEF TypeOK
<1>5. Positions' /\ Places'
  BY <1>1 DEF Positions, Places, InPart2, Outstanding
<1>6. SamplesTookEffect' /\ FailedByFault'
  BY <1>1, <1>2, <1>3 DEF SamplesTookEffect, FailedByFault
<1>7. TopicFollows' /\ PublishedBefore' /\ WaitCanEnd'
  BY <1>1 DEF TopicFollows, PublishedBefore, WaitCanEnd
<1>8. WithoutFaults'
  <2> SUFFICES ASSUME faults' = 0 PROVE WithoutFaults'
    BY DEF WithoutFaults
  <2>1. faults = 0 /\ Outstanding >= Limit /\ last' = "too_many_watches"
    BY <1>2, <1>3
  <2>2. Cardinality(armed) = Limit
    BY <1>1, <2>1, RefusedAtLimit
  <2>3. held \in Nat /\ held < WATCHES_TRY /\ armed = 0..held - 1
    BY <1>1, <2>1 DEF TypeOK, Positions, WithoutFaults
  <2>4. Cardinality(armed) = held
    BY <2>3, FS_Interval
  <2> QED
    BY <1>1, <2>1, <2>2, <2>3, <2>4 DEF WithoutFaults, InPart2
<1> QED
  BY <1>4, <1>5, <1>6, <1>7, <1>8

\* Giving the watches back (137-141) starts part 4.
LEMMA ReleaseKeeps == IInv /\ Release => IInv'
<1> SUFFICES ASSUME IInv, Release PROVE IInv'
  OBVIOUS
<1> USE FdbAssumption DEF IInv
<1>1. /\ pc = "release" /\ pc' = "append" /\ armed' = {}
      /\ UNCHANGED <<i, n, took, topic, w, held, last, faults>>
  BY DEF Release
<1>2. TypeOK' /\ Positions'
  BY <1>1 DEF TypeOK, Positions, InPart2
<1>3. Places'
  BY <1>1, FS_EmptySet DEF Places, Outstanding
<1>4. SamplesTookEffect' /\ FailedByFault' /\ TopicFollows' /\ PublishedBefore' /\ WaitCanEnd'
  BY <1>1 DEF SamplesTookEffect, FailedByFault, TopicFollows, PublishedBefore, WaitCanEnd
<1>5. WithoutFaults'
  BY <1>1 DEF WithoutFaults, InPart2, Positions
<1> QED
  BY <1>2, <1>3, <1>4, <1>5

\* Part 4 (143-165): the appended keys are not the topic.
LEMMA AppendKeeps == IInv /\ Append => IInv'
<1> SUFFICES ASSUME IInv, Append PROVE IInv'
  OBVIOUS
<1> USE FdbAssumption DEF IInv
<1>1. PICK ok \in BOOLEAN, applied \in BOOLEAN :
        Commit("append", ok, applied) /\ Sample("append", ok)
  BY DEF Append
<1>2. /\ pc = "append" /\ Round("append", COMMITS, "done")
      /\ UNCHANGED <<topic, w, held, armed, last>>
  BY DEF Append
<1>3. "tick" \in Parts /\ "fire" \in Parts /\ "append" \in Parts
  BY DEF Parts
<1>4. /\ took' \in [Parts -> Nat] /\ faults' \in 0..MaxFaults
      /\ took'["append"] = took["append"] + (IF applied THEN 1 ELSE 0)
      /\ \A p \in Parts \ {"append"} : took'[p] = took[p]
      /\ ok => applied
      /\ faults' >= faults /\ (faults' = 0 => ok /\ faults = 0)
  BY <1>1, <1>3, CommitCounts
<1>5. /\ n' \in [Parts -> Nat]
      /\ n'["append"] = n["append"] + (IF ok THEN 1 ELSE 0)
      /\ \A p \in Parts \ {"append"} : n'[p] = n[p]
  BY <1>1, <1>3, SampleCounts
<1>6. i \in Nat /\ i < COMMITS
  BY <1>2 DEF TypeOK, Positions
<1>7. TypeOK' /\ Positions'
  BY <1>2, <1>4, <1>5, <1>6 DEF TypeOK, Positions, InPart2, Round
<1>8. SamplesTookEffect'
  BY <1>3, <1>4, <1>5 DEF SamplesTookEffect, TypeOK
<1>9. Places' /\ FailedByFault'
  BY <1>2, <1>4 DEF Places, FailedByFault, Outstanding, Round, TypeOK
<1>10. TopicFollows' /\ PublishedBefore' /\ WaitCanEnd'
  BY <1>2 DEF TopicFollows, PublishedBefore, WaitCanEnd, Round
<1>11. WithoutFaults'
  BY <1>2, <1>3, <1>4, <1>5, <1>6 DEF WithoutFaults, InPart2, Round
<1> QED
  BY <1>7, <1>8, <1>9, <1>10, <1>11

\* A loop that ends early has had a failure of the database.
LEMMA NoTransactionKeeps == IInv /\ NoTransaction => IInv'
<1> SUFFICES ASSUME IInv, NoTransaction PROVE IInv'
  OBVIOUS
<1> USE FdbAssumption DEF IInv
<1>1. /\ \/ pc = "watch" /\ pc' = "hold"
         \/ pc = "hold" /\ pc' = "release"
         \/ pc = "append" /\ pc' = "done"
      /\ i' = 0 /\ faults < MaxFaults /\ faults' = faults + 1
      /\ UNCHANGED <<n, took, topic, w, held, armed, last>>
  BY DEF NoTransaction, Fault
<1>2. faults \in Nat /\ faults' \in 0..MaxFaults /\ faults' # 0
  BY <1>1 DEF TypeOK
<1>3. TypeOK' /\ Positions'
  BY <1>1, <1>2 DEF TypeOK, Positions, InPart2
<1>4. Places'
  BY <1>1 DEF Places, Outstanding
<1>5. SamplesTookEffect' /\ FailedByFault' /\ TopicFollows' /\ PublishedBefore' /\ WaitCanEnd'
  BY <1>1, <1>2 DEF SamplesTookEffect, FailedByFault, TopicFollows, PublishedBefore, WaitCanEnd
<1>6. WithoutFaults'
  BY <1>2 DEF WithoutFaults
<1> QED
  BY <1>3, <1>4, <1>5, <1>6

\* The database's own steps give places back and take none.
LEMMA DatabaseKeeps == IInv /\ (Fire \/ Lapse) => IInv'
<1> SUFFICES ASSUME IInv, Fire \/ Lapse PROVE IInv'
  OBVIOUS
<1> USE FdbAssumption DEF IInv
<1>1. UNCHANGED <<pc, i, n, took, topic, held, last>>
  BY DEF Fire, Lapse
<1>2. \/ /\ w.state = "armed" /\ w' = [w EXCEPT !.state = "fired"]
         /\ UNCHANGED <<armed, faults>>
      \/ /\ w.state = "armed" /\ w' = [w EXCEPT !.state = "failed"]
         /\ UNCHANGED armed /\ faults < MaxFaults /\ faults' = faults + 1
      \/ /\ \E k \in armed : armed' = armed \ {k}
         /\ UNCHANGED w /\ faults < MaxFaults /\ faults' = faults + 1
  BY DEF Fire, Lapse, Fault
<1>3. /\ faults \in Nat /\ faults' \in 0..MaxFaults
      /\ faults' = 0 => faults = 0 /\ armed' = armed
      /\ armed' \subseteq armed
  BY <1>2 DEF TypeOK
<1>4. /\ w'.read = w.read /\ (w'.state = "none" <=> w.state = "none")
      /\ w'.state = "armed" => w.state = "armed"
      /\ w' \in [state : {"none", "armed", "fired", "failed"},
                 read : Values \cup {Nothing}]
  BY <1>2 DEF TypeOK
<1>5. TypeOK' /\ Positions'
  BY <1>1, <1>3, <1>4 DEF TypeOK, Positions, InPart2
<1>6. Places'
  <2>1. Cardinality(armed') \in Nat /\ Cardinality(armed) \in Nat
          /\ Cardinality(armed') <= Cardinality(armed)
    BY <1>3, ArmedFinite, FS_Subset, FS_CardinalityType
  <2>2. Outstanding' <= Outstanding
    BY <1>4, <2>1 DEF Outstanding
  <2> QED
    BY <1>1, <1>3, <1>4, <2>1, <2>2 DEF Places, Outstanding
<1>7. FailedByFault'
  BY <1>2, <1>3 DEF FailedByFault, TypeOK
<1>8. SamplesTookEffect' /\ TopicFollows' /\ PublishedBefore' /\ WaitCanEnd'
  BY <1>1, <1>4 DEF SamplesTookEffect, TopicFollows, PublishedBefore, WaitCanEnd
<1>9. WithoutFaults'
  BY <1>1, <1>3 DEF WithoutFaults, InPart2
<1> QED
  BY <1>5, <1>6, <1>7, <1>8, <1>9

\* Every step of the program and of the database keeps the invariant.
LEMMA NextIInv == IInv /\ [Next]_vars => IInv'
<1> SUFFICES ASSUME IInv, UNCHANGED vars PROVE IInv'
  BY TickKeeps, WatchKeeps, PublishKeepsIt, BlockKeeps, HoldKeeps, HoldErrorKeeps,
     ReleaseKeeps, AppendKeeps, NoTransactionKeeps, DatabaseKeeps DEF Next, Program
<1>1. UNCHANGED <<pc, i, n, took, topic, w, held, armed, last, faults>>
  BY DEF vars
<1>2. TypeOK' /\ SamplesTookEffect' /\ Positions'
  BY <1>1 DEF IInv, TypeOK, SamplesTookEffect, Positions, InPart2
<1>3. Places' /\ FailedByFault' /\ TopicFollows'
  BY <1>1 DEF IInv, Places, Outstanding, FailedByFault, TopicFollows
<1>4. PublishedBefore' /\ WaitCanEnd' /\ WithoutFaults'
  BY <1>1 DEF IInv, PublishedBefore, WaitCanEnd, WithoutFaults, InPart2
<1> QED
  BY <1>2, <1>3, <1>4 DEF IInv

\* Counters, watches and topic are what the program's position says, whatever
\* fails: for every number of rounds and every limit.
THEOREM PublisherInvariant == Spec => []IInv
BY InitIInv, NextIInv, PTL DEF Spec

\* The wait without a time limit (107) is for a watch that has woken up or
\* failed, or that the database owes a wake-up: the safety behind Ends, with
\* the one case that Ends excepts.
THEOREM PublisherWaits ==
  Spec => [](pc = "block" => \/ w.state \in {"fired", "failed"}
                             \/ w.state = "armed" /\ w.read # topic
                             \/ i = 0 /\ took["tick"] = 0 /\ w.read = topic)
<1>1. IInv => (pc = "block" => \/ w.state \in {"fired", "failed"}
                               \/ w.state = "armed" /\ w.read # topic
                               \/ i = 0 /\ took["tick"] = 0 /\ w.read = topic)
  BY DEF IInv, TypeOK, Places, WaitCanEnd
<1> QED
  BY <1>1, PublisherInvariant, PTL

\* Where a watch is refused, part 3 prints the database's limit and the watches
\* it has lost, for every limit and every earlier failure.
THEOREM PublisherHoldsLimit == Spec => HeldIsTheLimit
<1> DEFINE Limited == last' # last /\ last' = "too_many_watches"
                        => held = Limit + Cardinality((0..held - 1) \ armed)
<1>1. IInv /\ [Next]_vars => [Limited]_vars
  <2> SUFFICES ASSUME IInv, Next, last' # last, last' = "too_many_watches"
               PROVE  held = Limit + Cardinality((0..held - 1) \ armed)
    OBVIOUS
  <2>1. HoldError
    BY DEF Next, Program, Tick, Watch, Publish, Block, Hold, Release, Append,
       NoTransaction, Fire, Lapse
  <2>2. pc = "hold" /\ Outstanding >= Limit
    BY <2>1 DEF HoldError
  <2>3. Cardinality(armed) = Limit
    BY <2>2, RefusedAtLimit
  <2>4. held \in Nat /\ armed \subseteq 0..held - 1
    BY DEF IInv, TypeOK
  <2>5. IsFiniteSet(0..held - 1) /\ Cardinality(0..held - 1) = held
    BY <2>4, FS_Interval
  <2>6. Cardinality((0..held - 1) \ armed)
          = Cardinality(0..held - 1) - Cardinality((0..held - 1) \cap armed)
    BY <2>5, FS_Difference
  <2>7. (0..held - 1) \cap armed = armed
    BY <2>4
  <2>8. Cardinality((0..held - 1) \ armed) = held - Limit
    BY <2>3, <2>5, <2>6, <2>7
  <2>9. Limit \in Nat
    BY FdbAssumption
  <2> QED
    BY <2>4, <2>8, <2>9
<1> QED
  BY <1>1, PublisherInvariant, PTL DEF Spec, HeldIsTheLimit

\* As long as the database does not fail, the time of a wake-up ends with the
\* wake-up.
THEOREM PublisherWakeups == Spec => SamplesAreWakeups
<1> DEFINE Woken == n'.fire # n.fire /\ faults = 0 => w.state = "fired"
<1>1. IInv /\ [Next]_vars => [Woken]_vars
  <2> SUFFICES ASSUME IInv, Next, n'.fire # n.fire, faults = 0
               PROVE  w.state = "fired"
    OBVIOUS
  <2>1. "tick" \in Parts /\ "fire" \in Parts /\ "append" \in Parts
    BY DEF Parts
  <2>2. ASSUME NEW counted, Sample("tick", counted) \/ Sample("append", counted)
        PROVE  FALSE
    BY <2>1, <2>2 DEF IInv, TypeOK, Sample
  <2>3. Block
    BY <2>2 DEF Next, Program, Tick, Watch, Publish, Hold, HoldError, Release,
       Append, NoTransaction, Fire, Lapse
  <2>4. w.state \in {"fired", "failed"}
    BY <2>3 DEF Block
  <2> QED
    BY <2>4 DEF IInv, FailedByFault
<1> QED
  BY <1>1, PublisherInvariant, PTL DEF Spec, SamplesAreWakeups

\* A run without failures has a sample of every commit and every wake-up, and
\* prints the limit of the database if that is below the number tried.
THEOREM PublisherComplete ==
  Spec => [](pc = "done" /\ faults = 0 =>
               /\ n["tick"] = COMMITS /\ n["fire"] = Fires /\ n["append"] = COMMITS
               /\ held = IF Limit < WATCHES_TRY THEN Limit ELSE WATCHES_TRY)
<1>1. IInv => (pc = "done" /\ faults = 0 =>
                 /\ n["tick"] = COMMITS /\ n["fire"] = Fires /\ n["append"] = COMMITS
                 /\ held = IF Limit < WATCHES_TRY THEN Limit ELSE WATCHES_TRY)
  BY DEF IInv, WithoutFaults, InPart2
<1> QED
  BY <1>1, PublisherInvariant, PTL
=============================================================================
