------------------------- MODULE MeasurementsProofs -------------------------
(***************************************************************************)
(* build.py writes checked files only, and while runs are only added its   *)
(* files agree at every moment, for every list of tables and every set of  *)
(* run identifiers.                                                        *)
(***************************************************************************)
EXTENDS Measurements, TLAPS

\* What each loop of the script has established for the tables it has passed.
LoopInv ==
  /\ phase = "idle" => k = 1
  /\ phase = "insert" => \A n \in 1..(k - 1) : ~source[Order[n]].twice
  /\ phase \in {"verify", "copy"} => \A t \in Tables : ~source[t].twice
  /\ phase = "verify" =>
       \A n \in 1..(k - 1) : Refers(Ids(source), Order[n])
  /\ phase = "copy" => \A t \in Tables : Refers(Ids(source), t)
  /\ phase = "copy" /\ k > 1 => disk["run"] = source["run"].ids

\* Without deletions the run file never names a run that the lists have lost.
GrowInv == ~shrunk => /\ disk["run"] \subseteq source["run"].ids
                      /\ \A t \in Tables : Refers(disk, t)

IInv == TypeOK /\ LoopInv /\ GrowInv

\* The indices of Order, its tables, and the first of them.
LEMMA OrderFacts == /\ Len(Order) \in Nat \ {0}
                    /\ \A n \in 1..Len(Order) : Order[n] \in Tables
                    /\ \A t \in Tables : \E n \in 1..Len(Order) : t = Order[n]
                    /\ "run" \in Tables
                    /\ Order[1] = "run"
<1>1. Len(Order) \in Nat \ {0} /\ Order[1] = "run"
  BY OrderAssumption
<1>2. 1 \in 1..Len(Order)
  BY <1>1
<1> QED
  BY <1>1, <1>2 DEF Tables

\* A loop over Order stays in range and, when it ends, has passed every table.
LEMMA AdvanceFacts ==
  ASSUME TypeOK, NEW p, Advance(p)
  PROVE  \/ k < Len(Order) /\ phase' = phase /\ k' = k + 1
         \/ k = Len(Order) /\ phase' = p /\ k' = 1
BY OrderFacts DEF TypeOK, Advance

\* The committed files of an ended build satisfy the invariant.
LEMMA InitIInv == Init => IInv
<1> SUFFICES ASSUME Init PROVE IInv
  OBVIOUS
<1>1. TypeOK
  <2>1. source \in [Tables -> List] /\ disk = Ids(source)
    BY DEF Init
  <2>2. disk \in [Tables -> SUBSET RunIds]
    BY <2>1 DEF Ids, List
  <2>3. phase = "idle" /\ k = 1 /\ ~interrupted /\ ~shrunk
    BY DEF Init
  <2>4. interrupted \in BOOLEAN /\ shrunk \in BOOLEAN
    BY DEF Init
  <2> QED
    BY <2>1, <2>2, <2>3, <2>4, OrderFacts DEF TypeOK
<1>2. LoopInv
  BY DEF Init, LoopInv
<1>3. GrowInv
  BY OrderFacts DEF Init, GrowInv, Ids
<1> QED
  BY <1>1, <1>2, <1>3 DEF IInv

\* Every step of a maintainer and of the script keeps the invariant.
LEMMA NextIInv == IInv /\ [Next]_vars => IInv'
<1> SUFFICES ASSUME IInv, [Next]_vars PROVE IInv'
  OBVIOUS
<1> USE OrderFacts DEF IInv
<1>1. ASSUME NEW t \in Tables, Edit(t) PROVE IInv'
  <2>1. PICK l \in List : /\ source' = [source EXCEPT ![t] = l]
                          /\ shrunk' = (shrunk \/ (t = "run"
                               /\ ~(source[t].ids \subseteq l.ids)))
    BY <1>1 DEF Edit
  <2>2. phase = "idle" /\ UNCHANGED <<disk, phase, k, interrupted>>
    BY <1>1 DEF Edit
  <2>3. TypeOK'
    BY <2>1, <2>2 DEF TypeOK
  <2>4. LoopInv'
    BY <2>2 DEF LoopInv
  <2>5. GrowInv'
    <3>1. CASE t = "run"
      BY <2>1, <2>2, <3>1 DEF GrowInv, TypeOK, Refers
    <3>2. CASE t # "run"
      BY <2>1, <2>2, <3>2 DEF GrowInv, TypeOK, Refers
    <3> QED
      BY <3>1, <3>2
  <2> QED
    BY <2>3, <2>4, <2>5
<1>2. CASE Start
  <2>1. /\ phase = "idle" /\ phase' = "insert"
        /\ UNCHANGED <<source, disk, k, interrupted, shrunk>>
    BY <1>2 DEF Start
  <2>2. TypeOK'
    BY <2>1 DEF TypeOK
  <2>3. LoopInv'
    BY <2>1 DEF LoopInv
  <2>4. GrowInv'
    BY <2>1 DEF GrowInv, Refers
  <2> QED
    BY <2>2, <2>3, <2>4
<1>3. CASE Insert
  <2>1. phase = "insert" /\ UNCHANGED <<source, disk, interrupted, shrunk>>
    BY <1>3 DEF Insert
  <2>2. GrowInv'
    BY <2>1 DEF GrowInv, Refers
  <2>3. CASE source[Order[k]].twice
    <3>1. Exit
      BY <1>3, <2>3 DEF Insert
    <3>2. TypeOK' /\ LoopInv'
      BY <2>1, <3>1 DEF TypeOK, LoopInv, Exit
    <3> QED
      BY <2>2, <3>2
  <2>4. CASE ~source[Order[k]].twice
    <3>1. Advance("verify")
      BY <1>3, <2>4 DEF Insert
    <3>2. \/ k < Len(Order) /\ phase' = phase /\ k' = k + 1
          \/ k = Len(Order) /\ phase' = "verify" /\ k' = 1
      BY <3>1, AdvanceFacts
    <3>3. TypeOK'
      BY <2>1, <3>2 DEF TypeOK
    <3>4. \A n \in 1..k : ~source[Order[n]].twice
      BY <2>1, <2>4 DEF LoopInv, TypeOK
    <3>5. LoopInv'
      BY <2>1, <3>2, <3>4 DEF LoopInv, TypeOK
    <3> QED
      BY <2>2, <3>3, <3>5
  <2> QED
    BY <2>3, <2>4
<1>4. CASE Verify
  <2>1. phase = "verify" /\ UNCHANGED <<source, disk, interrupted, shrunk>>
    BY <1>4 DEF Verify
  <2>2. GrowInv'
    BY <2>1 DEF GrowInv, Refers
  <2>3. CASE ~Refers(Ids(source), Order[k])
    <3>1. Exit
      BY <1>4, <2>3 DEF Verify
    <3>2. TypeOK' /\ LoopInv'
      BY <2>1, <3>1 DEF TypeOK, LoopInv, Exit
    <3> QED
      BY <2>2, <3>2
  <2>4. CASE Refers(Ids(source), Order[k])
    <3>1. Advance("copy")
      BY <1>4, <2>4 DEF Verify
    <3>2. \/ k < Len(Order) /\ phase' = phase /\ k' = k + 1
          \/ k = Len(Order) /\ phase' = "copy" /\ k' = 1
      BY <3>1, AdvanceFacts
    <3>3. TypeOK'
      BY <2>1, <3>2 DEF TypeOK
    <3>4. \A n \in 1..k : Refers(Ids(source), Order[n])
      BY <2>1, <2>4 DEF LoopInv, TypeOK
    <3>5. \A t \in Tables : ~source[t].twice
      BY <2>1 DEF LoopInv
    <3>6. Ids(source') = Ids(source)
      BY <2>1
    <3>7. ASSUME k < Len(Order) PROVE LoopInv'
      BY <2>1, <3>2, <3>4, <3>5, <3>6, <3>7 DEF LoopInv, TypeOK
    <3>8. ASSUME k = Len(Order) PROVE LoopInv'
      <4>1. \A t \in Tables : Refers(Ids(source), t)
        BY <3>4, <3>8
      <4> QED
        BY <2>1, <3>2, <3>5, <3>6, <3>8, <4>1 DEF LoopInv
    <3>9. LoopInv'
      BY <3>2, <3>7, <3>8
    <3> QED
      BY <2>2, <3>3, <3>9
  <2> QED
    BY <2>3, <2>4
<1>5. CASE Copy
  <2> DEFINE t == Order[k]
  <2>1. /\ phase = "copy"
        /\ disk' = [disk EXCEPT ![t] = source[t].ids]
        /\ UNCHANGED <<source, shrunk>>
    BY <1>5 DEF Copy
  <2>2. \/ k < Len(Order) /\ phase' = phase /\ k' = k + 1
        \/ k = Len(Order) /\ phase' = "idle" /\ k' = 1
    BY <1>5, AdvanceFacts DEF Copy
  <2>3. interrupted' \in BOOLEAN
    BY <1>5 DEF Copy
  <2>4. t \in Tables /\ source[t].ids \in SUBSET RunIds
    BY DEF TypeOK, List
  <2>5. TypeOK'
    BY <2>1, <2>2, <2>3, <2>4 DEF TypeOK
  <2>6. disk'["run"] = source["run"].ids
    <3>1. CASE k = 1
      BY <2>1, <3>1 DEF TypeOK
    <3>2. CASE k # 1
      BY <2>1, <3>2 DEF TypeOK, LoopInv
    <3> QED
      BY <3>1, <3>2
  <2>7. LoopInv'
    BY <2>1, <2>2, <2>6 DEF LoopInv, Refers, Ids
  <2>8. GrowInv'
    <3> SUFFICES ASSUME ~shrunk, NEW u \in Tables PROVE Refers(disk', u)
      BY <2>1, <2>6 DEF GrowInv
    <3>1. Refers(Ids(source), t)
      BY <2>1, <2>4 DEF LoopInv
    <3>2. CASE u = t
      BY <2>1, <2>4, <2>6, <3>1, <3>2 DEF Refers, Ids, TypeOK
    <3>3. CASE u # t
      <4>1. disk'[u] = disk[u]
        BY <2>1, <3>3 DEF TypeOK
      <4>2. u = "run" \/ disk[u] \subseteq source["run"].ids
        BY DEF GrowInv, Refers
      <4> QED
        BY <2>6, <4>1, <4>2 DEF Refers
    <3> QED
      BY <3>2, <3>3
  <2> QED
    BY <2>5, <2>7, <2>8
<1>6. CASE Crash
  <2>1. Exit /\ UNCHANGED <<source, disk, interrupted, shrunk>>
    BY <1>6 DEF Crash
  <2> QED
    BY <2>1 DEF Exit, TypeOK, LoopInv, GrowInv, Refers
<1>7. CASE UNCHANGED vars
  <2>1. Ids(source') = Ids(source)
    BY <1>7 DEF vars
  <2>2. TypeOK'
    BY <1>7 DEF vars, TypeOK
  <2>3. LoopInv'
    BY <1>7, <2>1 DEF vars, LoopInv
  <2>4. GrowInv'
    BY <1>7 DEF vars, GrowInv
  <2> QED
    BY <2>2, <2>3, <2>4
<1> QED
  BY <1>1, <1>2, <1>3, <1>4, <1>5, <1>6, <1>7 DEF Next

\* What each loop has established, and what the files agree on.
THEOREM StoreInvariant == Spec => []IInv
BY InitIInv, NextIInv, PTL DEF Spec

\* While runs are only ever added, no row on disk cites a run that is not on
\* disk: in the middle of the copies of build.py:230-234 and after any crash.
THEOREM StoreAlwaysAgrees == Spec => []DiskAlwaysAgrees
<1>1. IInv => DiskAlwaysAgrees
  BY DEF IInv, GrowInv, DiskAlwaysAgrees
<1> QED
  BY <1>1, StoreInvariant, PTL

\* A file is replaced only when every list has passed both checks: the loops of
\* build.py:51-227 end before the first COPY.
THEOREM StoreWritesOnlyChecked == Spec => WritesOnlyChecked
<1>1. IInv /\ [Next]_vars => [disk' # disk => ListsAreSound]_vars
  <2> SUFFICES ASSUME IInv, [Next]_vars, disk' # disk PROVE ListsAreSound
    OBVIOUS
  <2>1. Copy
    BY DEF Next, vars, Edit, Start, Insert, Verify, Crash
  <2> QED
    BY <2>1 DEF Copy, IInv, LoopInv, ListsAreSound
<1> QED
  BY <1>1, StoreInvariant, PTL DEF Spec, WritesOnlyChecked
-----------------------------------------------------------------------------
(* Builds that end *)

\* The tables that a build has copied are those of the lists, and until it has
\* copied the last one it counts as interrupted.
CopyInv == /\ phase = "copy" =>
                \A n \in 1..(k - 1) : disk[Order[n]] = source[Order[n]].ids
           /\ phase = "copy" /\ k > 1 => interrupted
           /\ DiskAgrees

\* The committed files agree.
LEMMA InitCopyInv == Init => CopyInv
BY DEF Init, CopyInv, DiskAgrees

\* A copy that is not the last one leaves the build interrupted.
LEMMA CopyMarks == ASSUME Copy, k < Len(Order) PROVE interrupted'
<1>1. (k < Len(Order)) = TRUE
  OBVIOUS
<1>2. interrupted' = (k < Len(Order))
  BY DEF Copy
<1> QED
  BY <1>1, <1>2

\* The last copy of a build leaves the files as the lists are.
LEMMA LastCopy ==
  ASSUME IInv, CopyInv, Copy, k = Len(Order)
  PROVE  disk' = Ids(source)
<1>1. disk' = [disk EXCEPT ![Order[k]] = source[Order[k]].ids]
  BY DEF Copy
<1>2. \A n \in 1..(k - 1) : disk[Order[n]] = source[Order[n]].ids
  BY DEF CopyInv, Copy
<1>3. \A t \in Tables : disk'[t] = source[t].ids
  <2> TAKE t \in Tables
  <2>1. PICK n \in 1..Len(Order) : t = Order[n]
    BY OrderFacts
  <2>2. CASE t = Order[k]
    BY <1>1, <2>2 DEF IInv, TypeOK
  <2>3. CASE t # Order[k]
    <3>1. n \in 1..(k - 1)
      BY <2>1, <2>3, OrderFacts
    <3> QED
      BY <1>1, <1>2, <2>1, <2>3, <3>1 DEF IInv, TypeOK
  <2> QED
    BY <2>2, <2>3
<1>4. disk' = [t \in Tables |-> disk'[t]]
  BY <1>1 DEF IInv, TypeOK
<1> QED
  BY <1>3, <1>4 DEF Ids

\* Every step keeps it: only the last copy of a build clears interrupted.
LEMMA NextCopyInv == IInv /\ CopyInv /\ [Next]_vars => CopyInv'
<1> SUFFICES ASSUME IInv, CopyInv, [Next]_vars PROVE CopyInv'
  OBVIOUS
<1>1. CASE Copy
  <2>1. /\ phase = "copy"
        /\ disk' = [disk EXCEPT ![Order[k]] = source[Order[k]].ids]
        /\ interrupted' = (k < Len(Order)) /\ source' = source
    BY <1>1 DEF Copy
  <2>2. CASE k < Len(Order) /\ phase' = phase /\ k' = k + 1
    <3>1. \A n \in 1..k : disk'[Order[n]] = source[Order[n]].ids
      BY <2>1, <2>2, OrderFacts DEF IInv, TypeOK, CopyInv
    <3>2. interrupted'
      BY <1>1, <2>2, CopyMarks
    <3>3. phase' = "copy" => \A n \in 1..(k' - 1) : disk'[Order[n]] = source'[Order[n]].ids
      BY <2>1, <2>2, <3>1 DEF IInv, TypeOK
    <3> QED
      BY <3>2, <3>3 DEF CopyInv, DiskAgrees
  <2>3. CASE k = Len(Order) /\ phase' = "idle" /\ k' = 1
    <3>1. disk' = Ids(source)
      BY <1>1, <2>3, LastCopy
    <3>2. \A t \in Tables : Refers(Ids(source), t)
      BY <2>1 DEF IInv, LoopInv
    <3> QED
      BY <2>3, <3>1, <3>2 DEF CopyInv, DiskAgrees
  <2> QED
    BY <1>1, <2>2, <2>3, AdvanceFacts DEF IInv, Copy
<1>2. CASE ~Copy
  <2>1. disk' = disk /\ interrupted' = interrupted
    BY <1>2 DEF Next, Edit, Start, Insert, Verify, Crash, vars
  <2>2. DiskAgrees'
    BY <2>1 DEF CopyInv, DiskAgrees, Refers
  <2>3. phase' # "copy" \/ k' = 1 \/ UNCHANGED <<phase, k, source>>
    <3>1. CASE Insert
      BY <3>1, AdvanceFacts DEF Insert, IInv, Exit
    <3>2. CASE Verify
      BY <3>2, AdvanceFacts DEF Verify, IInv, Exit
    <3>3. CASE ~Insert /\ ~Verify
      BY <1>2, <3>3 DEF Next, Edit, Start, Crash, Exit, vars
    <3> QED
      BY <3>1, <3>2, <3>3
  <2> QED
    BY <2>1, <2>2, <2>3 DEF CopyInv
<1> QED
  BY <1>1, <1>2

\* The variables keep their types.
THEOREM StoreTypes == Spec => []TypeOK
<1>1. IInv => TypeOK
  BY DEF IInv
<1> QED
  BY <1>1, StoreInvariant, PTL

\* Whatever has been deleted, the files agree unless a build was cut short
\* between two copies (build.py:230-234).
THEOREM StoreAgrees == Spec => []DiskAgrees
<1>1. CopyInv => DiskAgrees
  BY DEF CopyInv
<1> QED
  BY <1>1, StoreInvariant, InitCopyInv, NextCopyInv, PTL DEF Spec

\* A build that ends has replaced every file, also after one that was cut short.
THEOREM StoreIsWhole == Spec => EndedBuildIsWhole
<1>1. IInv /\ CopyInv /\ [Next]_vars
        => [interrupted /\ ~interrupted' => disk' = Ids(source)]_vars
  <2> SUFFICES ASSUME IInv, CopyInv, Next, interrupted, ~interrupted'
               PROVE  disk' = Ids(source)
    OBVIOUS
  <2>1. Copy
    BY DEF Next, Edit, Start, Insert, Verify, Crash
  <2>2. ~(k < Len(Order))
    BY <2>1, CopyMarks
  <2>3. k = Len(Order)
    BY <2>2, OrderFacts DEF IInv, TypeOK
  <2> QED
    BY <2>1, <2>3, LastCopy
<1>2. Spec => [](IInv /\ CopyInv)
  BY StoreInvariant, InitCopyInv, NextCopyInv, PTL DEF Spec
<1> QED
  BY <1>1, <1>2, PTL DEF Spec, EndedBuildIsWhole
=============================================================================
