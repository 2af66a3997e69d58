--------------------------- MODULE DeliveryProofs ---------------------------
(***************************************************************************)
(* The gate, the publication and the two together.                         *)
(*                                                                         *)
(* main follows the rule whatever the pull requests add, however many of   *)
(* them there are and in whatever order their runs end, provided the       *)
(* ruleset requires the job rfd-numbers and is strict.  The site never     *)
(* goes back, and a group with nothing to do has published the last push,  *)
(* for any number of pushes, cancellations and failures.  The composition  *)
(* implements each of the two, so what they promise holds in it; with both *)
(* a number that the listing shows stays with its folder.                  *)
(***************************************************************************)
EXTENDS Delivery, TLAPS

-----------------------------------------------------------------------------
(* The gate *)

\* The part of TypeOK that the proof needs.
Shapes == /\ tip \in Nat
          /\ base \in [PRs -> Nat]
          /\ status \in [PRs -> [Jobs -> {"none", "queued", "ok", "failed"}]]
          /\ checked = [p \in PRs |-> checked[p]]
          /\ state \in [PRs -> {"none", "branch", "open", "merged"}]
          /\ adds \in [PRs -> Additions \cup {Nothing}]

GateInv == Shapes /\ MainFollowsRule /\ StatusIsCurrent /\ VerdictsHold

\* main starts as a tree that passes, with no pull request.
LEMMA InitGateInv == Init => GateInv
<1> SUFFICES ASSUME Init PROVE GateInv
  OBVIOUS
<1>1. Shapes
  BY DEF Init, Shapes
<1>2. MainFollowsRule
  BY GateAssumption DEF Init, MainFollowsRule
<1>3. StatusIsCurrent /\ VerdictsHold
  BY GateAssumption DEF Init, StatusIsCurrent, VerdictsHold
<1> QED
  BY <1>1, <1>2, <1>3 DEF GateInv

\* A new head commit, on a branch that took in no more than main has: its run
\* checks out the merge, and it has no verdict yet.
LEMMA EventKeeps ==
  ASSUME GateInv, NEW p \in PRs, NEW a \in Additions \cup {Nothing},
         Event(p, a),
         UNCHANGED <<main, tip>>,
         state' = [state EXCEPT ![p] = "open"],
         adds' = [adds EXCEPT ![p] = a],
         base' \in {base, [base EXCEPT ![p] = tip]}
  PROVE  GateInv'
<1> USE DEF GateInv
<1>1. \A q \in PRs : q # p => /\ checked'[q] = checked[q]
                               /\ status'[q] = status[q]
                               /\ base'[q] = base[q]
                               /\ state'[q] = state[q] /\ adds'[q] = adds[q]
  BY DEF Shapes, Event
<1>2. /\ status'[p]["rfd-numbers"] \in {"queued", "none"}
      /\ status'[p]["rfd-numbers"] # "none" => checked'[p] = Merged(main, a)
  BY GateAssumption DEF Shapes, Event
<1>3. adds'[p] = a
  BY DEF Shapes
<1>4. Shapes'
  BY DEF Shapes, Event
<1>5. MainFollowsRule'
  BY DEF MainFollowsRule
<1>6. StatusIsCurrent'
  <2> SUFFICES ASSUME NEW q \in PRs, state'[q] = "open", base'[q] = tip,
                      status'[q]["rfd-numbers"] # "none"
               PROVE  checked'[q] = Merged(main, adds'[q])
    BY DEF StatusIsCurrent
  <2>1. CASE q = p
    BY <1>2, <1>3, <2>1
  <2>2. CASE q # p
    BY <1>1, <2>2 DEF StatusIsCurrent
  <2> QED
    BY <2>1, <2>2
<1>7. VerdictsHold'
  <2> SUFFICES ASSUME NEW q \in PRs
               PROVE  /\ base'[q] <= tip
                      /\ status'[q]["rfd-numbers"] = "ok" => Check(checked'[q]) = {}
    BY DEF VerdictsHold
  <2>1. CASE q = p
    BY <1>2, <2>1 DEF Shapes, VerdictsHold
  <2>2. CASE q # p
    BY <1>1, <2>2 DEF VerdictsHold
  <2> QED
    BY <2>1, <2>2
<1> QED
  BY <1>4, <1>5, <1>6, <1>7

\* A merge of an up-to-date branch whose numbers passed gives a main that
\* passes, and leaves every other branch behind.
LEMMA MergeKeeps ==
  ASSUME GateInv, Strict, "rfd-numbers" \in Required, NEW p \in PRs, Merge(p)
  PROVE  GateInv'
<1> USE DEF GateInv
<1>1. main' = checked[p] /\ Check(checked[p]) = {}
  BY DEF Merge, StatusIsCurrent, VerdictsHold
<1>2. MainFollowsRule'
  BY <1>1 DEF MainFollowsRule
<1>3. Shapes'
  BY DEF Shapes, Merge
<1>4. \A q \in PRs : base'[q] <= tip /\ base'[q] # tip'
  BY DEF Shapes, VerdictsHold, Merge
<1>5. StatusIsCurrent'
  BY <1>4 DEF StatusIsCurrent
<1>6. VerdictsHold'
  BY <1>4 DEF Shapes, VerdictsHold, Merge
<1> QED
  BY <1>2, <1>3, <1>5, <1>6

\* Every step keeps the invariant.
LEMMA NextGateInv ==
  ASSUME Strict, "rfd-numbers" \in Required
  PROVE  GateInv /\ [Next]_vars => GateInv'
<1> SUFFICES ASSUME GateInv, [Next]_vars PROVE GateInv'
  OBVIOUS
<1>1. ASSUME NEW p \in PRs, Branch(p) PROVE GateInv'
  <2>1. Shapes'
    BY <1>1 DEF GateInv, Shapes, Branch
  <2>2. MainFollowsRule'
    BY <1>1 DEF GateInv, MainFollowsRule, Branch
  <2>3. state'[p] = "branch"
    BY <1>1 DEF GateInv, Shapes, Branch
  <2>4. \A q \in PRs : q # p => /\ state'[q] = state[q] /\ adds'[q] = adds[q]
                               /\ base'[q] = base[q]
    BY <1>1 DEF GateInv, Shapes, Branch
  <2>5. StatusIsCurrent'
    BY <1>1, <2>3, <2>4 DEF GateInv, StatusIsCurrent, Branch
  <2>6. VerdictsHold'
    BY <1>1 DEF GateInv, Shapes, VerdictsHold, Branch
  <2> QED
    BY <2>1, <2>2, <2>5, <2>6 DEF GateInv
<1>2. ASSUME NEW p \in PRs, Open(p) PROVE GateInv'
  <2>1. adds' = [adds EXCEPT ![p] = adds[p]] /\ adds[p] \in Additions \cup {Nothing}
    BY <1>2 DEF GateInv, Shapes, Open
  <2> QED
    BY <1>2, <2>1, EventKeeps DEF Open
<1>3. ASSUME NEW p \in PRs, Push(p) PROVE GateInv'
  <2>1. PICK a \in Additions : adds' = [adds EXCEPT ![p] = a] /\ Event(p, a)
    BY <1>3 DEF Push
  <2>2. state' = [state EXCEPT ![p] = "open"]
    BY <1>3 DEF GateInv, Shapes, Push
  <2> QED
    BY <1>3, <2>1, <2>2, EventKeeps DEF Push
<1>4. ASSUME NEW p \in PRs, UpdateBranch(p) PROVE GateInv'
  <2>1. /\ adds' = [adds EXCEPT ![p] = adds[p]]
        /\ adds[p] \in Additions \cup {Nothing}
        /\ state' = [state EXCEPT ![p] = "open"]
    BY <1>4 DEF GateInv, Shapes, UpdateBranch
  <2> QED
    BY <1>4, <2>1, EventKeeps DEF UpdateBranch
<1>5. ASSUME NEW p \in PRs, RunNumbers(p) \/ RunOther(p) PROVE GateInv'
  <2>0. PICK j \in Jobs, verdict \in {"ok", "failed"} :
          /\ status[p][j] = "queued"
          /\ status' = [status EXCEPT ![p][j] = verdict]
          /\ j = "rfd-numbers" /\ verdict = "ok" => Check(checked[p]) = {}
          /\ UNCHANGED <<main, tip, state, adds, base, checked>>
    <3>1. CASE RunNumbers(p)
      BY <3>1, GateAssumption DEF RunNumbers
    <3>2. CASE RunOther(p)
      BY <3>2, GateAssumption DEF RunOther
    <3> QED
      BY <1>5, <3>1, <3>2
  <2>1. Shapes'
    BY <2>0 DEF GateInv, Shapes
  <2>2. MainFollowsRule'
    BY <2>0 DEF GateInv, MainFollowsRule
  <2>3. \A q \in PRs :
          /\ status'[q]["rfd-numbers"] # "none" => status[q]["rfd-numbers"] # "none"
          /\ status'[q]["rfd-numbers"] = "ok"
               => status[q]["rfd-numbers"] = "ok" \/ Check(checked[q]) = {}
    BY <2>0, GateAssumption DEF GateInv, Shapes
  <2>4. StatusIsCurrent'
    BY <2>0, <2>3 DEF GateInv, StatusIsCurrent
  <2>5. VerdictsHold'
    BY <2>0, <2>3 DEF GateInv, VerdictsHold
  <2> QED
    BY <2>1, <2>2, <2>4, <2>5 DEF GateInv
<1>6. ASSUME NEW p \in PRs, Merge(p) PROVE GateInv'
  BY <1>6, MergeKeeps
<1>7. CASE MergeOther
  <2>1. \A q \in PRs : base'[q] <= tip' /\ base'[q] # tip'
    BY <1>7 DEF GateInv, Shapes, VerdictsHold, MergeOther
  <2>2. Shapes' /\ MainFollowsRule'
    BY <1>7 DEF GateInv, Shapes, MainFollowsRule, MergeOther
  <2>3. StatusIsCurrent'
    BY <2>1 DEF StatusIsCurrent
  <2>4. VerdictsHold'
    BY <1>7, <2>1 DEF GateInv, VerdictsHold, MergeOther
  <2> QED
    BY <2>2, <2>3, <2>4 DEF GateInv
<1>8. CASE UNCHANGED vars
  BY <1>8 DEF vars, GateInv, Shapes, MainFollowsRule, StatusIsCurrent,
     VerdictsHold
<1> QED
  BY <1>1, <1>2, <1>3, <1>4, <1>5, <1>6, <1>7, <1>8 DEF Next

\* Where the ruleset requires rfd-numbers and is strict, main never breaks the
\* rule: also when any number of authors take the same serial at once.
THEOREM MainStaysValid ==
  ASSUME Strict, "rfd-numbers" \in Required
  PROVE  Spec => []MainFollowsRule
<1>1. Spec => []GateInv
  BY InitGateInv, NextGateInv, PTL DEF Spec
<1> QED
  BY <1>1, PTL DEF GateInv

\* What carries it: verdicts are verdicts on the merge they were made for.
THEOREM VerdictsAreCurrent ==
  ASSUME Strict, "rfd-numbers" \in Required
  PROVE  Spec => []VerdictsStand
<1>1. Spec => []GateInv
  BY InitGateInv, NextGateInv, PTL DEF Spec
<1>2. GateInv => VerdictsStand
  BY DEF GateInv, VerdictsStand
<1> QED
  BY <1>1, <1>2, PTL

\* "A change is tested against the tip it joins" (rfd/2015, DETAILS.md:108).
THEOREM ChangesAreTested ==
  ASSUME Strict, "rfd-numbers" \in Required
  PROVE  Spec => TestedAgainstTip
<1> DEFINE Tested == main' # main => \E p \in PRs : state'[p] # state[p] /\ checked[p] = main'
<1>1. GateInv /\ [Next]_vars => [Tested]_vars
  <2> SUFFICES ASSUME GateInv, Next, main' # main
               PROVE  \E p \in PRs : state'[p] # state[p] /\ checked[p] = main'
    OBVIOUS
  <2>1. PICK p \in PRs : Merge(p)
    BY DEF Next, MergeOther, Branch, Open, Push, UpdateBranch, RunNumbers, RunOther
  <2>2. checked[p] = main'
    BY <2>1 DEF GateInv, StatusIsCurrent, Merge
  <2>3. state'[p] # state[p]
    BY <2>1 DEF GateInv, Shapes, Merge
  <2> QED
    BY <2>2, <2>3
<1>2. Spec => []GateInv
  BY InitGateInv, NextGateInv, PTL DEF Spec
<1> QED
  BY <1>1, <1>2, PTL DEF Spec, TestedAgainstTip
-----------------------------------------------------------------------------
(* Types, whatever the ruleset *)

\* A tree with an ALIASES.md stays one when a pull request merges.
LEMMA MergedIsTree ==
  ASSUME NEW t, IsTree(t), t.aliases \subseteq Num, NEW a \in Additions
  PROVE  IsTree(Merged(t, a)) /\ Merged(t, a).aliases \subseteq Num
<1> DEFINE m == Merged(t, a)
<1>0. a.name \in Name /\ a.fm \in Num \cup {Nothing} /\ a.title \in Num \cup {Nothing}
  BY GateAssumption
<1>1. DOMAIN t = {"rfd", "dirs", "index", "links", "citing", "aliases"}
  BY DEF IsTree
<1>2. /\ DOMAIN m = DOMAIN t
      /\ m.rfd = t.rfd /\ m.links = t.links /\ m.citing = t.citing
      /\ m.dirs = t.dirs \cup {a.name}
      /\ m.index = [d \in t.dirs \cup {a.name} |->
                     IF d = a.name THEN [fm |-> a.fm, title |-> a.title]
                                   ELSE t.index[d]]
      /\ m.aliases = IF a.row THEN t.aliases \cup {a.name.num} ELSE t.aliases
  BY <1>1 DEF Merged
<1>3. m.dirs \subseteq Name
  BY <1>0, <1>2 DEF IsTree
<1>4. m.index \in [m.dirs -> Index \cup {Nothing}]
  BY <1>0, <1>2 DEF IsTree, Index
<1>5. m.aliases \subseteq Num
  BY <1>0, <1>2 DEF Name
<1> HIDE DEF m
<1>6. IsTree(m)
  BY <1>1, <1>2, <1>3, <1>4, <1>5 DEF IsTree
<1> QED
  BY <1>5, <1>6 DEF m

Typed == TypeOK /\ main.aliases \subseteq Num

\* The first tree passes the check, so it has an ALIASES.md.
LEMMA InitTyped == Init => Typed
<1> SUFFICES ASSUME Init PROVE Typed
  OBVIOUS
<1>1. FirstTree.aliases # Nothing
  <2>1. ReferenceProblems(FirstTree) = {}
    BY GateAssumption DEF Check, Problem
  <2> QED
    BY <2>1 DEF ReferenceProblems, Problem
<1>2. FirstTree.aliases \subseteq Num
  BY <1>1, GateAssumption DEF IsTree
<1> QED
  BY <1>2, GateAssumption DEF Init, Typed, TypeOK

\* Only a merge changes main, and what it adds is an addition.
LEMMA NextTyped == Typed /\ [Next]_vars => Typed'
<1> SUFFICES ASSUME Typed, [Next]_vars PROVE Typed'
  OBVIOUS
<1> USE DEF Typed, TypeOK
<1>1. ASSUME NEW p \in PRs, Merge(p) PROVE Typed'
  <2>1. adds[p] \in Additions
    BY <1>1 DEF Merge
  <2>2. main' = Merged(main, adds[p])
    BY <1>1 DEF Merge
  <2>3. IsTree(main') /\ main'.aliases \subseteq Num
    BY <2>1, <2>2, MergedIsTree
  <2> QED
    BY <1>1, <2>3 DEF Merge
<1>2. ASSUME NEW p \in PRs, NEW a \in Additions, Event(p, a),
             UNCHANGED <<main, tip>>,
             state' \in {state, [state EXCEPT ![p] = "open"]},
             adds' = [adds EXCEPT ![p] = a],
             base' \in {base, [base EXCEPT ![p] = tip]}
      PROVE  Typed'
  <2>1. status' \in [PRs -> [Jobs -> {"none", "queued", "ok", "failed"}]]
    <3>1. [j \in Jobs |-> IF Mergeable(a) THEN "queued" ELSE "none"]
            \in [Jobs -> {"none", "queued", "ok", "failed"}]
      OBVIOUS
    <3> QED
      BY <1>2, <3>1 DEF Event
  <2>2. DOMAIN checked' = PRs
    BY <1>2 DEF Event
  <2>3. state' \in [PRs -> {"none", "branch", "open", "merged"}]
    BY <1>2
  <2>4. adds' \in [PRs -> Additions \cup {Nothing}]
    BY <1>2
  <2>5. \A q \in PRs : state'[q] # "none" => adds'[q] # Nothing
    BY <1>2, GateAssumption
  <2>6. base' \in [PRs -> Nat]
    BY <1>2
  <2>7. IsTree(main') /\ main'.aliases \subseteq Num /\ tip' \in Nat
    BY <1>2
  <2> QED
    BY <2>1, <2>2, <2>3, <2>4, <2>5, <2>6, <2>7
<1>3. ASSUME NEW p \in PRs, Open(p) \/ UpdateBranch(p) PROVE Typed'
  <2>1. adds[p] \in Additions /\ adds' = [adds EXCEPT ![p] = adds[p]]
    BY <1>3 DEF Open, UpdateBranch
  <2> QED
    BY <1>2, <1>3, <2>1 DEF Open, UpdateBranch
<1>4. ASSUME NEW p \in PRs, Push(p) PROVE Typed'
  BY <1>2, <1>4 DEF Push
<1>5. ASSUME NEW p \in PRs, Branch(p) PROVE Typed'
  BY <1>5, GateAssumption DEF Branch
<1>6. ASSUME NEW p \in PRs, RunNumbers(p) \/ RunOther(p) PROVE Typed'
  BY <1>6, GateAssumption DEF RunNumbers, RunOther
<1>7. CASE MergeOther
  BY <1>7 DEF MergeOther
<1>8. CASE UNCHANGED vars
  BY <1>8 DEF vars
<1> QED
  BY <1>1, <1>3, <1>4, <1>5, <1>6, <1>7, <1>8 DEF Next

\* The variables keep their types; in particular main stays a tree.
THEOREM GateTypes == Spec => []TypeOK
<1>1. Typed => TypeOK
  BY DEF Typed
<1> QED
  BY <1>1, InitTyped, NextTyped, PTL DEF Spec
-----------------------------------------------------------------------------
(* The publication *)

\* The concurrency group holds one run and one waiting push at most.
OneRun == /\ \A r, q \in running : r = q
          /\ \A v, w \in waiting : v = w

\* The site, the run and the waiting push follow each other in this order, and
\* a run that has failed is behind those that are still to come.
InOrder == /\ \A r \in running : site <= r.version /\ failed < r.version
           /\ \A v \in waiting : site <= v /\ failed < v
           /\ \A v \in waiting, r \in running : r.version < v

\* The last push is on the site, on its way to it, or has failed.
LatestIsKept == \/ site = pushed \/ failed = pushed
                \/ pushed \in waiting
                \/ \E r \in running : r.version = pushed /\ ~r.cancelled

PubInv == PubTypeOK /\ OneRun /\ InOrder /\ LatestIsKept

Run == [version : 1..pushed, step : {"render", "deploy"}, cancelled : BOOLEAN]

\* Nothing has been pushed.
LEMMA PubInitInv == PubInit => PubInv
BY PushAssumption DEF PubInit, PubInv, PubTypeOK, OneRun, InOrder, LatestIsKept

\* Every step of the author, GitHub and a run keeps the invariant.
LEMMA PubNextInv == PubInv /\ [PubNext]_pubVars => PubInv'
<1> SUFFICES ASSUME PubInv, [PubNext]_pubVars PROVE PubInv'
  OBVIOUS
<1> USE PushAssumption DEF PubInv
<1>0. /\ pushed \in 0..MaxPushes /\ site \in 0..pushed /\ failed \in 0..pushed
      /\ waiting \subseteq 1..pushed
      /\ \A r \in running : /\ r \in Run
                            /\ r.version \in 1..pushed
  BY DEF PubTypeOK, Run
<1>1. CASE PushMain
  <2>1. /\ pushed' = pushed + 1 /\ waiting' = {pushed + 1} /\ pushed < MaxPushes
        /\ running' = {[r EXCEPT !.cancelled = TRUE] : r \in running}
        /\ UNCHANGED <<site, failed>>
    BY <1>1 DEF PushMain
  <2>2. \A q \in running' : \E r \in running :
          /\ q = [version |-> r.version, step |-> r.step, cancelled |-> TRUE]
          /\ q.version = r.version
    BY <2>1, <1>0 DEF Run
  <2>3. PubTypeOK'
    <3>1. pushed' \in 0..MaxPushes /\ site' \in 0..pushed' /\ failed' \in 0..pushed'
      BY <2>1, <1>0
    <3>2. waiting' \subseteq 1..pushed'
      BY <2>1, <1>0
    <3>3. \A q \in running' : q \in [version : 1..pushed',
                                     step : {"render", "deploy"},
                                     cancelled : BOOLEAN]
      <4> TAKE q \in running'
      <4>1. PICK r \in running : q = [version |-> r.version, step |-> r.step,
                                      cancelled |-> TRUE]
        BY <2>2
      <4>2. r.version \in 1..pushed' /\ r.step \in {"render", "deploy"}
        BY <2>1, <1>0 DEF Run
      <4> QED
        BY <4>1, <4>2
    <3> QED
      BY <3>1, <3>2, <3>3 DEF PubTypeOK
  <2>4. OneRun'
    BY <2>1 DEF OneRun
  <2>5. InOrder'
    BY <2>1, <2>2, <1>0 DEF InOrder
  <2>6. LatestIsKept'
    BY <2>1 DEF LatestIsKept
  <2> QED
    BY <2>3, <2>4, <2>5, <2>6
<1>2. CASE Start
  <2>1. PICK v \in waiting :
          /\ waiting' = waiting \ {v}
          /\ running' = {[version |-> v, step |-> "render", cancelled |-> FALSE]}
    BY <1>2 DEF Start
  <2>2. UNCHANGED <<pushed, site, failed>>
    BY <1>2 DEF Start
  <2>3. waiting' = {}
    BY <2>1 DEF OneRun
  <2>4. PubTypeOK'
    BY <2>1, <2>2, <2>3, <1>0 DEF PubTypeOK
  <2>5. OneRun' /\ InOrder'
    BY <2>1, <2>2, <2>3 DEF OneRun, InOrder
  <2>6. LatestIsKept'
    BY <1>2, <2>1, <2>2 DEF OneRun, LatestIsKept, Start
  <2> QED
    BY <2>4, <2>5, <2>6
<1>3. CASE Render
  <2>1. PICK r \in running :
          /\ ~r.cancelled
          /\ running' = (running \ {r}) \cup {[r EXCEPT !.step = "deploy"]}
    BY <1>3 DEF Render
  <2>2. UNCHANGED <<pushed, waiting, site, failed>>
    BY <1>3 DEF Render
  <2>3. running' = {[version |-> r.version, step |-> "deploy",
                     cancelled |-> r.cancelled]}
    BY <2>1, <1>0 DEF OneRun, Run
  <2>4. PubTypeOK'
    BY <2>2, <2>3, <1>0 DEF PubTypeOK, Run
  <2>5. OneRun' /\ InOrder'
    BY <2>2, <2>3 DEF OneRun, InOrder
  <2>6. LatestIsKept'
    BY <2>1, <2>2, <2>3 DEF OneRun, LatestIsKept
  <2> QED
    BY <2>4, <2>5, <2>6
<1>4. CASE Deploy
  <2>1. PICK r \in running : site' = r.version /\ running' = running \ {r}
    BY <1>4 DEF Deploy
  <2>2. UNCHANGED <<pushed, waiting, failed>>
    BY <1>4 DEF Deploy
  <2>3. running' = {}
    BY <2>1 DEF OneRun
  <2>4. PubTypeOK'
    BY <2>1, <2>2, <2>3, <1>0 DEF PubTypeOK
  <2>5. OneRun' /\ InOrder'
    BY <2>1, <2>2, <2>3, <1>0 DEF OneRun, InOrder
  <2>6. LatestIsKept'
    BY <2>1, <2>2, <2>3, <1>0 DEF OneRun, InOrder, LatestIsKept
  <2> QED
    BY <2>4, <2>5, <2>6
<1>5. CASE Cancel
  <2>1. /\ running' \subseteq running /\ UNCHANGED <<pushed, waiting, site, failed>>
        /\ \A r \in running : r.cancelled \/ r \in running'
    BY <1>5 DEF Cancel
  <2> QED
    BY <2>1 DEF PubTypeOK, OneRun, InOrder, LatestIsKept
<1>6. CASE Fail
  <2>1. PICK r \in running : running' = running \ {r} /\ failed' = r.version
    BY <1>6 DEF Fail
  <2>2. UNCHANGED <<pushed, waiting, site>>
    BY <1>6 DEF Fail
  <2>3. running' = {}
    BY <2>1 DEF OneRun
  <2>4. PubTypeOK'
    BY <2>1, <2>2, <2>3, <1>0 DEF PubTypeOK
  <2>5. OneRun' /\ InOrder'
    BY <2>1, <2>2, <2>3 DEF OneRun, InOrder
  <2>6. LatestIsKept'
    BY <2>1, <2>2, <2>3, <1>0 DEF OneRun, InOrder, LatestIsKept
  <2> QED
    BY <2>4, <2>5, <2>6
<1>7. CASE UNCHANGED pubVars
  BY <1>7 DEF pubVars, PubTypeOK, OneRun, InOrder, LatestIsKept
<1> QED
  BY <1>1, <1>2, <1>3, <1>4, <1>5, <1>6, <1>7 DEF PubNext

\* The versions of the site, the run and the waiting push are in order.
THEOREM PublishInvariant == PubSpec => []PubInv
BY PubInitInv, PubNextInv, PTL DEF PubSpec

\* Only a deploy moves the site, and its run is not behind the site.
LEMMA DeployForward == PubInv /\ [PubNext]_pubVars => [site' >= site]_pubVars
<1> SUFFICES ASSUME PubInv, PubNext PROVE site' >= site
  OBVIOUS
<1>1. site \in Nat
  BY DEF PubInv, PubTypeOK
<1>2. CASE Deploy
  <2>1. PICK r \in running : site' = r.version
    BY <1>2 DEF Deploy
  <2>2. r.version \in Nat /\ site <= r.version
    BY DEF PubInv, PubTypeOK, InOrder
  <2> QED
    BY <1>1, <2>1, <2>2
<1>3. CASE ~Deploy
  BY <1>1, <1>3 DEF PubNext, PushMain, Start, Render, Cancel, Fail
<1> QED
  BY <1>2, <1>3

\* Whatever is cancelled or fails, no deploy brings an older version back:
\* publish.yml:7-9 keeps two runs from overtaking each other.
THEOREM SiteNeverOlder == PubSpec => NeverOlder
BY DeployForward, PublishInvariant, PTL DEF PubSpec, NeverOlder

\* A push that waits may be replaced, a run may be cancelled or fail: still, once
\* the group has nothing to do, what it owes is the last push and nothing else.
\* This is the safety behind CatchesUp.
THEOREM QuietGroupIsLatest == PubSpec => []QuietIsLatest
<1>1. PubInv => QuietIsLatest
  BY DEF PubInv, LatestIsKept, QuietIsLatest
<1> QED
  BY <1>1, PublishInvariant, PTL
-----------------------------------------------------------------------------
(* The composition *)

\* Every step of the whole is one of the gate or none.
LEMMA StepOfGate == [DeliveryNext]_deliveryVars => [Next]_vars
BY DEF DeliveryNext, Author, Gate, Land, Publication, Next, deliveryVars, vars

\* Every step of the whole is one of the publication or none.
LEMMA StepOfPublication == [DeliveryNext]_deliveryVars => [PubNext]_pubVars
BY DEF DeliveryNext, Author, Gate, Land, Publication, PubNext, deliveryVars,
   pubVars

\* What authors, jobs and merges do in the composition the gate allows.
THEOREM DeliveryImplementsGate == DeliverySpec => Spec
BY StepOfGate, PTL DEF DeliverySpec, DeliveryInit, Spec

\* What pushes and runs do in the composition is a behaviour of publish.yml's
\* group, its fairness included: CatchesUp carries over.
THEOREM DeliveryImplementsPublish == DeliverySpec => PubSpec
BY StepOfPublication, PTL DEF DeliverySpec, DeliveryInit, PubSpec

\* The gate holds in the composition.
THEOREM GateHolds ==
  ASSUME Strict, "rfd-numbers" \in Required
  PROVE  DeliverySpec => []GateInv
BY InitGateInv, NextGateInv, StepOfGate, PTL DEF DeliverySpec, DeliveryInit

\* The publication holds in the composition.
THEOREM PublicationHolds == DeliverySpec => []PubInv
BY PubInitInv, PubNextInv, StepOfPublication, PTL DEF DeliverySpec, DeliveryInit

\* A merge is a push, so the versions that publish.yml is started for are those
\* of main.
InStep == pushed = tip /\ DOMAIN trees = 0..pushed /\ trees[pushed] = main

\* Older trees are kept, and each later one has their folders.
Growing == /\ InStep
           /\ pushed \in Nat
           /\ \A v \in 0..pushed : trees[v].dirs \subseteq main.dirs

\* The first tree is the only one.
LEMMA InitGrowing == DeliveryInit => Growing
<1> SUFFICES ASSUME DeliveryInit PROVE Growing
  OBVIOUS
<1>1. pushed = 0 /\ tip = 0 /\ main = FirstTree /\ trees = [v \in {0} |-> FirstTree]
  BY DEF DeliveryInit, Init, PubInit
<1>2. 0..0 = {0}
  OBVIOUS
<1> QED
  BY <1>1, <1>2 DEF Growing, InStep

\* A merge adds a tree with more folders; nothing else touches main.
LEMMA NextGrowing ==
  Growing /\ IsTree(main) /\ [DeliveryNext]_deliveryVars => Growing'
<1> SUFFICES ASSUME Growing, IsTree(main), [DeliveryNext]_deliveryVars
             PROVE  Growing'
  OBVIOUS
<1>1. CASE Land
  <2>1. pushed' = pushed + 1 /\ tip' = tip + 1
    BY <1>1 DEF Land, PushMain, Merge, MergeOther
  <2>2. trees' = [v \in 0..pushed' |-> IF v > pushed THEN main' ELSE trees[v]]
    BY <1>1 DEF Land
  <2>3. main.dirs \subseteq main'.dirs
    <3>1. CASE MergeOther
      BY <3>1 DEF MergeOther
    <3>2. ASSUME NEW p \in PRs, Merge(p) PROVE main.dirs \subseteq main'.dirs
      <4>1. main' = Merged(main, adds[p])
        BY <3>2 DEF Merge
      <4>2. main'.dirs = main.dirs \cup {adds[p].name}
        BY <4>1 DEF Merged, IsTree
      <4> QED
        BY <4>2
    <3> QED
      BY <1>1, <3>1, <3>2 DEF Land
  <2>4. InStep'
    BY <2>1, <2>2 DEF Growing, InStep
  <2>5. \A v \in 0..pushed' : trees'[v].dirs \subseteq main'.dirs
    BY <2>1, <2>2, <2>3 DEF Growing, InStep
  <2> QED
    BY <2>1, <2>4, <2>5 DEF Growing
<1>2. ASSUME UNCHANGED <<main, tip, pushed, trees>> PROVE Growing'
  BY <1>2 DEF Growing, InStep
<1>3. ASSUME ~Land PROVE UNCHANGED <<main, tip, pushed, trees>>
  BY <1>3 DEF DeliveryNext, Author, Gate, Publication, Branch, Push, Open,
     UpdateBranch, RunNumbers, RunOther, Start, Render, Deploy, Cancel, Fail,
     deliveryVars, vars, pubVars
<1> QED
  BY <1>1, <1>2, <1>3

\* Where check() finds nothing, no two listed folders have one number.
LEMMA CheckedAreApart ==
  ASSUME NEW t, IsTree(t), Check(t) = {},
         NEW d \in Listed(t), NEW e \in Listed(t), d.num = e.num
  PROVE  d = e
<1>1. NumberProblems(t) = {}
  BY DEF Check, Problem
<1>2. Problem("name", Listed(t) \ Valid(t)) = {}
  BY <1>1 DEF NumberProblems
<1>3. d \in Valid(t) /\ e \in Valid(t)
  BY <1>2 DEF Problem
<1>4. ASSUME NEW x \in Valid(t), NEW y \in Valid(t), x.num = y.num
      PROVE  ~(y.slug < x.slug)
  <2> DEFINE S == {z \in Valid(t) : \E w \in Valid(t) : w.num = z.num /\ w.slug < z.slug}
  <2>1. Problem("serial", S) = {}
    BY <1>1 DEF NumberProblems
  <2>2. S = {}
    BY <2>1 DEF Problem
  <2> QED
    BY <1>4, <2>2
<1>5. d \in Name /\ e \in Name /\ d.form = "hex" /\ e.form = "hex"
  BY <1>3 DEF IsTree, Listed, Valid
<1>6. d.slug = e.slug
  BY <1>3, <1>4, <1>5 DEF Name
<1> QED
  BY <1>5, <1>6 DEF Name

\* The variables keep their types.
THEOREM TypesHold == DeliverySpec => [](TypeOK /\ PubTypeOK)
<1>1. DeliverySpec => []Typed
  BY InitTyped, NextTyped, StepOfGate, PTL DEF DeliverySpec, DeliveryInit
<1>2. Typed => TypeOK
  BY DEF Typed
<1>3. PubInv => PubTypeOK
  BY DEF PubInv
<1> QED
  BY <1>1, <1>2, <1>3, PublicationHolds, PTL

\* publish.yml is started for every version of main, and the trees grow.
LEMMA GrowingHolds == DeliverySpec => []Growing
<1>1. TypeOK => IsTree(main)
  BY DEF TypeOK
<1> QED
  BY <1>1, InitGrowing, NextGrowing, TypesHold, PTL DEF DeliverySpec

\* What has merged is in main.
MergedIsIn == \A p \in PRs : state[p] = "merged" => adds[p].name \in main.dirs

\* A merge brings its folder into main, no merge takes one out, and a pull
\* request that has merged is not amended.
LEMMA NextMergedIsIn ==
  MergedIsIn /\ TypeOK /\ [Next]_vars => MergedIsIn'
<1> SUFFICES ASSUME MergedIsIn, TypeOK, [Next]_vars,
                    NEW q \in PRs, state'[q] = "merged"
             PROVE  adds'[q].name \in main'.dirs
  BY DEF MergedIsIn
<1> USE DEF MergedIsIn, TypeOK
<1>1. ASSUME NEW p \in PRs, Merge(p) PROVE adds'[q].name \in main'.dirs
  <2>1. main'.dirs = main.dirs \cup {adds[p].name}
    BY <1>1 DEF Merge, Merged, IsTree
  <2>2. adds' = adds /\ (q = p \/ state[q] = "merged")
    BY <1>1 DEF Merge
  <2> QED
    BY <2>1, <2>2
<1>2. ASSUME NEW p \in PRs, Branch(p) \/ Open(p) \/ Push(p) \/ UpdateBranch(p)
      PROVE  adds'[q].name \in main'.dirs
  <2>1. main' = main /\ q # p /\ state'[q] = state[q] /\ adds'[q] = adds[q]
    BY <1>2 DEF Branch, Open, Push, UpdateBranch
  <2> QED
    BY <2>1
<1>3. ASSUME UNCHANGED <<main, state, adds>> PROVE adds'[q].name \in main'.dirs
  BY <1>3
<1> QED
  BY <1>1, <1>2, <1>3 DEF Next, MergeOther, RunNumbers, RunOther, vars

\* Whenever the group has nothing to do, the listing shows what has merged,
\* unless the last push's own run has failed.
THEOREM QuietListingIsComplete == DeliverySpec => []QuietIsListed
<1>1. Init => MergedIsIn
  BY DEF Init, MergedIsIn
<1>2. DeliverySpec => []MergedIsIn
  BY <1>1, NextMergedIsIn, StepOfGate, TypesHold, PTL DEF DeliverySpec, DeliveryInit
<1>3. ASSUME Growing, PubInv, MergedIsIn PROVE QuietIsListed
  <2> SUFFICES ASSUME waiting = {}, running = {}, failed = pushed => failed = 0
               PROVE  Listing = main.dirs
    BY <1>3 DEF QuietIsListed, MergedIsIn
  <2>1. site = pushed
    BY <1>3 DEF PubInv, LatestIsKept, PubTypeOK
  <2> QED
    BY <1>3, <2>1 DEF Growing, InStep, Listing
<1> QED
  BY <1>2, <1>3, GrowingHolds, PublicationHolds, PTL

\* The trees of older versions stay as they were, and each is within the later.
Nested == \A u, v \in 0..pushed : u <= v => trees[u].dirs \subseteq trees[v].dirs

\* A new version comes after all others and has the folders of main.
LEMMA NextNested ==
  Nested /\ Growing /\ Growing' /\ [DeliveryNext]_deliveryVars
    => Nested' /\ \A v \in 0..pushed : trees'[v] = trees[v]
<1> SUFFICES ASSUME Nested, Growing, Growing', [DeliveryNext]_deliveryVars
             PROVE  Nested' /\ \A v \in 0..pushed : trees'[v] = trees[v]
  OBVIOUS
<1>1. CASE Land
  <2>1. pushed' = pushed + 1 /\ pushed \in Nat
    BY <1>1 DEF Land, PushMain, Growing
  <2>2. trees' = [v \in 0..pushed' |-> IF v > pushed THEN main' ELSE trees[v]]
    BY <1>1 DEF Land
  <2>3. \A v \in 0..pushed : trees'[v] = trees[v]
    BY <2>1, <2>2
  <2>4. \A u \in 0..pushed' : trees'[u].dirs \subseteq trees'[pushed'].dirs
    BY DEF Growing, InStep
  <2>5. \A v \in 0..pushed' : v = pushed' \/ v \in 0..pushed
    BY <2>1
  <2>6. ASSUME NEW u \in 0..pushed', NEW v \in 0..pushed', u <= v
        PROVE  trees'[u].dirs \subseteq trees'[v].dirs
    <3>1. CASE v = pushed'
      BY <2>4, <3>1
    <3>2. CASE v \in 0..pushed
      <4>1. u \in 0..pushed
        BY <2>1, <2>6, <3>2
      <4> QED
        BY <2>3, <2>6, <3>2, <4>1 DEF Nested
    <3> QED
      BY <2>5, <3>1, <3>2
  <2> QED
    BY <2>3, <2>6 DEF Nested
<1>2. ASSUME ~Land PROVE UNCHANGED <<pushed, trees>>
  BY <1>2 DEF DeliveryNext, Author, Gate, Publication, Start, Render, Deploy,
     Cancel, Fail, deliveryVars, pubVars
<1> QED
  BY <1>1, <1>2 DEF Nested

\* The nesting holds, and with it no step takes a folder off the listing.
LEMMA NestedHolds == DeliverySpec => []Nested
<1>1. DeliveryInit => Nested
  BY DEF DeliveryInit, PubInit, Nested
<1> QED
  BY <1>1, NextNested, GrowingHolds, PTL DEF DeliverySpec

LEMMA StepGrowsListing ==
  ASSUME Nested, Growing, Growing', PubInv, PubInv', [DeliveryNext]_deliveryVars
  PROVE  Listing \subseteq Listing'
<1>1. site \in 0..pushed /\ site' \in 0..pushed' /\ pushed \in Nat /\ pushed' \in Nat
  BY DEF PubInv, PubTypeOK, Growing
<1>2. site' >= site
  BY StepOfPublication, DeployForward, <1>1 DEF pubVars
<1>3. trees'[site] = trees[site] /\ Nested'
  BY <1>1, NextNested
<1>4. site \in 0..pushed'
  BY <1>1, <1>2
<1>5. trees'[site].dirs \subseteq trees'[site'].dirs
  BY <1>1, <1>2, <1>3, <1>4 DEF Nested
<1> QED
  BY <1>3, <1>5 DEF Listing

\* No deploy takes a folder off the listing, whatever the ruleset requires:
\* authors who read it later see at least what was there.
THEOREM ListingOnlyGrows == DeliverySpec => [][Listing \subseteq Listing']_deliveryVars
BY StepGrowsListing, NestedHolds, GrowingHolds, PublicationHolds, PTL DEF DeliverySpec

\* The folders of a listing come from main, which passes the check, so no two
\* of them have one number.
ListedApart ==
  \A d, e \in Listed(trees[site]) : d.num = e.num => d = e

LEMMA ListingIsApart ==
  ASSUME Growing, GateInv, TypeOK, PubTypeOK
  PROVE  ListedApart
<1>1. site \in 0..pushed
  BY DEF PubTypeOK
<1>2. trees[site].dirs \subseteq main.dirs
  BY <1>1 DEF Growing
<1>3. Listed(trees[site]) \subseteq Listed(main)
  BY <1>2 DEF Listed
<1>4. IsTree(main) /\ Check(main) = {}
  BY DEF TypeOK, GateInv, MainFollowsRule
<1> QED
  BY <1>3, <1>4, CheckedAreApart DEF ListedApart

\* A number, once listed, is listed with that folder for good: the next listing
\* has the folder too, and with it no other of that number.
THEOREM ListedNumbersHold ==
  ASSUME Strict, "rfd-numbers" \in Required
  PROVE  DeliverySpec => ListedNumbersStay
<1>1. ASSUME Listing \subseteq Listing', ListedApart'
      PROVE  \A d \in Listed(trees[site]), e \in Listed(trees'[site']) :
               d.num = e.num => d = e
  <2>1. Listed(trees[site]) \subseteq Listed(trees'[site'])
    BY <1>1 DEF Listing, Listed
  <2> QED
    BY <1>1, <2>1 DEF ListedApart
<1>2. DeliverySpec => []ListedApart
  <2>1. DeliverySpec => []GateInv
    BY GateHolds
  <2>2. Growing /\ GateInv /\ TypeOK /\ PubTypeOK => ListedApart
    BY ListingIsApart
  <2> QED
    BY <2>1, <2>2, GrowingHolds, TypesHold, PTL
<1> QED
  BY <1>1, <1>2, ListingOnlyGrows, PTL DEF ListedNumbersStay

\* No deploy brings an older version of main back.
THEOREM ListingNeverOlder == DeliverySpec => NeverOlder
BY DeployForward, PublicationHolds, StepOfPublication, PTL DEF DeliverySpec, NeverOlder
=============================================================================
