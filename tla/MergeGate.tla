------------------------------ MODULE MergeGate ------------------------------
(***************************************************************************)
(* How a new RFD reaches main: .github/workflows/checks.yml runs three     *)
(* jobs on each pull request, one run per pull request at a time, and the  *)
(* ruleset recorded in rfd/2015-require-pr-and-merge-queue-on-main decides *)
(* which of them a merge waits for and whether the branch must be up to    *)
(* date.  GitHub itself is modelled from how those two files use it.       *)
(*                                                                         *)
(* A pull request adds one RFD folder and its row in ALIASES.md.  Authors  *)
(* choose its number on their own, from a listing that may be behind main: *)
(* two of them can choose the same one.                                    *)
(***************************************************************************)
EXTENDS RfdRules

CONSTANTS PRs,        \* pull requests
          Additions,  \* what an author may push: [name, fm, title, row]
          FirstTree,  \* main at the start
          Jobs,       \* the jobs of checks.yml that are followed
          Required,   \* required_status_checks of the ruleset
          Strict,     \* strict_required_status_checks_policy
          MaxTip      \* bound on the merges

ASSUME GateAssumption ==
  /\ \A a \in Additions : /\ DOMAIN a = {"name", "fm", "title", "row"}
                          /\ a.name \in Name /\ a.row \in BOOLEAN
                          /\ {a.fm, a.title} \subseteq Num \cup {Nothing}
  /\ Nothing \notin Additions
  /\ IsTree(FirstTree) /\ Check(FirstTree) = {}
  /\ "rfd-numbers" \in Jobs /\ Jobs \subseteq {"prek", "rfd-numbers", "render"}
  /\ Required \subseteq Jobs /\ Strict \in BOOLEAN /\ MaxTip \in Nat

VARIABLES main,     \* the tree of the default branch
          tip,      \* how many merges it has had
          state,    \* how far each pull request is
          adds,     \* what its branch adds
          base,     \* the tip of main that the branch contains
          checked,  \* the merge commit that the current run checks out
          status    \* status of each job on the branch's head commit

vars == <<main, tip, state, adds, base, checked, status>>

TypeOK == /\ IsTree(main)
          /\ tip \in Nat
          /\ state \in [PRs -> {"none", "branch", "open", "merged"}]
          /\ adds \in [PRs -> Additions \cup {Nothing}]
          /\ \A p \in PRs : state[p] # "none" => adds[p] # Nothing
          /\ base \in [PRs -> Nat]
          /\ DOMAIN checked = PRs
          /\ status \in [PRs -> [Jobs -> {"none", "queued", "ok", "failed"}]]

Init == /\ main = FirstTree /\ tip = 0
        /\ state = [p \in PRs |-> "none"]
        /\ adds = [p \in PRs |-> Nothing]
        /\ base = [p \in PRs |-> 0]
        /\ checked = [p \in PRs |-> FirstTree]
        /\ status = [p \in PRs |-> [j \in Jobs |-> "none"]]

\* The tree a merge makes: a new folder, its index.md, its row.
Merged(t, a) ==
  [t EXCEPT !.dirs = @ \cup {a.name},
            !.index = [d \in t.dirs \cup {a.name} |->
                         IF d = a.name THEN [fm |-> a.fm, title |-> a.title]
                                       ELSE t.index[d]],
            !.aliases = IF a.row THEN @ \cup {a.name.num} ELSE @]

\* Two branches that add the same file conflict.
Mergeable(a) == a.name \notin main.dirs

\* Mutant: a head that already has a run gets no new one.
EventOnce(p, a) ==
  IF status[p]["rfd-numbers"] = "none" /\ Mergeable(a)
    THEN /\ checked' = [checked EXCEPT ![p] = Merged(main, a)]
         /\ status' = [status EXCEPT ![p] = [j \in Jobs |-> "queued"]]
    ELSE UNCHANGED <<checked, status>>

\* Mutant: without a merge commit the cancelled run still reports.
EventCancels(p, a) ==
  /\ checked' = [checked EXCEPT ![p] = IF Mergeable(a) THEN Merged(main, a) ELSE @]
  /\ status' = [status EXCEPT ![p] =
       [j \in Jobs |-> IF Mergeable(a) THEN "queued" ELSE "cancelled"]]

\* A pull_request event.  The head commit is new, so no status is left of the
\* run it cancels (lines 13-15); where the branch conflicts with main there
\* is no merge commit and no run.
Event(p, a) ==
  /\ checked' = [checked EXCEPT ![p] = IF Mergeable(a) THEN Merged(main, a) ELSE @]
  /\ status' = [status EXCEPT ![p] =
       [j \in Jobs |-> IF Mergeable(a) THEN "queued" ELSE "none"]]

Branch(p) == /\ state[p] = "none"
             /\ state' = [state EXCEPT ![p] = "branch"]
             /\ \E a \in Additions : adds' = [adds EXCEPT ![p] = a]
             /\ base' = [base EXCEPT ![p] = tip]
             /\ UNCHANGED <<main, tip, checked, status>>

Open(p) == /\ state[p] = "branch"
           /\ state' = [state EXCEPT ![p] = "open"]
           /\ Event(p, adds[p])
           /\ UNCHANGED <<main, tip, adds, base>>

\* The author amends the branch.
Push(p) == /\ state[p] = "open"
           /\ \E a \in Additions :
                /\ adds' = [adds EXCEPT ![p] = a]
                /\ Event(p, a)
           /\ UNCHANGED <<main, tip, state, base>>

\* The branch takes in the current main.
UpdateBranch(p) == /\ state[p] = "open"
                   /\ base[p] # tip
                   /\ Mergeable(adds[p])
                   /\ base' = [base EXCEPT ![p] = tip]
                   /\ Event(p, adds[p])
                   /\ UNCHANGED <<main, tip, state, adds>>

\* Mutant: line 38 is missing.
RunSelfTestOnly(p) ==
  /\ status[p]["rfd-numbers"] = "queued"
  /\ status' = [status EXCEPT ![p]["rfd-numbers"] =
       IF SelfTest(Kinds) THEN "ok" ELSE "failed"]
  /\ UNCHANGED <<main, tip, state, adds, base, checked>>

\* The self-test, then the check (lines 37-38).
RunNumbers(p) ==
  /\ status[p]["rfd-numbers"] = "queued"
  /\ status' = [status EXCEPT ![p]["rfd-numbers"] =
       IF SelfTest(Kinds) /\ Check(checked[p]) = {} THEN "ok" ELSE "failed"]
  /\ UNCHANGED <<main, tip, state, adds, base, checked>>

\* Formatting and rendering do not look at the numbers.
RunOther(p) ==
  /\ \E j \in Jobs \ {"rfd-numbers"}, verdict \in {"ok", "failed"} :
       /\ status[p][j] = "queued"
       /\ status' = [status EXCEPT ![p][j] = verdict]
  /\ UNCHANGED <<main, tip, state, adds, base, checked>>

\* Mutant: the status check policy is not strict.
MergeBehind(p) == /\ state[p] = "open" /\ tip < MaxTip
                  /\ Mergeable(adds[p])
                  /\ \A j \in Required : status[p][j] = "ok"
                  /\ main' = Merged(main, adds[p])
                  /\ tip' = tip + 1
                  /\ state' = [state EXCEPT ![p] = "merged"]
                  /\ UNCHANGED <<adds, base, checked, status>>

Merge(p) == /\ state[p] = "open" /\ tip < MaxTip
            /\ Mergeable(adds[p])
            /\ \A j \in Required : status[p][j] = "ok"
            /\ Strict => base[p] = tip
            /\ main' = Merged(main, adds[p])
            /\ tip' = tip + 1
            /\ state' = [state EXCEPT ![p] = "merged"]
            /\ UNCHANGED <<adds, base, checked, status>>

\* A pull request that adds no RFD: main moves on, its RFDs stay.
MergeOther == /\ tip < MaxTip
              /\ tip' = tip + 1
              /\ UNCHANGED <<main, state, adds, base, checked, status>>

Next == \/ MergeOther
        \/ \E p \in PRs : \/ Branch(p) \/ Open(p) \/ Push(p) \/ UpdateBranch(p)
                          \/ RunNumbers(p) \/ RunOther(p) \/ Merge(p)

Spec == Init /\ [][Next]_vars
-----------------------------------------------------------------------------
(* Properties *)

\* What has merged follows the rule of RFD 2000, whoever chose the same serial
\* at the same time (checks.yml:28-38).
MainFollowsRule == Check(main) = {}

\* "A change is tested against the tip it joins" (rfd/2015, DETAILS.md:108):
\* what main becomes is what the run of that head commit has checked out.
TestedAgainstTip ==
  [][main' # main => \E p \in PRs : state'[p] # state[p] /\ checked[p] = main']_vars

\* "A PR with a failing check cannot merge" (rfd/2015, DETAILS.md:138-139).
FailingCannotMerge ==
  [][\A p \in PRs : state[p] = "open" /\ state'[p] = "merged"
       => \A j \in Jobs : status[p][j] # "failed"]_vars

\* Statuses tell of the commit that would merge: as long as the branch is up
\* to date, a verdict on the numbers is a verdict on the merge.
StatusIsCurrent ==
  \A p \in PRs : state[p] = "open" /\ base[p] = tip
    /\ status[p]["rfd-numbers"] # "none"
      => checked[p] = Merged(main, adds[p])

\* A passed check is a check that found nothing, and no branch is ahead of main.
VerdictsHold == \A p \in PRs : /\ base[p] <= tip
                               /\ status[p]["rfd-numbers"] = "ok"
                                    => Check(checked[p]) = {}

\* A verdict that a merge counts on is one on the tree it makes, however often
\* the head and main have moved since the run was queued (checks.yml:13-15).
\* This makes MainFollowsRule inductive.
VerdictsStand == StatusIsCurrent /\ VerdictsHold
=============================================================================
