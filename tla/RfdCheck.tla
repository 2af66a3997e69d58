------------------------------ MODULE RfdCheck ------------------------------
(***************************************************************************)
(* The command scripts/check-rfd-numbers.py: with --self-test it runs the  *)
(* fixtures, otherwise it checks the tree it stands in.                    *)
(***************************************************************************)
EXTENDS RfdRules, FiniteSets

CONSTANTS Names,     \* directory names the trees are built from
          Numbers,   \* numbers an index.md or a row may carry
          MaxDirs    \* bound on the directories of one tree

ASSUME CheckAssumption == Names \subseteq Name /\ Numbers \subseteq Num

VARIABLES argv, tree, exit

vars == <<argv, tree, exit>>

TypeOK == /\ argv \in {"", "--self-test"}
          /\ IsTree(tree)
          /\ exit \in {"running", "0", "1"}

\* What the index.md of each directory may carry.
Indices(dirs) == [dirs -> {Nothing} \cup [fm : Numbers \cup {Nothing},
                                          title : Numbers \cup {Nothing}]]

\* Any tree with a few directories, whatever a pull request did to it; the
\* self-test builds its own trees and does not look at this one.
InitTree(dirs) ==
  \E rfd \in BOOLEAN, index \in Indices(dirs), to \in SUBSET Names,
     md \in BOOLEAN, citing \in SUBSET {"file", "ALIASES.md"},
     aliases \in (SUBSET Numbers) \cup {Nothing} :
    /\ dirs # {} => rfd
    /\ Cardinality(to) <= 1
    /\ tree = [rfd |-> rfd, dirs |-> dirs, index |-> index,
               links |-> [to : to, md : {md}],
               citing |-> citing, aliases |-> aliases]

Init == /\ argv \in {"", "--self-test"}
        /\ \E dirs \in SUBSET Names :
             /\ Cardinality(dirs) <= MaxDirs
             /\ argv = "--self-test" => dirs = {}
             /\ InitTree(dirs)
        /\ exit = "running"

\* Mutant: findings are reported with an exit code of 2.
VerdictRaised(ok) == IF ok THEN "0" ELSE "2"

Verdict(ok) == IF ok THEN "0" ELSE "1"

Main == /\ exit = "running"
        /\ exit' = Verdict(IF argv = "--self-test" THEN SelfTest(Kinds)
                                                   ELSE Check(tree) = {})
        /\ UNCHANGED <<argv, tree>>

Next == Main

Spec == Init /\ [][Next]_vars
-----------------------------------------------------------------------------
(* Properties *)

Checked == argv = "" /\ exit # "running"

\* The gate passes exactly the trees that follow the rule: no defect slips
\* through a skipped directory or an early `continue`, and none is invented.
\* It answers for the directories that pass the filter of line 31 and for the
\* links that line 94 finds, whatever stands beside them: a name with too few
\* digits, or a link to one or to an upper-case slug, is never looked at.
GateExact ==
  Checked => (exit = "0" <=> FollowsRule(tree, Listed(tree), Followed(tree)))

\* The self-test passes, and would fail if any of the five checks with a
\* fixture of its own were lost (lines 126-135); the loss of another one, the
\* serial check for instance, it does not notice.
SelfTestWatches ==
  argv = "--self-test" /\ exit # "running" =>
    /\ exit = "0"
    /\ \A k \in {"rfd:", "title:", "citation", "link", "row"} :
         ~SelfTest(Kinds \ {k})
=============================================================================
