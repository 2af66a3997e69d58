--------------------------- MODULE RfdCheckProofs ---------------------------
(***************************************************************************)
(* The gate is exact on every tree, of any size: check() reports nothing   *)
(* if and only if the directories and links it looks at follow the rule.   *)
(* The self-test is not: it notices the loss of five of the checks and of  *)
(* no other.                                                               *)
(***************************************************************************)
EXTENDS RfdCheck, TLAPS

\* A kind of problem is reported exactly when something is at fault.
LEMMA ProblemEmpty ==
  ASSUME NEW kind, NEW S
  PROVE  Problem(kind, S) = {} <=> S = {}
BY DEF Problem

\* The loop over the directories is silent when none of its tests fires.
LEMMA NumbersSilent ==
  ASSUME NEW t
  PROVE  NumberProblems(t) = {} <=>
           /\ Listed(t) \ Valid(t) = {}
           /\ {d \in Valid(t) : d.num[1] # Org} = {}
           /\ {d \in Valid(t) :
                 \E e \in Valid(t) : e.num = d.num /\ e.slug < d.slug} = {}
           /\ Valid(t) \ Opened(t) = {}
           /\ {d \in Opened(t) : t.index[d].fm = Nothing} = {}
           /\ {d \in Opened(t) : t.index[d].fm \notin {d.num, Nothing}} = {}
           /\ {d \in Opened(t) : t.index[d].title = Nothing} = {}
           /\ {d \in Opened(t) : t.index[d].title \notin {d.num, Nothing}} = {}
<1> DEFINE
      A == Listed(t) \ Valid(t)
      B == {d \in Valid(t) : d.num[1] # Org}
      C == {d \in Valid(t) :
              \E e \in Valid(t) : e.num = d.num /\ e.slug < d.slug}
      D == Valid(t) \ Opened(t)
      E == {d \in Opened(t) : t.index[d].fm = Nothing}
      F == {d \in Opened(t) : t.index[d].fm \notin {d.num, Nothing}}
      G == {d \in Opened(t) : t.index[d].title = Nothing}
      H == {d \in Opened(t) : t.index[d].title \notin {d.num, Nothing}}
<1>1. NumberProblems(t) = UNION {
        Problem("name", A), Problem("organization", B), Problem("serial", C),
        Problem("no index", D), Problem("no rfd:", E), Problem("rfd:", F),
        Problem("no title:", G), Problem("title:", H)}
  BY DEF NumberProblems
<1> HIDE DEF A, B, C, D, E, F, G, H
<1>2. NumberProblems(t) = {} <=>
        /\ Problem("name", A) = {} /\ Problem("organization", B) = {}
        /\ Problem("serial", C) = {} /\ Problem("no index", D) = {}
        /\ Problem("no rfd:", E) = {} /\ Problem("rfd:", F) = {}
        /\ Problem("no title:", G) = {} /\ Problem("title:", H) = {}
  BY <1>1
<1>3. NumberProblems(t) = {} <=> /\ A = {} /\ B = {} /\ C = {} /\ D = {}
                                 /\ E = {} /\ F = {} /\ G = {} /\ H = {}
  BY <1>2, ProblemEmpty
<1> QED
  BY <1>3 DEF A, B, C, D, E, F, G, H

\* The tests of the references are silent when none of them fires.
LEMMA ReferencesSilent ==
  ASSUME NEW t
  PROVE  ReferenceProblems(t) = {} <=>
           /\ t.citing \ {"ALIASES.md", "script", "_site"} = {}
           /\ {l \in Followed(t) : l.to \notin t.dirs} = {}
           /\ t.aliases # Nothing /\ Seen(t) \ t.aliases = {}
<1> DEFINE
      A == t.citing \ {"ALIASES.md", "script", "_site"}
      B == {l \in Followed(t) : l.to \notin t.dirs}
      C == Seen(t) \ t.aliases
      R == IF t.aliases = Nothing THEN Problem("no ALIASES.md", {Nothing})
                                  ELSE Problem("row", C)
<1>1. ReferenceProblems(t) = UNION {Problem("citation", A), Problem("link", B), R}
  BY DEF ReferenceProblems
<1>2. R = {} <=> t.aliases # Nothing /\ C = {}
  <2> HIDE DEF C
  <2>1. Problem("no ALIASES.md", {Nothing}) # {}
    BY ProblemEmpty
  <2>2. Problem("row", C) = {} <=> C = {}
    BY ProblemEmpty
  <2> QED
    BY <2>1, <2>2
<1> HIDE DEF A, B, C, R
<1>3. ReferenceProblems(t) = {} <=>
        Problem("citation", A) = {} /\ Problem("link", B) = {} /\ R = {}
  BY <1>1
<1>4. ReferenceProblems(t) = {} <=>
        A = {} /\ B = {} /\ t.aliases # Nothing /\ C = {}
  BY <1>2, <1>3, ProblemEmpty
<1> QED
  BY <1>4 DEF A, B, C

\* Two directories of one number and one form are told apart by their slugs,
\* so the test for a lower slug finds every pair.
LEMMA SerialsUnique ==
  ASSUME NEW D, D \subseteq Name, \A d \in D : d.form = "hex"
  PROVE  {d \in D : \E e \in D : e.num = d.num /\ e.slug < d.slug} = {} <=>
           \A d, e \in D : d.num = e.num => d = e
<1>1. ASSUME NEW d \in D, NEW e \in D, d.num = e.num, d # e
      PROVE  d.slug < e.slug \/ e.slug < d.slug
  <2>1. d \in Name /\ e \in Name
    OBVIOUS
  <2>2. d.slug # e.slug
    BY <1>1, <2>1 DEF Name
  <2> QED
    BY <2>1, <2>2 DEF Name
<1>2. \A d \in D : d.slug \in Nat
  BY DEF Name
<1> QED
  BY <1>1, <1>2

\* No problem means that the directories which pass the filter of line 31 and
\* the links which line 94 finds follow the rule, and the other way round,
\* whatever stands beside them.
THEOREM CheckIsRule ==
  ASSUME NEW t, IsTree(t)
  PROVE  Check(t) = {} <=> FollowsRule(t, Listed(t), Followed(t))
<1>1. CASE ~t.rfd
  <2>1. {Nothing} # {}
    OBVIOUS
  <2> QED
    BY <1>1, <2>1, ProblemEmpty DEF Check, FollowsRule
<1>2. CASE t.rfd
  <2>0. Listed(t) \subseteq t.dirs /\ t.dirs \subseteq Name
    BY DEF Listed, IsTree
  <2>1. Check(t) = {} <=> /\ Listed(t) # {}
                          /\ NumberProblems(t) = {}
                          /\ ReferenceProblems(t) = {}
    <3>1. Problem("no directories", IF Listed(t) = {} THEN {Nothing} ELSE {}) = {}
            <=> Listed(t) # {}
      BY ProblemEmpty
    <3> QED
      BY <1>2, <3>1 DEF Check
  <2>2. ASSUME NumberProblems(t) = {}
        PROVE  Valid(t) = Listed(t) /\ Opened(t) = Listed(t)
    BY <2>2, NumbersSilent DEF Listed, Valid, Opened
  <2>3. ASSUME FollowsRule(t, Listed(t), Followed(t))
        PROVE  Valid(t) = Listed(t) /\ Opened(t) = Listed(t)
    <3>1. Valid(t) = Listed(t)
      BY <2>3 DEF FollowsRule, WellNamed, Valid
    <3>2. \A d \in Listed(t) : t.index[d] # Nothing
      <4> TAKE d \in Listed(t)
      <4>1. d.num \in Num
        BY <2>0 DEF Name
      <4>2. t.index[d] = [fm |-> d.num, title |-> d.num]
        BY <2>3 DEF FollowsRule, Agrees
      <4>3. t.index[d] \in Index
        BY <4>1, <4>2 DEF Index
      <4> QED
        BY <4>3, NothingAssumption
    <3> QED
      BY <3>1, <3>2 DEF Opened
  <2>4. ASSUME Valid(t) = Listed(t), Opened(t) = Listed(t)
        PROVE  NumberProblems(t) = {} /\ ReferenceProblems(t) = {} <=>
                 /\ \A d \in Listed(t) : WellNamed(d) /\ Agrees(t, d)
                 /\ \A d, e \in Listed(t) : d.num = e.num => d = e
                 /\ "file" \notin t.citing
                 /\ \A l \in Followed(t) : l.to \in t.dirs
                 /\ t.aliases # Nothing /\ \A d \in Listed(t) : d.num \in t.aliases
    <3>1. Listed(t) \subseteq Name /\ \A d \in Listed(t) : d.form = "hex"
      BY <2>0, <2>4 DEF Valid
    <3>2. \A d \in Listed(t) : t.index[d] \in Index /\ t.index[d] # Nothing
      BY <2>0, <2>4 DEF IsTree, Opened
    <3>3. \A d \in Listed(t) : Agrees(t, d) <=> /\ t.index[d].fm = d.num
                                             /\ t.index[d].title = d.num
      BY <3>2 DEF Agrees, Index
    <3>4. \A d \in Listed(t) : d.num \in Num /\ d.num # Nothing
      BY <3>1, NothingAssumption DEF Name
    <3>5. t.citing \ {"ALIASES.md", "script", "_site"} = {} <=> "file" \notin t.citing
      BY DEF IsTree, Place
    <3>6. Seen(t) \ t.aliases = {} <=> \A d \in Listed(t) : d.num \in t.aliases
      BY <2>4 DEF Seen
    <3>7. ReferenceProblems(t) = {} <=>
            /\ "file" \notin t.citing
            /\ \A l \in Followed(t) : l.to \in t.dirs
            /\ t.aliases # Nothing /\ \A d \in Listed(t) : d.num \in t.aliases
      BY <3>5, <3>6, ReferencesSilent
    <3>8. {d \in Listed(t) : \E e \in Listed(t) : e.num = d.num /\ e.slug < d.slug} = {}
            <=> \A d, e \in Listed(t) : d.num = e.num => d = e
      BY <3>1, SerialsUnique
    <3>9. (\A d \in Listed(t) : WellNamed(d)) <=> {d \in Listed(t) : d.num[1] # Org} = {}
      BY <3>1 DEF WellNamed
    <3>10. (\A d \in Listed(t) : Agrees(t, d)) <=>
             /\ {d \in Listed(t) : t.index[d].fm = Nothing} = {}
             /\ {d \in Listed(t) : t.index[d].fm \notin {d.num, Nothing}} = {}
             /\ {d \in Listed(t) : t.index[d].title = Nothing} = {}
             /\ {d \in Listed(t) : t.index[d].title \notin {d.num, Nothing}} = {}
      BY <3>3, <3>4
    <3>11. /\ Listed(t) \ Valid(t) = {}
           /\ Valid(t) \ Opened(t) = {}
      BY <2>4
    <3>12. NumberProblems(t) = {} <=>
             /\ \A d \in Listed(t) : WellNamed(d) /\ Agrees(t, d)
             /\ \A d, e \in Listed(t) : d.num = e.num => d = e
      BY <2>4, <3>8, <3>9, <3>10, <3>11, NumbersSilent
    <3> QED
      BY <3>7, <3>12
  <2> QED
    BY <1>2, <2>1, <2>2, <2>3, <2>4 DEF FollowsRule
<1> QED
  BY <1>1, <1>2
-----------------------------------------------------------------------------
(* The self-test *)

\* The problems of one kind are among those of K, or there are none.
LEMMA KindAmong ==
  ASSUME NEW kind, NEW S, NEW K
  PROVE  (\E p \in Problem(kind, S) : p.kind \in K) <=> kind \in K /\ S # {}
<1>1. \A p \in Problem(kind, S) : p.kind = kind
  BY DEF Problem
<1>2. Problem(kind, S) = {} <=> S = {}
  BY ProblemEmpty
<1> QED
  BY <1>1, <1>2

\* A fixture as check() sees it: one well-formed directory, its index.md, and
\* an ALIASES.md.
OneDirectory(t, d) ==
  /\ t.rfd /\ t.dirs = {d}
  /\ d.form = "hex" /\ d.num \in Num /\ d.slug \in Nat
  /\ t.index[d] \in [fm : Num, title : Num]
  /\ t.citing \subseteq Place
  /\ t.aliases # Nothing

\* What is listed, matched and opened in it is that directory.
LEMMA OneIsSeen ==
  ASSUME NEW t, NEW d, OneDirectory(t, d)
  PROVE  /\ Listed(t) = {d} /\ Valid(t) = {d} /\ Opened(t) = {d}
         /\ Seen(t) = {d.num}
<1>1. t.dirs = {d} /\ d.form = "hex"
  BY DEF OneDirectory
<1>2. t.index[d] # Nothing
  BY NothingAssumption DEF OneDirectory, Index
<1>3. "hex" # "loose"
  OBVIOUS
<1>4. Listed(t) = {d}
  BY <1>1, <1>3, Zenon DEF Listed
<1>5. Valid(t) = {d}
  BY <1>1, <1>4, Zenon DEF Valid
<1>6. Opened(t) = {d}
  BY <1>2, <1>5, Zenon DEF Opened
<1>7. Seen(t) = {d.num}
  BY <1>5, Zenon DEF Seen
<1> QED
  BY <1>4, <1>5, <1>6, <1>7

\* What the loop over the directories says of a fixture: its number, its rfd:
\* field and its title: string are all that can be wrong.
LEMMA FixtureNumbers ==
  ASSUME NEW t, NEW d, OneDirectory(t, d), NEW K
  PROVE  (\E p \in NumberProblems(t) : p.kind \in K) <=>
           \/ "organization" \in K /\ d.num[1] # Org
           \/ "rfd:" \in K /\ t.index[d].fm # d.num
           \/ "title:" \in K /\ t.index[d].title # d.num
<1> DEFINE
      A == Listed(t) \ Valid(t)
      B == {x \in Valid(t) : x.num[1] # Org}
      C == {x \in Valid(t) :
              \E e \in Valid(t) : e.num = x.num /\ e.slug < x.slug}
      D == Valid(t) \ Opened(t)
      E == {x \in Opened(t) : t.index[x].fm = Nothing}
      F == {x \in Opened(t) : t.index[x].fm \notin {x.num, Nothing}}
      G == {x \in Opened(t) : t.index[x].title = Nothing}
      H == {x \in Opened(t) : t.index[x].title \notin {x.num, Nothing}}
<1>1. NumberProblems(t) = UNION {
        Problem("name", A), Problem("organization", B), Problem("serial", C),
        Problem("no index", D), Problem("no rfd:", E), Problem("rfd:", F),
        Problem("no title:", G), Problem("title:", H)}
  BY DEF NumberProblems
<1>2. Listed(t) = {d} /\ Valid(t) = {d} /\ Opened(t) = {d}
  BY OneIsSeen
<1>3. t.index[d].fm # Nothing /\ t.index[d].title # Nothing
  BY NothingAssumption DEF OneDirectory
<1>4. ~(d.slug < d.slug)
  BY DEF OneDirectory
<1>5. A = {} /\ C = {} /\ D = {} /\ E = {} /\ G = {}
  BY <1>2, <1>3, <1>4
<1>6. /\ B # {} <=> d.num[1] # Org
      /\ F # {} <=> t.index[d].fm # d.num
      /\ H # {} <=> t.index[d].title # d.num
  BY <1>2, <1>3
<1> HIDE DEF A, B, C, D, E, F, G, H
<1>7. (\E p \in NumberProblems(t) : p.kind \in K) <=>
        \/ \E p \in Problem("name", A) : p.kind \in K
        \/ \E p \in Problem("organization", B) : p.kind \in K
        \/ \E p \in Problem("serial", C) : p.kind \in K
        \/ \E p \in Problem("no index", D) : p.kind \in K
        \/ \E p \in Problem("no rfd:", E) : p.kind \in K
        \/ \E p \in Problem("rfd:", F) : p.kind \in K
        \/ \E p \in Problem("no title:", G) : p.kind \in K
        \/ \E p \in Problem("title:", H) : p.kind \in K
  BY <1>1
<1>8. (\E p \in NumberProblems(t) : p.kind \in K) <=>
        \/ "organization" \in K /\ B # {}
        \/ "rfd:" \in K /\ F # {}
        \/ "title:" \in K /\ H # {}
  <2>1. /\ Problem("name", A) = {} /\ Problem("serial", C) = {}
        /\ Problem("no index", D) = {} /\ Problem("no rfd:", E) = {}
        /\ Problem("no title:", G) = {}
    BY <1>5, ProblemEmpty
  <2>2. (\E p \in Problem("organization", B) : p.kind \in K) <=>
          "organization" \in K /\ B # {}
    BY KindAmong
  <2>3. (\E p \in Problem("rfd:", F) : p.kind \in K) <=> "rfd:" \in K /\ F # {}
    BY KindAmong
  <2>4. (\E p \in Problem("title:", H) : p.kind \in K) <=> "title:" \in K /\ H # {}
    BY KindAmong
  <2> QED
    BY <1>7, <2>1, <2>2, <2>3, <2>4
<1> QED
  BY <1>6, <1>8

\* And what the tests of the references say of it.
LEMMA FixtureReferences ==
  ASSUME NEW t, NEW d, OneDirectory(t, d), NEW K
  PROVE  (\E p \in ReferenceProblems(t) : p.kind \in K) <=>
           \/ "citation" \in K /\ "file" \in t.citing
           \/ "link" \in K /\ \E l \in Followed(t) : l.to # d
           \/ "row" \in K /\ d.num \notin t.aliases
<1> DEFINE
      A == t.citing \ {"ALIASES.md", "script", "_site"}
      B == {l \in Followed(t) : l.to \notin t.dirs}
      C == Seen(t) \ t.aliases
<1>1. t.dirs = {d} /\ t.aliases # Nothing /\ t.citing \subseteq Place
  BY DEF OneDirectory
<1>2. Seen(t) = {d.num}
  BY OneIsSeen
<1>3. A # {} <=> "file" \in t.citing
  BY <1>1 DEF Place
<1>4. B # {} <=> \E l \in Followed(t) : l.to # d
  BY <1>1
<1>5. C # {} <=> d.num \notin t.aliases
  BY <1>2
<1>6. ReferenceProblems(t)
        = UNION {Problem("citation", A), Problem("link", B), Problem("row", C)}
  BY <1>1 DEF ReferenceProblems
<1> HIDE DEF A, B, C
<1>7. (\E p \in ReferenceProblems(t) : p.kind \in K) <=>
         \/ \E p \in Problem("citation", A) : p.kind \in K
         \/ \E p \in Problem("link", B) : p.kind \in K
         \/ \E p \in Problem("row", C) : p.kind \in K
  BY <1>6
<1>8. (\E p \in ReferenceProblems(t) : p.kind \in K) <=>
         \/ "citation" \in K /\ A # {}
         \/ "link" \in K /\ B # {}
         \/ "row" \in K /\ C # {}
  <2>1. (\E p \in Problem("citation", A) : p.kind \in K) <=> "citation" \in K /\ A # {}
    BY KindAmong
  <2>2. (\E p \in Problem("link", B) : p.kind \in K) <=> "link" \in K /\ B # {}
    BY KindAmong
  <2>3. (\E p \in Problem("row", C) : p.kind \in K) <=> "row" \in K /\ C # {}
    BY KindAmong
  <2> QED
    BY <1>7, <2>1, <2>2, <2>3
<1> QED
  BY <1>3, <1>4, <1>5, <1>8

\* A check() that made only the checks of K would exit 1.
Rejected(t, K) == \E p \in Check(t) : p.kind \in K

\* A fixture is rejected for one of six defects and for no other.
LEMMA FixtureRejected ==
  ASSUME NEW t, NEW d, OneDirectory(t, d), NEW K
  PROVE  Rejected(t, K) <=>
           \/ "organization" \in K /\ d.num[1] # Org
           \/ "rfd:" \in K /\ t.index[d].fm # d.num
           \/ "title:" \in K /\ t.index[d].title # d.num
           \/ "citation" \in K /\ "file" \in t.citing
           \/ "link" \in K /\ \E l \in Followed(t) : l.to # d
           \/ "row" \in K /\ d.num \notin t.aliases
<1>1. t.rfd /\ Listed(t) # {}
  BY OneIsSeen DEF OneDirectory
<1>2. Problem("no directories", IF Listed(t) = {} THEN {Nothing} ELSE {}) = {}
  BY <1>1, ProblemEmpty
<1>3. Check(t) = NumberProblems(t) \cup ReferenceProblems(t)
  BY <1>1, <1>2 DEF Check
<1>4. Rejected(t, K) <=> \/ \E p \in NumberProblems(t) : p.kind \in K
                         \/ \E p \in ReferenceProblems(t) : p.kind \in K
  BY <1>3 DEF Rejected
<1> QED
  BY <1>4, FixtureNumbers, FixtureReferences

\* The same of what build() of the self-test writes.
LEMMA BuildRejected ==
  ASSUME NEW num \in Num, NEW fm \in Num, NEW title \in Num, NEW links,
         NEW citing \in SUBSET Place, NEW rows, NEW K, rows # Nothing
  PROVE  Rejected(Build(num, fm, title, links, citing, rows), K) <=>
           \/ "organization" \in K /\ num[1] # Org
           \/ "rfd:" \in K /\ fm # num
           \/ "title:" \in K /\ title # num
           \/ "citation" \in K /\ "file" \in citing
           \/ "link" \in K /\ \E l \in links : /\ l.md /\ l.to.form \in {"hex", "other"}
                                             /\ l.to # Slugged(num)
           \/ "row" \in K /\ num \notin rows
<1> DEFINE
      t == Build(num, fm, title, links, citing, rows)
      d == Slugged(num)
<1>1. d.form = "hex" /\ d.num = num /\ d.slug = 1
  BY DEF Slugged
<1>2. /\ t.rfd = TRUE /\ t.dirs = {d} /\ t.links = links /\ t.citing = citing
      /\ t.aliases = rows /\ t.index[d] = [fm |-> fm, title |-> title]
  BY DEF Build
<1> HIDE DEF t, d
<1>3. OneDirectory(t, d)
  BY <1>1, <1>2 DEF OneDirectory
<1>4. Rejected(t, K) <=>
           \/ "organization" \in K /\ d.num[1] # Org
           \/ "rfd:" \in K /\ t.index[d].fm # d.num
           \/ "title:" \in K /\ t.index[d].title # d.num
           \/ "citation" \in K /\ "file" \in t.citing
           \/ "link" \in K /\ \E l \in Followed(t) : l.to # d
           \/ "row" \in K /\ d.num \notin t.aliases
  BY <1>3, FixtureRejected
<1>5. /\ t.index[d].fm = fm /\ t.index[d].title = title
      /\ Followed(t) = {l \in links : l.md /\ l.to.form \in {"hex", "other"}}
  BY <1>2 DEF Followed
<1>6. Rejected(t, K) <=>
           \/ "organization" \in K /\ num[1] # Org
           \/ "rfd:" \in K /\ fm # num
           \/ "title:" \in K /\ title # num
           \/ "citation" \in K /\ "file" \in citing
           \/ "link" \in K /\ \E l \in links : /\ l.md /\ l.to.form \in {"hex", "other"}
                                             /\ l.to # d
           \/ "row" \in K /\ num \notin rows
  BY <1>1, <1>2, <1>4, <1>5
<1> QED
  BY <1>6 DEF t, d

\* The numbers of the fixtures, told apart by their components.
LEMMA FixtureNumbersDiffer ==
  /\ N2001 \in Num /\ N2002 \in Num /\ <<1, 1>> \in Num /\ <<0, 1>> \in Num
  /\ N2001[1] = Org /\ N2001 # N2002 /\ N2001 # <<1, 1>> /\ N2001 # <<0, 1>>
  /\ N2001 # <<9, 2457>> /\ N2001 \in Rows /\ <<1, 1>> \notin Rows /\ <<0, 1>> \in Rows
  /\ Gone.md = TRUE /\ Gone.to.form = "hex" /\ Gone.to # Slugged(N2001)
<1>1. N2001 # <<2, 153>>
  BY DEF N2001
<1>2. Slugged(N2001).num = N2001 /\ Slugged(<<2, 153>>).num = <<2, 153>>
  BY DEF Slugged
<1>3. Gone.md = TRUE /\ Gone.to = Slugged(<<2, 153>>) /\ Gone.to.form = "hex"
  BY DEF Gone, Slugged
<1>4. N2001 \in Rows /\ <<1, 1>> \notin Rows /\ <<0, 1>> \in Rows
  BY DEF Rows, N2001
<1> QED
  BY <1>1, <1>2, <1>3, <1>4 DEF N2001, N2002, Num, Org

\* The self-test of lines 109-135 depends on five checks and on no other: it
\* passes whatever else check() tests, and fails when one of the five is lost.
THEOREM SelfTestReach ==
  ASSUME NEW K
  PROVE  SelfTest(K) <=> {"rfd:", "title:", "citation", "link", "row"} \subseteq K
<1> DEFINE
      Case1 == Build(<<1, 1>>, N2001, N2001, {}, {}, Rows)
      Case2 == Build(<<0, 1>>, N2001, N2001, {}, {}, Rows)
      Case3 == Build(N2001, N2002, N2001, {}, {}, Rows)
      Case4 == Build(N2001, N2001, N2002, {}, {}, Rows)
      Case5 == Build(N2001, N2001, N2001, {}, {"file"}, Rows)
      Case6 == Build(N2001, N2001, N2001, {Gone}, {}, Rows)
      Case7 == Build(N2001, N2001, N2001, {}, {}, {<<9, 2457>>})
<1>1. Rows # Nothing /\ {<<9, 2457>>} # Nothing
  <2>1. CleanCase.aliases = Rows
    BY DEF CleanCase, Build
  <2>2. Case7.aliases = {<<9, 2457>>}
    BY DEF Build
  <2>3. Case7 \in BadCases
    BY DEF BadCases
  <2> HIDE DEF Case7
  <2>4. CleanCase.aliases # Nothing /\ Case7.aliases # Nothing
    BY <2>3, RowsAssumption
  <2> QED
    BY <2>1, <2>2, <2>4
<1>2. {} \in SUBSET Place /\ {"file"} \in SUBSET Place
  BY DEF Place
<1>3. ~Rejected(CleanCase, K)
  BY <1>1, <1>2, FixtureNumbersDiffer, BuildRejected DEF CleanCase
<1>4. /\ "rfd:" \in K => Rejected(Case1, K)
      /\ "rfd:" \in K => Rejected(Case2, K)
  BY <1>1, <1>2, FixtureNumbersDiffer, BuildRejected
<1>5. Rejected(Case3, K) <=> "rfd:" \in K
  BY <1>1, <1>2, FixtureNumbersDiffer, BuildRejected
<1>6. Rejected(Case4, K) <=> "title:" \in K
  BY <1>1, <1>2, FixtureNumbersDiffer, BuildRejected
<1>7. Rejected(Case5, K) <=> "citation" \in K
  BY <1>1, <1>2, FixtureNumbersDiffer, BuildRejected
<1>8. Rejected(Case6, K) <=> "link" \in K
  BY <1>1, <1>2, FixtureNumbersDiffer, BuildRejected
<1>9. Rejected(Case7, K) <=> "row" \in K
  BY <1>1, <1>2, FixtureNumbersDiffer, BuildRejected
<1>10. SelfTest(K) <=>
         /\ ~Rejected(CleanCase, K) /\ Rejected(Case1, K) /\ Rejected(Case2, K) /\ Rejected(Case3, K)
         /\ Rejected(Case4, K) /\ Rejected(Case5, K) /\ Rejected(Case6, K) /\ Rejected(Case7, K)
  <2>1. BadCases = {Case1, Case2, Case3, Case4, Case5, Case6, Case7}
    BY DEF BadCases
  <2> HIDE DEF Case1, Case2, Case3, Case4, Case5, Case6, Case7
  <2>2. SelfTest(K) <=> ~Rejected(CleanCase, K) /\ \A t \in BadCases : Rejected(t, K)
    BY DEF SelfTest, Rejected
  <2> QED
    BY <2>1, <2>2
<1> HIDE DEF Case1, Case2, Case3, Case4, Case5, Case6, Case7
<1> QED
  BY <1>3, <1>4, <1>5, <1>6, <1>7, <1>8, <1>9, <1>10
-----------------------------------------------------------------------------
(* The command *)

\* What the command knows once it has exited.
IInv ==
  /\ TypeOK
  /\ Checked => (exit = "0" <=> Check(tree) = {})
  /\ argv = "--self-test" /\ exit # "running" => (exit = "0" <=> SelfTest(Kinds))

\* The trees the command is started on are trees.
LEMMA InitIInv == Init => IInv
<1> SUFFICES ASSUME Init PROVE IsTree(tree)
  BY DEF Init, IInv, TypeOK, Checked
<1>1. PICK dirs \in SUBSET Names : InitTree(dirs)
  BY DEF Init
<1>2. PICK rfd \in BOOLEAN, index \in Indices(dirs), to \in SUBSET Names,
           md \in BOOLEAN, citing \in SUBSET {"file", "ALIASES.md"},
           aliases \in (SUBSET Numbers) \cup {Nothing} :
        tree = [rfd |-> rfd, dirs |-> dirs, index |-> index,
                links |-> [to : to, md : {md}],
                citing |-> citing, aliases |-> aliases]
  BY <1>1 DEF InitTree
<1>3. dirs \subseteq Name
  BY CheckAssumption
<1>4. [to : to, md : {md}] \subseteq Link
  BY CheckAssumption DEF Link
<1>5. index \in [dirs -> Index \cup {Nothing}]
  BY CheckAssumption DEF Index, Indices
<1>6. citing \subseteq Place
  BY DEF Place
<1>7. aliases = Nothing \/ aliases \subseteq Num
  BY CheckAssumption
<1>8. /\ tree.rfd = rfd /\ tree.dirs = dirs /\ tree.index = index
      /\ tree.links = [to : to, md : {md}]
      /\ tree.citing = citing /\ tree.aliases = aliases
      /\ DOMAIN tree = {"rfd", "dirs", "index", "links", "citing", "aliases"}
  BY <1>2
<1> QED
  BY <1>3, <1>4, <1>5, <1>6, <1>7, <1>8 DEF IsTree

\* Running the command keeps the invariant.
LEMMA NextIInv == IInv /\ [Next]_vars => IInv'
BY DEF IInv, TypeOK, Checked, Next, Main, Verdict, vars

\* Its variables keep their types.
THEOREM CommandTypes == Spec => []TypeOK
<1>1. IInv => TypeOK
  BY DEF IInv
<1> QED
  BY <1>1, InitIInv, NextIInv, PTL DEF Spec

\* The command's exit code is the rule's verdict on the directories that pass
\* the filter of line 31 and the links that line 94 finds, of any tree.
THEOREM CommandIsExact == Spec => []GateExact
<1>1. IInv => GateExact
  BY CheckIsRule DEF IInv, TypeOK, GateExact
<1> QED
  BY <1>1, InitIInv, NextIInv, PTL DEF Spec

\* Run with --self-test the command succeeds, and would fail if it lost one
\* of the five checks that have a fixture of their own.
THEOREM SelfTestIsWatched == Spec => []SelfTestWatches
<1>1. SelfTest(Kinds)
  BY SelfTestReach DEF Kinds
<1>2. \A k \in {"rfd:", "title:", "citation", "link", "row"} : ~SelfTest(Kinds \ {k})
  BY SelfTestReach
<1>3. IInv => SelfTestWatches
  BY <1>1, <1>2 DEF IInv, SelfTestWatches
<1> QED
  BY <1>3, InitIInv, NextIInv, PTL DEF Spec
=============================================================================
