------------------------------ MODULE RfdRules ------------------------------
(***************************************************************************)
(* check() and self_test() of scripts/check-rfd-numbers.py as operators on *)
(* a repository tree, and the rule of RFD 2000 they stand for.             *)
(*                                                                         *)
(* A directory name is a record: its form says which regular expressions   *)
(* it matches ("hex": all; "other": not DIR_RE, as in 20AB-zone; "upper":  *)
(* only the filter of line 31, as in 2001-Zone; "loose": none, as in       *)
(* 201-zone), num is <<organization digit, serial>>, and slug orders names *)
(* of one number as sorted() does.  An index.md is the number on its first *)
(* rfd: line and on its first title: line, or Nothing where there is none. *)
(***************************************************************************)
EXTENDS Naturals

CONSTANTS Nothing     \* no such line, or no such file

Org == 2

Num  == Nat \X Nat
Name == [form : {"hex", "other", "upper", "loose"}, num : Num, slug : Nat]

Index == [fm : Num \cup {Nothing}, title : Num \cup {Nothing}]

ASSUME NothingAssumption == Nothing \notin Num /\ Nothing \notin Index

\* Where an old citation may stand: a file of the tree, ALIASES.md, the script
\* itself, or a directory that line 69 skips.
Place == {"file", "ALIASES.md", "script", "_site"}

Link == [to : Name, md : BOOLEAN]

IsTree(t) ==
  /\ DOMAIN t = {"rfd", "dirs", "index", "links", "citing", "aliases"}
  /\ t.rfd \in BOOLEAN
  /\ t.dirs \subseteq Name
  /\ t.index \in [t.dirs -> Index \cup {Nothing}]
  /\ t.links \subseteq Link
  /\ t.citing \subseteq Place
  /\ t.aliases = Nothing \/ t.aliases \subseteq Num
-----------------------------------------------------------------------------
(* check() *)

Listed(t) == {d \in t.dirs : d.form # "loose"}
Valid(t)  == {d \in Listed(t) : d.form = "hex"}
Seen(t)   == {d.num : d \in Valid(t)}

\* The links that line 94 finds: four letters or digits, and a lower-case slug.
Followed(t) == {l \in t.links : l.md /\ l.to.form \in {"hex", "other"}}

\* The directories whose index.md is opened (line 50 skips the others).
Opened(t) == {d \in Valid(t) : t.index[d] # Nothing}

Problem(kind, S) == {[kind |-> kind, at |-> x] : x \in S}

\* The loop over the directories, lines 37-64.
NumberProblems(t) ==
  UNION {
    Problem("name", Listed(t) \ Valid(t)),
    Problem("organization", {d \in Valid(t) : d.num[1] # Org}),
    Problem("serial", {d \in Valid(t) :
                         \E e \in Valid(t) : e.num = d.num /\ e.slug < d.slug}),
    Problem("no index", Valid(t) \ Opened(t)),
    Problem("no rfd:", {d \in Opened(t) : t.index[d].fm = Nothing}),
    Problem("rfd:", {d \in Opened(t) : t.index[d].fm \notin {d.num, Nothing}}),
    Problem("no title:", {d \in Opened(t) : t.index[d].title = Nothing}),
    Problem("title:",
            {d \in Opened(t) : t.index[d].title \notin {d.num, Nothing}}) }

\* Old citations, links out of rfd/'s Markdown, and ALIASES.md, lines 66-106.
ReferenceProblems(t) ==
  UNION {
    Problem("citation", t.citing \ {"ALIASES.md", "script", "_site"}),
    Problem("link", {l \in Followed(t) : l.to \notin t.dirs}),
    IF t.aliases = Nothing THEN Problem("no ALIASES.md", {Nothing})
                           ELSE Problem("row", Seen(t) \ t.aliases) }

\* Mutant: lines 33-34 are missing.
CheckEmptyPasses(t) ==
  IF ~t.rfd THEN Problem("no rfd/", {Nothing})
            ELSE NumberProblems(t) \cup ReferenceProblems(t)

Check(t) ==
  IF ~t.rfd
    THEN Problem("no rfd/", {Nothing})
    ELSE Problem("no directories", IF Listed(t) = {} THEN {Nothing} ELSE {})
           \cup NumberProblems(t) \cup ReferenceProblems(t)

Kinds == {"no rfd/", "no directories", "name", "organization", "serial",
          "no index", "no rfd:", "rfd:", "no title:", "title:", "citation",
          "link", "no ALIASES.md", "row"}
-----------------------------------------------------------------------------
(* self_test(): one directory, its index.md, ALIASES.md, and one defect. *)

Slugged(num) == [form |-> "hex", num |-> num, slug |-> 1]

Build(num, fm, title, links, citing, rows) ==
  [rfd |-> TRUE, dirs |-> {Slugged(num)},
   index |-> [d \in {Slugged(num)} |-> [fm |-> fm, title |-> title]],
   links |-> links, citing |-> citing, aliases |-> rows]

N2001 == <<2, 1>>
N2002 == <<2, 2>>

\* "| RFD 0001 | RFD 2001 |": the expression of line 103 takes both numbers.
Rows == {<<0, 1>>, N2001}

\* Mutant: the link of the fixture goes to a folder that is there.
GoneIsThere == [to |-> Slugged(N2001), md |-> TRUE]

Gone  == [to |-> Slugged(<<2, 153>>), md |-> TRUE]

CleanCase == Build(N2001, N2001, N2001, {}, {}, Rows)

BadCases ==
  { Build(<<1, 1>>, N2001, N2001, {}, {}, Rows),
    Build(<<0, 1>>, N2001, N2001, {}, {}, Rows),
    Build(N2001, N2002, N2001, {}, {}, Rows),
    Build(N2001, N2001, N2002, {}, {}, Rows),
    Build(N2001, N2001, N2001, {}, {"file"}, Rows),
    Build(N2001, N2001, N2001, {Gone}, {}, Rows),
    Build(N2001, N2001, N2001, {}, {}, {<<9, 2457>>}) }

\* A list of rows is not a missing file.
ASSUME RowsAssumption == \A t \in {CleanCase} \cup BadCases : t.aliases # Nothing

\* Whether a check() that made only the checks of K would pass the self-test.
SelfTest(K) ==
  LET Rejects(t) == \E p \in Check(t) : p.kind \in K
  IN  ~Rejects(CleanCase) /\ \A t \in BadCases : Rejects(t)
-----------------------------------------------------------------------------
(* The rule, as RFD 2000 and the script's docstring word it. *)

\* Four lower-case hex digits and a slug, under this organization's digit.
WellNamed(d) == d.form = "hex" /\ d.num[1] = Org

\* Directory, rfd: field and title: string carry one number.
Agrees(t, d) == t.index[d] = [fm |-> d.num, title |-> d.num]

\* The rule for the directories D and the links L of a tree.
FollowsRule(t, D, L) ==
  /\ t.rfd /\ D # {}
  /\ \A d \in D : WellNamed(d) /\ Agrees(t, d)
  /\ \A d, e \in D : d.num = e.num => d = e
  /\ "file" \notin t.citing
  /\ \A l \in L : l.to \in t.dirs
  /\ t.aliases # Nothing /\ \A d \in D : d.num \in t.aliases
=============================================================================
