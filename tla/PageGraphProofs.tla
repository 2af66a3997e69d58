-------------------------- MODULE PageGraphProofs --------------------------
(***************************************************************************)
(* Relations are listed both ways, for any pages, links, titles and        *)
(* statuses, between the pages whose titles are their own.                 *)
(***************************************************************************)
EXTENDS PageGraph, TLAPS

\* Line 185: the page is looked up in the project, and found.
IsPlaced(p) == p \in titled /\ decodable /\ Candidates(p) # {}

\* A rendered page shows the navigation of a page with its title, or its
\* metadata line alone when none is found.
Outcomes(p) ==
  {Unrendered} \cup IF IsPlaced(p) THEN {Navigation(p, k) : k \in Candidates(p)}
                                  ELSE {Rendered(MetaLine(p), None, {})}

Shown == /\ page = [p \in Pages |-> page[p]]
         /\ \A p \in Pages : page[p] \in Outcomes(p)

SourceTypes == /\ title \in [Pages -> Titles]
               /\ titled \subseteq Pages
               /\ body \in [Pages -> SUBSET Keys]
               /\ status \in [Pages -> Keys \cup {None, "plain"}]
               /\ decodable \in BOOLEAN

IInv == SourceTypes /\ Shown

\* Of two content pages both are related to the other or neither is: a link in
\* either direction relates them.
LEMMA RelatedBothWays ==
  ASSUME NEW p \in Content, NEW q \in Content, p # q
  PROVE  q \in Related(p) <=> p \in Related(q)
BY DEF Related, Inbound, Content

\* Nothing has been rendered.
LEMMA InitIInv == Init => IInv
<1> SUFFICES ASSUME Init PROVE IInv
  OBVIOUS
<1>1. SourceTypes
  BY DEF Init, SourceTypes, Keys
<1>2. Shown
  BY DEF Init, Shown, Outcomes
<1> QED
  BY <1>1, <1>2 DEF IInv

\* A render adds one outcome for its page, and reads nothing that changes.
LEMMA NextIInv == IInv /\ [Next]_vars => IInv'
<1> SUFFICES ASSUME IInv, [Next]_vars PROVE IInv'
  OBVIOUS
<1>1. UNCHANGED sources
  BY DEF Next, Render, vars
<1>2. SourceTypes'
  BY <1>1 DEF IInv, SourceTypes, sources
<1>3. \A p \in Pages : Outcomes(p)' = Outcomes(p)
  BY <1>1 DEF Outcomes, IsPlaced, Candidates, Navigation, Trail, MetaLine, Related, Inbound, Out,
     sources
<1>4. ASSUME NEW p \in Pages, Render(p) PROVE Shown'
  <2>1. PICK new \in Outcomes(p) : page' = [page EXCEPT ![p] = new]
    BY <1>4 DEF Render, Outcomes, IsPlaced
  <2>2. page' = [q \in Pages |-> IF q = p THEN new ELSE page[q]]
    BY <2>1 DEF IInv, Shown
  <2> QED
    BY <1>3, <2>1, <2>2 DEF IInv, Shown
<1>5. ASSUME UNCHANGED vars PROVE Shown'
  <2>1. page' = page
    BY <1>5 DEF vars
  <2> QED
    BY <1>3, <2>1 DEF IInv, Shown
<1>6. Shown'
  BY <1>4, <1>5 DEF Next
<1> QED
  BY <1>2, <1>6 DEF IInv

\* A page that has found a page, and whose title is its own, shows its own
\* relations.
LEMMA FoundItself ==
  ASSUME IInv, NEW p \in Pages, Found(p)
  PROVE  page[p].related = Related(p)
<1>1. page[p] \in Outcomes(p) /\ page[p].rendered /\ page[p].at # None
  BY DEF IInv, Shown, Found
<1>2. page[p] # Unrendered
  BY <1>1 DEF Unrendered
<1>3. page[p] # Rendered(MetaLine(p), None, {})
  BY <1>1 DEF Rendered
<1>4. PICK k \in Candidates(p) : page[p] = Navigation(p, k)
  BY <1>1, <1>2, <1>3 DEF Outcomes
<1>5. k = p
  BY <1>4 DEF Candidates, Found, Apart
<1> QED
  BY <1>4, <1>5 DEF Navigation, Rendered

\* The pages a title names are that page alone where the title is its own and
\* Pandoc leaves it, and none where Pandoc changes it.
LEMMA OwnCandidate ==
  ASSUME NEW p \in Pages, Apart(p)
  PROVE  Candidates(p) = IF title[p] \in Curly THEN {} ELSE {p}
BY DEF Apart, Candidates

\* The metadata line is not a trail.
LEMMA MetaIsNoTrail ==
  \A p : MetaLine(p) # << >> => MetaLine(p)[1] # "trail"
BY DEF MetaLine

\* What each page shows is as IInv says, for any sources.
THEOREM PageInvariant == Spec => []IInv
BY InitIInv, NextIInv, PTL DEF Spec

\* What may stand above a page.
LEMMA AboveTypes == \A s \in {<< >>, <<"trail">>, <<"meta">>} : s \in Seq({"trail", "meta"})
<1>1. << >> \in Seq({"trail", "meta"})
  OBVIOUS
<1>2. <<"trail">> \in Seq({"trail", "meta"}) /\ <<"meta">> \in Seq({"trail", "meta"})
  OBVIOUS
<1> QED
  BY <1>1, <1>2

\* The metadata line is one of them.
LEMMA MetaLineType == \A p : MetaLine(p) \in Seq({"trail", "meta"})
<1>1. \A p : MetaLine(p) \in {<< >>, <<"meta">>}
  BY DEF MetaLine
<1> QED
  BY <1>1, AboveTypes

\* The sources and what the pages show keep their types.
THEOREM PageTypes == Spec => []TypeOK
<1>1. ASSUME IInv PROVE TypeOK
  <2>1. SourceTypes
    BY <1>1 DEF IInv
  <2>2. ASSUME NEW p \in Pages, page[p] = Rendered(MetaLine(p), None, {})
        PROVE  /\ page[p].above \in Seq({"trail", "meta"})
               /\ page[p].at \in Pages \cup {None}
               /\ page[p].related \subseteq Content
    <3>1. MetaLine(p) \in Seq({"trail", "meta"})
      BY MetaLineType
    <3> QED
      BY <2>2, <3>1 DEF Rendered
  <2>3. ASSUME NEW p \in Pages, NEW k \in Candidates(p), page[p] = Navigation(p, k)
        PROVE  /\ page[p].above \in Seq({"trail", "meta"})
               /\ page[p].at \in Pages \cup {None}
               /\ page[p].related \subseteq Content
    <3>1. MetaLine(p) \in Seq({"trail", "meta"}) /\ Trail(k) \in Seq({"trail", "meta"})
      BY MetaLineType, AboveTypes DEF Trail
    <3>2. Trail(k) \o MetaLine(p) \in Seq({"trail", "meta"})
      BY <3>1
    <3>3. k \in Pages /\ Related(k) \subseteq Content
      BY DEF Candidates, Related
    <3> QED
      BY <2>3, <3>2, <3>3 DEF Navigation, Rendered
  <2>4. \A p \in Pages : page[p] \in Outcomes(p)
    BY <1>1 DEF IInv, Shown
  <2> QED
    BY <2>1, <2>2, <2>3, <2>4 DEF TypeOK, SourceTypes, Outcomes
<1> QED
  BY <1>1, PageInvariant, PTL

\* "every other content page this one links to plus every page that links to it
\* (symmetric)" (decision-meta.py:8-9), for any site: also where some pages are
\* not found and others share a title.
THEOREM RelatedIsSymmetric == Spec => []Symmetric
<1>1. IInv => Symmetric
  <2> SUFFICES ASSUME IInv, NEW p \in Content, NEW q \in Content,
                      Found(p), Found(q)
               PROVE  q \in page[p].related <=> p \in page[q].related
    BY DEF Symmetric
  <2>1. page[p].related = Related(p) /\ page[q].related = Related(q)
    BY FoundItself DEF Content
  <2> QED
    BY <2>1, RelatedBothWays
<1> QED
  BY <1>1, PageInvariant, PTL

\* A decision and the dated page that supersedes it list each other, for any
\* site.
THEOREM SupersededIsListed == Spec => []SupersededIsRelated
<1>1. IInv => SupersededIsRelated
  <2> SUFFICES ASSUME IInv, NEW p \in Content, NEW q \in Content,
                      p # q, Found(p), Found(q),
                      status[p] = q, q \in Dated
               PROVE  q \in page[p].related /\ p \in page[q].related
    BY DEF SupersededIsRelated
  <2>1. page[p].related = Related(p) /\ page[q].related = Related(q)
    BY FoundItself DEF Content
  <2>2. q \in Out(p)
    BY DEF Out
  <2> QED
    BY <2>1, <2>2 DEF Related, Inbound, Content
<1> QED
  BY <1>1, PageInvariant, PTL

\* A page with a title of its own has its trail unless it has no title, Pandoc
\* has changed the title, or a page somewhere cannot be read: there is no other
\* way to lose it, for any site.
THEOREM TrailIsLostThreeWays == Spec => []TrailUnlessLost
<1>1. IInv => TrailUnlessLost
  <2> SUFFICES ASSUME IInv, NEW p \in Pages, p # Index, page[p].rendered, Apart(p)
               PROVE  HasTrail(p) <=> p \in titled /\ title[p] \notin Curly /\ decodable
    BY DEF TrailUnlessLost
  <2>1. page[p] \in Outcomes(p) /\ page[p] # Unrendered
    BY DEF IInv, Shown, Unrendered
  <2>2. IsPlaced(p) <=> p \in titled /\ title[p] \notin Curly /\ decodable
    BY OwnCandidate DEF IsPlaced
  <2>3. CASE IsPlaced(p)
    <3>1. page[p] = Navigation(p, p)
      BY <2>1, <2>3, OwnCandidate DEF Outcomes, IsPlaced
    <3>2. page[p].above = <<"trail">> \o MetaLine(p)
      BY <3>1 DEF Navigation, Rendered, Trail
    <3>3. HasTrail(p)
      <4>1. MetaLine(p) \in Seq({"trail", "meta"})
        BY MetaLineType
      <4> QED
        BY <3>2, <4>1 DEF HasTrail
    <3> QED
      BY <2>2, <2>3, <3>3
  <2>4. CASE ~IsPlaced(p)
    <3>1. page[p].above = MetaLine(p)
      BY <2>1, <2>4 DEF Outcomes, Rendered
    <3> QED
      BY <2>2, <2>4, <3>1, MetaIsNoTrail DEF HasTrail
  <2> QED
    BY <2>3, <2>4
<1> QED
  BY <1>1, PageInvariant, PTL

\* Where Pandoc leaves every title as it is, every page that has one has its
\* trail (decision-meta.py:9): the curly titles are all that ails it.
THEOREM EveryPlainPageHasTrail == ASSUME Curly = {} PROVE Spec => []EveryPageHasTrail
<1>1. ASSUME IInv, TrailUnlessLost PROVE EveryPageHasTrail
  BY <1>1 DEF EveryPageHasTrail, TrailUnlessLost, IInv, SourceTypes
<1> QED
  BY <1>1, PageInvariant, TrailIsLostThreeWays, PTL
=============================================================================
