----------------------------- MODULE PageGraph -----------------------------
(***************************************************************************)
(* scripts/decision-meta.py: the filter that Quarto runs once per page, in *)
(* a process of its own.  Each run puts the metadata line on top, scans    *)
(* every page of the project, finds out which of them it is rendering by   *)
(* comparing titles, and adds a breadcrumb trail and the pages linked from *)
(* and to it.                                                              *)
(*                                                                         *)
(* The scan reads titles from the source; the document has been through    *)
(* Pandoc, which sets quotes and dashes.  Links are kept as resolved keys  *)
(* (lines 72-79, 106-117); a key without a page is Missing.  Of the four   *)
(* metadata fields the status is kept, for it can be a link; another one   *)
(* fills the line as a plain status does.                                  *)
(***************************************************************************)
EXTENDS FiniteSets, Sequences

CONSTANTS Pages,      \* keys of the pages that can be opened
          Hubs,       \* those at the root, with no "/" in the key
          Index,      \* the page "index"
          Missing,    \* a key that names no page
          Dated,      \* those a status names as YYYYMMDD-slug, without a directory
          Titles,     \* titles in the sources
          Curly,      \* those that Pandoc does not leave as they are
          None        \* no metadata, or no page

Keys == Pages \cup {Missing}

ASSUME PagesAssumption == /\ Hubs \subseteq Pages /\ Index \in Hubs
                          /\ Missing \notin Pages /\ Dated \subseteq Keys
                          /\ Curly \subseteq Titles /\ None \notin Keys

VARIABLES title,      \* the title the scan reads: front matter, heading or name
          titled,     \* pages with a title in their metadata
          body,       \* the keys each page links to
          status,     \* None, "plain", or the key it is superseded by
          decodable,  \* every page of the project is UTF-8
          page        \* what has become of each page

sources == <<title, titled, body, status, decodable>>
vars == <<sources, page>>

Content == Pages \ Hubs

Unrendered == [rendered |-> FALSE]
Rendered(above, at, related) ==
  [rendered |-> TRUE, above |-> above, at |-> at, related |-> related]

TypeOK == /\ title \in [Pages -> Titles]
          /\ titled \subseteq Pages
          /\ body \in [Pages -> SUBSET Keys]
          /\ status \in [Pages -> Keys \cup {None, "plain"}]
          /\ decodable \in BOOLEAN
          /\ \A p \in Pages : \/ page[p] = Unrendered
                              \/ /\ page[p].above \in Seq({"trail", "meta"})
                                 /\ page[p].at \in Pages \cup {None}
                                 /\ page[p].related \subseteq Content

\* Any sources.  The pages at the root are listings, which have no status.
Init == /\ title \in [Pages -> Titles]
        /\ titled \in {Pages, Pages \ Hubs}
        /\ body \in [Pages -> SUBSET Pages]
        /\ status \in [Pages -> Keys \cup {None, "plain"}]
        /\ \A p \in Pages : /\ p \notin body[p] \cup {status[p]}
                            /\ p \in Hubs => status[p] = None
        /\ decodable \in BOOLEAN
        /\ page = [p \in Pages |-> Unrendered]

\* Mutant: lines 114-117 are missing.
OutOfBody(p) == body[p] \ {p}

\* What a page links to: the links in its text, and the page that its status
\* names if that has the dated form the scan looks for in the front matter.
Out(p) == (body[p] \cup ({status[p]} \cap Dated)) \ {p}

Inbound(k) == {p \in Pages : k \in Out(p)}

\* Mutants: the links of the page only, and keys of any kind.
RelatedOut(k) == (Out(k) \ {k}) \cap Content
RelatedAll(k) == (Out(k) \cup Inbound(k)) \ {k}

Related(k) == ((Out(k) \cup Inbound(k)) \ {k}) \cap Content

\* The pages whose source title is the title of the rendered document.
Candidates(p) == {k \in Pages : title[p] \notin Curly /\ title[k] = title[p]}

\* The metadata line is put on top before anything can fail.
MetaLine(p) == IF status[p] = None THEN << >> ELSE <<"meta">>

\* The trail goes above it; the page "index" has none.
Trail(k) == IF k = Index THEN << >> ELSE <<"trail">>

\* Mutant: the trail is inserted first and ends up below the metadata line.
NavigationBelow(p, k) == Rendered(MetaLine(p) \o Trail(k), k, Related(k))

Navigation(p, k) == Rendered(Trail(k) \o MetaLine(p), k, Related(k))

\* finalize(): no title, no candidate, or a page anywhere in the project that
\* is not UTF-8 (line 103 catches OSError only) ends it with the metadata line
\* alone.  Of several candidates the first in the order of a set of paths is
\* taken, which is any of them.
Render(p) ==
  /\ page[p] = Unrendered
  /\ IF p \notin titled \/ ~decodable \/ Candidates(p) = {}
       THEN page' = [page EXCEPT ![p] = Rendered(MetaLine(p), None, {})]
       ELSE \E k \in Candidates(p) : page' = [page EXCEPT ![p] = Navigation(p, k)]
  /\ UNCHANGED sources

Next == \E p \in Pages : Render(p)

Spec == Init /\ [][Next]_vars
-----------------------------------------------------------------------------
(* Properties *)

\* No other page has its title.
Apart(p) == \A q \in Pages : title[q] = title[p] => q = p

\* It has been rendered, has found a page by its title, and has its own title.
Found(p) == page[p].rendered /\ page[p].at # None /\ Apart(p)

\* "every other content page this one links to plus every page that links to
\* it (symmetric)" (lines 8-9): of two content pages, each rendered by a
\* process that knows only the sources, either both list the other or neither
\* does.  Other pages may share titles and stand in for each other (line 191):
\* that never reaches a page whose title is its own.
Symmetric == \A p, q \in Content :
  Found(p) /\ Found(q) => (q \in page[p].related <=> p \in page[q].related)

\* A page whose status line links to the page that supersedes it (lines 31 and
\* 122-127) lists that page, and is listed by it: the two expressions that read
\* the status, one for the line and one for the graph, agree on dated names.
SupersededIsRelated == \A p, q \in Content :
  p # q /\ Found(p) /\ Found(q) /\ status[p] = q /\ q \in Dated
    => q \in page[p].related /\ p \in page[q].related

HasTrail(p) == page[p].above # << >> /\ page[p].above[1] = "trail"

\* A page with a title of its own has its trail, above the metadata line, unless
\* one of three things is so: it has no title, Pandoc has changed it, or some
\* page cannot be read (lines 103, 187-193 and 212-215).
TrailUnlessLost == \A p \in Pages \ {Index} :
  page[p].rendered /\ Apart(p) =>
    (HasTrail(p) <=> p \in titled /\ title[p] \notin Curly /\ decodable)

\* "and a breadcrumb trail on top" (line 9), of each page with a title of its
\* own but the index, as long as every page can be read.  Refuted by a title
\* that Pandoc sets with a curly apostrophe.
EveryPageHasTrail == \A p \in titled \ {Index} :
  page[p].rendered /\ Apart(p) /\ decodable => HasTrail(p)
=============================================================================
