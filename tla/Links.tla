------------------------------- MODULE Links -------------------------------
(***************************************************************************)
(* The links of a page, src/URL_getter.cpp and src/URL_filter.cpp.  A URL  *)
(* is the sequence of what stands between its slashes: https://h/d/p is    *)
(* <<"https:", "", "h", "d", "p">>, /x is <<"", "x">>, and x/ is           *)
(* <<"x", "">>.  The parsed page is its <base> and <a> elements in         *)
(* document order.  A page's own URL, and the href of a <base>, are taken  *)
(* to be absolute.                                                         *)
(***************************************************************************)
EXTENDS Integers, Sequences, SequencesExt, FiniteSets

CONSTANTS
    Segments,   \* what may stand between two slashes
    Keywords,   \* segments that contain one of useless_keywords
    UselessEnds \* segments that end in one of useless_surfix

\* Nothing between two slashes, before the first or after the last.
Blank == ""

ASSUME SegmentsAssumption == {Blank, "http", "https"} \subseteq Segments

\* Starts with http:// or https://.
IsAbsolute(u) == Len(u) >= 3 /\ u[1] \in {"http:", "https:"} /\ u[2] = Blank
\* Starts with //; starts with /.
InheritsScheme(u) == Len(u) >= 3 /\ u[1] = Blank /\ u[2] = Blank
IsRooted(u) == Len(u) >= 2 /\ u[1] = Blank

\* base.substr(0, base.find("://")): the scheme without its colon.
SchemeOnly(base) == <<IF base[1] = "https:" THEN "https" ELSE "http">>
SchemeHost(base) == SubSeq(base, 1, 3)

\* The segments of directory and reference: empty ones and "." go, ".." takes one
\* away.  The last one is what follows the last slash and is kept as it is.
PartTaken(parts, s) ==
    IF s = ".." /\ parts # <<>> THEN Front(parts)
    ELSE IF s \notin {".", Blank} THEN Append(parts, s) ELSE parts

Parts(dir, raw) ==
    LET all == dir \o raw
        after[n \in 0..(Len(all) - 1)] ==
            IF n = 0 THEN <<>> ELSE PartTaken(after[n - 1], all[n])
        parts == after[Len(all) - 1]
    IN  IF Last(all) # Blank THEN Append(parts, Last(all)) ELSE parts

\* parts.front() is undefined if nothing is left.
Resolvable(raw, base) ==
    IsAbsolute(raw) \/ IsRooted(raw) \/ Parts(Front(base), raw) # <<>>

AlwaysRooted(base, raw) == base \o raw
Rooted(base, raw) == SchemeHost(base) \o Tail(raw)

resolve_url(raw, base) ==
    CASE IsAbsolute(raw) -> raw
      [] InheritsScheme(raw) -> SchemeOnly(base) \o Tail(raw)
      [] IsRooted(raw) /\ ~InheritsScheme(raw) -> Rooted(base, raw)
      [] OTHER -> Parts(Front(base), raw)

\* A <base> holds for the elements after it.
Collected(s, e) ==
    IF e.tag = "base" THEN [s EXCEPT !.base = e.href]
    ELSE [s EXCEPT !.urls = Append(@, resolve_url(e.href, s.base))]

collect_links(elements, page) ==
    LET after[n \in 0..Len(elements)] ==
            IF n = 0 THEN [base |-> page, urls |-> <<>>] ELSE Collected(after[n - 1], elements[n])
    IN  after[Len(elements)].urls

Useless(u) == ToSet(u) \cap Keywords # {} \/ Last(u) \in UselessEnds

filtrate(urls) == {u \in ToSet(urls) : IsAbsolute(u) /\ ~Useless(u)}

-----------------------------------------------------------------------------
\* The elements of a page: <base> and <a> with their href.
Elements ==
    {e \in [tag : {"a", "base"}, href : Seq(Segments) \ {<<>>}] :
        e.tag = "base" => IsAbsolute(e.href)}

\* The base in force at the i-th element.
BaseAt(elements, page, i) ==
    LET bases == {j \in 1..(i - 1) : elements[j].tag = "base"}
    IN  IF bases = {} THEN page ELSE elements[CHOOSE j \in bases : \A k \in bases : k <= j].href

Anchors(elements) == {i \in DOMAIN elements : elements[i].tag = "a"}

\* The directory of a URL, without its last slash.
Directory(url) == IF Len(url) = 3 THEN url ELSE Front(url)

\* What a link means (RFC 3986): // inherits the scheme, / scheme and host, and a
\* relative reference the directory.  Dots are not removed, and what has another
\* scheme, a query or a fragment only is not told from a name.
Meaning(raw, base) ==
    CASE IsAbsolute(raw) -> raw
      [] InheritsScheme(raw) -> <<base[1]>> \o Tail(raw)
      [] IsRooted(raw) /\ ~InheritsScheme(raw) -> <<base[1], Blank, base[3]>> \o Tail(raw)
      [] raw = <<Blank>> -> base
      [] OTHER -> Directory(base) \o raw

\* Where the links i of the page lead, without the useless ones.
LedTo(elements, page, links) ==
    {u \in {Meaning(elements[i].href, BaseAt(elements, page, i)) : i \in links} : ~Useless(u)}

\* What the links of the page mean, and the part of it that names scheme and host or
\* has one leading slash.
Meant(elements, page) == LedTo(elements, page, Anchors(elements))
Followable(elements, page) ==
    LedTo(elements, page, {i \in Anchors(elements) :
        \/ IsAbsolute(elements[i].href)
        \/ IsRooted(elements[i].href) /\ ~InheritsScheme(elements[i].href)})

\* The URLs are links of the page, and all the followable ones are among them.
LinksOfPage(urls, elements, page) ==
    Followable(elements, page) \subseteq urls /\ urls \subseteq Meant(elements, page)

AllResolvable(elements, page) ==
    \A i \in Anchors(elements) : Resolvable(elements[i].href, BaseAt(elements, page, i))

LinksRight(elements, page) ==
    AllResolvable(elements, page) =>
        LinksOfPage(filtrate(collect_links(elements, page)), elements, page)

\* A reference that climbs less often than its base has directories is resolved.
Climbs(all) == {i \in DOMAIN all : all[i] = ".."}
Names(all) == {i \in DOMAIN all : all[i] \notin {Blank, ".", ".."}}

ClimbRight(raw, base) ==
    Cardinality(Climbs(Front(base) \o raw)) < Cardinality(Names(Front(base)))
        => Resolvable(raw, base)
=============================================================================
