------------------------------ MODULE Snippet ------------------------------
(***************************************************************************)
(* src/SnippetGenerator.cpp: the part of a page that is shown with a hit,  *)
(* as functions on sequences of characters.  Offsets count from 0, as in   *)
(* the code; an interval [first, second) stands for the characters after   *)
(* first up to second.                                                     *)
(***************************************************************************)
EXTENDS Integers, Sequences, SequencesExt, FiniteSets, FiniteSetsExt

CONSTANTS
    LowerOf,    \* LowerOf[c]: tolower; its domain is the characters
    EntityOf,   \* EntityOf[c]: what escapeHTML writes for c
    maxLen,     \* maxLen_
    RAW_LIMIT

ASSUME SizesAssumption == maxLen \in Nat \ {0} /\ RAW_LIMIT \in Nat

Ellipsis == "..."
Chars == DOMAIN LowerOf

\* A tag is no character; generate writes the dots before it escapes.
ASSUME CharsAssumption ==
    /\ LowerOf \in [Chars -> Chars] /\ EntityOf \in [Chars -> Seq(Chars)]
    /\ Ellipsis \in Chars /\ {"<b>", "</b>"} \cap Chars = {}

Smaller(m, n) == IF m < n THEN m ELSE n

\* Everything from a "<" up to the next ">" goes, an unmatched ">" too.
Stripped(s, c) ==
    IF c \in {"<", ">"} THEN [s EXCEPT !.inTag = (c = "<")]
    ELSE IF s.inTag THEN s ELSE [s EXCEPT !.out = Append(@, c)]

stripHTML(html) ==
    LET after[n \in 0..Len(html)] ==
            IF n = 0 THEN [out |-> <<>>, inTag |-> FALSE] ELSE Stripped(after[n - 1], html[n])
    IN  after[Len(html)].out

toLower(s) == [i \in DOMAIN s |-> LowerOf[s[i]]]
escapeHTML(s) ==
    LET out[n \in 0..Len(s)] == IF n = 0 THEN <<>> ELSE out[n - 1] \o EntityOf[s[n]]
    IN  out[Len(s)]

\* The offsets at which the term occurs.
Found(s, term) == {p \in 0..(Len(s) - Len(term)) : SubSeq(s, p + 1, p + Len(term)) = term}

-----------------------------------------------------------------------------
(* generate: the window. *)

FirstPos(plain, qset) ==
    LET all == UNION {Found(toLower(plain), t) : t \in qset}
    IN  IF all = {} THEN 0 ELSE Min(all)

\* Half a window before the first hit, and then back from the end of the text.
StartUnclamped(n, first) == IF first > maxLen \div 2 THEN first - maxLen \div 2 ELSE 0
Start(n, first) ==
    LET start == StartUnclamped(n, first)
    IN  IF start + maxLen <= n THEN start
        ELSE IF n > maxLen THEN n - maxLen ELSE 0

Excerpt(plain, qset) ==
    LET n == Len(plain)
        start == Start(n, FirstPos(plain, qset))
    IN  [first |-> start, second |-> start + Smaller(maxLen, n - start)]

Cut(plain, w) ==
    (IF w.first # 0 THEN <<Ellipsis>> ELSE <<>>)
        \o SubSeq(plain, w.first + 1, w.second)
        \o (IF w.first + maxLen < Len(plain) THEN <<Ellipsis>> ELSE <<>>)

-----------------------------------------------------------------------------
(* highlight. *)

\* The hits of one term: each search starts where the last hit ended.
HitsOfTerm(s, term) ==
    LET from[pos \in 0..Len(s)] ==
            LET next == {p \in Found(s, term) : p >= pos}
            IN  IF next = {} THEN {}
                ELSE LET end == Min(next) + Len(term)
                     IN  {[first |-> Min(next), second |-> end]} \cup from[end]
    IN  from[0]

Before(h, k) == h.first < k.first \/ (h.first = k.first /\ h.second < k.second)

Sorted(hits) ==
    [i \in 1..Cardinality(hits) |->
        CHOOSE h \in hits : Cardinality({k \in hits : Before(k, h)}) = i - 1]

\* Sorted, with those that overlap or touch made one.
DisjointOnly(h, last) == h.first < last.second
Joins(h, last) == h.first <= last.second

Added(merged, h) ==
    IF merged # <<>> /\ Joins(h, Last(merged))
    THEN [merged EXCEPT ![Len(merged)].second = IF @ > h.second THEN @ ELSE h.second]
    ELSE Append(merged, h)

Merged(hits) ==
    LET sorted == Sorted(hits)
        after[n \in 0..Len(sorted)] == IF n = 0 THEN <<>> ELSE Added(after[n - 1], sorted[n])
    IN  after[Len(sorted)]

\* From the last to the first, so that no offset moves before it is used.
Tagged(s, h) ==
    SubSeq(s, 1, h.first) \o <<"<b>">> \o SubSeq(s, h.first + 1, h.second)
        \o <<"</b>">> \o SubSeq(s, h.second + 1, Len(s))

highlight(s, qset) ==
    LET merged == Merged(UNION {HitsOfTerm(toLower(s), t) : t \in qset})
        out[n \in 0..Len(merged)] ==
            IF n = 0 THEN s ELSE Tagged(out[n - 1], merged[Len(merged) + 1 - n])
    IN  out[Len(merged)]

\* generate, from the content of the page.
generate(content, qset) ==
    LET raw == SubSeq(content, 1, Smaller(Len(content), RAW_LIMIT))
        plain == stripHTML(raw)
    IN  IF raw = <<>> THEN <<>>
        ELSE highlight(escapeHTML(Cut(plain, Excerpt(plain, qset))), qset)

-----------------------------------------------------------------------------
(* What they promise. *)

\* As much text as fits is shown, and the first hit wholly unless it is longer
\* than the rest of the window.
WindowRight(plain, qset) ==
    LET w == Excerpt(plain, qset)
        n == Len(plain)
    IN  /\ w.first >= 0 /\ w.second <= n
        /\ w.second - w.first = Smaller(maxLen, n)
        /\ \A t \in qset : \A p \in Found(toLower(plain), t) :
              /\ \A u \in qset : \A r \in Found(toLower(plain), u) : p <= r
              /\ Len(t) <= maxLen - maxLen \div 2
              => w.first <= p /\ p + Len(t) <= w.second

\* A "..." at an end tells that text was cut off there.
CutRight(plain, qset) ==
    LET w == Excerpt(plain, qset)
        cut == Cut(plain, w)
    IN  /\ (cut # <<>> /\ Head(cut) = Ellipsis) <=> w.first > 0
        /\ (cut # <<>> /\ Last(cut) = Ellipsis) <=> w.second < Len(plain)

\* The characters of a tagged text with a mark on those inside a tag.
Marked(s, c) ==
    CASE c = "<b>" -> [s EXCEPT !.depth = @ + 1]
      [] c = "</b>" -> [s EXCEPT !.depth = @ - 1]
      [] OTHER -> [s EXCEPT !.text = Append(@, c), !.depths = Append(@, s.depth)]

Marks(out) ==
    LET after[n \in 0..Len(out)] ==
            IF n = 0 THEN [text |-> <<>>, depths |-> <<>>, depth |-> 0]
            ELSE Marked(after[n - 1], out[n])
    IN  after[Len(out)]

SelfOverlapping(t) ==
    \E k \in 1..(Len(t) - 1) : SubSeq(t, 1, Len(t) - k) = SubSeq(t, k + 1, Len(t))

\* Tags add nothing else and do not nest or touch; every hit is marked, and
\* nothing that is not part of one.  A term that overlaps itself may leave the rest
\* of an occurrence unmarked.
HighlightRight(s, qset) ==
    LET out == highlight(s, qset)
        m == Marks(out)
        marked == {p \in 0..(Len(s) - 1) : m.depths[p + 1] = 1}
        Covered(t) == UNION {p..(p + Len(t) - 1) : p \in Found(toLower(s), t)}
    IN  /\ m.text = s /\ m.depth = 0
        /\ \A i \in DOMAIN m.depths : m.depths[i] \in {0, 1}
        /\ \A i \in 1..(Len(out) - 1) : out[i] = "</b>" => out[i + 1] # "<b>"
        /\ marked \subseteq UNION {Covered(t) : t \in qset}
        /\ \A t \in qset :
              IF SelfOverlapping(t)
              THEN \A p \in Found(toLower(s), t) : marked \cap (p..(p + Len(t) - 1)) # {}
              ELSE Covered(t) \subseteq marked
=============================================================================
