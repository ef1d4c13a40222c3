-------------------------------- MODULE Page --------------------------------
(***************************************************************************)
(* What the crawler takes from a parsed page: its links                    *)
(* (src/URL_getter.cpp, src/URL_filter.cpp), its title and its text        *)
(* (src/Content_getterv2.cpp).  A page is the sequence of tokens that      *)
(* HtmlTree parses; the text tokens carry numbers of their own and hrefs   *)
(* stand for URLs.                                                         *)
(***************************************************************************)
EXTENDS HtmlTree, Links, PageText

CONSTANT
    HrefOf  \* the URL that each href stands for

Hidden == {"script", "nav", "form"}     \* of the tags of HtmlTree
is_visible(tag) == tag \notin Hidden

\* The <base> and <a> elements with an href below n, in the order of the tree.
RECURSIVE ElementsBelow(_, _)
ElementsBelow(p, n) ==
    LET node == p.nodes[n]
        own == IF node.tag \in {"a", "base"} /\ node.ref # 0
               THEN <<[tag |-> node.tag, href |-> HrefOf[node.ref]]>> ELSE <<>>
    IN  own \o FlattenSeq([i \in DOMAIN p.kids[n] |-> ElementsBelow(p, p.kids[n][i])])

LinksOf(tokens, page) == filtrate(collect_links(ElementsBelow(gumbo_parse(tokens), 1), page))

\* The tree as PageText walks it; a text knows its node.
RECURSIVE PageNode(_, _)
PageNode(p, n) ==
    LET node == p.nodes[n]
    IN  IF node.tag = "text"
        THEN [kind |-> "text", size |-> Len(node.ref), blank |-> FALSE, node |-> n]
        ELSE [kind |-> "element", visible |-> is_visible(node.tag),
              children |-> [i \in DOMAIN p.kids[n] |-> PageNode(p, p.kids[n][i])]]

Tokens(p, texts) == FlattenSeq([i \in DOMAIN texts |-> p.nodes[texts[i].node].ref])

\* The last title in the head that is not empty.
TitleOf(p) ==
    LET full == SelectSeq(p.kids[p.head], LAMBDA n : TagOf(p, n) = "title" /\ p.kids[n] # <<>>)
    IN  IF full = <<>> THEN <<>> ELSE p.nodes[p.kids[Last(full)][1]].ref

extract(tokens) ==
    LET Of(p, texts) == [title |-> TitleOf(p), content |-> Tokens(p, texts), full |-> Full(texts)]
        From(p) == Of(p, dfs(PageNode(p, 1), <<>>))
    IN  From(gumbo_parse(tokens))

-----------------------------------------------------------------------------
(* What the source of the page says. *)

\* The places of the tokens that are not the raw text of a title or a script.
Markup(tokens) ==
    LET Step(s, i) ==
            IF s.raw = "" THEN [s EXCEPT !.seen = @ \cup {i},
                                         !.raw = IF Starts(tokens[i], RawText) THEN tokens[i].tag ELSE ""]
            ELSE IF Ends(tokens[i], {s.raw}) THEN [s EXCEPT !.raw = ""] ELSE s
    IN  FoldLeft(Step, [seen |-> {}, raw |-> ""], [i \in DOMAIN tokens |-> i]).seen

Below(p, n) ==
    LET Grow(s) == s \cup UNION {ToSet(p.kids[m]) : m \in s}
    IN  FoldLeft(LAMBDA s, i : Grow(s), {n}, p.nodes)

RECURSIVE TextsBelow(_, _)
TextsBelow(p, n) ==
    IF TagOf(p, n) = "text" THEN p.nodes[n].ref
    ELSE FlattenSeq([i \in DOMAIN p.kids[n] |-> TextsBelow(p, p.kids[n][i])])

TextRefs(tokens) ==
    [i \in DOMAIN SelectSeq(tokens, LAMBDA t : t.k = "text") |->
        SelectSeq(tokens, LAMBDA t : t.k = "text")[i].ref]

\* The text at place i of the source follows an <a> that has not been ended.
InLink(tokens, i) ==
    LET marks == {j \in Markup(tokens) : j < i /\ tokens[j].k # "text" /\ tokens[j].tag = "a"}
    IN  marks # {} /\ tokens[Max(marks)].k = "start"

\* However the tags of the source are misnested, the result is a tree of a head and a body; no
\* text is lost, doubled or out of order; no link lies within a link and no block
\* within a paragraph; and a text lies in a link exactly if the source has it after
\* an <a> and before its end, whatever was moved or copied to these ends.
TreeRightOf(p, tokens) ==
    LET texts == SelectSeq(TextsBelow(p, 1), LAMBDA r : r \notin DOMAIN HrefOf \cup {0})
        Apart(outer, inner) ==
            \A n \in DOMAIN p.nodes : TagOf(p, n) = outer =>
                \A m \in Below(p, n) \ {n} : TagOf(p, m) \notin inner
    IN  /\ Below(p, 1) = DOMAIN p.nodes
        /\ Len(FlattenSeq(p.kids)) = Len(p.nodes) - 1
        /\ [i \in DOMAIN p.kids[1] |-> TagOf(p, p.kids[1][i])] = <<"head", "body">>
        /\ texts = TextRefs(tokens)
        /\ Apart("a", {"a"}) /\ Apart("p", Blocks \cup {"form"})
        /\ \A i \in Markup(tokens) :
              tokens[i].k = "text" =>
                  (InLink(tokens, i) <=>
                      \E n \in DOMAIN p.nodes :
                          /\ TagOf(p, n) = "a"
                          /\ tokens[i].ref \in ToSet(TextsBelow(p, n)))

TreeRightFor(tokens) == TreeRightOf(gumbo_parse(tokens), tokens)

\* The base in force at place i of the source.
SourceBase(tokens, page, i) ==
    LET bases == {j \in Markup(tokens) : j < i /\ Starts(tokens[j], {"base"}) /\ tokens[j].ref # 0}
    IN  IF bases = {} THEN page ELSE HrefOf[tokens[Max(bases)].ref]

\* Every useful link of the source that names its scheme and host or has one leading
\* slash is followed, where its place in the source leads it.  What is followed besides
\* is a copy that the parser made of a link, which may lie behind a later <base>.
LinksKeptIn(found, tokens, page) ==
    LET anchors == {i \in Markup(tokens) : Starts(tokens[i], {"a"}) /\ tokens[i].ref # 0}
        Href(i) == HrefOf[tokens[i].ref]
        Leads(i, j) == Meaning(Href(i), SourceBase(tokens, page, j))
        followed == {i \in anchors :
            IsAbsolute(Href(i)) \/ (IsRooted(Href(i)) /\ ~InheritsScheme(Href(i)))}
        own == {u \in {Leads(i, i) : i \in followed} : ~Useless(u)}
        copies == {Leads(x[1], x[2]) : x \in {y \in anchors \X (1..Len(tokens) + 1) : y[1] <= y[2]}}
    IN  own \subseteq found /\ found \subseteq own \cup copies

LinksKept(tokens, page) == LinksKeptIn(LinksOf(tokens, page), tokens, page)

\* In a page whose tags are well nested, place i lies in an element with the tag.
Inside(tokens, i, tag) ==
    Cardinality({j \in 1..(i - 1) : Starts(tokens[j], {tag})})
        > Cardinality({j \in 1..(i - 1) : Ends(tokens[j], {tag})})

\* Nothing but text stands between place i and the end of the form.
BeforeFormEnd(tokens, i) ==
    \E k \in i..Len(tokens) :
        Ends(tokens[k], {"form"}) /\ \A j \in i..(k - 1) : tokens[j].k = "text"

\* The text that is stored of a well nested page is a beginning of what is not hidden,
\* and all of it if there is room.  The text just before </form> counts as shown: the
\* parser puts it behind the form (parser.c:2619-2642).
ShownRightOf(extracted, tokens) ==
    LET IsShown(i) ==
            /\ tokens[i].k = "text"
            /\ \A tag \in Hidden :
                  Inside(tokens, i, tag) => tag = "form" /\ BeforeFormEnd(tokens, i)
        places == SetToSortSeq({i \in DOMAIN tokens : IsShown(i)}, <)
        shown == [k \in DOMAIN places |-> tokens[places[k]].ref]
    IN  /\ IsPrefix(extracted.content, shown)
        /\ extracted.full \/ extracted.content = shown

ShownRight(tokens) == ShownRightOf(extract(tokens), tokens)
=============================================================================
