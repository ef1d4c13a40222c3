-------------------------- MODULE MCTextFunctions --------------------------
(***************************************************************************)
(* The functions on texts and pages on all small inputs, each of which is  *)
(* a state, the parser on all small pages, and the fetcher on a small web, *)
(* for which parser and extractor give what is on a page.                  *)
(***************************************************************************)
EXTENDS LinkFetcher, TextFunctions, Page

CONSTANTS
    MaxTokens,  \* of a page with all kinds of tokens
    MaxNested,  \* of a page that is well nested
    MaxTangled  \* of a page of few kinds of tokens

vars == <<input, fetcherVars>>

MCLowerOf == [c \in {"a", "b", "A", "&", "<", ">", ";", Ellipsis} |-> IF c = "A" THEN "a" ELSE c]
\* "&amp;" shortened to what matters: a letter that a term may find in it.
MCEntityOf == [c \in DOMAIN MCLowerOf |-> IF c = "&" THEN <<"&", "a", ";">> ELSE <<c>>]
MCTermLower == [c \in {"a", "A", "n", "0"} |-> IF c = "A" THEN "a" ELSE c]
MCStopwords == {<<"a">>, <<"a", "n">>}

Strings(chars, longest) == UNION {[1..n -> chars] : n \in 0..longest}

ShortContents == Strings({"a", "b", "&"}, 6) \cup Strings({"a", "A", "<", ">"}, 4)
MCQuerySets == {{}, {<<"a">>}, {<<"a", "b">>}, {<<"a">>, <<"b", "a">>}, {<<"b">>, <<"a", "a">>}}

ShortByteStrings == Strings(Bytes, 5)
ShortTermTexts == Strings({"a", "A", "n", "0", " ", "110"}, 4)

-----------------------------------------------------------------------------
(* Links and trees. *)

Hrefs ==
    {<<"https:", "", "g", "x">>, <<"https:", "", "g", "login">>, <<"http:", "", "g">>,
     <<"", "", "g", "x">>, <<"", "x">>, <<"", "x", "f.png">>, <<"">>,
     <<"x", "">>, <<".", "x">>, <<"..", "x">>, <<"..", "..", "..", "">>}
Bases == {<<"https:", "", "h">>, <<"http:", "", "h", "d", "p">>, <<"https:", "", "h", "d", "">>}
ShortElementLists ==
    Strings([tag : {"a"}, href : Hrefs] \cup [tag : {"base"}, href : Bases], 3)

SomeTexts ==
    [kind : {"text"}, size : {1, 2}, blank : {FALSE}] \cup [kind : {"text"}, size : {1}, blank : {TRUE}]
\* The texts of parsed pages know their nodes.
MCTextNodes == SomeTexts \cup [kind : {"text"}, size : 1..MaxNested, blank : {FALSE}, node : 1..20]

Inner == [kind : {"element"}, visible : BOOLEAN, children : Strings(SomeTexts, 2)]
ShortTrees == [kind : {"element"}, visible : {TRUE}, children : Strings(SomeTexts \cup Inner, 2)]

-----------------------------------------------------------------------------
(* Pages, token by token. *)

MCSegments == STRING
MCHrefOf == <<<<"", "x">>, <<"https:", "", "g", "b">>>>

StartTag(tag, ref) == [k |-> "start", tag |-> tag, ref |-> ref]
EndTag(tag) == [k |-> "end", tag |-> tag, ref |-> 0]
Text(n) == [k |-> "text", tag |-> "text", ref |-> 100 + n]

AllTokens(n) ==
    {StartTag(tag, 0) : tag \in {"b", "p", "div", "nav", "form", "title", "script"}}
        \cup {StartTag("a", 1), StartTag("base", 2), Text(n)}
        \cup {EndTag(tag) : tag \in {"a", "b", "p", "div", "form", "title", "body"}}
TangledTokens(n) ==
    {StartTag("a", 1), StartTag("b", 0), StartTag("p", 0), StartTag("div", 0), Text(n),
     EndTag("a"), EndTag("b"), EndTag("div")}

\* The well nested pages of n tokens; the texts get their numbers afterwards.
RECURSIVE Nested(_)
Nested(n) ==
    IF n = 0 THEN {<<>>}
    ELSE {<<Text(0)>> \o rest : rest \in Nested(n - 1)}
         \cup UNION {{<<StartTag(tag, 0)>> \o inner \o <<EndTag(tag)>> \o rest :
                        tag \in {"div", "nav", "form", "script"}, inner \in Nested(m),
                        rest \in Nested(n - 2 - m)} : m \in 0..(n - 2)}

Numbered(tokens) ==
    [i \in DOMAIN tokens |-> IF tokens[i].k = "text" THEN Text(i) ELSE tokens[i]]

\* A script holds text only, and no form a form.
WellFormed(tokens) ==
    \A i \in DOMAIN tokens :
        tokens[i].k = "start" =>
            ~Inside(tokens, i, "script") /\ (tokens[i].tag = "form" => ~Inside(tokens, i, "form"))

NestedPages ==
    {Numbered(t) : t \in {s \in UNION {Nested(n) : n \in 1..MaxNested} : WellFormed(s)}}

-----------------------------------------------------------------------------
(* A web of two sites. *)

MCUrls == {<<"https:", "", "h">>, <<"https:", "", "h", "xy">>, <<"http:", "", "g", "x">>}
MCBeginnings == {<<"x", "xy">>}

Agent(who) == [k |-> "agent", who |-> who]
Disallow(path) == [k |-> "disallow", rule |-> [path |-> path, cr |-> FALSE]]
DisallowCr(path) == [k |-> "disallow", rule |-> [path |-> path, cr |-> TRUE]]
Other == [k |-> "other"]

\* Lists of agents in every order, a carriage return, and an empty path.
MCRobots ==
    {<<Agent("*"), DisallowCr(<<"", "">>), DisallowCr(<<"">>), Disallow(<<"", "x">>), Other,
       Agent("o"), Disallow(<<"", "">>)>>,
     <<Agent("o"), Disallow(<<"", "x">>), Agent("*"), Other, Disallow(<<"", "xy", "z">>)>>,
     <<Agent("*"), Agent("o"), Disallow(<<"", "">>), Agent("o"), Agent("*"), Disallow(<<"", "xy">>)>>,
     <<Agent("*"), Disallow(<<"">>)>>}

\* No redirect, and one to a page of the site h.
MCDetours == {<<>>, <<<<"https:", "", "h", "xy">>>>}

MCPages ==
    {<<StartTag("title", 0), Text(1), EndTag("title"), StartTag("a", 1), Text(2)>>,
     <<StartTag("base", 2), StartTag("a", 1), StartTag("nav", 0), Text(3)>>}

-----------------------------------------------------------------------------
\* What URL_getter::get and Content_getter::extract take from a page.
MCElementsOn == [html \in MCPages \cup {NoFile} |-> ElementsBelow(gumbo_parse(html), 1)]
MCTextOn ==
    [html \in MCPages |-> [title |-> extract(html).title, content |-> extract(html).content]]

-----------------------------------------------------------------------------
Init == TextInit /\ FetcherInit

TakeNested == Fresh /\ \E tokens \in NestedPages : input' = [kind |-> "nested", tokens |-> tokens]
NewPage == Fresh /\ \E kind \in {"page", "tangled"} : input' = [kind |-> kind, tokens |-> <<>>]

AddToken ==
    \/ /\ input.kind = "page" /\ Len(input.tokens) < MaxTokens
       /\ \E t \in AllTokens(Len(input.tokens)) : input' = [input EXCEPT !.tokens = Append(@, t)]
    \/ /\ input.kind = "tangled" /\ Len(input.tokens) < MaxTangled
       /\ \E t \in TangledTokens(Len(input.tokens)) :
             input' = [input EXCEPT !.tokens = Append(@, t)]

UseText ==
    /\ last.call = "none"
    /\ TextNext \/ TakeNested \/ NewPage \/ AddToken
    /\ UNCHANGED fetcherVars

UseFetcher == Fresh /\ FetcherNext /\ UNCHANGED input

Next == UseText \/ UseFetcher

Spec == Init /\ [][Next]_vars

-----------------------------------------------------------------------------
ThisPage == <<"https:", "", "h", "d", "">>

\* gumbo_parse makes a tree of every sequence of tags, however misnested, and keeps the
\* text and the links of the page; and what is stored of a well nested page is a
\* beginning of what is not hidden (parser.c:884-3780, Content_getterv2.cpp:10-48).
TreeRight ==
    /\ input.kind \in {"page", "tangled"} =>
          TreeRightFor(input.tokens) /\ LinksKept(input.tokens, ThisPage)
    /\ input.kind = "nested" => ShownRight(input.tokens)
=============================================================================
