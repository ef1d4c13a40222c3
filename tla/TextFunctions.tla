--------------------------- MODULE TextFunctions ---------------------------
(***************************************************************************)
(* The functions on texts and pages and what each of them promises, for    *)
(* given sets of inputs.  The functions keep no state: a behaviour takes   *)
(* one input.                                                              *)
(***************************************************************************)
EXTENDS Links, PageText, Snippet, Utf8, Tokenizer

CONSTANTS
    Contents, QuerySets,        \* pages without their markup, and the terms of queries
    ByteStrings,                \* what cleanUTF8 gets
    TermTexts,                  \* what is cut into terms
    BaseUrls, ElementLists,     \* pages by their URL and their <base> and <a> elements
    Trees                       \* pages as the extractor walks them

\* The dots of a snippet occur in no content; terms are not empty, as getstrs leaves
\* them.
ASSUME InputsAssumption ==
    /\ Contents \subseteq Seq(Chars \ {Ellipsis})
    /\ \A qset \in QuerySets : qset \subseteq Seq(Chars) \ {<<>>}
    /\ ByteStrings \subseteq Seq(Bytes) /\ TermTexts \subseteq Seq(STRING)
    /\ BaseUrls \subseteq {url \in Seq(Segments) : IsAbsolute(url)}
    /\ ElementLists \subseteq Seq(Elements)
    /\ Trees \subseteq Nodes[MaxDepth]

VARIABLE input

TextInit == input = [kind |-> "none"]

Fresh == input.kind = "none"

TakeSnippet ==
    /\ Fresh
    /\ \E content \in Contents, qset \in QuerySets :
          input' = [kind |-> "snippet", content |-> content, qset |-> qset]
TakeBytes == Fresh /\ \E bytes \in ByteStrings : input' = [kind |-> "bytes", bytes |-> bytes]
TakeTerms == Fresh /\ \E text \in TermTexts : input' = [kind |-> "terms", text |-> text]
TakeElements ==
    /\ Fresh
    /\ \E page \in BaseUrls, elements \in ElementLists :
          input' = [kind |-> "links", page |-> page, elements |-> elements]
TakeTree == Fresh /\ \E root \in Trees : input' = [kind |-> "tree", root |-> root]

TextNext == TakeSnippet \/ TakeBytes \/ TakeTerms \/ TakeElements \/ TakeTree

TextSpec == TextInit /\ [][TextNext]_input

-----------------------------------------------------------------------------
\* generate shows the right part of the page, says where it was cut, and marks the
\* query's terms exactly (SnippetGenerator.cpp:18-133).
SnippetExact ==
    input.kind = "snippet" =>
        LET raw == SubSeq(input.content, 1, Smaller(Len(input.content), RAW_LIMIT))
            plain == stripHTML(raw)
            shown == escapeHTML(Cut(plain, Excerpt(plain, input.qset)))
        IN  /\ WindowRight(plain, input.qset)
            /\ CutRight(plain, input.qset)
            /\ HighlightRight(shown, input.qset)
            /\ raw # <<>> => Marks(generate(input.content, input.qset)).text = shown

\* cleanUTF8 keeps exactly the bytes of whole sequences, and getstrs exactly the
\* words that are no stop words (APItest.cpp:37-83, Tokenizer.cpp:11-34).
BytesExact ==
    /\ input.kind = "bytes" => CleanRight(input.bytes)
    /\ input.kind = "terms" => TokensRight(input.text)

\* get and filtrate keep every useful link that names its scheme or has one leading
\* slash, and whatever they keep leads where a link of the page is meant to lead.
\* That links with // and relative ones resolve as well, as the comments at
\* URL_getter.cpp:53 and :64 have it, is not stated: they are lost, for want of a colon
\* or a slash (URL_getter.cpp:49-118, URL_filter.cpp:57-93).
LinksExact ==
    input.kind = "links" =>
        /\ LinksRight(input.elements, input.page)
        /\ \A i \in DOMAIN input.elements : ClimbRight(input.elements[i].href, input.page)

\* extract keeps a beginning of the text that is not hidden
\* (Content_getterv2.cpp:10-48).
TextIsPrefix == input.kind = "tree" => TextRight(input.root)
=============================================================================
