------------------------------ MODULE PageText ------------------------------
(***************************************************************************)
(* The text of a page, src/Content_getterv2.cpp.  A node of the parsed     *)
(* page is a text with its size, or an element that is visible or not.     *)
(***************************************************************************)
EXTENDS Integers, Sequences, SequencesExt

CONSTANTS
    Limit,      \* 400
    TextNodes,  \* the nodes without children: [kind |-> "text", size, blank, ...]
    MaxDepth    \* bound on the nesting of a page

ASSUME PageTextAssumption ==
    /\ Limit \in Nat /\ MaxDepth \in Nat
    /\ \A t \in TextNodes : t.kind = "text" /\ t.size \in Nat /\ t.blank \in BOOLEAN

\* The nodes below which no node lies deeper than h.
Nodes[h \in 0..MaxDepth] ==
    IF h = 0 THEN TextNodes
    ELSE TextNodes \cup [kind : {"element"}, visible : BOOLEAN, children : Seq(Nodes[h - 1])]

\* out is the texts taken so far; each is followed by a space.
SizeOf(out) ==
    LET size[n \in 0..Len(out)] == IF n = 0 THEN 0 ELSE size[n - 1] + out[n].size + 1
    IN  size[Len(out)]

FullExactly(out) == SizeOf(out) = Limit + 1
Full(out) == SizeOf(out) > Limit

\* The children one after the other; walk is what dfs does below them.
Through(walk, children, out) ==
    LET after[n \in 0..Len(children)] ==
            IF n = 0 THEN out ELSE walk[<<children[n], after[n - 1]>>]
    IN  after[Len(children)]

\* Depth first, until there is enough.
Walked(walk, node, out) ==
    IF Full(out) THEN out
    ELSE IF node.kind = "text" THEN IF node.blank THEN out ELSE Append(out, node)
    ELSE IF node.visible THEN Through(walk, node.children, out) ELSE out

Walk[h \in 0..MaxDepth] ==
    [a \in Nodes[h] \X Seq(TextNodes) |-> Walked(Walk[h - 1], a[1], a[2])]

dfs(node, out) == Walk[MaxDepth][<<node, out>>]

-----------------------------------------------------------------------------
\* All that a reader of the page would see, in document order.
Joined(visible, children) ==
    LET upTo[n \in 0..Len(children)] ==
            IF n = 0 THEN <<>> ELSE upTo[n - 1] \o visible[children[n]]
    IN  upTo[Len(children)]

Seen(visible, node) ==
    IF node.kind = "text" THEN IF node.blank THEN <<>> ELSE <<node>>
    ELSE IF node.visible THEN Joined(visible, node.children) ELSE <<>>

Visible[h \in 0..MaxDepth] == [node \in Nodes[h] |-> Seen(Visible[h - 1], node)]

VisibleTexts(node) == Visible[MaxDepth][node]

\* The text that is stored is a beginning of the visible text: all of it, or the
\* shortest one that exceeds the limit, which one text alone may do by far.
TextRight(root) ==
    LET out == dfs(root, <<>>)
    IN  /\ IsPrefix(out, VisibleTexts(root))
        /\ Full(out) \/ out = VisibleTexts(root)
        /\ out # <<>> => SizeOf(Front(out)) <= Limit
=============================================================================
