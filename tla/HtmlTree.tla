------------------------------ MODULE HtmlTree ------------------------------
(***************************************************************************)
(* How gumbo_parse builds the tree of a page, gumbo-parser/src/parser.c,   *)
(* for the tags that the crawler's own code looks at and for those whose   *)
(* misnesting rearranges the tree: <a> and <b> (formatting elements), <p>  *)
(* (closed by others), <div>, <nav> and <form> (blocks), <base>, <title>   *)
(* and <script> (head elements, the last two with raw text), and the end   *)
(* tag of <body>.  A token is [k |-> "start" or "end", tag, ref] or        *)
(* [k |-> "text", tag |-> "text", ref]; ref is an href or the text itself. *)
(* White space, comments, doctypes, tables, selects, templates, framesets  *)
(* and foreign elements do not occur, and with them go the scope markers   *)
(* and foster parenting; only <html> ends a scope.                         *)
(*                                                                         *)
(* The parser's state is a record: nodes by number, the children of each,  *)
(* the stack of open elements and the list of active formatting elements   *)
(* (both grow to the right), the text not yet made a node, the insertion   *)
(* mode, the form element (0: none) and the flag for "reprocess".          *)
(***************************************************************************)
EXTENDS Integers, Sequences, SequencesExt, FiniteSets, FiniteSetsExt

Formatting == {"a", "b"}
Blocks == {"p", "div", "nav"}
HeadTags == {"base", "title", "script"}
RawText == {"title", "script"}
SpecialTags == Blocks \cup HeadTags \cup {"html", "head", "body", "form"}

Eof == [k |-> "eof", tag |-> "eof", ref |-> 0]
Starts(t, tags) == t.k = "start" /\ t.tag \in tags
Ends(t, tags) == t.k = "end" /\ t.tag \in tags

-----------------------------------------------------------------------------
Current(p) == Last(p.open)
TagOf(p, n) == p.nodes[n].tag
is_special_node(p, n) == TagOf(p, n) \in SpecialTags

\* The place of the last element of s with the tag, 0 if there is none.
LastWith(p, s, tag) == Max({0} \cup {i \in DOMAIN s : TagOf(p, s[i]) = tag})
IndexOf(s, n) == Max({0} \cup {i \in DOMAIN s : s[i] = n})
InScope(p, tag) == LastWith(p, p.open, tag) # 0

\* A new node, not yet in the tree.
create_node(p, tag, ref) ==
    [p EXCEPT !.nodes = Append(@, [tag |-> tag, ref |-> ref]), !.kids = Append(@, <<>>)]

append_node(p, parent, n) == [p EXCEPT !.kids[parent] = Append(@, n)]

\* remove_from_parent and append_node.
MoveUnremoved(p, n, parent) == append_node(p, parent, n)
Move(p, n, parent) ==
    LET Without(m) == SelectSeq(p.kids[m], LAMBDA c : c # n)
    IN  [p EXCEPT !.kids =
            [m \in DOMAIN p.kids |-> IF m = parent THEN Append(Without(m), n) ELSE Without(m)]]

\* The pending text becomes a node under the current one.
maybe_flush_text_node_buffer(p) ==
    IF p.text = <<>> THEN p
    ELSE LET made == create_node(p, "text", p.text)
         IN  [append_node(made, Current(p), Len(made.nodes)) EXCEPT !.text = <<>>]

insert_text_token(p, t) == [p EXCEPT !.text = Append(@, t.ref)]

\* A node under the current one, and open from now on.
Opening(p, tag, ref) ==
    LET made == create_node(p, tag, ref)
        n == Len(made.nodes)
        placed == IF p.open = <<>> THEN made ELSE append_node(made, Current(p), n)
    IN  [placed EXCEPT !.open = Append(@, n)]

insert_element(p, t) == Opening(maybe_flush_text_node_buffer(p), t.tag, t.ref)
insert_element_of_tag_type(p, tag) == Opening(maybe_flush_text_node_buffer(p), tag, 0)

\* pop_current_node until the element at place i has gone as well.
PopTo(p, i) ==
    LET q == maybe_flush_text_node_buffer(p) IN [q EXCEPT !.open = SubSeq(@, 1, i - 1)]
pop_current_node(p) == PopTo(p, Len(p.open))

\* generate_implied_end_tags and what is popped after it, up to the tag itself.
implicitly_close_tags(p, tag) == PopTo(p, LastWith(p, p.open, tag))
maybe_implicitly_close_p_tag(p) == IF InScope(p, "p") THEN implicitly_close_tags(p, "p") ELSE p
generate_implied_end_tags(p) ==
    LET stays == {i \in DOMAIN p.open : TagOf(p, p.open[i]) # "p"}
    IN  IF Max(stays) = Len(p.open) THEN p ELSE PopTo(p, Max(stays) + 1)

SetMode(p, mode) == [p EXCEPT !.mode = mode]
Reprocess(p) == [p EXCEPT !.again = TRUE]

-----------------------------------------------------------------------------
(* The list of active formatting elements. *)

LastAnchor(p) == LastWith(p, p.fmt, "a")

\* The Noah's Ark clause: of four that are identical the first one goes.
add_formatting_element(p, n) ==
    LET identical == {i \in DOMAIN p.fmt : p.nodes[p.fmt[i]] = p.nodes[n]}
        kept == IF Cardinality(identical) >= 3 THEN RemoveAt(p.fmt, Min(identical)) ELSE p.fmt
    IN  [p EXCEPT !.fmt = Append(kept, n)]

\* What was closed without its end tag is opened again, as a copy: all after the last
\* one that is open.
reconstruct_active_formatting_elements(p) ==
    LET opened == {i \in DOMAIN p.fmt : IndexOf(p.open, p.fmt[i]) # 0}
        Reopen(q, i) ==
            LET node == p.nodes[p.fmt[i]]
            IN  [Opening(q, node.tag, node.ref) EXCEPT !.fmt[i] = Len(q.nodes) + 1]
    IN  FoldLeft(Reopen, p, [k \in 1..(Len(p.fmt) - Max({0} \cup opened)) |->
                                k + Max({0} \cup opened)])

Forget(p, n) == [p EXCEPT !.fmt = SelectSeq(@, LAMBDA e : e # n)]
Close(p, n) == [p EXCEPT !.open = SelectSeq(@, LAMBDA e : e # n)]
Clone(p, n) == create_node(p, TagOf(p, n), p.nodes[n].ref)

\* Step 13: down the stack from the furthest block to the formatting element.  Each
\* formatting element between is replaced by a copy, which takes what is above it;
\* any other one is closed, and so is a fourth formatting one forgotten.
RECURSIVE MoveUp(_, _, _)
MoveUp(p, w, formatting) ==
    LET at == w.at - 1
        node == p.open[at]
        fi == IndexOf(p.fmt, node)
        round == [w EXCEPT !.at = at, !.j = @ + 1]
    IN  CASE node = formatting -> [p |-> p, w |-> w]
          [] node # formatting /\ round.j > 3 /\ fi # 0 ->
                MoveUp(Forget(p, node),
                       [round EXCEPT !.bookmark = IF fi < @ THEN @ - 1 ELSE @], formatting)
          [] node # formatting /\ fi = 0 -> MoveUp(Close(p, node), round, formatting)
          [] OTHER ->
                LET made == Clone(p, node)
                    n == Len(made.nodes)
                    replaced == [made EXCEPT !.fmt[fi] = n, !.open[at] = n]
                IN  MoveUp(Move(replaced, w.last, n),
                           [round EXCEPT !.last = n,
                                         !.bookmark = IF w.last = w.furthest THEN fi + 1 ELSE @],
                           formatting)

\* Steps 15 to 19: a copy of the formatting element, the last node, takes its place
\* in the list and goes below the furthest block, whose children it takes.
PutCopy(p, formatting, furthest, bookmark) ==
    LET n == Len(p.nodes)
        at == IF IndexOf(p.fmt, formatting) < bookmark THEN bookmark - 1 ELSE bookmark
        q == Close(Forget(p, formatting), formatting)
    IN  [q EXCEPT !.kids[n] = p.kids[furthest],
                  !.kids[furthest] = <<n>>,
                  !.fmt = InsertAt(@, at, n),
                  !.open = InsertAt(@, IndexOf(@, furthest) + 1, n)]

\* Steps 11 to 14: the furthest block leaves the formatting element.
Adopt(p, formatting, furthest) ==
    LET ancestor == p.open[IndexOf(p.open, formatting) - 1]
        start == [at |-> IndexOf(p.open, furthest), j |-> 0, last |-> furthest,
                  furthest |-> furthest, bookmark |-> IndexOf(p.fmt, formatting) + 1]
        After(up) ==
            PutCopy(Clone(Move(up.p, up.w.last, ancestor), formatting),
                    formatting, furthest, up.w.bookmark)
    IN  After(MoveUp(p, start, formatting))

RECURSIVE AdoptionRounds(_, _, _)
AdoptionRounds(p, subject, rounds) ==
    LET fi == LastWith(p, p.fmt, subject)
        formatting == p.fmt[fi]
        fo == IndexOf(p.open, formatting)
        blocks == {i \in fo..Len(p.open) : is_special_node(p, p.open[i])}
    IN  CASE rounds = 0 \/ fi = 0 -> p
          [] rounds # 0 /\ fi # 0 /\ fo = 0 -> Forget(p, formatting)
          [] rounds # 0 /\ fi # 0 /\ fo # 0 /\ blocks = {} -> Forget(PopTo(p, fo), formatting)
          [] OTHER -> AdoptionRounds(Adopt(p, formatting, p.open[Min(blocks)]), subject, rounds - 1)

adoption_agency_algorithm(p, subject) ==
    IF TagOf(p, Current(p)) = subject /\ IndexOf(p.fmt, Current(p)) = 0
    THEN pop_current_node(p)
    ELSE AdoptionRounds(p, subject, 8)

-----------------------------------------------------------------------------
(* The insertion modes. *)

\* The element is opened and the tokenizer delivers text until its end tag.
run_generic_parsing_algorithm(p, t) ==
    [insert_element(p, t) EXCEPT !.mode = "text", !.original = p.mode]

handle_initial(p, t) == Reprocess(SetMode(p, "before_html"))

\* Of the end tags only those of head, body, html and br imply what is missing.
handle_before_html(p, t) ==
    IF t.k = "end" /\ t.tag # "body" THEN p
    ELSE Reprocess(SetMode(insert_element_of_tag_type(p, "html"), "before_head"))

handle_before_head(p, t) ==
    IF t.k = "end" /\ t.tag # "body" THEN p
    ELSE LET q == insert_element_of_tag_type(p, "head")
         IN  Reprocess([q EXCEPT !.mode = "in_head", !.head = Current(q)])

handle_in_head(p, t) ==
    CASE Starts(t, {"base"}) -> pop_current_node(insert_element(p, t))
      [] Starts(t, RawText) -> run_generic_parsing_algorithm(p, t)
      [] Ends(t, {"head"}) -> SetMode(pop_current_node(p), "after_head")
      [] t.k = "end" /\ t.tag \notin {"head", "body"} -> p
      [] OTHER -> Reprocess(SetMode(pop_current_node(p), "after_head"))

handle_after_head(p, t) ==
    CASE Starts(t, HeadTags) ->
            LET q == maybe_flush_text_node_buffer(p)
            IN  Close(handle_in_head([q EXCEPT !.open = Append(@, p.head)], t), p.head)
      [] t.k = "end" /\ t.tag # "body" -> p
      [] OTHER -> Reprocess(SetMode(insert_element_of_tag_type(p, "body"), "in_body"))

InsertFormatting(p, t) ==
    LET Added(q) == add_formatting_element(q, Current(q))
    IN  Added(insert_element(reconstruct_active_formatting_elements(p), t))

\* </form> takes the form from the stack and leaves what is above it, and the text
\* that is pending, where they are.
CloseForm(p) ==
    IF IndexOf(p.open, p.form) = 0 THEN [p EXCEPT !.form = 0]
    ELSE Close(generate_implied_end_tags([p EXCEPT !.form = 0]), p.form)

\* An <a> ends the one before it.
EndAnchor(p) ==
    LET Drop(q, n) == Close(Forget(q, n), n)
        Ended(q) == IF LastAnchor(q) = 0 THEN q ELSE Drop(q, q.fmt[LastAnchor(q)])
    IN  IF LastAnchor(p) = 0 THEN p ELSE Ended(adoption_agency_algorithm(p, "a"))

handle_in_body(p, t) ==
    CASE t.k = "text" -> insert_text_token(reconstruct_active_formatting_elements(p), t)
      [] Starts(t, HeadTags) -> handle_in_head(p, t)
      [] Ends(t, {"body"}) -> SetMode(p, "after_body")
      [] Starts(t, Blocks) -> insert_element(maybe_implicitly_close_p_tag(p), t)
      [] Starts(t, {"form"}) /\ p.form = 0 ->
            LET q == insert_element(maybe_implicitly_close_p_tag(p), t)
            IN  [q EXCEPT !.form = Current(q)]
      [] Ends(t, Blocks \ {"p"}) /\ InScope(p, t.tag) -> implicitly_close_tags(p, t.tag)
      [] Ends(t, {"form"}) -> CloseForm(p)
      [] Ends(t, {"p"}) ->
            IF InScope(p, "p") THEN implicitly_close_tags(p, "p")
            ELSE Reprocess(insert_element_of_tag_type(p, "p"))
      [] Starts(t, {"a"}) -> InsertFormatting(EndAnchor(p), t)
      [] Starts(t, Formatting \ {"a"}) -> InsertFormatting(p, t)
      [] Ends(t, Formatting) -> adoption_agency_algorithm(p, t.tag)
      [] OTHER -> p

\* The tokenizer finds no tag in raw text but the element's own end.
handle_text(p, t) ==
    CASE t.k = "eof" -> Reprocess(SetMode(pop_current_node(p), p.original))
      [] Ends(t, {TagOf(p, Current(p))}) -> SetMode(pop_current_node(p), p.original)
      [] OTHER -> insert_text_token(p, t)

handle_after_body(p, t) == IF t.k = "eof" THEN p ELSE Reprocess(SetMode(p, "in_body"))

handle_token(p, t) ==
    CASE p.mode = "initial" -> handle_initial(p, t)
      [] p.mode = "before_html" -> handle_before_html(p, t)
      [] p.mode = "before_head" -> handle_before_head(p, t)
      [] p.mode = "in_head" -> handle_in_head(p, t)
      [] p.mode = "after_head" -> handle_after_head(p, t)
      [] p.mode = "in_body" -> handle_in_body(p, t)
      [] p.mode = "text" -> handle_text(p, t)
      [] p.mode = "after_body" -> handle_after_body(p, t)

RECURSIVE Handled(_, _)
Handled(p, t) ==
    LET Continued(q) == IF q.again THEN Handled(q, t) ELSE q
    IN  Continued(handle_token([p EXCEPT !.again = FALSE], t))

NewParser ==
    [nodes |-> <<>>, kids |-> <<>>, open |-> <<>>, fmt |-> <<>>, text |-> <<>>,
     mode |-> "initial", original |-> "initial", again |-> FALSE, form |-> 0, head |-> 0]

\* finish_parsing pops every open element; the first node is <html>.
gumbo_parse(tokens) == PopTo(FoldLeft(Handled, NewParser, Append(tokens, Eof)), 1)
=============================================================================
