----------------------------- MODULE RespReader -----------------------------
(***************************************************************************)
(* The incremental reply reader, src/hiredis/read.c, with the functions of *)
(* src/hiredis/hiredis.c that make the reply objects.  A reply arrives in  *)
(* pieces cut anywhere; the reader keeps its place in it on a stack of     *)
(* tasks.  Bytes are their codes; a reply is a function from the place of  *)
(* an object in it (the indices on the way down) to that object.           *)
(*                                                                         *)
(* The types are those of RESP2, which a server speaks to a client that    *)
(* never sends HELLO.  Numbers are below the width of a long long, arrays  *)
(* have less than 2^32 elements (maxelements), memory does not run out.    *)
(***************************************************************************)
EXTENDS Integers, Sequences, SequencesExt, FiniteSets, FiniteSetsExt

CONSTANTS
    Discard     \* consumed bytes that are worth removing from the buffer: 1024 in the code

ASSUME DiscardAssumption == Discard \in Nat \ {0}

CRLF == <<13, 10>>
Digits == 48..57
Minus == 45

\* The type bytes: $ * : + -
TypeOf ==
    [b \in {36, 42, 58, 43, Minus} |->
        CASE b = 36 -> "string" [] b = 42 -> "array" [] b = 58 -> "integer"
          [] b = 43 -> "status" [] b = Minus -> "error"]

NoReply == <<>>
RootTask == [type |-> "unread", elements |-> -1, idx |-> -1]
ElementTask == [RootTask EXCEPT !.idx = 0]
Fresh == [buf |-> <<>>, pos |-> 0, task |-> <<>>, reply |-> NoReply, err |-> FALSE]

Rest(r) == SubSeq(r.buf, r.pos + 1, Len(r.buf))

SetError(r) == [Fresh EXCEPT !.err = TRUE]

-----------------------------------------------------------------------------
\* readLine: the line in front of the first CRLF, if there is one.
Newlines(s) == {i \in 1..(Len(s) - 1) : s[i] = CRLF[1] /\ s[i + 1] = CRLF[2]}
Lines(s) == {SubSeq(s, 1, i - 1) : i \in {i \in Newlines(s) : \A j \in Newlines(s) : i <= j}}

Magnitude(s) == IF s # <<>> /\ s[1] = Minus THEN Tail(s) ELSE s
IsNumber(s) ==
    \/ s = <<48>>
    \/ /\ Magnitude(s) # <<>>
       /\ Magnitude(s)[1] # 48
       /\ \A i \in DOMAIN Magnitude(s) : Magnitude(s)[i] \in Digits
Value(digits) ==
    LET v[i \in 0..Len(digits)] == IF i = 0 THEN 0 ELSE 10 * v[i - 1] + digits[i] - 48
    IN  v[Len(digits)]
string2ll(s) == IF Magnitude(s) = s THEN Value(s) ELSE -Value(Magnitude(s))

-----------------------------------------------------------------------------
\* The object made for the task on top of the stack goes to its place in the reply.
Place(task) == [i \in 1..(Len(task) - 1) |-> task[i + 1].idx]
Create(r, type, value) ==
    LET place == Place(r.task)
    IN  [r EXCEPT !.reply = [p \in {place} \cup DOMAIN r.reply |->
                                IF p = place THEN [type |-> type, value |-> value] ELSE r.reply[p]]]

\* The next element of the innermost aggregate that has one; an element may be of any type.
SameType(t) == [t EXCEPT !.idx = @ + 1]
NextElement(t) == [RootTask EXCEPT !.idx = t.idx + 1]
moveToNextTask(r) ==
    LET Unfinished == {i \in 2..Len(r.task) : r.task[i].idx # r.task[i - 1].elements - 1}
        top == Max(Unfinished)
    IN  [r EXCEPT !.task = IF Unfinished = {} THEN <<>>
                           ELSE SubSeq(@, 1, top - 1) \o <<NextElement(@[top])>>]

Consume(r, n) == [r EXCEPT !.pos = @ + n]
Made(r, n, type, value) == moveToNextTask(Create(Consume(r, n), type, value))

processLineItem(r, line) ==
    LET type == Last(r.task).type
        n == Len(line) + 2
    IN  CASE type = "integer" /\ IsNumber(line) -> Made(r, n, type, <<string2ll(line)>>)
          [] type # "integer" /\ \A i \in DOMAIN line : line[i] \notin {13, 10} -> Made(r, n, type, line)
          [] OTHER -> SetError(r)

\* A bulk string is complete when all its bytes and the two behind them are there.
BulkEnd(line) == Len(line) + 2 + string2ll(line) + 2
MoreThanBulk(r, line) == BulkEnd(line) < Len(Rest(r))
BulkThere(r, line) == BulkEnd(line) <= Len(Rest(r))

processBulkItem(r, line) ==
    LET n == Len(line) + 2
        len == string2ll(line)
    IN  CASE ~IsNumber(line) \/ len < -1 -> SetError(r)
          [] IsNumber(line) /\ len = -1 -> Made(r, n, "nil", <<>>)
          [] OTHER -> Made(r, BulkEnd(line), "string", SubSeq(Rest(r), n + 1, n + len))

\* The first element comes next.
Descend(r, elements) ==
    [r EXCEPT !.task = Front(@) \o <<[Last(@) EXCEPT !.elements = elements], ElementTask>>]

processAggregateItem(r, line) ==
    LET n == Len(line) + 2
        elements == string2ll(line)
        Opened == Create(Consume(r, n), "array", <<elements>>)
    IN  CASE ~IsNumber(line) \/ elements < -1 -> SetError(r)
          [] IsNumber(line) /\ elements = -1 -> Made(r, n, "nil", <<>>)
          [] IsNumber(line) /\ elements = 0 -> moveToNextTask(Opened)
          [] OTHER -> Descend(Opened, elements)

-----------------------------------------------------------------------------
\* The type byte is read once; it stays in the task while the rest of the item is awaited.
Typed(r) ==
    IF r.task = <<>> \/ Last(r.task).type # "unread" \/ Rest(r) = <<>> THEN r
    ELSE IF Rest(r)[1] \notin DOMAIN TypeOf THEN SetError(r)
    ELSE Consume([r EXCEPT !.task[Len(r.task)].type = TypeOf[Rest(r)[1]]], 1)

\* processItem on the reader t that has the type: the readers it may come to, none if it
\* lacks bytes.
processItem(t) ==
    IF t.err THEN {t}
    ELSE UNION {CASE Last(t.task).type = "array" -> {processAggregateItem(t, line)}
                  [] Last(t.task).type = "string" ->
                        IF IsNumber(line) /\ string2ll(line) >= 0 /\ ~BulkThere(t, line) THEN {}
                        ELSE {processBulkItem(t, line)}
                  [] OTHER -> {processLineItem(t, line)}
                : line \in Lines(Rest(t))}

\* redisReaderGetReply before its loop, a turn of the loop, and after it: a reply is
\* emitted when the stack is empty, and consumed bytes are dropped.
StartReply(r) ==
    IF r.err \/ r.buf = <<>> \/ r.task # <<>> THEN r ELSE [r EXCEPT !.task = <<RootTask>>]

Items(r) == IF r.task = <<>> THEN {} ELSE UNION {processItem(t) : t \in {Typed(r)}}

Kept(r) == IF r.pos >= Discard THEN [r EXCEPT !.buf = Rest(r), !.pos = 0] ELSE r
Emitted(r) == IF r.task = <<>> THEN r.reply ELSE NoReply
AfterReply(r) == IF r.err THEN r
                 ELSE IF r.task = <<>> THEN [Kept(r) EXCEPT !.reply = NoReply] ELSE Kept(r)

redisReaderFeed(r, bytes) == IF r.err THEN r ELSE [r EXCEPT !.buf = @ \o bytes]
=============================================================================
