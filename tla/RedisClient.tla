---------------------------- MODULE RedisClient ----------------------------
(***************************************************************************)
(* redisCommand on a blocking context, src/hiredis/hiredis.c with the      *)
(* reads and writes of net.c, as src/worker_v3.cpp calls it: one thread,   *)
(* one command at a time.  Sockets take and give any number of bytes, may  *)
(* be interrupted, and may fail for good.  The server and the network are  *)
(* not in the repository; they are modelled by what they may do to this    *)
(* client: run the commands whose bytes have come in, in order, answer     *)
(* each, close the connection, turn the client away, or not be Redis.      *)
(***************************************************************************)
EXTENDS RespReader

CONSTANTS
    Replies,        \* what the server answers; nil is told from the two forms it is sent in
    TooManyClients, \* the reply of a server that turns the client away
    Malformed,      \* what is no reply: objects as in one, and then a line that makes no object
    NULL,
    CommandSize,    \* bytes of a command
    MaxCommands     \* bound on the commands given

ASSUME CommandAssumption == CommandSize \in Nat \ {0} /\ MaxCommands \in Nat
ASSUME NullAssumption == NULL \notin Replies /\ TooManyClients \in Replies

VARIABLES
    pc,         \* "idle", or in redisGetReply: "pending" replies, "write", "read", "scan"
    obuf,       \* output buffer
    err,        \* c->err is set
    reader,     \* c->reader
    given,      \* history: commands given
    sent,       \* history: commands given while there was no error
    returned,   \* history: what the commands returned
    request,    \* bytes the server has received
    wire,       \* bytes on the way to the client
    open,       \* the server has not closed
    welcome,    \* the server takes commands from this client
    genuine,    \* the server is Redis, as far as anybody could tell
    answers     \* history: the server's answers

clientVars == <<pc, obuf, err, reader, given, sent, returned>>
serverVars == <<request, wire, open, welcome, genuine, answers>>
vars == <<clientVars, serverVars>>

-----------------------------------------------------------------------------
\* A reply of the server is the sequence of its objects, an aggregate in front of its
\* elements; each has bytes of its own.
Object == [place : Seq(Nat), value : Seq(Int),
           type : {"string", "array", "integer", "status", "error", "nil string", "nil array"}]

Numeral(n) ==
    LET digits[m \in 0..n] ==
            IF m < 10 THEN <<48 + m>> ELSE Append(digits[m \div 10], 48 + (m % 10))
    IN  digits[n]
Decimal(n) == IF n < 0 THEN <<Minus>> \o Numeral(-n) ELSE Numeral(n)

TypeSent(o) == CASE o.type = "nil string" -> "string"
                 [] o.type = "nil array" -> "array"
                 [] OTHER -> o.type
Letter(o) == CHOOSE b \in DOMAIN TypeOf : TypeOf[b] = TypeSent(o)
Line(o) ==
    CASE o.type = "string" -> Decimal(Len(o.value))
      [] o.type \in {"array", "integer"} -> Decimal(o.value[1])
      [] o.type \in {"status", "error"} -> o.value
      [] OTHER -> Decimal(-1)
Body(o) == IF o.type = "string" THEN o.value \o CRLF ELSE <<>>
Header(o) == <<Letter(o)>> \o Line(o) \o CRLF \o Body(o)

\* The bytes behind the first k objects, and then the tail.
BytesBehind(a, tail) ==
    LET behind[k \in 0..Len(a)] ==
            IF k = Len(a) THEN tail ELSE Header(a[k + 1]) \o behind[k + 1]
    IN  behind
Bytes(a) == BytesBehind(a, <<>>)[0]
BadLine(m) == <<m.letter>> \o m.line \o CRLF

\* What a client sees of an object, and of a reply.
Visible(o) ==
    IF o.type \in {"nil string", "nil array"} THEN [type |-> "nil", value |-> <<>>]
    ELSE [type |-> o.type, value |-> o.value]
Seen(a) ==
    [p \in {a[i].place : i \in DOMAIN a} |-> Visible(CHOOSE o \in ToSet(a) : o.place = p)]

\* Behind an aggregate with elements comes the first of them, behind any other object the
\* next element of the innermost aggregate around it that has one.
Opens(o) == o.type = "array" /\ o.value[1] > 0
Width(a, p) == (CHOOSE o \in ToSet(a) : o.place = p).value[1]
IsLast(a, p, t) == p[t] = Width(a, SubSeq(p, 1, t - 1)) - 1
NextPlaces(a, k) ==
    IF k = 0 THEN {<<>>}
    ELSE LET p == a[k].place
         IN  IF Opens(a[k]) THEN {Append(p, 0)}
             ELSE {Append(SubSeq(p, 1, t - 1), p[t] + 1) :
                      t \in {t \in 1..Len(p) : /\ ~IsLast(a, p, t)
                                             /\ \A u \in (t + 1)..Len(p) : IsLast(a, p, u)}}

WellFormed(a) ==
    /\ a \in Seq(Object)
    /\ \A i, j \in DOMAIN a : a[i].place = a[j].place => i = j
    /\ \A k \in DOMAIN a :
          /\ a[k].place \in NextPlaces(a, k - 1)
          /\ a[k].type \in {"array", "integer"} => Len(a[k].value) = 1
          /\ a[k].type = "array" => a[k].value[1] >= 0
          /\ a[k].type \in {"status", "error"} => ToSet(a[k].value) \cap ToSet(CRLF) = {}

MakesNoObject(letter, line) ==
    \/ letter \notin DOMAIN TypeOf
    \/ TypeOf[letter] \in {"status", "error"} /\ ToSet(line) \cap ToSet(CRLF) # {}
    \/ TypeOf[letter] \in {"integer", "string", "array"} /\ ~IsNumber(line)
    \/ TypeOf[letter] \in {"string", "array"} /\ string2ll(line) < -1

\* The types that RESP3 has besides, which the reader parses: , _ % | ~ # = > (
Resp3Letters == {44, 95, 37, 124, 126, 35, 61, 62, 40}

ASSUME RepliesAssumption ==
    \A a \in Replies \cup {TooManyClients} : WellFormed(a) /\ NextPlaces(a, Len(a)) = {}
ASSUME MalformedAssumption ==
    \A m \in Malformed :
        /\ WellFormed(m.good) /\ NextPlaces(m.good, Len(m.good)) # {}
        /\ m.letter \in Int \ Resp3Letters /\ m.line \in Seq(Int)
        /\ Newlines(m.line) = {}
        /\ MakesNoObject(m.letter, m.line)

Formatted(k) == [i \in 1..CommandSize |-> k]
-----------------------------------------------------------------------------
Init ==
    /\ pc = "idle"
    /\ obuf = <<>>
    /\ err = FALSE
    /\ reader = Fresh
    /\ given = 0
    /\ sent = 0
    /\ returned = <<>>
    /\ request = <<>>
    /\ welcome \in BOOLEAN
    /\ open = welcome
    /\ genuine = TRUE
    /\ answers = IF welcome THEN <<>> ELSE <<Seen(TooManyClients)>>
    /\ wire = IF welcome THEN <<>> ELSE Bytes(TooManyClients)

\* redisCommand: the command joins the output buffer, whatever the state of the context,
\* and redisGetReply starts with the replies that are already in the reader.
Command ==
    /\ pc = "idle" /\ given < MaxCommands
    /\ given' = given + 1
    /\ sent' = IF err THEN sent ELSE sent + 1
    /\ obuf' = obuf \o Formatted(given')
    /\ pc' = "pending"
    /\ reader' = StartReply(reader)
    /\ UNCHANGED <<err, returned, serverVars>>

\* One turn of the loop of redisReaderGetReply.
ProcessItem ==
    /\ pc \in {"pending", "scan"}
    /\ reader' \in Items(reader)
    /\ UNCHANGED <<pc, obuf, err, given, sent, returned, serverVars>>

Return(reply) ==
    /\ pc' = "idle"
    /\ returned' = Append(returned, reply)

\* redisGetReply fails: redisCommand returns NULL.
ReturnError ==
    /\ err' = TRUE
    /\ Return(NULL)
    /\ UNCHANGED <<obuf, given, sent>>

\* The end of redisReaderGetReply, and what redisGetReply makes of its result.
EndReply ==
    /\ pc \in {"pending", "scan"}
    /\ Items(reader) = {}
    /\ \/ /\ reader.err
          /\ ReturnError
          /\ UNCHANGED <<reader, serverVars>>
       \/ /\ ~reader.err
          /\ reader' = AfterReply(Typed(reader))
          /\ IF Emitted(reader) # NoReply
             THEN Return(Emitted(reader))
             ELSE /\ pc' = IF pc = "pending" THEN "write" ELSE "read"
                  /\ UNCHANGED returned
          /\ UNCHANGED <<obuf, err, given, sent, serverVars>>

\* redisBufferWrite and redisBufferRead look at c->err first.
Anyhow == TRUE
Usable == ~err

CallRefused ==
    /\ pc \in {"write", "read"}
    /\ ~Usable
    /\ ReturnError
    /\ UNCHANGED <<reader, serverVars>>

\* send takes some bytes of the output buffer; the next call is for the rest.
Write(n) ==
    /\ pc = "write" /\ Usable
    /\ n \in 1..Len(obuf)
    /\ obuf' = SubSeq(obuf, n + 1, Len(obuf))
    /\ request' = IF open THEN request \o SubSeq(obuf, 1, n) ELSE request
    /\ pc' = IF obuf' = <<>> THEN "read" ELSE "write"
    /\ UNCHANGED <<err, reader, given, sent, returned, wire, open, welcome, genuine, answers>>

\* recv gives some of the bytes that have come in; they are fed to the reader.
Read(n) ==
    /\ pc = "read" /\ Usable
    /\ n \in 1..Len(wire)
    /\ reader' = StartReply(redisReaderFeed(reader, SubSeq(wire, 1, n)))
    /\ wire' = SubSeq(wire, n + 1, Len(wire))
    /\ pc' = "scan"
    /\ UNCHANGED <<obuf, err, given, sent, returned, request, open, welcome, genuine, answers>>

\* A signal interrupts recv: nothing is fed, and the reader is asked again.  (An
\* interrupted send changes nothing.)
Interrupt ==
    /\ pc = "read" /\ Usable
    /\ pc' = "scan"
    /\ reader' = StartReply(reader)
    /\ UNCHANGED <<obuf, err, given, sent, returned, serverVars>>

\* send or recv fails: the connection was reset, timed out, or closed by the server.
ConnectionFails ==
    /\ pc \in {"write", "read"} /\ Usable
    /\ ReturnError
    /\ wire' = <<>>
    /\ UNCHANGED <<reader, request, open, welcome, genuine, answers>>

ClientStep ==
    \/ ProcessItem \/ EndReply \/ CallRefused
    \/ \E n \in 1..Len(obuf) : Write(n)
-----------------------------------------------------------------------------
\* The server has all the bytes of its next command: it runs it and answers.
Run ==
    /\ open /\ Len(request) >= CommandSize
    /\ request' = SubSeq(request, CommandSize + 1, Len(request))
    /\ \E a \in Replies : /\ answers' = Append(answers, Seen(a))
                          /\ wire' = wire \o Bytes(a)
    /\ UNCHANGED <<clientVars, open, welcome, genuine>>

\* What answers is not Redis, or a broken one.
Garble ==
    /\ open /\ Len(request) >= CommandSize
    /\ \E m \in Malformed : wire' = wire \o BytesBehind(m.good, BadLine(m))[0]
    /\ open' = FALSE
    /\ genuine' = FALSE
    /\ UNCHANGED <<clientVars, request, welcome, answers>>

Close ==
    /\ open
    /\ open' = FALSE
    /\ UNCHANGED <<clientVars, request, wire, welcome, genuine, answers>>

Next ==
    \/ Command \/ ClientStep \/ Interrupt \/ ConnectionFails
    \/ \E n \in 1..Len(wire) : Read(n)
    \/ Run \/ Garble \/ Close

Spec == Init /\ [][Next]_vars

\* The client's thread runs, signals come to an end, bytes on the way arrive, an end of
\* the stream is noticed, and a server that is there answers or closes.
FairSpec ==
    /\ Spec
    /\ WF_vars(ClientStep)
    /\ SF_vars(\E n \in 1..Len(wire) : Read(n))
    /\ SF_vars(~open /\ wire = <<>> /\ ConnectionFails)
    /\ WF_vars(Run)

-----------------------------------------------------------------------------
\* Commands and answers stay in step for as long as the connection is good, however both
\* are cut on their way, and no reply of Redis is taken for an error.  After the first NULL
\* no command reaches the server and each returns NULL, so that the loop at
\* worker_v3.cpp:65 goes round without waiting for anybody.
Promised == INSTANCE CommandLink WITH
    Replies <- {Seen(a) : a \in Replies},
    link <- IF ~err THEN "good" ELSE IF reader.err THEN "misread" ELSE "lost",
    answered <- answers
ImplementsLink == Promised!Spec

\* A reply is recognised when its last byte is there: redisGetReply does not wait for
\* bytes that nobody will send.
EveryCommandReturns == pc # "idle" ~> pc = "idle"
=============================================================================
