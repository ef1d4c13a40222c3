---------------------------- MODULE CommandLink ----------------------------
(***************************************************************************)
(* What a worker takes a Redis connection to be: commands are sent one at  *)
(* a time, each gets the server's answer to it or NULL, and after the      *)
(* first NULL nothing is sent any more.  A command that was sent may be    *)
(* run even after the worker was told NULL.  No answer of a server that is *)
(* Redis is misread.                                                       *)
(***************************************************************************)
EXTENDS Integers, Sequences

CONSTANTS Replies, NULL

VARIABLES
    link,       \* "good", "lost", or "misread": what came over it was no reply
    welcome,    \* the server takes commands from this client
    genuine,    \* the server is Redis
    sent,       \* how many commands were sent over a good connection
    answered,   \* the server's answers
    returned    \* what the commands returned

linkVars == <<link, welcome, genuine, sent, answered, returned>>

\* A server with too many clients answers before it is asked, and takes no command.
Init ==
    /\ link = "good"
    /\ genuine = TRUE
    /\ welcome \in BOOLEAN
    /\ sent = 0
    /\ returned = <<>>
    /\ IF welcome THEN answered = <<>> ELSE \E a \in Replies : answered = <<a>>

Send ==
    /\ link = "good"
    /\ sent = Len(returned)
    /\ sent' = sent + 1
    /\ UNCHANGED <<link, welcome, genuine, answered, returned>>

Run ==
    /\ welcome
    /\ Len(answered) < sent
    /\ \E a \in Replies : answered' = Append(answered, a)
    /\ UNCHANGED <<link, welcome, genuine, sent, returned>>

Disappoint ==
    /\ welcome
    /\ Len(answered) < sent
    /\ genuine' = FALSE
    /\ UNCHANGED <<link, welcome, sent, answered, returned>>

Answer ==
    /\ link = "good"
    /\ Len(returned) < sent
    /\ sent <= Len(answered)
    /\ returned' = Append(returned, answered[sent])
    /\ UNCHANGED <<link, welcome, genuine, sent, answered>>

Break ==
    /\ link = "good"
    /\ Len(returned) < sent
    /\ link' \in {"lost"} \cup (IF genuine THEN {} ELSE {"misread"})
    /\ returned' = Append(returned, NULL)
    /\ UNCHANGED <<welcome, genuine, sent, answered>>

Fail ==
    /\ link # "good"
    /\ returned' = Append(returned, NULL)
    /\ UNCHANGED <<link, welcome, genuine, sent, answered>>

Next == Send \/ Run \/ Disappoint \/ Answer \/ Break \/ Fail

Spec == Init /\ [][Next]_linkVars
=============================================================================
