---------------------------- MODULE CrawlWorker ----------------------------
(***************************************************************************)
(* The distributed crawl worker, src/worker_v3.cpp.  Any number of worker  *)
(* processes share one Redis server (the list task_queue, the set          *)
(* visited_set, the integer success_counter) and one MySQL table           *)
(* (url_log).  Every Redis command is one atomic step of the server; the   *)
(* processes interleave between commands, and the EVAL of LUA_PUSH is one  *)
(* command.  A worker is a loop: BRPOP a task, SADD its URL, fetch the     *)
(* page, INSERT it and INCR the counter (or GET the counter when the fetch *)
(* failed), leave if the target is met, and otherwise push the page's      *)
(* links one EVAL at a time.                                               *)
(*                                                                         *)
(* The worker never looks at a connection error: a command whose reply is  *)
(* lost is read as "no integer came back", and after it every later        *)
(* command fails without being sent, because hiredis does not reconnect.   *)
(***************************************************************************)
EXTENDS Integers, Sequences, FiniteSets

CONSTANTS
    Workers,    \* worker processes
    Urls,       \* the URLs that a task can name
    NoUrl,      \* "no URL in hand"
    Links,      \* the link strings that pages contain
    UrlOf,      \* the URL that a queued link is parsed to (cut at the first '|')
    RowKey,     \* what the unique key uq_url sees of a URL (191 characters, case folded)
    Web,        \* Web[u]: the link lists the page at u may come back with
    Seeds,      \* the tasks queued before the first worker starts
    MAX_URLS,   \* the target of successful pages
    Faults,     \* the kinds of fault that may happen
    MaxStarts   \* bound on process starts, first ones and restarts together

FaultKinds ==
    { "crash",      \* the process dies between two steps
      "lost",       \* Redis runs the command, the reply does not arrive
      "unsent",     \* the connection breaks before the command is run
      "refused",    \* Redis answers with an error (maxmemory, read-only)
      "db" }        \* MySQL is not connected or rejects the statement

ASSUME WorkersAssumption == IsFiniteSet(Workers)
ASSUME UrlsAssumption == IsFiniteSet(Urls) /\ NoUrl \notin Urls
ASSUME LinksAssumption == /\ UrlOf \in [Links -> Urls]
                          /\ DOMAIN RowKey = Urls
                          /\ DOMAIN Web = Urls
                          /\ \A u \in Urls : Web[u] \subseteq Seq(Links)
                          /\ Seeds \in Seq(Links)
ASSUME LimitsAssumption == MAX_URLS \in Nat \ {0} /\ MaxStarts \in Nat
ASSUME FaultsAssumption == Faults \subseteq FaultKinds

VARIABLES
    task_queue,         \* Redis list; its head is the right end, where BRPOP takes
    visited_set,        \* Redis set
    success_counter,    \* Redis integer (an absent key reads as 0)
    url_log,            \* the URLs that have a row in MySQL
    pc,                 \* where each process is in its loop
    link,               \* whether the process's Redis connection still works
    url,                \* the URL of the current iteration
    todo,               \* page.links not yet pushed, in the order of the std::set
    starts,             \* history: processes started so far
    fetches,            \* history: how often each URL was fetched
    succeeded           \* history: the URLs whose page came back

redis == <<task_queue, visited_set, success_counter>>
locals == <<pc, link, url, todo>>
history == <<starts, fetches, succeeded>>
vars == <<redis, url_log, locals, history>>

Down == {"down", "exited"}
Busy == {"sadd", "fetch", "insert", "incr", "get", "push"}
\* The steps of an iteration whose URL this worker has claimed in visited_set.
Claimed == Busy \ {"sadd"}

Running(w) == pc[w] \notin Down
Live == {w \in Workers : Running(w) /\ link[w]}

-----------------------------------------------------------------------------
\* The outcome of a Redis command that w sends now.
Outcomes(w) ==
    IF link[w] THEN {"answered"} \cup (Faults \cap {"lost", "unsent", "refused"})
               ELSE {"unsent"}

Executed(o) == o \in {"answered", "lost"}

\* A command that was not answered breaks the connection for good.
Reply(w, o) == link' = [link EXCEPT ![w] = link[w] /\ o \in {"answered", "refused"}]

\* The current iteration ends at p: its local variables go out of scope.
Leave(w, p) ==
    /\ pc' = [pc EXCEPT ![w] = p]
    /\ url' = [url EXCEPT ![w] = NoUrl]
    /\ todo' = [todo EXCEPT ![w] = <<>>]

Goto(w, p) == pc' = [pc EXCEPT ![w] = p] /\ UNCHANGED url

\* The loop over page.links: nothing left to push ends the iteration.
SpreadForever(w, rest) == Goto(w, "push") /\ todo' = [todo EXCEPT ![w] = rest]
Spread(w, rest) ==
    IF rest = <<>> THEN Leave(w, "brpop")
                   ELSE Goto(w, "push") /\ todo' = [todo EXCEPT ![w] = rest]

\* success_total >= MAX_URLS
TargetExceeded(total) == total > MAX_URLS
TargetMetEarly(total) == total >= MAX_URLS - 1
TargetMet(total) == total >= MAX_URLS

-----------------------------------------------------------------------------
Init ==
    /\ task_queue = Seeds
    /\ visited_set = {}
    /\ success_counter = 0
    /\ url_log = {}
    /\ pc = [w \in Workers |-> "down"]
    /\ link = [w \in Workers |-> FALSE]
    /\ url = [w \in Workers |-> NoUrl]
    /\ todo = [w \in Workers |-> <<>>]
    /\ starts = 0
    /\ fetches = [u \in Urls |-> 0]
    /\ succeeded = {}

\* A process starts and connects; SETNX changes nothing that can be read.  A
\* process that cannot connect returns at once and is never started here.
Start(w) ==
    /\ ~Running(w)
    /\ starts < MaxStarts
    /\ starts' = starts + 1
    /\ link' = [link EXCEPT ![w] = TRUE]
    /\ Leave(w, "brpop")
    /\ UNCHANGED <<redis, url_log, fetches, succeeded>>

\* What BRPOP leaves of a list.
AfterRotate(q) == Append(Tail(q), Head(q))
AfterPop(q) == Tail(q)

\* BRPOP task_queue 0: blocks while the list is empty.  Without a usable reply
\* the loop continues, and with a dead connection it spins here for ever.
Pop(w) ==
    /\ pc[w] = "brpop"
    /\ link[w]
    /\ \E o \in Outcomes(w) \ {"refused"} :
          /\ Reply(w, o)
          /\ \/ /\ o = "unsent"
                /\ UNCHANGED <<task_queue, pc, url>>
             \/ /\ Executed(o)
                /\ task_queue # <<>>
                /\ task_queue' = AfterPop(task_queue)
                /\ IF o = "answered"
                   THEN /\ pc' = [pc EXCEPT ![w] = "sadd"]
                        /\ url' = [url EXCEPT ![w] = UrlOf[Head(task_queue)]]
                   ELSE UNCHANGED <<pc, url>>
    /\ UNCHANGED <<visited_set, success_counter, url_log, todo, history>>

\* What SADD answers 1 to: the member was not in the set.
AnyTime(u) == TRUE
FirstTimeNearTarget(u) == u \notin visited_set /\ success_counter < MAX_URLS - 1
FirstTime(u) == u \notin visited_set

\* SADD visited_set url: only an answer of 1 lets the worker go on.
Claim(w) ==
    /\ pc[w] = "sadd"
    /\ \E o \in Outcomes(w) :
          /\ Reply(w, o)
          /\ visited_set' = IF Executed(o) THEN visited_set \cup {url[w]} ELSE visited_set
          /\ IF o = "answered" /\ FirstTime(url[w])
             THEN Goto(w, "fetch") /\ UNCHANGED todo
             ELSE Leave(w, "brpop")
    /\ UNCHANGED <<task_queue, success_counter, url_log, history>>

\* limiter.acquire and LinkFetcher::get_all_info: the page comes back with its
\* links, possibly none, or not at all (robots.txt, status other than 200, ...).
Fetch(w) ==
    /\ pc[w] = "fetch"
    /\ fetches' = [fetches EXCEPT ![url[w]] = @ + 1]
    /\ \/ /\ Goto(w, "get")
          /\ UNCHANGED <<todo, succeeded>>
       \/ /\ \E links \in Web[url[w]] : todo' = [todo EXCEPT ![w] = links]
          /\ succeeded' = succeeded \cup {url[w]}
          /\ Goto(w, "insert")
    /\ UNCHANGED <<redis, url_log, link, starts>>

\* INSERT IGNORE: a row with the same key makes the statement a no-op.
RowExists(u) == \E v \in url_log : RowKey[v] = RowKey[u]

\* db.insert_page, whose result the worker does not look at.
Insert(w) ==
    /\ pc[w] = "insert"
    /\ \/ url_log' = IF RowExists(url[w]) THEN url_log ELSE url_log \cup {url[w]}
       \/ "db" \in Faults /\ UNCHANGED url_log
    /\ Goto(w, "incr")
    /\ UNCHANGED <<redis, link, todo, history>>

\* INCR success_counter; success_total stays 0 unless an integer comes back.
Count(w) ==
    /\ pc[w] = "incr"
    /\ \E o \in Outcomes(w) :
          /\ Reply(w, o)
          /\ success_counter' = IF Executed(o) THEN success_counter + 1 ELSE success_counter
          /\ IF o = "answered" /\ TargetMet(success_counter + 1)
             THEN Leave(w, "exited")
             ELSE Spread(w, todo[w])
    /\ UNCHANGED <<task_queue, visited_set, url_log, history>>

\* GET success_counter after a failed fetch: nothing is pushed.
ReadCount(w) ==
    /\ pc[w] = "get"
    /\ \E o \in Outcomes(w) :
          /\ Reply(w, o)
          /\ IF o = "answered" /\ TargetMet(success_counter)
             THEN Leave(w, "exited")
             ELSE Leave(w, "brpop")
    /\ UNCHANGED <<redis, url_log, history>>

\* The test of LUA_PUSH, made inside Redis by the same command that pushes.
GateUnchecked == TRUE
GateOpen == success_counter < MAX_URLS

\* try_push of the next link; its result is ignored.
Push(w) ==
    /\ pc[w] = "push"
    /\ \E o \in Outcomes(w) :
          /\ Reply(w, o)
          /\ task_queue' = IF Executed(o) /\ GateOpen
                           THEN Append(task_queue, Head(todo[w]))
                           ELSE task_queue
    /\ Spread(w, Tail(todo[w]))
    /\ UNCHANGED <<visited_set, success_counter, url_log, history>>

\* The process dies; what Redis and MySQL hold stays.
Crash(w) ==
    /\ "crash" \in Faults
    /\ Running(w)
    /\ link' = [link EXCEPT ![w] = FALSE]
    /\ Leave(w, "down")
    /\ UNCHANGED <<redis, url_log, history>>

Step(w) ==
    \/ Pop(w) \/ Claim(w) \/ Fetch(w) \/ Insert(w)
    \/ Count(w) \/ ReadCount(w) \/ Push(w)

Next == \E w \in Workers : Start(w) \/ Step(w) \/ Crash(w)

Spec == Init /\ [][Next]_vars

\* A process that runs keeps executing its loop; nobody promises a start.
FairSpec == Spec /\ \A w \in Workers : WF_vars(Step(w))

-----------------------------------------------------------------------------
(***************************************************************************)
(* Properties.                                                             *)
(***************************************************************************)

\* The local variables of main(): their types, and when they are in use.
LocalsOK ==
    /\ pc \in [Workers -> Down \cup {"brpop"} \cup Busy]
    /\ url \in [Workers -> Urls \cup {NoUrl}]
    /\ todo \in [Workers -> Seq(Links)]
    /\ \A w \in Workers : (pc[w] \in Busy) <=> (url[w] # NoUrl)
    /\ \A w \in Workers : pc[w] = "push" => todo[w] # <<>>

\* Types of the shared state, of each worker's locals and of the history.
TypeOK ==
    /\ task_queue \in Seq(Links)
    /\ visited_set \subseteq Urls
    /\ success_counter \in Nat
    /\ url_log \subseteq Urls
    /\ link \in [Workers -> BOOLEAN]
    /\ LocalsOK
    /\ starts \in 0..MaxStarts
    /\ fetches \in [Urls -> Nat]
    /\ succeeded \subseteq Urls

\* SADD arbitrates between the workers: no two of them work on the same URL,
\* and no URL is ever fetched twice, whatever fails and whoever is restarted
\* in between (worker_v3.cpp:78-85).
OneClaimPerUrl ==
    /\ \A v, w \in Workers :
          v # w /\ pc[v] \in Claimed /\ pc[w] \in Claimed => url[v] # url[w]
    /\ \A u \in Urls : fetches[u] <= 1

\* The target is not a hard limit: pages in flight when it is met are still
\* counted.  But each process run adds at most one page beyond it, because the
\* answer to that INCR ends the loop (worker_v3.cpp:121-125); a process that is
\* still connected has not used up its one.
OvershootBounded ==
    success_counter <= MAX_URLS - 1 + starts - Cardinality(Live)

\* A URL in visited_set that nobody has fetched and nobody is about to fetch:
\* it never will be, since SADD refuses it from now on.
Orphans ==
    {u \in visited_set : /\ fetches[u] = 0
                         /\ \A w \in Workers : pc[w] = "fetch" => url[w] # u}

\* Claiming before fetching loses a URL when the process dies, or its connection
\* breaks, between the two; a process run can lose one and only by ending.
LossBounded == Cardinality(Orphans) + Cardinality(Live) <= starts

\* When MySQL takes every row and no two URLs share a key, each counted page is
\* a stored one: the row is written before the counter moves, so a crash between
\* the two leaves the counter behind and never ahead (worker_v3.cpp:95-106).
InFlight == {w \in Workers : pc[w] = "incr"}
CountedPagesStored ==
    ("db" \notin Faults /\ \A u, v \in Urls : RowKey[u] = RowKey[v] => u = v)
        => success_counter + Cardinality(InFlight) <= Cardinality(url_log)

\* Without process and Redis faults nothing goes missing: a claimed URL is fetched or about to be,
\* and every page that came back is counted or in its worker's hands.
NothingLost ==
    Faults \subseteq {"db"} =>
        /\ Orphans = {}
        /\ success_counter + Cardinality({w \in Workers : pc[w] \in {"insert", "incr"}})
              = Cardinality(succeeded)

\* What the workers together promise about the quota: see CrawlQuota.
Quota == INSTANCE CrawlQuota
            WITH Target <- MAX_URLS,
                 SeedCount <- Len(Seeds),
                 backlog <- Len(task_queue),
                 claimed <- visited_set,
                 harvested <- succeeded,
                 total <- success_counter
QuotaSpec == Quota!Spec

\* Without process and Redis faults a queued URL does not wait for ever while a worker runs: it
\* is claimed, or the target is met (worker_v3.cpp:62-133).
QueuedUrlIsClaimed ==
    \A u \in Urls :
        (\E i \in DOMAIN task_queue : UrlOf[task_queue[i]] = u) /\ Live # {}
            ~> u \in visited_set \/ success_counter >= MAX_URLS

\* Pages that link to each other do not keep the crawl going: in the end the
\* queue stays empty or no connected worker is left.
CrawlSettles == <>[](task_queue = <<>> \/ Live = {})

-----------------------------------------------------------------------------
(***************************************************************************)
(* What a comment in the source says and the code does not do.             *)
(***************************************************************************)

\* worker_v3.cpp:120 "leave once the target is met": every worker would end.
WorkersStopAtTarget ==
    \A w \in Workers :
        (success_counter >= MAX_URLS /\ Running(w)) ~> ~Running(w)
=============================================================================
