------------------------- MODULE CrawlWorkerProofs -------------------------
(***************************************************************************)
(* Machine-checked facts about CrawlWorker, for every number of workers,   *)
(* every web, every target and every combination of faults.                *)
(***************************************************************************)
EXTENDS CrawlWorker, FiniteSetTheorems, TLAPS

-----------------------------------------------------------------------------
(***************************************************************************)
(* What the building blocks of the actions do to the types.                *)
(***************************************************************************)

\* A reply, or its absence, leaves every worker with a Boolean connection state.
LEMMA ReplyType ==
    ASSUME link \in [Workers -> BOOLEAN], NEW w \in Workers, NEW o, Reply(w, o)
    PROVE  link' \in [Workers -> BOOLEAN]
  <1>1. (link[w] /\ o \in {"answered", "refused"}) \in BOOLEAN
    OBVIOUS
  <1> QED
    BY <1>1 DEF Reply

\* Leaving an iteration for a place outside it empties the locals.
LEMMA LeaveType ==
    ASSUME LocalsOK, NEW w \in Workers, NEW p \in Down \cup {"brpop"}, Leave(w, p)
    PROVE  LocalsOK'
  BY UrlsAssumption DEF LocalsOK, Leave, Down, Busy

\* Moving on inside an iteration keeps the URL in hand.
LEMMA GotoType ==
    ASSUME LocalsOK, NEW w \in Workers, NEW p \in Busy, pc[w] \in Busy, Goto(w, p),
           NEW rest \in Seq(Links), todo' = [todo EXCEPT ![w] = rest],
           p = "push" => rest # <<>>
    PROVE  LocalsOK'
  BY DEF LocalsOK, Goto, Down, Busy

LEMMA SpreadType ==
    ASSUME LocalsOK, NEW w \in Workers, pc[w] \in Busy,
           NEW rest \in Seq(Links), Spread(w, rest)
    PROVE  LocalsOK'
  <1>1. CASE rest = <<>>
    BY <1>1, LeaveType DEF Spread
  <1>2. CASE rest # <<>>
    BY <1>2, GotoType DEF Spread, Busy
  <1> QED
    BY <1>1, <1>2

LEMMA TypeInit == Init => TypeOK
  BY UrlsAssumption, LinksAssumption, LimitsAssumption
     DEF Init, TypeOK, LocalsOK, Down, Busy

LEMMA TypeNext == TypeOK /\ [Next]_vars => TypeOK'
  <1> SUFFICES ASSUME TypeOK, [Next]_vars PROVE TypeOK'
    OBVIOUS
  <1> USE UrlsAssumption, LinksAssumption, LimitsAssumption
  <1>1. ASSUME NEW w \in Workers, Start(w) PROVE TypeOK'
    <2>1. LocalsOK'
      BY <1>1, LeaveType DEF Start, TypeOK
    <2> QED
      BY <1>1, <2>1 DEF TypeOK, Start, redis
  <1>2. ASSUME NEW w \in Workers, Pop(w) PROVE TypeOK'
    <2>1. PICK o \in Outcomes(w) \ {"refused"} :
             /\ Reply(w, o)
             /\ \/ UNCHANGED <<task_queue, pc, url>>
                \/ /\ task_queue # <<>>
                   /\ task_queue' = Tail(task_queue)
                   /\ \/ /\ pc' = [pc EXCEPT ![w] = "sadd"]
                         /\ url' = [url EXCEPT ![w] = UrlOf[Head(task_queue)]]
                      \/ UNCHANGED <<pc, url>>
      BY <1>2 DEF Pop, AfterPop
    <2>2. link' \in [Workers -> BOOLEAN]
      BY <2>1, ReplyType DEF TypeOK
    <2>3. task_queue' \in Seq(Links)
      <3>1. \A q \in Seq(Links) : q # <<>> => Tail(q) \in Seq(Links)
        OBVIOUS
      <3> QED
        BY <2>1, <3>1 DEF TypeOK
    <2>4. LocalsOK'
      <3>1. UNCHANGED todo
        BY <1>2 DEF Pop
      <3>2. CASE UNCHANGED <<pc, url>>
        BY <3>1, <3>2 DEF TypeOK, LocalsOK
      <3>3. CASE /\ task_queue # <<>>
                 /\ pc' = [pc EXCEPT ![w] = "sadd"]
                 /\ url' = [url EXCEPT ![w] = UrlOf[Head(task_queue)]]
        <4>1. UrlOf[Head(task_queue)] \in Urls
          BY <3>3 DEF TypeOK
        <4> QED
          BY <4>1, <3>1, <3>3 DEF TypeOK, LocalsOK, Busy
      <3> QED
        BY <2>1, <3>2, <3>3
    <2> QED
      BY <1>2, <2>2, <2>3, <2>4 DEF TypeOK, Pop, history
  <1>3. ASSUME NEW w \in Workers, Claim(w) PROVE TypeOK'
    <2>1. PICK o \in Outcomes(w) :
             /\ Reply(w, o)
             /\ visited_set' = IF Executed(o) THEN visited_set \cup {url[w]} ELSE visited_set
             /\ (Goto(w, "fetch") /\ UNCHANGED todo) \/ Leave(w, "brpop")
      BY <1>3 DEF Claim
    <2>2. link' \in [Workers -> BOOLEAN]
      BY <2>1, ReplyType DEF TypeOK
    <2>3. url[w] \in Urls
      BY <1>3 DEF TypeOK, LocalsOK, Claim, Busy
    <2>4. LocalsOK'
      <3>1. CASE Leave(w, "brpop")
        BY <3>1, LeaveType DEF TypeOK
      <3>2. CASE Goto(w, "fetch") /\ UNCHANGED todo
        BY <1>3, <3>2 DEF Claim, Goto, TypeOK, LocalsOK, Busy
      <3> QED
        BY <2>1, <3>1, <3>2
    <2> QED
      BY <1>3, <2>1, <2>2, <2>3, <2>4 DEF TypeOK, Claim, history
  <1>4. ASSUME NEW w \in Workers, Fetch(w) PROVE TypeOK'
    <2>1. url[w] \in Urls
      BY <1>4 DEF TypeOK, LocalsOK, Fetch, Busy
    <2>2. fetches' \in [Urls -> Nat]
      BY <1>4, <2>1 DEF TypeOK, Fetch
    <2>3. succeeded' \subseteq Urls
      BY <1>4, <2>1 DEF TypeOK, Fetch
    <2>4. LocalsOK'
      <3>1. CASE Goto(w, "get") /\ UNCHANGED todo
        BY <1>4, <3>1 DEF Fetch, Goto, TypeOK, LocalsOK, Busy
      <3>2. CASE /\ Goto(w, "insert")
                 /\ \E links \in Web[url[w]] : todo' = [todo EXCEPT ![w] = links]
        <4>1. PICK links \in Seq(Links) : todo' = [todo EXCEPT ![w] = links]
          BY <3>2, <2>1
        <4> QED
          BY <1>4, <3>2, <4>1, GotoType DEF Fetch, TypeOK, Busy
      <3> QED
        BY <1>4, <3>1, <3>2 DEF Fetch
    <2> QED
      BY <1>4, <2>2, <2>3, <2>4 DEF TypeOK, Fetch, redis
  <1>5. ASSUME NEW w \in Workers, Insert(w) PROVE TypeOK'
    <2>1. url[w] \in Urls
      BY <1>5 DEF TypeOK, LocalsOK, Insert, Busy
    <2>2. LocalsOK'
      BY <1>5 DEF Insert, Goto, TypeOK, LocalsOK, Busy
    <2> QED
      BY <1>5, <2>1, <2>2 DEF TypeOK, Insert, redis, history
  <1>6. ASSUME NEW w \in Workers, Count(w) PROVE TypeOK'
    <2>1. PICK o \in Outcomes(w) :
             /\ Reply(w, o)
             /\ success_counter' = IF Executed(o) THEN success_counter + 1 ELSE success_counter
             /\ Leave(w, "exited") \/ Spread(w, todo[w])
      BY <1>6 DEF Count
    <2>2. link' \in [Workers -> BOOLEAN]
      BY <2>1, ReplyType DEF TypeOK
    <2>3. LocalsOK'
      <3>1. CASE Leave(w, "exited")
        BY <3>1, LeaveType DEF TypeOK, Down
      <3>2. CASE Spread(w, todo[w])
        <4>1. pc[w] \in Busy /\ todo[w] \in Seq(Links)
          BY <1>6 DEF Count, Busy, TypeOK, LocalsOK
        <4> QED
          BY <3>2, <4>1, SpreadType DEF TypeOK
      <3> QED
        BY <2>1, <3>1, <3>2
    <2> QED
      BY <1>6, <2>1, <2>2, <2>3 DEF TypeOK, Count, history
  <1>7. ASSUME NEW w \in Workers, ReadCount(w) PROVE TypeOK'
    <2>1. PICK o \in Outcomes(w) :
             Reply(w, o) /\ (Leave(w, "exited") \/ Leave(w, "brpop"))
      BY <1>7 DEF ReadCount
    <2>2. link' \in [Workers -> BOOLEAN]
      BY <2>1, ReplyType DEF TypeOK
    <2>3. LocalsOK'
      BY <2>1, LeaveType DEF TypeOK, Down
    <2> QED
      BY <1>7, <2>2, <2>3 DEF TypeOK, ReadCount, redis, history
  <1>8. ASSUME NEW w \in Workers, Push(w) PROVE TypeOK'
    <2>1. PICK o \in Outcomes(w) :
             /\ Reply(w, o)
             /\ task_queue' = IF Executed(o) /\ GateOpen
                              THEN Append(task_queue, Head(todo[w])) ELSE task_queue
      BY <1>8 DEF Push
    <2>2. pc[w] \in Busy /\ todo[w] \in Seq(Links) /\ todo[w] # <<>>
      BY <1>8 DEF Push, TypeOK, LocalsOK, Busy
    <2>3. link' \in [Workers -> BOOLEAN]
      BY <2>1, ReplyType DEF TypeOK
    <2>4. task_queue' \in Seq(Links)
      <3>1. Head(todo[w]) \in Links
        BY <2>2
      <3> QED
        BY <2>1, <3>1 DEF TypeOK
    <2>5. LocalsOK'
      <3>1. Tail(todo[w]) \in Seq(Links) /\ Spread(w, Tail(todo[w]))
        BY <1>8, <2>2 DEF Push
      <3> QED
        BY <2>2, <3>1, SpreadType DEF TypeOK
    <2> QED
      BY <1>8, <2>3, <2>4, <2>5 DEF TypeOK, Push, history
  <1>9. ASSUME NEW w \in Workers, Crash(w) PROVE TypeOK'
    <2>1. LocalsOK'
      BY <1>9, LeaveType DEF Crash, TypeOK, Down
    <2> QED
      BY <1>9, <2>1 DEF TypeOK, Crash, redis, history
  <1>10. CASE UNCHANGED vars
    BY <1>10 DEF TypeOK, LocalsOK, vars, redis, locals, history
  <1> QED
    BY <1>1, <1>2, <1>3, <1>4, <1>5, <1>6, <1>7, <1>8, <1>9, <1>10 DEF Next, Step

\* Every variable keeps its type, and a worker holds a URL exactly while it is
\* inside an iteration (worker_v3.cpp:62-133).
THEOREM TypeCorrect == Spec => []TypeOK
  BY TypeInit, TypeNext, PTL DEF Spec

-----------------------------------------------------------------------------
(***************************************************************************)
(* One claim per URL.                                                      *)
(***************************************************************************)

\* Claims are in visited_set, and what is about to be fetched has not been.
ClaimInv ==
    /\ OneClaimPerUrl
    /\ \A w \in Workers : pc[w] \in Claimed => url[w] \in visited_set
    /\ \A w \in Workers : pc[w] = "fetch" => link[w] /\ fetches[url[w]] = 0
    /\ \A w \in Workers : pc[w] = "sadd" => link[w]
    /\ \A u \in Urls : fetches[u] > 0 => u \in visited_set
    /\ \A u \in succeeded : fetches[u] > 0

\* No worker gains a claim and no page is fetched.
ClaimsKept ==
    /\ visited_set \subseteq visited_set'
    /\ UNCHANGED <<fetches, succeeded>>
    /\ \A v \in Workers :
          /\ pc'[v] \in Claimed => pc[v] \in Claimed /\ url'[v] = url[v]
          /\ pc'[v] = "fetch" => pc[v] = "fetch" /\ link'[v]
          /\ pc'[v] = "sadd" => link'[v]

\* The server answers SADD with 1 to w.
ClaimGranted(w) ==
    /\ pc[w] = "sadd" /\ pc' = [pc EXCEPT ![w] = "fetch"]
    /\ url[w] \notin visited_set
    /\ visited_set' = visited_set \cup {url[w]}
    /\ link' = link
    /\ UNCHANGED <<url, fetches, succeeded>>

\* Every step keeps the claims, grants one, or fetches a claimed page.
LEMMA ClaimStep ==
    ASSUME TypeOK, ClaimInv, [Next]_vars
    PROVE  ClaimsKept \/ \E w \in Workers : ClaimGranted(w) \/ Fetch(w)
  <1>1. ASSUME NEW w \in Workers, Start(w) PROVE ClaimsKept
    BY <1>1 DEF ClaimsKept, Start, Leave, redis, Claimed, Busy, TypeOK, LocalsOK, ClaimInv
  <1>2. ASSUME NEW w \in Workers, Pop(w) PROVE ClaimsKept
    <2>1. PICK o \in Outcomes(w) \ {"refused"} :
             /\ Reply(w, o)
             /\ \/ UNCHANGED <<pc, url>>
                \/ /\ o = "answered"
                   /\ pc' = [pc EXCEPT ![w] = "sadd"]
                   /\ \E x : url' = [url EXCEPT ![w] = x]
      BY <1>2 DEF Pop
    <2>2. \A v \in Workers : v # w => link'[v] = link[v]
      BY <2>1 DEF Reply, TypeOK
    <2>3. o = "answered" => link'[w]
      BY <1>2, <2>1 DEF Reply, TypeOK, Pop
    <2>4. /\ pc[w] = "brpop" /\ "brpop" \notin Claimed /\ "sadd" \notin Claimed /\ link[w]
          /\ pc'[w] \in {"brpop", "sadd"}
          /\ \A v \in Workers : v # w => pc'[v] = pc[v] /\ url'[v] = url[v]
      <3>1. pc[w] = "brpop" /\ link[w]
        BY <1>2 DEF Pop
      <3>2. "brpop" \notin Claimed /\ "sadd" \notin Claimed
        BY DEF Claimed, Busy
      <3>3. DOMAIN pc = Workers /\ DOMAIN url = Workers
        BY DEF TypeOK, LocalsOK
      <3>4. pc' = pc \/ pc' = [pc EXCEPT ![w] = "sadd"]
        BY <2>1
      <3>5. url' = url \/ \E x : url' = [url EXCEPT ![w] = x]
        BY <2>1
      <3> QED
        BY <3>1, <3>2, <3>3, <3>4, <3>5
    <2>5. pc'[w] = "sadd" => link'[w]
      BY <2>1, <2>3, <2>4
    <2>6. UNCHANGED <<visited_set, fetches, succeeded>>
      BY <1>2 DEF Pop, history
    <2>7. ASSUME NEW v \in Workers
          PROVE  /\ pc'[v] \in Claimed => pc[v] \in Claimed /\ url'[v] = url[v]
                 /\ pc'[v] = "fetch" => pc[v] = "fetch" /\ link'[v]
                 /\ pc'[v] = "sadd" => link'[v]
      <3>1. CASE v = w
        BY <2>4, <2>5, <3>1
      <3>2. CASE v # w
        BY <2>2, <2>4, <3>2 DEF ClaimInv
      <3> QED
        BY <3>1, <3>2
    <2> QED
      BY <2>6, <2>7 DEF ClaimsKept
  <1>3. ASSUME NEW w \in Workers, Claim(w) PROVE ClaimsKept \/ ClaimGranted(w)
    <2>1. PICK o \in Outcomes(w) :
             /\ Reply(w, o)
             /\ visited_set' = IF Executed(o) THEN visited_set \cup {url[w]} ELSE visited_set
             /\ IF o = "answered" /\ FirstTime(url[w])
                THEN Goto(w, "fetch") /\ UNCHANGED todo
                ELSE Leave(w, "brpop")
      BY <1>3 DEF Claim
    <2>2. \A v \in Workers : v # w => link'[v] = link[v]
      BY <2>1 DEF Reply, TypeOK
    <2>3. o = "answered" => link' = link
      BY <1>3, <2>1 DEF Reply, TypeOK, Claim, ClaimInv
    <2>4. CASE o = "answered" /\ FirstTime(url[w])
      BY <1>3, <2>1, <2>3, <2>4 DEF ClaimGranted, Claim, history, Goto, FirstTime, Executed
    <2>5. CASE Leave(w, "brpop")
      BY <1>3, <2>1, <2>2, <2>5
         DEF ClaimsKept, Claim, history, Leave, Claimed, Busy, TypeOK, LocalsOK, ClaimInv
    <2> QED
      BY <2>1, <2>4, <2>5
  <1>4. ASSUME NEW w \in Workers, Insert(w) PROVE ClaimsKept
    BY <1>4 DEF ClaimsKept, Insert, Goto, redis, history, Claimed, Busy, TypeOK, LocalsOK, ClaimInv
  <1>5. ASSUME NEW w \in Workers, Count(w) \/ ReadCount(w) \/ Push(w) PROVE ClaimsKept
    <2>1. \E o : Reply(w, o)
      BY <1>5 DEF Count, ReadCount, Push
    <2>2. \A v \in Workers : v # w => link'[v] = link[v]
      BY <2>1 DEF Reply, TypeOK
    <2>3. \/ \E p \in {"exited", "brpop"} : Leave(w, p)
          \/ Goto(w, "push")
      BY <1>5 DEF Count, ReadCount, Push, Spread
    <2>4. pc[w] \in Claimed /\ pc[w] # "fetch"
      BY <1>5 DEF Count, ReadCount, Push, Claimed, Busy
    <2>5. UNCHANGED <<visited_set, fetches, succeeded>>
      BY <1>5 DEF Count, ReadCount, Push, redis, history
    <2> QED
      BY <2>2, <2>3, <2>4, <2>5
         DEF ClaimsKept, Leave, Goto, Claimed, Busy, TypeOK, LocalsOK, ClaimInv
  <1>6. ASSUME NEW w \in Workers, Crash(w) PROVE ClaimsKept
    BY <1>6 DEF ClaimsKept, Crash, Leave, redis, history, Claimed, Busy, TypeOK, LocalsOK, ClaimInv
  <1>7. CASE UNCHANGED vars
    BY <1>7 DEF ClaimsKept, vars, redis, locals, history, ClaimInv
  <1> QED
    BY <1>1, <1>2, <1>3, <1>4, <1>5, <1>6, <1>7 DEF Next, Step

LEMMA ClaimNext == TypeOK /\ ClaimInv /\ [Next]_vars => ClaimInv'
  <1> SUFFICES ASSUME TypeOK, ClaimInv, [Next]_vars PROVE ClaimInv'
    OBVIOUS
  <1>1. CASE ClaimsKept
    <2>1. OneClaimPerUrl'
      BY <1>1 DEF ClaimInv, OneClaimPerUrl, ClaimsKept
    <2>2. \A v \in Workers : pc'[v] \in Claimed => url'[v] \in visited_set'
      BY <1>1 DEF ClaimInv, ClaimsKept
    <2>3. \A v \in Workers : pc'[v] = "fetch" => link'[v] /\ fetches'[url'[v]] = 0
      <3>1. "fetch" \in Claimed
        BY DEF Claimed, Busy
      <3> QED
        BY <1>1, <3>1 DEF ClaimInv, ClaimsKept
    <2> QED
      BY <1>1, <2>1, <2>2, <2>3 DEF ClaimInv, ClaimsKept
  <1>2. ASSUME NEW w \in Workers, ClaimGranted(w) PROVE ClaimInv'
    <2>1. url[w] \in Urls /\ link[w]
      BY <1>2 DEF ClaimGranted, ClaimInv, TypeOK, LocalsOK, Busy
    <2>2. fetches[url[w]] = 0
      BY <1>2, <2>1 DEF ClaimGranted, ClaimInv, TypeOK
    <2>3. pc'[w] = "fetch" /\ \A v \in Workers : v # w => pc'[v] = pc[v]
      BY <1>2 DEF ClaimGranted, TypeOK, LocalsOK
    <2>4. \A v \in Workers : v # w /\ pc[v] \in Claimed => url[v] # url[w]
      BY <1>2 DEF ClaimGranted, ClaimInv
    <2>5. OneClaimPerUrl'
      BY <1>2, <2>3, <2>4 DEF ClaimGranted, ClaimInv, OneClaimPerUrl
    <2>6. \A v \in Workers : pc'[v] \in Claimed => url'[v] \in visited_set'
      BY <1>2, <2>3 DEF ClaimGranted, ClaimInv
    <2>7. \A v \in Workers : pc'[v] = "fetch" => link'[v] /\ fetches'[url'[v]] = 0
      BY <1>2, <2>1, <2>2, <2>3 DEF ClaimGranted, ClaimInv
    <2>8. \A v \in Workers : pc'[v] = "sadd" => link'[v]
      BY <1>2, <2>3 DEF ClaimGranted, ClaimInv
    <2> QED
      BY <1>2, <2>5, <2>6, <2>7, <2>8 DEF ClaimGranted, ClaimInv
  <1>3. ASSUME NEW w \in Workers, Fetch(w) PROVE ClaimInv'
    <2>1. /\ pc[w] = "fetch" /\ pc[w] \in Claimed /\ url[w] \in Urls
          /\ fetches' = [fetches EXCEPT ![url[w]] = @ + 1]
          /\ succeeded' \subseteq succeeded \cup {url[w]}
          /\ \E p \in {"get", "insert"} : pc' = [pc EXCEPT ![w] = p]
          /\ UNCHANGED <<visited_set, link, url>>
      BY <1>3 DEF Fetch, Goto, redis, TypeOK, LocalsOK, Claimed, Busy
    <2>2. fetches[url[w]] = 0 /\ fetches'[url[w]] = 1
      BY <2>1 DEF ClaimInv, TypeOK
    <2>3. \A u \in Urls : u # url[w] => fetches'[u] = fetches[u]
      BY <2>1 DEF TypeOK
    <2>4. \A v \in Workers : pc'[v] \in Claimed <=> pc[v] \in Claimed
      BY <2>1 DEF Claimed, Busy, TypeOK, LocalsOK
    <2>5. \A v \in Workers : v # w => pc'[v] = pc[v]
      BY <2>1 DEF TypeOK, LocalsOK
    <2>6. pc'[w] # "fetch" /\ pc'[w] # "sadd"
      BY <2>1 DEF TypeOK, LocalsOK
    <2>7. OneClaimPerUrl'
      BY <2>1, <2>2, <2>3, <2>4 DEF ClaimInv, OneClaimPerUrl
    <2>8. \A v \in Workers : pc'[v] = "fetch" => link'[v] /\ fetches'[url'[v]] = 0
      <3> SUFFICES ASSUME NEW v \in Workers, pc'[v] = "fetch"
                   PROVE  link'[v] /\ fetches'[url'[v]] = 0
        OBVIOUS
      <3>1. v # w /\ pc[v] = "fetch" /\ pc[v] \in Claimed
        BY <2>5, <2>6 DEF Claimed, Busy
      <3>2. url[v] # url[w] /\ url[v] \in Urls
        BY <2>1, <3>1 DEF ClaimInv, OneClaimPerUrl, TypeOK, LocalsOK, Busy
      <3> QED
        BY <2>1, <2>3, <3>1, <3>2 DEF ClaimInv
    <2>9. \A u \in succeeded' : fetches'[u] > 0
      BY <2>1, <2>2, <2>3 DEF ClaimInv, TypeOK
    <2> QED
      BY <2>1, <2>2, <2>3, <2>4, <2>5, <2>6, <2>7, <2>8, <2>9 DEF ClaimInv
  <1> QED
    BY <1>1, <1>2, <1>3, ClaimStep

LEMMA ClaimInit == Init => ClaimInv
  BY DEF Init, ClaimInv, OneClaimPerUrl, Claimed, Busy

\* No two workers ever work on the same URL and none is fetched twice, whatever
\* fails and whoever is restarted (worker_v3.cpp:78-91).
THEOREM ClaimsAreExclusive == Spec => []OneClaimPerUrl
  <1>1. Spec => []ClaimInv
    BY TypeCorrect, ClaimInit, ClaimNext, PTL DEF Spec
  <1>2. ClaimInv => OneClaimPerUrl
    BY DEF ClaimInv
  <1> QED
    BY <1>1, <1>2, PTL

-----------------------------------------------------------------------------
(***************************************************************************)
(* Overshoot of the target, and loss of claimed URLs: both are paid for by *)
(* process runs.                                                           *)
(***************************************************************************)

\* How a step changes the set of connected processes and the counter.
LEMMA LiveStep ==
    ASSUME TypeOK, ClaimInv, [Next]_vars
    PROVE  \/ /\ starts' = starts + 1
              /\ success_counter' = success_counter
              /\ \E w \in Workers : w \notin Live /\ Live' \subseteq Live \cup {w}
              /\ Orphans' \subseteq Orphans
           \/ /\ starts' = starts
              /\ Live' \subseteq Live
              /\ Orphans' \subseteq Orphans
              /\ \/ success_counter' = success_counter
                 \/ /\ success_counter' = success_counter + 1
                    /\ \/ success_counter' < MAX_URLS
                       \/ \E w \in Live : w \notin Live'
           \/ /\ starts' = starts
              /\ success_counter' = success_counter
              /\ Live' \subseteq Live
              /\ \E w \in Live : w \notin Live'
              /\ \E u \in Urls : Orphans' \subseteq Orphans \cup {u}
  <1> USE DEF TypeOK, LocalsOK
  <1>1. ASSUME NEW w \in Workers, Start(w)
        PROVE  /\ starts' = starts + 1
               /\ success_counter' = success_counter
               /\ w \notin Live /\ Live' \subseteq Live \cup {w}
               /\ Orphans' \subseteq Orphans
    BY <1>1 DEF Start, Leave, redis, Live, Running, Orphans, Down
  <1>2. ASSUME NEW w \in Workers, Pop(w)
        PROVE  /\ starts' = starts
               /\ Live' \subseteq Live
               /\ Orphans' \subseteq Orphans
               /\ success_counter' = success_counter
    <2>1. /\ \E o : Reply(w, o)
          /\ UNCHANGED pc \/ pc' = [pc EXCEPT ![w] = "sadd"]
          /\ pc[w] = "brpop" /\ link[w]
          /\ UNCHANGED <<success_counter, visited_set, starts, fetches>>
      BY <1>2 DEF Pop, history
    <2>2. \A v \in Workers : v # w => link'[v] = link[v] /\ pc'[v] = pc[v]
      BY <2>1 DEF Reply
    <2>3. Live' \subseteq Live
      BY <2>1, <2>2 DEF Live, Running, Down
    <2>4. \A v \in Workers : pc'[v] = "fetch" <=> pc[v] = "fetch"
      BY <2>1
    <2>5. \A v \in Workers : pc[v] = "fetch" => url'[v] = url[v]
      BY <1>2 DEF Pop
    <2> QED
      BY <2>1, <2>3, <2>4, <2>5 DEF Orphans
  <1>3. ASSUME NEW w \in Workers, Claim(w)
        PROVE  /\ starts' = starts
               /\ success_counter' = success_counter
               /\ Live' \subseteq Live
               /\ \/ Orphans' \subseteq Orphans
                  \/ /\ \E v \in Live : v \notin Live'
                     /\ \E u \in Urls : Orphans' \subseteq Orphans \cup {u}
    <2>1. PICK o \in Outcomes(w) :
             /\ Reply(w, o)
             /\ visited_set' = IF Executed(o) THEN visited_set \cup {url[w]} ELSE visited_set
             /\ IF o = "answered" /\ FirstTime(url[w])
                THEN Goto(w, "fetch") /\ UNCHANGED todo
                ELSE Leave(w, "brpop")
      BY <1>3 DEF Claim
    <2>2. /\ pc[w] = "sadd" /\ link[w] /\ url[w] \in Urls
          /\ UNCHANGED <<success_counter, starts, fetches>>
      BY <1>3 DEF Claim, ClaimInv, history, Busy
    <2>3. /\ \A v \in Workers : v # w => link'[v] = link[v] /\ pc'[v] = pc[v] /\ url'[v] = url[v]
          /\ pc'[w] # "fetch" \/ url'[w] = url[w]
      BY <2>1 DEF Reply, Goto, Leave
    <2>4. w \in Live
      BY <2>2 DEF Live, Running, Down
    <2>5. Live' \subseteq Live
      BY <2>3, <2>4 DEF Live, Running
    <2>6. CASE o = "lost"
      <3>1. w \notin Live'
        <4>1. ~ link'[w]
          BY <2>1, <2>6 DEF Reply
        <4> QED
          BY <4>1 DEF Live
      <3>2. Orphans' \subseteq Orphans \cup {url[w]}
        BY <2>1, <2>2, <2>3 DEF Orphans
      <3> QED
        BY <2>2, <2>4, <2>5, <3>1, <3>2
    <2>7. CASE o # "lost"
      <3>1. CASE o = "answered" /\ FirstTime(url[w])
        <4>1. /\ visited_set' = visited_set \cup {url[w]}
              /\ pc'[w] = "fetch" /\ url'[w] = url[w]
          BY <2>1, <3>1 DEF Executed, Goto
        <4>2. Orphans' \subseteq Orphans
          <5>1. ASSUME NEW v \in Workers, pc[v] = "fetch" PROVE pc'[v] = "fetch" /\ url'[v] = url[v]
            BY <2>2, <2>3, <5>1
          <5>2. /\ fetches' = fetches /\ visited_set' = visited_set \cup {url[w]}
                /\ pc'[w] = "fetch" /\ url'[w] = url[w]
            BY <2>2, <4>1
          <5> QED
            BY <5>1, <5>2 DEF Orphans
        <4> QED
          BY <2>2, <2>5, <4>2
      <3>2. CASE ~ (o = "answered" /\ FirstTime(url[w]))
        <4>1. visited_set' = visited_set
          BY <2>1, <2>7, <3>2 DEF Executed, FirstTime
        <4>2. Orphans' \subseteq Orphans
          BY <2>2, <2>3, <4>1 DEF Orphans
        <4> QED
          BY <2>2, <2>5, <4>2
      <3> QED
        BY <3>1, <3>2
    <2> QED
      BY <2>6, <2>7
  <1>4. ASSUME NEW w \in Workers, Fetch(w)
        PROVE  /\ starts' = starts
               /\ success_counter' = success_counter
               /\ Live' \subseteq Live
               /\ Orphans' \subseteq Orphans
    <2>1. /\ pc[w] = "fetch" /\ url[w] \in Urls
          /\ fetches' = [fetches EXCEPT ![url[w]] = @ + 1]
          /\ \E p \in {"get", "insert"} : pc' = [pc EXCEPT ![w] = p]
          /\ UNCHANGED <<visited_set, success_counter, link, url, starts>>
      BY <1>4 DEF Fetch, Goto, redis, Busy
    <2>2. Live' \subseteq Live
      BY <2>1 DEF Live, Running, Down
    <2>3. fetches'[url[w]] # 0 /\ \A u \in Urls : u # url[w] => fetches'[u] = fetches[u]
      BY <2>1
    <2>4. \A v \in Workers : v # w => pc'[v] = pc[v]
      BY <2>1
    <2>5. Orphans' \subseteq Orphans
      BY <2>1, <2>3, <2>4 DEF Orphans
    <2> QED
      BY <2>1, <2>2, <2>5
  <1>5. ASSUME NEW w \in Workers, Insert(w)
        PROVE  /\ starts' = starts
               /\ success_counter' = success_counter
               /\ Live' \subseteq Live
               /\ Orphans' \subseteq Orphans
    <2>1. /\ pc[w] = "insert" /\ pc' = [pc EXCEPT ![w] = "incr"]
          /\ UNCHANGED <<visited_set, success_counter, link, url, starts, fetches>>
      BY <1>5 DEF Insert, Goto, redis, history
    <2> QED
      BY <2>1 DEF Live, Running, Down, Orphans
  <1>6. ASSUME NEW w \in Workers, Count(w) \/ ReadCount(w) \/ Push(w)
        PROVE  /\ starts' = starts
               /\ Live' \subseteq Live
               /\ Orphans' \subseteq Orphans
               /\ \/ success_counter' = success_counter
                  \/ /\ success_counter' = success_counter + 1
                     /\ \/ success_counter' < MAX_URLS
                        \/ \E v \in Live : v \notin Live'
    <2>1. PICK o \in Outcomes(w) :
             /\ Reply(w, o)
             /\ \/ success_counter' = success_counter
                \/ /\ Executed(o)
                   /\ success_counter' = success_counter + 1
                   /\ o = "answered" /\ success_counter + 1 >= MAX_URLS
                         => pc' = [pc EXCEPT ![w] = "exited"]
      BY <1>6 DEF Count, ReadCount, Push, redis, TargetMet, Leave
    <2>2. /\ pc[w] \in {"incr", "get", "push"}
          /\ UNCHANGED <<visited_set, starts, fetches>>
          /\ \E p \in {"exited", "brpop", "push"} : pc' = [pc EXCEPT ![w] = p]
          /\ \A v \in Workers : v # w => url'[v] = url[v]
      BY <1>6 DEF Count, ReadCount, Push, Spread, Leave, Goto, redis, history
    <2>3. \A v \in Workers : v # w => link'[v] = link[v] /\ pc'[v] = pc[v]
      BY <2>1, <2>2 DEF Reply
    <2>4. link'[w] => link[w]
      BY <2>1 DEF Reply
    <2>5. Live' \subseteq Live
      BY <2>2, <2>3, <2>4 DEF Live, Running, Down
    <2>6. Orphans' \subseteq Orphans
      BY <2>2, <2>3 DEF Orphans
    <2>7. ASSUME success_counter' # success_counter, ~ (success_counter' < MAX_URLS)
          PROVE  w \in Live /\ w \notin Live'
      <3>1. Executed(o) /\ success_counter + 1 >= MAX_URLS
        BY <2>1, <2>7, LimitsAssumption
      <3>2. link[w]
        BY <3>1 DEF Executed, Outcomes
      <3>3. o = "answered" \/ ~ link'[w]
        BY <2>1, <3>1 DEF Executed, Reply
      <3>4. ~ link'[w] \/ pc'[w] = "exited"
        BY <2>1, <3>1, <3>3, <2>7
      <3> QED
        BY <2>2, <3>2, <3>4 DEF Live, Running, Down
    <2> QED
      BY <2>1, <2>2, <2>5, <2>6, <2>7
  <1>7. ASSUME NEW w \in Workers, Crash(w)
        PROVE  /\ starts' = starts
               /\ success_counter' = success_counter
               /\ Live' \subseteq Live
               /\ \/ Orphans' \subseteq Orphans
                  \/ /\ \E v \in Live : v \notin Live'
                     /\ \E u \in Urls : Orphans' \subseteq Orphans \cup {u}
    <2>1. /\ pc' = [pc EXCEPT ![w] = "down"] /\ link' = [link EXCEPT ![w] = FALSE]
          /\ url' = [url EXCEPT ![w] = NoUrl]
          /\ UNCHANGED <<visited_set, success_counter, starts, fetches>>
      BY <1>7 DEF Crash, Leave, redis, history
    <2>2. Live' \subseteq Live /\ w \notin Live'
      BY <2>1 DEF Live, Running, Down
    <2>3. CASE pc[w] = "fetch"
      <3>1. w \in Live /\ url[w] \in Urls
        BY <2>3 DEF Live, Running, Down, ClaimInv, Busy
      <3>2. Orphans' \subseteq Orphans \cup {url[w]}
        BY <2>1, <2>3 DEF Orphans
      <3> QED
        BY <2>1, <2>2, <3>1, <3>2
    <2>4. CASE pc[w] # "fetch"
      BY <2>1, <2>2, <2>4 DEF Orphans
    <2> QED
      BY <2>3, <2>4
  <1>8. CASE UNCHANGED vars
    BY <1>8 DEF vars, redis, locals, history, Live, Running, Orphans
  <1> QED
    BY <1>1, <1>2, <1>3, <1>4, <1>5, <1>6, <1>7, <1>8 DEF Next, Step

\* A set that lost a member has a smaller cardinality.
LEMMA SmallerCard ==
    ASSUME NEW S, IsFiniteSet(S), NEW T, T \subseteq S, NEW x \in S, x \notin T
    PROVE  IsFiniteSet(T) /\ Cardinality(T) <= Cardinality(S) - 1
  <1>1. IsFiniteSet(S \ {x}) /\ Cardinality(S \ {x}) = Cardinality(S) - 1
    BY FS_RemoveElement
  <1>2. T \subseteq S \ {x}
    OBVIOUS
  <1> QED
    BY <1>1, <1>2, FS_Subset

\* A set that gained at most one member has a cardinality larger by at most one.
LEMMA LargerCard ==
    ASSUME NEW S, IsFiniteSet(S), NEW x, NEW T, T \subseteq S \cup {x}
    PROVE  /\ IsFiniteSet(T)
           /\ Cardinality(T) \in Nat
           /\ Cardinality(T) <= Cardinality(S) + 1
  <1>1. Cardinality(S) \in Nat
    BY FS_CardinalityType
  <1>2. /\ IsFiniteSet(S \cup {x})
        /\ Cardinality(S \cup {x}) <= Cardinality(S) + 1
    BY <1>1, FS_AddElement
  <1>3. /\ IsFiniteSet(T)
        /\ Cardinality(T) <= Cardinality(S \cup {x})
    BY <1>2, FS_Subset
  <1>4. Cardinality(T) \in Nat /\ Cardinality(S \cup {x}) \in Nat
    BY <1>2, <1>3, FS_CardinalityType
  <1> QED
    BY <1>1, <1>2, <1>3, <1>4

LEMMA LiveFinite == IsFiniteSet(Live) /\ Cardinality(Live) \in Nat
  BY WorkersAssumption, FS_Subset, FS_CardinalityType DEF Live

LEMMA OrphansFinite == TypeOK => IsFiniteSet(Orphans) /\ Cardinality(Orphans) \in Nat
  <1> SUFFICES ASSUME TypeOK PROVE Orphans \subseteq Urls
    BY UrlsAssumption, FS_Subset, FS_CardinalityType
  <1> QED
    BY DEF Orphans, TypeOK

LEMMA BudgetInit == Init => OvershootBounded /\ LossBounded
  <1> SUFFICES ASSUME Init PROVE OvershootBounded /\ LossBounded
    OBVIOUS
  <1>1. Live = {} /\ Orphans = {}
    BY DEF Init, Live, Running, Down, Orphans
  <1> QED
    BY <1>1, FS_EmptySet, LimitsAssumption DEF Init, OvershootBounded, LossBounded

LEMMA BudgetNext ==
    ASSUME TypeOK, ClaimInv, TypeOK', [Next]_vars, OvershootBounded, LossBounded
    PROVE  OvershootBounded' /\ LossBounded'
  <1> USE LiveFinite, OrphansFinite, LimitsAssumption
  <1>0. /\ success_counter \in Nat /\ starts \in Nat
        /\ IsFiniteSet(Live) /\ Cardinality(Live) \in Nat
        /\ IsFiniteSet(Orphans) /\ Cardinality(Orphans) \in Nat
        /\ starts - Cardinality(Live) >= 0
    BY DEF TypeOK, LossBounded
  <1>1. CASE /\ starts' = starts + 1
             /\ success_counter' = success_counter
             /\ \E w \in Workers : w \notin Live /\ Live' \subseteq Live \cup {w}
             /\ Orphans' \subseteq Orphans
    <2>1. Cardinality(Live') \in Nat /\ Cardinality(Live') <= Cardinality(Live) + 1
      BY <1>0, <1>1, LargerCard
    <2>2. Cardinality(Orphans') \in Nat /\ Cardinality(Orphans') <= Cardinality(Orphans)
      BY <1>0, <1>1, FS_Subset, FS_CardinalityType
    <2> QED
      BY <1>0, <1>1, <2>1, <2>2 DEF OvershootBounded, LossBounded
  <1>2. CASE /\ starts' = starts
             /\ Live' \subseteq Live
             /\ Orphans' \subseteq Orphans
             /\ \/ success_counter' = success_counter
                \/ /\ success_counter' = success_counter + 1
                   /\ \/ success_counter' < MAX_URLS
                      \/ \E w \in Live : w \notin Live'
    <2>1. Cardinality(Live') \in Nat /\ Cardinality(Live') <= Cardinality(Live)
      BY <1>0, <1>2, FS_Subset, FS_CardinalityType
    <2>2. Cardinality(Orphans') \in Nat /\ Cardinality(Orphans') <= Cardinality(Orphans)
      BY <1>0, <1>2, FS_Subset, FS_CardinalityType
    <2>3. ASSUME NEW w \in Live, w \notin Live'
          PROVE  Cardinality(Live') <= Cardinality(Live) - 1
      BY <1>0, <1>2, <2>3, SmallerCard
    <2> QED
      BY <1>0, <1>2, <2>1, <2>2, <2>3 DEF OvershootBounded, LossBounded
  <1>3. CASE /\ starts' = starts
             /\ success_counter' = success_counter
             /\ Live' \subseteq Live
             /\ \E w \in Live : w \notin Live'
             /\ \E u \in Urls : Orphans' \subseteq Orphans \cup {u}
    <2>1. Cardinality(Live') \in Nat /\ Cardinality(Live') <= Cardinality(Live) - 1
      BY <1>0, <1>3, SmallerCard, FS_CardinalityType
    <2>2. PICK u \in Urls : Orphans' \subseteq Orphans \cup {u}
      BY <1>3
    <2>3. Cardinality(Orphans') \in Nat /\ Cardinality(Orphans') <= Cardinality(Orphans) + 1
      BY <1>0, <2>2, LargerCard
    <2> QED
      BY <1>0, <1>3, <2>1, <2>3 DEF OvershootBounded, LossBounded
  <1> QED
    BY <1>1, <1>2, <1>3, LiveStep

\* However many workers run and whatever fails, each process run counts at most
\* one page beyond the target (worker_v3.cpp:95-125).
THEOREM OvershootIsBounded == Spec => []OvershootBounded
  BY TypeCorrect, ClaimInit, ClaimNext, BudgetInit, BudgetNext, PTL DEF Spec

\* Each process run loses at most one claimed URL, and only by ending or by
\* losing its connection (worker_v3.cpp:78-91).
THEOREM LossIsBounded == Spec => []LossBounded
  BY TypeCorrect, ClaimInit, ClaimNext, BudgetInit, BudgetNext, PTL DEF Spec

-----------------------------------------------------------------------------
(***************************************************************************)
(* The workers implement CrawlQuota.                                       *)
(***************************************************************************)

\* Pages that came back and are not yet counted are in some worker's hands.
InHand == {w \in Workers : pc[w] \in {"insert", "incr"}}
HarvestBound == success_counter + Cardinality(InHand) <= Cardinality(succeeded)

LEMMA HarvestStep ==
    ASSUME TypeOK, ClaimInv, [Next]_vars
    PROVE  \/ /\ InHand' \subseteq InHand
              /\ succeeded' = succeeded
              /\ success_counter' = success_counter
           \/ /\ \E w \in Workers : InHand' \subseteq InHand \cup {w}
              /\ \E u \in Urls : u \notin succeeded /\ succeeded' = succeeded \cup {u}
              /\ success_counter' = success_counter
           \/ /\ \E w \in InHand : w \notin InHand'
              /\ InHand' \subseteq InHand
              /\ succeeded' = succeeded
              /\ success_counter' \in {success_counter, success_counter + 1}
  <1> USE DEF TypeOK, LocalsOK
  <1>1. ASSUME NEW w \in Workers,
               Start(w) \/ Pop(w) \/ Claim(w) \/ Insert(w) \/ ReadCount(w) \/ Push(w) \/ Crash(w)
        PROVE  /\ InHand' \subseteq InHand
               /\ succeeded' = succeeded
               /\ success_counter' = success_counter
    <2>1. UNCHANGED <<succeeded, success_counter>>
      BY <1>1 DEF Start, Pop, Claim, Insert, ReadCount, Push, Crash, redis, history
    <2>2. \/ UNCHANGED pc
          \/ \E p \in {"brpop", "sadd", "fetch", "push", "exited", "down"} :
                pc' = [pc EXCEPT ![w] = p]
          \/ pc[w] = "insert" /\ pc' = [pc EXCEPT ![w] = "incr"]
      BY <1>1 DEF Start, Pop, Claim, Insert, ReadCount, Push, Crash, Spread, Leave, Goto
    <2>3. InHand' \subseteq InHand
      BY <2>2 DEF InHand
    <2> QED
      BY <2>1, <2>3
  <1>2. ASSUME NEW w \in Workers, Fetch(w)
        PROVE  \/ /\ InHand' \subseteq InHand
                  /\ succeeded' = succeeded
                  /\ success_counter' = success_counter
               \/ /\ InHand' \subseteq InHand \cup {w}
                  /\ \E u \in Urls : u \notin succeeded /\ succeeded' = succeeded \cup {u}
                  /\ success_counter' = success_counter
    <2>1. url[w] \in Urls /\ url[w] \notin succeeded
      BY <1>2 DEF Fetch, ClaimInv, Busy
    <2>2. CASE Goto(w, "get") /\ UNCHANGED succeeded
      BY <1>2, <2>2 DEF Fetch, Goto, InHand, redis
    <2>3. CASE Goto(w, "insert") /\ succeeded' = succeeded \cup {url[w]}
      BY <1>2, <2>1, <2>3 DEF Fetch, Goto, InHand, redis
    <2> QED
      BY <1>2, <2>2, <2>3 DEF Fetch
  <1>3. ASSUME NEW w \in Workers, Count(w)
        PROVE  /\ w \in InHand /\ w \notin InHand'
               /\ InHand' \subseteq InHand
               /\ succeeded' = succeeded
               /\ success_counter' \in {success_counter, success_counter + 1}
    <2>1. /\ pc[w] = "incr"
          /\ \E p \in {"exited", "brpop", "push"} : pc' = [pc EXCEPT ![w] = p]
      BY <1>3 DEF Count, Spread, Leave, Goto
    <2>2. /\ succeeded' = succeeded
          /\ success_counter' \in {success_counter, success_counter + 1}
      BY <1>3 DEF Count, history
    <2> QED
      BY <2>1, <2>2 DEF InHand
  <1>4. CASE UNCHANGED vars
    BY <1>4 DEF vars, redis, locals, history, InHand
  <1> QED
    BY <1>1, <1>2, <1>3, <1>4 DEF Next, Step

LEMMA HarvestFinite ==
    TypeOK => /\ IsFiniteSet(InHand) /\ Cardinality(InHand) \in Nat
              /\ IsFiniteSet(succeeded) /\ Cardinality(succeeded) \in Nat
  <1>1. IsFiniteSet(InHand)
    BY WorkersAssumption, FS_Subset DEF InHand
  <1>2. TypeOK => IsFiniteSet(succeeded)
    BY UrlsAssumption, FS_Subset DEF TypeOK
  <1> QED
    BY <1>1, <1>2, FS_CardinalityType

LEMMA HarvestInit == Init => HarvestBound
  <1> SUFFICES ASSUME Init PROVE HarvestBound
    OBVIOUS
  <1>1. InHand = {}
    BY DEF Init, InHand
  <1> QED
    BY <1>1, FS_EmptySet DEF Init, HarvestBound

LEMMA HarvestNext ==
    ASSUME TypeOK, ClaimInv, [Next]_vars, HarvestBound
    PROVE  HarvestBound'
  <1>0. /\ success_counter \in Nat
        /\ IsFiniteSet(InHand) /\ Cardinality(InHand) \in Nat
        /\ IsFiniteSet(succeeded) /\ Cardinality(succeeded) \in Nat
    BY HarvestFinite DEF TypeOK
  <1>1. CASE /\ InHand' \subseteq InHand
             /\ succeeded' = succeeded
             /\ success_counter' = success_counter
    <2>1. Cardinality(InHand') \in Nat /\ Cardinality(InHand') <= Cardinality(InHand)
      BY <1>0, <1>1, FS_Subset, FS_CardinalityType
    <2> QED
      BY <1>0, <1>1, <2>1 DEF HarvestBound
  <1>2. CASE /\ \E w \in Workers : InHand' \subseteq InHand \cup {w}
             /\ \E u \in Urls : u \notin succeeded /\ succeeded' = succeeded \cup {u}
             /\ success_counter' = success_counter
    <2>1. Cardinality(InHand') \in Nat /\ Cardinality(InHand') <= Cardinality(InHand) + 1
      BY <1>0, <1>2, LargerCard
    <2>2. Cardinality(succeeded') = Cardinality(succeeded) + 1
      BY <1>0, <1>2, FS_AddElement
    <2> QED
      BY <1>0, <1>2, <2>1, <2>2 DEF HarvestBound
  <1>3. CASE /\ \E w \in InHand : w \notin InHand'
             /\ InHand' \subseteq InHand
             /\ succeeded' = succeeded
             /\ success_counter' \in {success_counter, success_counter + 1}
    <2>1. Cardinality(InHand') \in Nat /\ Cardinality(InHand') <= Cardinality(InHand) - 1
      BY <1>0, <1>3, SmallerCard, FS_CardinalityType
    <2> QED
      BY <1>0, <1>3, <2>1 DEF HarvestBound
  <1> QED
    BY <1>1, <1>2, <1>3, HarvestStep

\* The instance of FiniteSets inside CrawlQuota counts the same way.
LEMMA SameCardinality == \A S : Quota!Cardinality(S) = Cardinality(S)
  BY DEF Quota!Cardinality, Cardinality

\* Each step of the workers is a step of the quota or leaves it alone.
LEMMA QuotaStep ==
    ASSUME TypeOK, ClaimInv, HarvestBound, [Next]_vars
    PROVE  [Quota!Next]_(Quota!quotaVars)
  <1> USE DEF TypeOK, LocalsOK
  <1>1. ASSUME NEW w \in Workers, Start(w) \/ Insert(w) \/ ReadCount(w) \/ Crash(w)
        PROVE  UNCHANGED Quota!quotaVars
    BY <1>1 DEF Start, Insert, ReadCount, Crash, redis, history, Quota!quotaVars
  <1>2. ASSUME NEW w \in Workers, Pop(w) PROVE Quota!Take \/ UNCHANGED Quota!quotaVars
    <2>1. /\ UNCHANGED <<visited_set, success_counter, succeeded>>
          /\ \/ UNCHANGED task_queue
             \/ task_queue # <<>> /\ task_queue' = Tail(task_queue)
      BY <1>2 DEF Pop, AfterPop, history
    <2>2. ASSUME task_queue # <<>>, task_queue' = Tail(task_queue)
          PROVE  Len(task_queue) > 0 /\ Len(task_queue') = Len(task_queue) - 1
      BY <2>2
    <2> QED
      BY <2>1, <2>2 DEF Quota!Take, Quota!quotaVars
  <1>3. ASSUME NEW w \in Workers, Claim(w)
        PROVE  Quota!Claim(url[w]) \/ UNCHANGED Quota!quotaVars
    BY <1>3 DEF Claim, history, Quota!Claim, Quota!quotaVars
  <1>4. ASSUME NEW w \in Workers, Fetch(w)
        PROVE  Quota!Harvest(url[w]) \/ UNCHANGED Quota!quotaVars
    <2>1. url[w] \in visited_set /\ url[w] \notin succeeded
      BY <1>4 DEF Fetch, ClaimInv, Claimed, Busy
    <2> QED
      BY <1>4, <2>1 DEF Fetch, redis, Quota!Harvest, Quota!quotaVars
  <1>5. ASSUME NEW w \in Workers, Count(w) PROVE Quota!Score \/ UNCHANGED Quota!quotaVars
    <2>1. w \in InHand
      BY <1>5 DEF Count, InHand
    <2>2. Cardinality(InHand) # 0
      BY <2>1, HarvestFinite, FS_EmptySet
    <2>3. success_counter < Cardinality(succeeded)
      BY <2>2, HarvestFinite DEF HarvestBound
    <2>4. /\ UNCHANGED <<task_queue, visited_set, succeeded>>
          /\ success_counter' = success_counter \/ success_counter' = success_counter + 1
      BY <1>5 DEF Count, history
    <2> QED
      BY <2>3, <2>4, SameCardinality DEF Quota!Score, Quota!quotaVars
  <1>6. ASSUME NEW w \in Workers, Push(w) PROVE Quota!Offer \/ UNCHANGED Quota!quotaVars
    <2>1. /\ UNCHANGED <<visited_set, success_counter, succeeded>>
          /\ \/ UNCHANGED task_queue
             \/ /\ success_counter < MAX_URLS
                /\ task_queue' = Append(task_queue, Head(todo[w]))
      BY <1>6 DEF Push, GateOpen, history
    <2>2. Head(todo[w]) \in Links
      <3>1. todo[w] \in Seq(Links) /\ todo[w] # <<>>
        BY <1>6 DEF Push
      <3> QED
        BY <3>1
    <2>3. task_queue' = Append(task_queue, Head(todo[w])) => Len(task_queue') = Len(task_queue) + 1
      BY <2>2
    <2> QED
      BY <2>1, <2>3 DEF Quota!Offer, Quota!quotaVars
  <1>7. CASE UNCHANGED vars
    BY <1>7 DEF vars, redis, history, Quota!quotaVars
  <1>8. ASSUME NEW w \in Workers, Claim(w) \/ Fetch(w) PROVE url[w] \in Urls
    BY <1>8 DEF Claim, Fetch, Busy
  <1> QED
    BY <1>1, <1>2, <1>3, <1>4, <1>5, <1>6, <1>7, <1>8 DEF Next, Step, Quota!Next

\* Any number of workers, with any faults, implement the quota: a URL is claimed
\* and harvested at most once, a page is counted at most once and only after it
\* came back, and the queue does not grow once the target is met
\* (worker_v3.cpp:24-31, 62-133).
THEOREM WorkersImplementQuota == Spec => QuotaSpec
  <1>1. Init => Quota!Init
    BY DEF Init, Quota!Init
  <1> QED
    BY <1>1, TypeCorrect, ClaimInit, ClaimNext, HarvestInit, HarvestNext, QuotaStep, PTL
       DEF Spec, QuotaSpec, Quota!Spec

-----------------------------------------------------------------------------
(***************************************************************************)
(* Counted pages are stored ones.                                          *)
(***************************************************************************)

MySQLAccepts == "db" \notin Faults /\ \A u, v \in Urls : RowKey[u] = RowKey[v] => u = v

\* A stored URL has been fetched and is not waiting to be stored again.
StoredInv ==
    /\ \A u \in url_log : /\ fetches[u] > 0
                          /\ \A w \in Workers : pc[w] = "insert" => url[w] # u
    /\ \A w \in Workers : pc[w] = "insert" => fetches[url[w]] > 0

LEMMA StoredStep ==
    ASSUME TypeOK, ClaimInv, StoredInv, MySQLAccepts, [Next]_vars
    PROVE  \/ /\ StoredInv'
              /\ InFlight' \subseteq InFlight
              /\ url_log' = url_log
              /\ \/ success_counter' = success_counter
                 \/ /\ success_counter' = success_counter + 1
                    /\ \E w \in InFlight : w \notin InFlight'
           \/ /\ StoredInv'
              /\ \E w \in Workers : InFlight' \subseteq InFlight \cup {w}
              /\ \E u \in Urls : u \notin url_log /\ url_log' = url_log \cup {u}
              /\ success_counter' = success_counter
  <1> USE DEF TypeOK, LocalsOK
  <1>1. ASSUME NEW w \in Workers,
               Start(w) \/ Pop(w) \/ Claim(w) \/ ReadCount(w) \/ Push(w) \/ Crash(w)
        PROVE  /\ StoredInv'
               /\ InFlight' \subseteq InFlight
               /\ UNCHANGED <<url_log, success_counter>>
    <2>1. UNCHANGED <<url_log, success_counter, fetches>>
      BY <1>1 DEF Start, Pop, Claim, ReadCount, Push, Crash, redis, history
    <2>2. \/ UNCHANGED pc
          \/ \E p \in {"brpop", "sadd", "fetch", "push", "exited", "down"} :
                pc' = [pc EXCEPT ![w] = p]
      BY <1>1 DEF Start, Pop, Claim, ReadCount, Push, Crash, Spread, Leave, Goto
    <2>3. \A v \in Workers : url'[v] = url[v] \/ pc'[v] # "insert"
      <3>1. pc[w] # "insert" \/ pc'[w] # "insert"
        BY <1>1, <2>2 DEF Crash, Leave, Start, Pop, Claim, ReadCount, Push
      <3>2. \A v \in Workers : v # w => url'[v] = url[v]
        BY <1>1 DEF Start, Pop, Claim, ReadCount, Push, Crash, Spread, Leave, Goto
      <3>3. pc'[w] # "insert"
        BY <2>2, <3>1
      <3> QED
        BY <3>2, <3>3
    <2>4. \A v \in Workers : pc'[v] = "insert" => pc[v] = "insert"
      BY <2>2
    <2>5. StoredInv'
      BY <2>1, <2>3, <2>4 DEF StoredInv
    <2>6. InFlight' \subseteq InFlight
      BY <2>2 DEF InFlight
    <2> QED
      BY <2>1, <2>5, <2>6
  <1>2. ASSUME NEW w \in Workers, Fetch(w)
        PROVE  /\ StoredInv'
               /\ InFlight' \subseteq InFlight
               /\ UNCHANGED <<url_log, success_counter>>
    <2>1. /\ pc[w] = "fetch" /\ url[w] \in Urls
          /\ fetches' = [fetches EXCEPT ![url[w]] = @ + 1]
          /\ \E p \in {"get", "insert"} : pc' = [pc EXCEPT ![w] = p]
          /\ UNCHANGED <<url_log, success_counter, url>>
      BY <1>2 DEF Fetch, Goto, redis, Busy
    <2>2. url[w] \notin url_log
      BY <2>1 DEF StoredInv, ClaimInv
    <2>3. \A u \in url_log : fetches'[u] > 0
      BY <2>1, <2>2 DEF StoredInv
    <2>4. \A v \in Workers : pc'[v] = "insert" => pc[v] = "insert" \/ v = w
      BY <2>1
    <2>5. \A v \in Workers : pc'[v] = "insert" => fetches'[url'[v]] > 0
      <3>1. fetches'[url[w]] > 0
        BY <2>1
      <3>2. \A v \in Workers : pc[v] = "insert" => url[v] \in Urls /\ fetches[url[v]] > 0
        BY DEF StoredInv, Busy
      <3>3. \A v \in Workers : pc[v] = "insert" => fetches'[url[v]] > 0
        BY <2>1, <3>2
      <3> QED
        BY <2>1, <2>4, <3>1, <3>3
    <2>6. StoredInv'
      BY <2>1, <2>2, <2>3, <2>4, <2>5 DEF StoredInv
    <2> QED
      BY <2>1, <2>6 DEF InFlight
  <1>3. ASSUME NEW w \in Workers, Insert(w)
        PROVE  /\ StoredInv'
               /\ InFlight' \subseteq InFlight \cup {w}
               /\ \E u \in Urls : u \notin url_log /\ url_log' = url_log \cup {u}
               /\ success_counter' = success_counter
    <2>1. /\ pc[w] = "insert" /\ pc' = [pc EXCEPT ![w] = "incr"] /\ url[w] \in Urls
          /\ UNCHANGED <<success_counter, url, fetches>>
      BY <1>3 DEF Insert, Goto, redis, history, Busy
    <2>2. url[w] \notin url_log
      BY <2>1 DEF StoredInv
    <2>3. url_log' = url_log \cup {url[w]}
      BY <1>3, <2>1, <2>2 DEF Insert, RowExists, MySQLAccepts
    <2>4. fetches[url[w]] > 0
      BY <2>1 DEF StoredInv
    <2>5. \A v \in Workers : v # w /\ pc[v] = "insert" => url[v] # url[w]
      BY <2>1 DEF ClaimInv, OneClaimPerUrl, Claimed, Busy
    <2>6. \A v \in Workers : pc'[v] = "insert" => pc[v] = "insert" /\ v # w
      BY <2>1
    <2>7. StoredInv'
      BY <2>1, <2>3, <2>4, <2>5, <2>6 DEF StoredInv
    <2>8. InFlight' \subseteq InFlight \cup {w}
      BY <2>1 DEF InFlight
    <2> QED
      BY <2>1, <2>2, <2>3, <2>7, <2>8
  <1>4. ASSUME NEW w \in Workers, Count(w)
        PROVE  /\ StoredInv'
               /\ InFlight' \subseteq InFlight
               /\ w \in InFlight /\ w \notin InFlight'
               /\ url_log' = url_log
               /\ success_counter' \in {success_counter, success_counter + 1}
    <2>1. /\ pc[w] = "incr"
          /\ \E p \in {"exited", "brpop", "push"} : pc' = [pc EXCEPT ![w] = p]
          /\ \A v \in Workers : v # w => url'[v] = url[v]
          /\ UNCHANGED <<url_log, fetches>>
          /\ success_counter' \in {success_counter, success_counter + 1}
      BY <1>4 DEF Count, Spread, Leave, Goto, history
    <2>2. \A v \in Workers : pc'[v] = "insert" => pc[v] = "insert" /\ v # w
      BY <2>1
    <2>3. StoredInv'
      BY <2>1, <2>2 DEF StoredInv
    <2>4. InFlight' \subseteq InFlight /\ w \in InFlight /\ w \notin InFlight'
      BY <2>1 DEF InFlight
    <2> QED
      BY <2>1, <2>3, <2>4
  <1>5. CASE UNCHANGED vars
    BY <1>5 DEF vars, redis, locals, history, StoredInv, InFlight
  <1> QED
    BY <1>1, <1>2, <1>3, <1>4, <1>5 DEF Next, Step

LEMMA StoredFinite ==
    TypeOK => /\ IsFiniteSet(InFlight) /\ Cardinality(InFlight) \in Nat
              /\ IsFiniteSet(url_log) /\ Cardinality(url_log) \in Nat
  <1>1. IsFiniteSet(InFlight)
    BY WorkersAssumption, FS_Subset DEF InFlight
  <1>2. TypeOK => IsFiniteSet(url_log)
    BY UrlsAssumption, FS_Subset DEF TypeOK
  <1> QED
    BY <1>1, <1>2, FS_CardinalityType

StoredBound == MySQLAccepts => /\ StoredInv
                               /\ success_counter + Cardinality(InFlight) <= Cardinality(url_log)

LEMMA StoredInit == Init => StoredBound
  <1> SUFFICES ASSUME Init PROVE StoredBound
    OBVIOUS
  <1>1. InFlight = {}
    BY DEF Init, InFlight
  <1> QED
    BY <1>1, FS_EmptySet DEF Init, StoredBound, StoredInv

LEMMA StoredNext ==
    ASSUME TypeOK, ClaimInv, [Next]_vars, StoredBound
    PROVE  StoredBound'
  <1> SUFFICES ASSUME MySQLAccepts
               PROVE  /\ StoredInv'
                      /\ success_counter' + Cardinality(InFlight') <= Cardinality(url_log')
    BY DEF StoredBound, MySQLAccepts
  <1>0. /\ StoredInv
        /\ success_counter + Cardinality(InFlight) <= Cardinality(url_log)
        /\ success_counter \in Nat
        /\ IsFiniteSet(InFlight) /\ Cardinality(InFlight) \in Nat
        /\ IsFiniteSet(url_log) /\ Cardinality(url_log) \in Nat
    BY StoredFinite DEF StoredBound, TypeOK
  <1>1. CASE /\ StoredInv'
             /\ InFlight' \subseteq InFlight
             /\ url_log' = url_log
             /\ \/ success_counter' = success_counter
                \/ /\ success_counter' = success_counter + 1
                   /\ \E w \in InFlight : w \notin InFlight'
    <2>1. Cardinality(InFlight') \in Nat /\ Cardinality(InFlight') <= Cardinality(InFlight)
      BY <1>0, <1>1, FS_Subset, FS_CardinalityType
    <2>2. ASSUME NEW w \in InFlight, w \notin InFlight'
          PROVE  Cardinality(InFlight') <= Cardinality(InFlight) - 1
      BY <1>0, <1>1, <2>2, SmallerCard
    <2> QED
      BY <1>0, <1>1, <2>1, <2>2
  <1>2. CASE /\ StoredInv'
             /\ \E w \in Workers : InFlight' \subseteq InFlight \cup {w}
             /\ \E u \in Urls : u \notin url_log /\ url_log' = url_log \cup {u}
             /\ success_counter' = success_counter
    <2>1. Cardinality(InFlight') \in Nat /\ Cardinality(InFlight') <= Cardinality(InFlight) + 1
      BY <1>0, <1>2, LargerCard
    <2>2. Cardinality(url_log') = Cardinality(url_log) + 1
      BY <1>0, <1>2, FS_AddElement
    <2> QED
      BY <1>0, <1>2, <2>1, <2>2
  <1> QED
    BY <1>0, <1>1, <1>2, StoredStep

\* As long as MySQL takes every row and no two URLs share a key, the counter never
\* runs ahead of the table, whichever processes die (worker_v3.cpp:95-106).
THEOREM CountedPagesAreStored == Spec => []CountedPagesStored
  <1>1. StoredBound => CountedPagesStored
    BY DEF StoredBound, MySQLAccepts, CountedPagesStored
  <1> QED
    BY <1>1, TypeCorrect, ClaimInit, ClaimNext, StoredInit, StoredNext, PTL DEF Spec
-----------------------------------------------------------------------------
(***************************************************************************)
(* Without process and Redis faults nothing is lost.                       *)
(***************************************************************************)

\* Every process that runs is connected, every claimed URL is fetched or about to be,
\* and the counter is exact.
ExactCount == success_counter + Cardinality(InHand) = Cardinality(succeeded)
LosslessInv == (\A w \in Workers : Running(w) => link[w]) /\ Orphans = {} /\ ExactCount

\* A step of w that is no fetch leaves its connection up, gives up no URL that it
\* has claimed, and claims a URL only to fetch it next.
LEMMA LosslessFrame ==
    ASSUME NEW w \in Workers,
           \A v \in Workers : Running(v) => link[v],
           Orphans = {},
           link'[w], pc[w] # "fetch", fetches' = fetches,
           \A v \in Workers : v # w => /\ pc'[v] = pc[v] /\ url'[v] = url[v]
                                       /\ link'[v] = link[v],
           \/ visited_set' = visited_set
           \/ pc'[w] = "fetch" /\ visited_set' = visited_set \cup {url'[w]}
    PROVE  (\A v \in Workers : Running(v)' => link'[v]) /\ Orphans' = {}
  <1>1. \A v \in Workers : Running(v)' => link'[v]
    BY DEF Running
  <1>2. ASSUME NEW u \in visited_set', fetches'[u] = 0
        PROVE  \E v \in Workers : pc'[v] = "fetch" /\ url'[v] = u
    <2>1. CASE u \in visited_set
      <3>1. PICK v \in Workers : pc[v] = "fetch" /\ url[v] = u
        BY <1>2, <2>1 DEF Orphans
      <3> QED
        BY <3>1
    <2>2. CASE u \notin visited_set
      BY <2>2
    <2> QED
      BY <2>1, <2>2
  <1>3. Orphans' = {}
    BY <1>2 DEF Orphans
  <1> QED
    BY <1>1, <1>3

\* The workers with a page in hand change only by the step of one of them.
LEMMA InHandFrame ==
    ASSUME NEW w \in Workers, \A v \in Workers : v # w => pc'[v] = pc[v]
    PROVE  /\ (w \in InHand <=> pc'[w] \in {"insert", "incr"}) => InHand' = InHand
           /\ pc'[w] \in {"insert", "incr"} => InHand' = InHand \cup {w}
           /\ pc'[w] \notin {"insert", "incr"} => InHand' = InHand \ {w}
  BY DEF InHand

\* A worker whose commands are all answered does not lose its connection, and it is
\* in hand exactly from a successful fetch to the count.
LEMMA LosslessStep ==
    ASSUME Faults \subseteq {"db"}, TypeOK, ClaimInv, LosslessInv, [Next]_vars
    PROVE  /\ \A w \in Workers : Running(w)' => link'[w]
           /\ Orphans' = {}
           /\ \/ InHand' = InHand /\ UNCHANGED <<succeeded, success_counter>>
              \/ /\ \E w \in Workers : w \notin InHand /\ InHand' = InHand \cup {w}
                 /\ \E u \in Urls : u \notin succeeded /\ succeeded' = succeeded \cup {u}
                 /\ success_counter' = success_counter
              \/ /\ \E w \in InHand : InHand' = InHand \ {w}
                 /\ succeeded' = succeeded
                 /\ success_counter' = success_counter + 1
  <1> DEFINE Linked == \A w \in Workers : Running(w)' => link'[w]
             Still == InHand' = InHand /\ UNCHANGED <<succeeded, success_counter>>
             Elsewhere(w) == \A v \in Workers : v # w => /\ pc'[v] = pc[v]
                                                         /\ url'[v] = url[v]
                                                         /\ link'[v] = link[v]
  <1> USE DEF TypeOK, LocalsOK
  <1>0. /\ \A w \in Workers : Running(w) => link[w] /\ Outcomes(w) = {"answered"}
        /\ Orphans = {}
        /\ \A u \in visited_set : fetches[u] # 0 \/ \E w \in Workers : pc[w] = "fetch" /\ url[w] = u
    BY DEF LosslessInv, Outcomes, Orphans
  <1>B. (\A v \in Workers : Running(v) => link[v]) /\ Orphans = {}
    BY DEF LosslessInv
  <1>A. ASSUME NEW w \in Workers, Reply(w, "answered"), Running(w) PROVE link' = link
    BY <1>0, <1>A DEF Reply
  <1>1. ASSUME NEW w \in Workers, Start(w) PROVE Linked /\ Orphans' = {} /\ Still
    <2>1. /\ pc'[w] = "brpop" /\ pc[w] \in Down /\ link'[w] /\ Elsewhere(w)
          /\ UNCHANGED <<visited_set, success_counter, fetches, succeeded>>
      BY <1>1 DEF Start, Leave, Running, redis
    <2>2. Linked /\ Orphans' = {}
      <3>1. link'[w] /\ pc[w] # "fetch" /\ fetches' = fetches /\ visited_set' = visited_set
        BY <2>1 DEF Down
      <3> QED
        BY <1>B, <2>1, <3>1, LosslessFrame
    <2>3. w \notin InHand /\ pc'[w] \notin {"insert", "incr"}
      BY <2>1 DEF InHand, Down
    <2> QED
      BY <2>1, <2>2, <2>3, InHandFrame
  <1>2. ASSUME NEW w \in Workers, Pop(w) PROVE Linked /\ Orphans' = {} /\ Still
    <2>1. pc[w] = "brpop" /\ Running(w) /\ link[w] /\ Outcomes(w) = {"answered"}
      BY <1>0, <1>2 DEF Pop, Running, Down
    <2>2. /\ Reply(w, "answered")
          /\ pc' = [pc EXCEPT ![w] = "sadd"]
          /\ url' = [url EXCEPT ![w] = UrlOf[Head(task_queue)]]
          /\ UNCHANGED <<visited_set, success_counter, fetches, succeeded>>
      BY <1>2, <2>1 DEF Pop, Executed, history
    <2>3. link' = link /\ pc'[w] = "sadd" /\ Elsewhere(w)
      BY <1>A, <2>1, <2>2
    <2>4. Linked /\ Orphans' = {}
      <3>1. /\ link'[w] /\ pc[w] # "fetch" /\ fetches' = fetches
            /\ \/ visited_set' = visited_set
               \/ pc'[w] = "fetch" /\ visited_set' = visited_set \cup {url'[w]}
        BY <2>1, <2>2, <2>3
      <3> QED
        BY <1>B, <2>3, <3>1, LosslessFrame
    <2>5. w \notin InHand /\ pc'[w] \notin {"insert", "incr"}
      BY <2>1, <2>3 DEF InHand
    <2> QED
      BY <2>2, <2>3, <2>4, <2>5, InHandFrame
  <1>3. ASSUME NEW w \in Workers, Claim(w) PROVE Linked /\ Orphans' = {} /\ Still
    <2>1. pc[w] = "sadd" /\ Running(w) /\ link[w] /\ Outcomes(w) = {"answered"}
      BY <1>0, <1>3 DEF Claim, Running, Down
    <2>2. /\ Reply(w, "answered")
          /\ visited_set' = visited_set \cup {url[w]}
          /\ \/ Goto(w, "fetch")
             \/ url[w] \in visited_set /\ Leave(w, "brpop")
          /\ UNCHANGED <<success_counter, fetches, succeeded>>
      BY <1>3, <2>1 DEF Claim, Executed, history, FirstTime
    <2>3. /\ link' = link /\ Elsewhere(w)
          /\ \/ pc'[w] = "fetch" /\ url'[w] = url[w]
             \/ pc'[w] = "brpop" /\ url[w] \in visited_set
      BY <1>A, <2>1, <2>2 DEF Goto, Leave
    <2>4. Linked /\ Orphans' = {}
      <3>1. /\ link'[w] /\ pc[w] # "fetch" /\ fetches' = fetches
            /\ \/ visited_set' = visited_set
               \/ pc'[w] = "fetch" /\ visited_set' = visited_set \cup {url'[w]}
        BY <2>1, <2>2, <2>3
      <3> QED
        BY <1>B, <2>3, <3>1, LosslessFrame
    <2>5. w \notin InHand /\ pc'[w] \notin {"insert", "incr"}
      BY <2>1, <2>3 DEF InHand
    <2> QED
      BY <2>2, <2>3, <2>4, <2>5, InHandFrame
  <1>4. ASSUME NEW w \in Workers, Insert(w) \/ ReadCount(w) \/ Push(w)
        PROVE  Linked /\ Orphans' = {} /\ Still
    <2>1. pc[w] \in {"insert", "get", "push"} /\ Running(w) /\ link[w] /\ Outcomes(w) = {"answered"}
      BY <1>0, <1>4 DEF Insert, ReadCount, Push, Running, Down
    <2>2. /\ link' = link \/ Reply(w, "answered")
          /\ UNCHANGED <<visited_set, success_counter, fetches, succeeded>>
          /\ \/ pc[w] = "insert" /\ Goto(w, "incr")
             \/ /\ pc[w] \in {"get", "push"}
                /\ Goto(w, "push") \/ \E p \in {"brpop", "exited"} : Leave(w, p)
      BY <1>4, <2>1 DEF Insert, ReadCount, Push, Spread, redis, history
    <2>3. link' = link
      BY <1>A, <2>1, <2>2
    <2>4. /\ Elsewhere(w)
          /\ pc'[w] \in {"incr", "push", "brpop", "exited"}
          /\ pc[w] = "insert" <=> pc'[w] = "incr"
      BY <2>2, <2>3 DEF Goto, Leave
    <2>5. Linked /\ Orphans' = {}
      <3>1. link'[w] /\ pc[w] # "fetch" /\ fetches' = fetches /\ visited_set' = visited_set
        BY <2>1, <2>2, <2>3
      <3> QED
        BY <1>B, <2>4, <3>1, LosslessFrame
    <2>6. w \in InHand <=> pc'[w] \in {"insert", "incr"}
      BY <2>1, <2>4 DEF InHand
    <2> QED
      BY <2>2, <2>4, <2>5, <2>6, InHandFrame
  <1>5. ASSUME NEW w \in Workers, Fetch(w)
        PROVE  /\ Linked /\ Orphans' = {}
               /\ \/ Still
                  \/ /\ w \notin InHand /\ InHand' = InHand \cup {w}
                     /\ \E u \in Urls : u \notin succeeded /\ succeeded' = succeeded \cup {u}
                     /\ success_counter' = success_counter
    <2>1. /\ url[w] \in Urls /\ url[w] \notin succeeded /\ pc[w] = "fetch"
      BY <1>5 DEF Fetch, ClaimInv, Busy
    <2>2. /\ fetches' = [fetches EXCEPT ![url[w]] = @ + 1]
          /\ UNCHANGED <<visited_set, success_counter, link, url>>
          /\ \/ pc' = [pc EXCEPT ![w] = "get"] /\ succeeded' = succeeded
             \/ pc' = [pc EXCEPT ![w] = "insert"] /\ succeeded' = succeeded \cup {url[w]}
      BY <1>5 DEF Fetch, Goto, redis
    <2>3. fetches'[url[w]] # 0 /\ \A u \in Urls : u # url[w] => fetches'[u] = fetches[u]
      BY <2>1, <2>2
    <2>4. Elsewhere(w) /\ pc'[w] \in {"get", "insert"}
      BY <2>2
    <2>5. Linked
      BY <1>0, <2>1, <2>2, <2>4 DEF Running, Down
    <2>6. ASSUME NEW u \in visited_set', fetches'[u] = 0
          PROVE  \E v \in Workers : pc'[v] = "fetch" /\ url'[v] = u
      <3>1. u # url[w] /\ u \in visited_set /\ fetches[u] = 0
        BY <2>2, <2>3, <2>6
      <3>2. PICK v \in Workers : pc[v] = "fetch" /\ url[v] = u
        BY <1>0, <3>1
      <3> QED
        BY <2>4, <3>1, <3>2
    <2>7. Orphans' = {}
      <3> SUFFICES ASSUME NEW u \in Orphans' PROVE FALSE
        OBVIOUS
      <3>1. /\ u \in visited_set' /\ fetches'[u] = 0
            /\ \A v \in Workers : pc'[v] = "fetch" => url'[v] # u
        BY DEF Orphans
      <3> QED
        BY <2>6, <3>1
    <2>8. w \notin InHand
      BY <2>1 DEF InHand
    <2> QED
      BY <2>1, <2>2, <2>4, <2>5, <2>7, <2>8, InHandFrame
  <1>6. ASSUME NEW w \in Workers, Count(w)
        PROVE  /\ Linked /\ Orphans' = {}
               /\ w \in InHand /\ InHand' = InHand \ {w}
               /\ succeeded' = succeeded
               /\ success_counter' = success_counter + 1
    <2>1. pc[w] = "incr" /\ Running(w) /\ link[w] /\ Outcomes(w) = {"answered"}
      BY <1>0, <1>6 DEF Count, Running, Down
    <2>2. /\ Reply(w, "answered")
          /\ success_counter' = success_counter + 1
          /\ UNCHANGED <<visited_set, fetches, succeeded>>
          /\ Leave(w, "exited") \/ Spread(w, todo[w])
      BY <1>6, <2>1 DEF Count, Executed, history
    <2>3. link' = link /\ Elsewhere(w) /\ pc'[w] \in {"push", "brpop", "exited"}
      BY <1>A, <2>1, <2>2 DEF Spread, Goto, Leave
    <2>4. Linked /\ Orphans' = {}
      <3>1. link'[w] /\ pc[w] # "fetch" /\ fetches' = fetches /\ visited_set' = visited_set
        BY <2>1, <2>2, <2>3
      <3> QED
        BY <1>B, <2>3, <3>1, LosslessFrame
    <2>5. w \in InHand
      BY <2>1 DEF InHand
    <2> QED
      BY <2>2, <2>3, <2>4, <2>5, InHandFrame
  <1>7. ASSUME NEW w \in Workers, Crash(w) PROVE FALSE
    BY <1>7 DEF Crash
  <1>8. CASE UNCHANGED vars
    BY <1>0, <1>8 DEF vars, redis, locals, history, Running, Orphans, InHand, LosslessInv
  <1> QED
    BY <1>1, <1>2, <1>3, <1>4, <1>5, <1>6, <1>7, <1>8 DEF Next, Step

LEMMA LosslessInit == Init => LosslessInv
  <1> SUFFICES ASSUME Init PROVE LosslessInv
    OBVIOUS
  <1>1. InHand = {} /\ Orphans = {} /\ \A w \in Workers : ~Running(w)
    BY DEF Init, InHand, Orphans, Running, Down
  <1> QED
    BY <1>1, FS_EmptySet DEF Init, LosslessInv, ExactCount

LEMMA LosslessNext ==
    ASSUME Faults \subseteq {"db"}, TypeOK, ClaimInv, LosslessInv, [Next]_vars
    PROVE  LosslessInv'
  <1>0. /\ success_counter \in Nat
        /\ IsFiniteSet(InHand) /\ Cardinality(InHand) \in Nat
        /\ IsFiniteSet(succeeded) /\ Cardinality(succeeded) \in Nat
    BY HarvestFinite DEF TypeOK
  <1>1. ASSUME InHand' = InHand, UNCHANGED <<succeeded, success_counter>> PROVE ExactCount'
    BY <1>1 DEF LosslessInv, ExactCount
  <1>2. ASSUME NEW w \in Workers, w \notin InHand, InHand' = InHand \cup {w},
               NEW u \in Urls, u \notin succeeded, succeeded' = succeeded \cup {u},
               success_counter' = success_counter
        PROVE  ExactCount'
    <2>1. /\ Cardinality(InHand') = Cardinality(InHand) + 1
          /\ Cardinality(succeeded') = Cardinality(succeeded) + 1
      BY <1>0, <1>2, FS_AddElement
    <2> QED
      BY <1>0, <1>2, <2>1 DEF LosslessInv, ExactCount
  <1>3. ASSUME NEW w \in InHand, InHand' = InHand \ {w}, succeeded' = succeeded,
               success_counter' = success_counter + 1
        PROVE  ExactCount'
    <2>1. Cardinality(InHand') = Cardinality(InHand) - 1
      BY <1>0, <1>3, FS_RemoveElement
    <2> QED
      BY <1>0, <1>3, <2>1 DEF LosslessInv, ExactCount
  <1>4. ExactCount'
    BY <1>1, <1>2, <1>3, LosslessStep
  <1>5. Orphans' = {} /\ \A w \in Workers : Running(w)' => link'[w]
    BY LosslessStep
  <1> QED
    BY <1>4, <1>5 DEF LosslessInv

\* When processes and the Redis server do not fail, every claimed URL is fetched or
\* about to be, and every page that came back is counted or in its worker's hands
\* (worker_v3.cpp:78-125).
THEOREM NothingIsLost == Spec => []NothingLost
  <1> DEFINE Lossless == Faults \subseteq {"db"} => LosslessInv
  <1>1. Init => Lossless
    BY LosslessInit
  <1>2. TypeOK /\ ClaimInv /\ Lossless /\ [Next]_vars => Lossless'
    BY LosslessNext
  <1>3. Lossless => NothingLost
    BY DEF NothingLost, LosslessInv, ExactCount, InHand
  <1> HIDE DEF Lossless
  <1> QED
    BY <1>1, <1>2, <1>3, TypeCorrect, ClaimInit, ClaimNext, PTL DEF Spec
=============================================================================
