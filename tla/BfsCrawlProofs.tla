--------------------------- MODULE BfsCrawlProofs ---------------------------
(***************************************************************************)
(* Machine-checked facts about BfsCrawl, for every web, every set of seeds, *)
(* every level and every machine.                                          *)
(***************************************************************************)
EXTENDS BfsCrawl, SharedLemmas

\* An entry is in hand where one is used, threads are born in order, and a thread
\* that queues its links has a level below.
PlaceInv ==
    /\ main \in {"slot", "take", "spawn"} => curr \in Entry
    /\ \A t \in Threads : pc[t] = "unborn" <=> t > spawned
    /\ \A t \in Alive : job[t] \in Entry
    /\ \A t \in Threads : pc[t] = "push" => job[t].level > 1

LEMMA Constants ==
    /\ Level \in Nat \ {0} /\ MaxSpawns \in Nat
    /\ LinksOf \in [Urls -> Seq(Urls)] /\ Seeds \in Seq(Urls)
  BY LimitsAssumption, UrlsAssumption

LEMMA MachineType == TypeOK => MAX_URLS \in Nat \ {0} /\ MAX_THREADS \in Nat \ {0}
  <1>1. TypeOK => <<MAX_URLS, MAX_THREADS>> \in (Nat \ {0}) \X (Nat \ {0})
    BY LimitsAssumption DEF TypeOK, given
  <1> QED
    BY <1>1

LEMMA AliveFinite == IsFiniteSet(Alive) /\ Cardinality(Alive) \in Nat
  <1>1. IsFiniteSet(Threads)
    BY LimitsAssumption, FS_Interval DEF Threads
  <1>2. Alive \subseteq Threads
    BY DEF Alive
  <1> QED
    BY <1>1, <1>2, FS_Subset, FS_CardinalityType

\* URLs paired with a level are entries of a queue.
LEMMA AtLevelType ==
    ASSUME NEW s \in Seq(Urls), NEW l \in 1..Level
    PROVE  /\ AtLevel(s, l) \in Seq(Entry)
           /\ Len(AtLevel(s, l)) = Len(s)
           /\ \A i \in 1..Len(s) : AtLevel(s, l)[i] = [url |-> s[i], level |-> l]
  <1>1. \A i \in 1..Len(s) : [url |-> s[i], level |-> l] \in Entry
    BY DEF Entry
  <1> QED
    BY <1>1 DEF AtLevel

\* Where a step of a thread can lead it, and what it leaves alone.
LEMMA ThreadMoves ==
    ASSUME TypeOK, PlaceInv, NEW t \in Threads, ThreadStep(t)
    PROVE  /\ t \in Alive /\ job[t] \in Entry
           /\ \/ pc[t] = "start" /\ pc'[t] \in {"visit", "release"} /\ job'[t] = job[t]
              \/ pc[t] = "visit" /\ pc'[t] \in {"fetch", "release"} /\ job'[t] = job[t]
              \/ pc[t] = "fetch" /\ pc'[t] = "bank" /\ job'[t] = job[t]
              \/ pc[t] = "bank" /\ pc'[t] = "level" /\ job'[t] = job[t]
              \/ /\ pc[t] = "level" /\ pc'[t] \in {"push", "release"} /\ job'[t] = job[t]
                 /\ pc'[t] = "push" => job[t].level > 1
              \/ pc[t] = "push" /\ pc'[t] = "release" /\ job'[t] = job[t]
              \/ pc[t] = "release" /\ pc'[t] = "done"
           /\ pc' \in [Threads -> {"unborn", "start", "visit", "fetch", "bank", "level",
                                   "push", "release", "done"}]
           /\ \A v \in Threads : v # t => /\ pc'[v] = pc[v] /\ job'[v] = job[v]
                                          /\ res'[v] = res[v]
           /\ UNCHANGED <<given, main, curr, spawned>>
  <1> USE DEF TypeOK, Goto, shared, mainVars, history
  <1>1. CASE Enter(t)
    BY <1>1 DEF ThreadStep, Enter, PlaceInv, Alive
  <1>2. CASE Visit(t)
    BY <1>2 DEF ThreadStep, Visit, PlaceInv, Alive
  <1>3. CASE Fetch(t)
    BY <1>3 DEF ThreadStep, Fetch, PlaceInv, Alive
  <1>4. CASE Collect(t)
    BY <1>4 DEF ThreadStep, Collect, PlaceInv, Alive
  <1>5. CASE Decide(t)
    BY <1>5 DEF ThreadStep, Decide, Descends, PlaceInv, Alive
  <1>6. CASE PushLinks(t)
    BY <1>6 DEF ThreadStep, PushLinks, PlaceInv, Alive
  <1>7. CASE Release(t)
    BY <1>7 DEF ThreadStep, Release, PlaceInv, Alive
  <1> QED
    BY <1>1, <1>2, <1>3, <1>4, <1>5, <1>6, <1>7 DEF ThreadStep

\* What the main thread does to the threads: nothing, or it spawns the next one.
LEMMA MainMoves ==
    ASSUME TypeOK, PlaceInv, MainStep
    PROVE  /\ UNCHANGED <<given, visited_url, Url_bank, stop_crawl, history, res>>
           /\ \/ UNCHANGED <<pc, job, spawned>>
              \/ /\ Spawn /\ ~stop_crawl /\ spawned' = spawned + 1 /\ spawned' \in Threads
                 /\ pc[spawned'] = "unborn" /\ curr \in Entry
                 /\ pc' = [pc EXCEPT ![spawned'] = "start"]
                 /\ job' = [job EXCEPT ![spawned'] = curr]
  <1>1. CASE Spawn
    <2>1. curr \in Entry
      BY <1>1 DEF Spawn, PlaceInv
    <2>2. spawned < MaxSpawns => spawned + 1 \in Threads /\ pc[spawned + 1] = "unborn"
      BY Constants DEF TypeOK, PlaceInv, Threads
    <2> QED
      BY <1>1, <2>1, <2>2 DEF Spawn, MainStep, shared, threadVars, history
  <1>2. CASE CheckStop \/ PopEntry \/ LeaveLoop \/ LoopAgain \/ WaitForSlot \/ TakeSlot \/ Join
    BY <1>2 DEF MainStep, CheckStop, PopEntry, LeaveLoop, LoopAgain, WaitForSlot, TakeSlot, Join,
                shared, threadVars, history
  <1> QED
    BY <1>1, <1>2 DEF MainStep

LEMMA PlaceInit == Init => PlaceInv
  BY DEF Init, PlaceInv, Threads, Alive

LEMMA PlaceNext ==
    ASSUME TypeOK, PlaceInv, [Next]_vars
    PROVE  PlaceInv'
  <1> USE DEF TypeOK
  <1>1. main' \in {"slot", "take", "spawn"} => curr' \in Entry
    <2>1. CASE MainStep
      <3>1. CASE PopEntry
        BY <3>1 DEF PopEntry
      <3>2. CASE CheckStop \/ LeaveLoop \/ LoopAgain \/ WaitForSlot \/ TakeSlot \/ Spawn \/ Join
        BY <3>2 DEF CheckStop, LeaveLoop, LoopAgain, WaitForSlot, TakeSlot, Spawn, Join, PlaceInv
      <3> QED
        BY <2>1, <3>1, <3>2 DEF MainStep
    <2>2. ASSUME NEW t \in Threads, ThreadStep(t) PROVE UNCHANGED <<main, curr>>
      BY <2>2, ThreadMoves
    <2>3. CASE UNCHANGED vars
      BY <2>3 DEF vars, mainVars, PlaceInv
    <2> QED
      BY <2>1, <2>2, <2>3 DEF Next, PlaceInv
  <1>2. /\ \A t \in Threads : pc'[t] = "unborn" <=> t > spawned'
        /\ \A t \in Alive' : job'[t] \in Entry
        /\ \A t \in Threads : pc'[t] = "push" => job'[t].level > 1
    <2>1. CASE MainStep
      <3>1. CASE UNCHANGED <<pc, job, spawned>>
        BY <3>1 DEF PlaceInv, Alive
      <3>2. CASE ~UNCHANGED <<pc, job, spawned>>
        <4>1. /\ spawned' = spawned + 1 /\ spawned' \in Threads /\ curr \in Entry
              /\ pc' = [pc EXCEPT ![spawned'] = "start"]
              /\ job' = [job EXCEPT ![spawned'] = curr]
          BY <2>1, <3>2, MainMoves
        <4>2. /\ pc'[spawned'] = "start" /\ job'[spawned'] \in Entry
              /\ \A t \in Threads : t # spawned' => pc'[t] = pc[t] /\ job'[t] = job[t]
          BY <4>1
        <4>3. \A t \in Threads : pc'[t] = "unborn" <=> t > spawned'
          BY <4>1, <4>2, Constants DEF PlaceInv, Threads
        <4> QED
          BY <4>2, <4>3 DEF PlaceInv, Alive
      <3> QED
        BY <3>1, <3>2
    <2>2. ASSUME NEW t \in Threads, ThreadStep(t)
          PROVE  /\ \A v \in Threads : pc'[v] = "unborn" <=> v > spawned'
                 /\ \A v \in Alive' : job'[v] \in Entry
                 /\ \A v \in Threads : pc'[v] = "push" => job'[v].level > 1
      <3>1. /\ t \in Alive /\ job[t] \in Entry /\ spawned' = spawned
            /\ pc[t] # "unborn" /\ pc'[t] # "unborn"
            /\ pc'[t] # "done" => job'[t] = job[t]
            /\ pc'[t] = "push" => job[t].level > 1
            /\ \A v \in Threads : v # t => pc'[v] = pc[v] /\ job'[v] = job[v]
        BY <2>2, ThreadMoves
      <3> QED
        BY <3>1 DEF PlaceInv, Alive
    <2>3. CASE UNCHANGED vars
      BY <2>3 DEF vars, mainVars, threadVars, PlaceInv, Alive
    <2> QED
      BY <2>1, <2>2, <2>3 DEF Next
  <1> QED
    BY <1>1, <1>2 DEF PlaceInv

-----------------------------------------------------------------------------
(***************************************************************************)
(* Slots.                                                                  *)
(***************************************************************************)

\* The main thread holds a slot only for the thread it is about to spawn, except
\* when it stops.
SlotInv ==
    /\ main \in {"loop", "look", "slot", "take"} => active_threads = Cardinality(Alive)
    /\ main \in {"spawn", "join", "done"} => active_threads - Cardinality(Alive) \in {0, 1}
    /\ ~stop_crawl => (active_threads - Cardinality(Alive) = 1 <=> main = "spawn")

\* A thread step leaves the threads alive, or it is the return of one.
LEMMA AliveMoves ==
    ASSUME TypeOK, PlaceInv, NEW t \in Threads, ThreadStep(t)
    PROVE  \/ /\ Cardinality(Alive') = Cardinality(Alive)
              /\ active_threads' = active_threads
           \/ /\ Cardinality(Alive') = Cardinality(Alive) - 1
              /\ Cardinality(Alive) > 0
              /\ active_threads' = active_threads - 1
  <1>1. CASE Release(t)
    <2>1. t \in Alive /\ Alive' = Alive \ {t}
      BY <1>1 DEF Release, Goto, TypeOK, Alive
    <2>2. Cardinality(Alive') = Cardinality(Alive) - 1 /\ Cardinality(Alive') \in Nat
      BY <2>1, AliveFinite, FS_RemoveElement, FS_CardinalityType
    <2> QED
      BY <1>1, <2>2, AliveFinite DEF Release, AfterRelease
  <1>2. CASE ~Release(t)
    <2>1. active_threads' = active_threads
      BY <1>2 DEF ThreadStep, Enter, Visit, Fetch, Collect, Decide, PushLinks, shared
    <2>2. pc'[t] # "done" /\ t \in Alive /\ pc'[t] # "unborn"
      BY <1>2 DEF ThreadStep, Enter, Visit, Fetch, Collect, Decide, PushLinks, Goto, TypeOK, Alive
    <2>3. Alive' = Alive
      BY <2>2, ThreadMoves DEF Alive
    <2> QED
      BY <2>1, <2>3
  <1> QED
    BY <1>1, <1>2

LEMMA SlotInit == Init => SlotInv
  <1> SUFFICES ASSUME Init PROVE SlotInv
    OBVIOUS
  <1>1. Alive = {}
    BY DEF Init, Alive
  <1> QED
    BY <1>1, FS_EmptySet DEF Init, SlotInv

LEMMA SlotNext ==
    ASSUME TypeOK, PlaceInv, SlotInv, [Next]_vars
    PROVE  SlotInv' /\ active_threads' \in 0..MAX_THREADS' /\ given' = given
  <1>0. /\ active_threads \in 0..MAX_THREADS /\ MAX_THREADS \in Nat
        /\ Cardinality(Alive) \in Nat
    BY MachineType, AliveFinite DEF TypeOK
  <1>1. CASE MainStep
    <2>1. given' = given /\ stop_crawl' = stop_crawl
      BY <1>1, MainMoves
    <2>2. CASE Spawn /\ ~stop_crawl
      <3>1. /\ Alive' = Alive \cup {spawned'} /\ spawned' \notin Alive
        BY <1>1, <2>2, MainMoves DEF Spawn, Alive, TypeOK
      <3>2. Cardinality(Alive') = Cardinality(Alive) + 1
        BY <3>1, AliveFinite, FS_AddElement
      <3>3. /\ main = "spawn" /\ main' = "loop" /\ active_threads' = active_threads
        BY <2>2 DEF Spawn, shared
      <3> QED
        BY <1>0, <2>1, <2>2, <3>2, <3>3 DEF SlotInv, given
    <2>3. CASE ~(Spawn /\ ~stop_crawl)
      <3>1. Alive' = Alive
        BY <1>1, <2>3, MainMoves DEF Alive
      <3>2. \/ /\ main = "take" /\ main' = "spawn" /\ active_threads < MAX_THREADS
               /\ active_threads' = active_threads + 1
            \/ /\ active_threads' = active_threads
               /\ \/ /\ main \in {"loop", "look", "slot"}
                     /\ main' \in {"loop", "look", "slot", "take", "join"}
                  \/ main = "take" /\ main' = "slot"
                  \/ main = "slot" /\ stop_crawl /\ main' = "spawn"
                  \/ main = "spawn" /\ stop_crawl /\ main' = "join"
                  \/ main = "join" /\ main' = "done"
        BY <1>1, <2>3 DEF MainStep, CheckStop, PopEntry, LeaveLoop, LoopAgain, WaitForSlot,
                          TakeSlot, SlotFree, Spawn, Join, shared
      <3>3. Cardinality(Alive') = Cardinality(Alive)
        BY <3>1
      <3> QED
        BY <1>0, <2>1, <3>2, <3>3 DEF SlotInv, given
    <2> QED
      BY <2>2, <2>3
  <1>2. ASSUME NEW t \in Threads, ThreadStep(t)
        PROVE  SlotInv' /\ active_threads' \in 0..MAX_THREADS' /\ given' = given
    <2>1. UNCHANGED <<given, main>>
      BY <1>2, ThreadMoves
    <2>2. stop_crawl => stop_crawl'
      BY <1>2 DEF ThreadStep, Enter, Visit, Fetch, Collect, Decide, PushLinks, Release, shared
    <2>3. active_threads' - Cardinality(Alive') = active_threads - Cardinality(Alive)
      BY <1>0, <1>2, AliveMoves
    <2>4. active_threads' \in 0..MAX_THREADS /\ Cardinality(Alive') \in Nat
      BY <1>0, <1>2, AliveMoves DEF SlotInv, TypeOK
    <2> QED
      BY <1>0, <2>1, <2>2, <2>3, <2>4 DEF SlotInv, given, TypeOK
  <1>3. CASE UNCHANGED vars
    BY <1>0, <1>3 DEF vars, shared, mainVars, threadVars, given, SlotInv, Alive
  <1> QED
    BY <1>1, <1>2, <1>3 DEF Next

LEMMA TypeInit == Init => TypeOK
  <1> SUFFICES ASSUME Init PROVE TypeOK
    OBVIOUS
  <1>1. PICK machine \in Machines : MAX_URLS = machine[1] /\ MAX_THREADS = machine[2]
    BY DEF Init
  <1>2. given \in Machines /\ MAX_THREADS \in Nat
    <2>1. machine = <<machine[1], machine[2]>> /\ machine[2] \in Nat
      BY LimitsAssumption
    <2> QED
      BY <1>1, <2>1 DEF given
  <1>3. q \in Seq(Entry)
    <2>1. Seeds \in Seq(Urls) /\ Level \in 1..Level
      BY Constants
    <2>2. AtLevel(Seeds, Level) \in Seq(Entry)
      BY <2>1, AtLevelType
    <2>3. q = AtLevel(Seeds, Level)
      BY DEF Init
    <2> QED
      BY <2>2, <2>3
  <1>4. active_threads \in 0..MAX_THREADS /\ spawned \in 0..MaxSpawns
    <2>1. active_threads = 0 /\ spawned = 0
      BY DEF Init
    <2> QED
      BY <1>2, <2>1, Constants
  <1>5. /\ visited_url \subseteq Urls /\ Url_bank \subseteq Urls /\ read \subseteq Urls
        /\ stop_crawl \in BOOLEAN /\ main = "loop" /\ curr = NoEntry
    BY DEF Init
  <1>6. /\ pc \in [Threads -> {"unborn"}] /\ job \in [Threads -> Entry \cup {NoEntry}]
        /\ res \in [Threads -> Seq(Urls)] /\ fetches \in [Urls -> Nat]
    BY DEF Init
  <1> QED
    BY <1>2, <1>3, <1>4, <1>5, <1>6 DEF TypeOK

LEMMA TypeNext ==
    ASSUME TypeOK, PlaceInv, SlotInv, [Next]_vars
    PROVE  TypeOK'
  <1> USE DEF TypeOK
  <1>0. active_threads' \in 0..MAX_THREADS' /\ given' \in Machines
    BY SlotNext
  <1>1. CASE MainStep
    <2>1. /\ UNCHANGED <<given, visited_url, Url_bank, stop_crawl, fetches, read, res>>
          /\ pc' \in [Threads -> {"unborn", "start", "visit", "fetch", "bank", "level",
                                  "push", "release", "done"}]
          /\ job' \in [Threads -> Entry \cup {NoEntry}]
      BY <1>1, MainMoves DEF history
    <2>2. /\ q' \in Seq(Entry)
          /\ main' \in {"loop", "look", "slot", "take", "spawn", "join", "done"}
          /\ curr' \in Entry \cup {NoEntry}
          /\ spawned' \in 0..MaxSpawns
      <3>1. CASE PopEntry
        BY <3>1 DEF PopEntry
      <3>2. CASE CheckStop \/ LeaveLoop \/ LoopAgain \/ WaitForSlot \/ TakeSlot \/ Join
        BY <3>2 DEF CheckStop, LeaveLoop, LoopAgain, WaitForSlot, TakeSlot, Join, shared
      <3>3. CASE Spawn
        BY <3>3, Constants DEF Spawn, shared
      <3> QED
        BY <1>1, <3>1, <3>2, <3>3 DEF MainStep
    <2> QED
      BY <1>0, <2>1, <2>2
  <1>2. ASSUME NEW t \in Threads, ThreadStep(t) PROVE TypeOK'
    <2>1. /\ UNCHANGED <<given, main, curr, spawned>> /\ job[t] \in Entry
          /\ pc' \in [Threads -> {"unborn", "start", "visit", "fetch", "bank", "level",
                                  "push", "release", "done"}]
          /\ job[t].url \in Urls /\ LinksOf[job[t].url] \in Seq(Urls)
      BY <1>2, ThreadMoves, Constants DEF Entry
    <2>2. CASE Enter(t)
      BY <1>0, <2>1, <2>2 DEF Enter, shared, history
    <2>3. CASE Visit(t)
      BY <1>0, <2>1, <2>3 DEF Visit, history
    <2>4. CASE Fetch(t)
      <3>1. fetches' \in [Urls -> Nat]
        BY <2>1, <2>4 DEF Fetch
      <3>2. res' \in [Threads -> Seq(Urls)] /\ read' \subseteq Urls
        BY <2>1, <2>4 DEF Fetch
      <3> QED
        BY <1>0, <2>1, <2>4, <3>1, <3>2 DEF Fetch, shared
    <2>5. CASE Collect(t)
      BY <1>0, <2>1, <2>5, SetOfSeq DEF Collect, BankFull, history
    <2>6. CASE Decide(t)
      BY <1>0, <2>1, <2>6 DEF Decide, shared, history
    <2>7. CASE PushLinks(t)
      <3>1. job[t].level - 1 \in 1..Level
        <4>1. job[t].level \in 1..Level /\ job[t].level > 1
          BY <2>1, <2>7 DEF PushLinks, PlaceInv, Entry
        <4> QED
          BY <4>1, Constants
      <3>2. q' \in Seq(Entry)
        BY <2>7, <3>1, AtLevelType DEF PushLinks
      <3> QED
        BY <1>0, <2>1, <2>7, <3>2 DEF PushLinks, history
    <2>8. CASE Release(t)
      BY <1>0, <2>1, <2>8 DEF Release, history
    <2> QED
      BY <1>2, <2>2, <2>3, <2>4, <2>5, <2>6, <2>7, <2>8 DEF ThreadStep
  <1>3. CASE UNCHANGED vars
    BY <1>3 DEF vars, shared, mainVars, threadVars, history, given
  <1> QED
    BY <1>1, <1>2, <1>3 DEF Next

SlotsInv == TypeOK /\ PlaceInv /\ SlotInv

LEMMA SlotsInductive == Init => SlotsInv
  BY TypeInit, PlaceInit, SlotInit DEF SlotsInv

LEMMA SlotsPreserved == SlotsInv /\ [Next]_vars => SlotsInv'
  BY TypeNext, PlaceNext, SlotNext DEF SlotsInv

\* The slots balance, whatever the order in which threads return and the main thread
\* takes the next slot (mainbfs.cpp:37-59, 129-131).
THEOREM SlotsAreAccounted == Spec => []SlotsAccounted
  <1>1. SlotsInv => SlotsAccounted
    <2> SUFFICES ASSUME SlotsInv PROVE SlotsAccounted
      OBVIOUS
    <2>1. active_threads \in 0..MAX_THREADS /\ Cardinality(Alive) \in Nat /\ MAX_THREADS \in Nat
      BY MachineType, AliveFinite DEF SlotsInv, TypeOK
    <2>2. active_threads - Cardinality(Alive) \in {0, 1}
      BY <2>1 DEF SlotsInv, SlotInv, TypeOK
    <2> QED
      BY <2>1, <2>2 DEF SlotsInv, SlotInv, SlotsAccounted
  <1> QED
    BY <1>1, SlotsInductive, SlotsPreserved, PTL DEF Spec

-----------------------------------------------------------------------------
(***************************************************************************)
(* The end of the loop.                                                    *)
(***************************************************************************)

LEMMA ExitInit == Init => NoEarlyExit
  BY DEF Init, NoEarlyExit

\* Outside the loop no thread is left that could queue something.
LEMMA ExitNext ==
    ASSUME SlotsInv, NoEarlyExit, [Next]_vars
    PROVE  NoEarlyExit'
  <1>1. CASE MainStep
    <2>1. CASE main \in {"join", "done"}
      <3>1. Join
        BY <1>1, <2>1 DEF MainStep, CheckStop, PopEntry, LeaveLoop, LoopAgain, WaitForSlot,
                          TakeSlot, Spawn, Join
      <3> QED
        BY <2>1, <3>1 DEF Join, shared, threadVars, NoEarlyExit, Alive
    <2>2. CASE CheckStop \/ Spawn
      BY <2>2 DEF CheckStop, Spawn, shared, NoEarlyExit
    <2>3. CASE LeaveLoop
      <3>1. q = <<>> /\ Cardinality(Alive) = 0
        BY <2>3, AliveFinite DEF LeaveLoop, Idle, SlotsInv, SlotInv
      <3>2. Alive = {}
        BY <3>1, AliveFinite, FS_EmptySet
      <3> QED
        BY <2>3, <3>1, <3>2 DEF LeaveLoop, shared, threadVars, NoEarlyExit, Alive
    <2>4. CASE PopEntry \/ LoopAgain \/ WaitForSlot \/ TakeSlot
      BY <2>4 DEF PopEntry, LoopAgain, WaitForSlot, TakeSlot, NoEarlyExit
    <2> QED
      BY <1>1, <2>1, <2>2, <2>3, <2>4 DEF MainStep, Join
  <1>2. ASSUME NEW t \in Threads, ThreadStep(t) PROVE NoEarlyExit'
    <2>1. t \in Alive /\ main' = main
      BY <1>2, ThreadMoves DEF SlotsInv
    <2>2. stop_crawl => stop_crawl'
      BY <1>2 DEF ThreadStep, Enter, Visit, Fetch, Collect, Decide, PushLinks, Release, shared
    <2> QED
      BY <2>1, <2>2 DEF NoEarlyExit
  <1>3. CASE UNCHANGED vars
    BY <1>3 DEF vars, shared, mainVars, threadVars, NoEarlyExit, Alive
  <1> QED
    BY <1>1, <1>2, <1>3 DEF Next

\* bfs() does not leave its loop early, although it reads active_threads without
\* its mutex (mainbfs.cpp:122-127).
THEOREM LoopIsNotLeftEarly == Spec => []NoEarlyExit
  BY SlotsInductive, SlotsPreserved, ExitInit, ExitNext, PTL DEF Spec

-----------------------------------------------------------------------------
(***************************************************************************)
(* Who may fetch a page.                                                   *)
(***************************************************************************)

\* A page is fetched by the thread that entered its URL in visited_url.
ClaimInv ==
    /\ \A u \in Urls : fetches[u] <= 1 /\ (fetches[u] # 0 => u \in visited_url)
    /\ \A t \in Threads : pc[t] = "fetch" =>
          job[t].url \in visited_url /\ fetches[job[t].url] = 0
    /\ \A s, t \in Threads : s # t /\ pc[s] = "fetch" /\ pc[t] = "fetch" =>
          job[s].url # job[t].url

\* A page that nobody has claimed has not been fetched.
LEMMA FetchCounts ==
    ASSUME TypeOK, ClaimInv, NEW u \in Urls, u \notin visited_url
    PROVE  fetches[u] = 0
  BY DEF ClaimInv

LEMMA ClaimInit == Init => ClaimInv
  BY DEF Init, ClaimInv

LEMMA ClaimNext ==
    ASSUME SlotsInv, ClaimInv, [Next]_vars
    PROVE  ClaimInv'
  <1> USE DEF SlotsInv, TypeOK
  <1>1. CASE MainStep
    <2>1. UNCHANGED <<visited_url, fetches>>
      BY <1>1, MainMoves DEF history
    <2>2. \A t \in Threads : pc'[t] = "fetch" => pc[t] = "fetch" /\ job'[t] = job[t]
      BY <1>1, MainMoves
    <2> QED
      BY <2>1, <2>2 DEF ClaimInv
  <1>2. ASSUME NEW t \in Threads, ThreadStep(t) PROVE ClaimInv'
    <2>0. /\ job[t] \in Entry /\ job[t].url \in Urls
          /\ pc'[t] = "fetch" => pc[t] = "visit" /\ job'[t] = job[t]
          /\ \A v \in Threads : v # t => pc'[v] = pc[v] /\ job'[v] = job[v]
      BY <1>2, ThreadMoves DEF Entry
    <2>1. CASE Visit(t)
      <3>1. /\ visited_url' = visited_url \cup {job[t].url} /\ fetches' = fetches
            /\ pc'[t] = "fetch" => job[t].url \notin visited_url
        BY <2>1 DEF Visit, Goto, IsNew, history
      <3>2. \A v \in Threads : pc'[v] = "fetch" =>
               job'[v].url \in visited_url' /\ fetches'[job'[v].url] = 0
        <4>1. ASSUME NEW v \in Threads, v # t, pc'[v] = "fetch"
              PROVE  job'[v].url \in visited_url' /\ fetches'[job'[v].url] = 0
          <5>1. pc[v] = "fetch" /\ job'[v] = job[v]
            BY <2>0, <4>1
          <5>2. job[v].url \in visited_url /\ fetches[job[v].url] = 0
            BY <5>1 DEF ClaimInv
          <5> QED
            BY <3>1, <5>1, <5>2
        <4>2. ASSUME pc'[t] = "fetch" PROVE job'[t].url \in visited_url' /\ fetches'[job'[t].url] = 0
          <5>1. job'[t] = job[t] /\ job[t].url \in Urls /\ job[t].url \notin visited_url
            BY <2>0, <3>1, <4>2
          <5>2. fetches[job[t].url] = 0
            BY <5>1, FetchCounts
          <5> QED
            BY <3>1, <5>1, <5>2
        <4> QED
          BY <4>1, <4>2
      <3>3. \A v, w \in Threads : v # w /\ pc'[v] = "fetch" /\ pc'[w] = "fetch" =>
               job'[v].url # job'[w].url
        <4>1. \A v \in Threads : v # t /\ pc'[v] = "fetch" =>
                 /\ pc[v] = "fetch" /\ job'[v].url = job[v].url
                 /\ job[v].url \in visited_url
          BY <2>0 DEF ClaimInv
        <4>2. pc'[t] = "fetch" => job'[t].url \notin visited_url
          BY <2>0, <3>1
        <4>3. \A v, w \in Threads : v # w /\ pc[v] = "fetch" /\ pc[w] = "fetch" =>
                 job[v].url # job[w].url
          BY DEF ClaimInv
        <4> HIDE DEF SlotsInv, TypeOK
        <4> QED
          BY <4>1, <4>2, <4>3
      <3> QED
        BY <3>1, <3>2, <3>3 DEF ClaimInv
    <2>2. CASE Fetch(t)
      <3>1. /\ fetches' = [fetches EXCEPT ![job[t].url] = @ + 1] /\ visited_url' = visited_url
            /\ pc[t] = "fetch" /\ pc'[t] = "bank"
        BY <2>2 DEF Fetch, Goto, shared
      <3>2. /\ fetches[job[t].url] = 0 /\ job[t].url \in visited_url
            /\ fetches'[job[t].url] = 1
            /\ \A u \in Urls : u # job[t].url => fetches'[u] = fetches[u]
        BY <2>0, <3>1 DEF ClaimInv
      <3>3. \A v \in Threads : pc'[v] = "fetch" =>
               /\ v # t /\ pc[v] = "fetch" /\ job'[v] = job[v]
               /\ job[v].url # job[t].url /\ job[v].url \in Urls
        BY <2>0, <3>1 DEF ClaimInv, PlaceInv, Alive, Entry
      <3> QED
        BY <3>1, <3>2, <3>3 DEF ClaimInv
    <2>3. CASE ~Visit(t) /\ ~Fetch(t)
      <3>1. UNCHANGED <<visited_url, fetches>> /\ pc'[t] # "fetch"
        BY <1>2, <2>3 DEF ThreadStep, Enter, Collect, Decide, PushLinks, Release, Goto,
                          shared, history
      <3>2. \A v \in Threads : pc'[v] = "fetch" => pc[v] = "fetch" /\ job'[v].url = job[v].url
        BY <2>0, <3>1
      <3>3. /\ \A u \in Urls : fetches[u] <= 1 /\ (fetches[u] # 0 => u \in visited_url)
            /\ \A v \in Threads : pc[v] = "fetch" =>
                  job[v].url \in visited_url /\ fetches[job[v].url] = 0
            /\ \A v, w \in Threads : v # w /\ pc[v] = "fetch" /\ pc[w] = "fetch" =>
                  job[v].url # job[w].url
        BY DEF ClaimInv
      <3> HIDE DEF SlotsInv, TypeOK
      <3>4. \A v \in Threads : pc'[v] = "fetch" =>
               job'[v].url \in visited_url' /\ fetches'[job'[v].url] = 0
        BY <3>1, <3>2, <3>3
      <3>5. \A v, w \in Threads : v # w /\ pc'[v] = "fetch" /\ pc'[w] = "fetch" =>
               job'[v].url # job'[w].url
        BY <3>2, <3>3
      <3> QED
        BY <3>1, <3>3, <3>4, <3>5 DEF ClaimInv
    <2> QED
      BY <2>1, <2>2, <2>3
  <1>3. CASE UNCHANGED vars
    BY <1>3 DEF vars, shared, threadVars, history, ClaimInv
  <1> QED
    BY <1>1, <1>2, <1>3 DEF Next

\* No page is fetched twice, whichever threads meet at its URL (mainbfs.cpp:69-77).
THEOREM PagesAreFetchedOnce == Spec => []FetchedOnce
  <1>1. ClaimInv => FetchedOnce
    BY DEF ClaimInv, FetchedOnce
  <1> QED
    BY <1>1, SlotsInductive, SlotsPreserved, ClaimInit, ClaimNext, PTL DEF Spec

-----------------------------------------------------------------------------
(***************************************************************************)
(* Links in hand, and the bank.                                            *)
(***************************************************************************)

\* What a thread has fetched are the links of its page, and the page was read.
LinksInv ==
    \A t \in Threads : res[t] # <<>> =>
        /\ t \in Alive
        /\ job[t].url \in read
        /\ res[t] = LinksOf[job[t].url]

LEMMA LinksInit == Init => LinksInv
  BY DEF Init, LinksInv

LEMMA LinksNext ==
    ASSUME SlotsInv, LinksInv, [Next]_vars
    PROVE  LinksInv' /\ read \subseteq read'
  <1> USE DEF SlotsInv
  <1>1. CASE MainStep
    <2>1. UNCHANGED <<res, read>>
      BY <1>1, MainMoves DEF history
    <2>2. \A t \in Threads : t \in Alive => t \in Alive' /\ job'[t] = job[t]
      BY <1>1, MainMoves DEF Alive, TypeOK
    <2> QED
      BY <2>1, <2>2 DEF LinksInv
  <1>2. ASSUME NEW t \in Threads, ThreadStep(t) PROVE LinksInv' /\ read \subseteq read'
    <2>0. /\ t \in Alive /\ job[t] \in Entry
          /\ pc'[t] # "done" => job'[t] = job[t] /\ pc'[t] # "unborn"
          /\ \A v \in Threads : v # t => pc'[v] = pc[v] /\ job'[v] = job[v] /\ res'[v] = res[v]
      BY <1>2, ThreadMoves
    <2>1. CASE Fetch(t)
      <3>1. read \subseteq read' /\ pc'[t] = "bank"
        BY <2>1 DEF Fetch, Goto, TypeOK
      <3>2. \/ res'[t] = res[t]
            \/ res'[t] = LinksOf[job[t].url] /\ job[t].url \in read'
        BY <2>1 DEF Fetch, TypeOK
      <3> QED
        BY <2>0, <3>1, <3>2 DEF LinksInv, Alive
    <2>2. CASE Release(t)
      <3>1. read' = read /\ res'[t] = <<>>
        BY <2>2 DEF Release, history, TypeOK
      <3> QED
        BY <2>0, <3>1 DEF LinksInv, Alive
    <2>3. CASE ~Fetch(t) /\ ~Release(t)
      <3>1. read' = read /\ res' = res /\ pc'[t] # "done"
        BY <1>2, <2>3 DEF ThreadStep, Enter, Visit, Collect, Decide, PushLinks, Goto,
                          history, TypeOK
      <3> QED
        BY <2>0, <3>1 DEF LinksInv, Alive
    <2> QED
      BY <2>1, <2>2, <2>3
  <1>3. CASE UNCHANGED vars
    BY <1>3 DEF vars, threadVars, history, LinksInv, Alive
  <1> QED
    BY <1>1, <1>2, <1>3 DEF Next

\* MaxOutDegree is what its name says.
LEMMA OutDegree ==
    /\ MaxOutDegree \in Nat
    /\ \A u \in Urls : Len(LinksOf[u]) <= MaxOutDegree
  <1> DEFINE degree == [u \in Urls |-> Len(LinksOf[u])]
             Lens == {Len(LinksOf[u]) : u \in Urls}
             R == {0} \cup Lens
  <1>1. Lens \subseteq Nat
    BY Constants
  <1>2. IsFiniteSet(Lens)
    <2>1. DOMAIN degree = Urls /\ Lens = {degree[u] : u \in Urls}
      OBVIOUS
    <2> HIDE DEF degree, Lens
    <2> QED
      BY <2>1, UrlsAssumption, FiniteImage
  <1>3. IsFiniteSet(R)
    <2> HIDE DEF Lens
    <2> QED
      BY <1>2, FS_AddElement
  <1>4. \E m \in R : \A n \in R : n <= m
    <2>1. R \subseteq Nat /\ R # {}
      BY <1>1
    <2> HIDE DEF R
    <2> QED
      BY <1>3, <2>1, GreatestNat
  <1>5. \E m \in R : \A u \in Urls : Len(LinksOf[u]) <= m
    BY <1>4
  <1>6. MaxOutDegree \in R /\ \A u \in Urls : Len(LinksOf[u]) <= MaxOutDegree
    BY <1>5 DEF MaxOutDegree
  <1> QED
    BY <1>1, <1>6

\* The threads that may still add to the bank once it is full.
Pending == {t \in Threads : pc[t] \in {"visit", "fetch", "bank"}}

BankInv ==
    /\ ~stop_crawl => Cardinality(Url_bank) <= MAX_URLS - 1
    /\ stop_crawl => Cardinality(Url_bank) + Cardinality(Pending) * MaxOutDegree
                        <= MAX_URLS - 1 + MAX_THREADS * MaxOutDegree

LEMMA BankFinite ==
    ASSUME TypeOK
    PROVE  /\ IsFiniteSet(Url_bank) /\ Cardinality(Url_bank) \in Nat
           /\ IsFiniteSet(Pending) /\ Cardinality(Pending) \in Nat
           /\ Cardinality(Pending) <= Cardinality(Alive)
  <1>1. IsFiniteSet(Url_bank)
    BY UrlsAssumption, FS_Subset DEF TypeOK
  <1>2. Pending \subseteq Alive
    BY DEF Pending, Alive
  <1> QED
    BY <1>1, <1>2, AliveFinite, FS_Subset, FS_CardinalityType

LEMMA BankInit == Init => BankInv
  <1> SUFFICES ASSUME Init PROVE BankInv
    OBVIOUS
  <1>1. MAX_URLS \in Nat \ {0} /\ Cardinality(Url_bank) = 0
    BY TypeInit, MachineType, FS_EmptySet DEF Init
  <1> QED
    BY <1>1 DEF Init, BankInv

\* Fewer threads have less to add.
LEMMA FewerPending ==
    ASSUME NEW m \in Nat, NEW n \in Nat, m <= n
    PROVE  m * MaxOutDegree \in Nat /\ n * MaxOutDegree \in Nat
           /\ m * MaxOutDegree <= n * MaxOutDegree
  <1>1. n = m + (n - m) /\ n - m \in Nat
    OBVIOUS
  <1>2. n * MaxOutDegree = m * MaxOutDegree + (n - m) * MaxOutDegree
    BY <1>1, OutDegree
  <1>3. /\ (n - m) * MaxOutDegree \in Nat
        /\ m * MaxOutDegree \in Nat /\ n * MaxOutDegree \in Nat
    BY <1>1, OutDegree
  <1> QED
    BY <1>2, <1>3

LEMMA OneTimes ==
    ASSUME NEW m \in Nat, NEW n \in Nat, n = m - 1
    PROVE  n * MaxOutDegree + MaxOutDegree = m * MaxOutDegree
  BY OutDegree

LEMMA BankNext ==
    ASSUME SlotsInv, LinksInv, BankInv, [Next]_vars
    PROVE  BankInv'
  <1> DEFINE d == MaxOutDegree
  <1>0. /\ IsFiniteSet(Url_bank) /\ Cardinality(Url_bank) \in Nat
        /\ IsFiniteSet(Pending) /\ Cardinality(Pending) \in Nat
        /\ Cardinality(Pending) <= MAX_THREADS
        /\ MAX_URLS \in Nat \ {0} /\ MAX_THREADS \in Nat
        /\ d \in Nat
    <2>1. Cardinality(Alive) <= MAX_THREADS
      BY MachineType, AliveFinite DEF SlotsInv, SlotInv, TypeOK
    <2> QED
      BY <2>1, BankFinite, AliveFinite, MachineType, OutDegree DEF SlotsInv
  <1>1. ASSUME UNCHANGED <<given, Url_bank, stop_crawl>>, stop_crawl => Pending' \subseteq Pending
        PROVE  BankInv'
    <2>1. CASE ~stop_crawl
      BY <1>1, <2>1 DEF BankInv, given
    <2>2. CASE stop_crawl
      <3>1. Cardinality(Pending') \in Nat /\ Cardinality(Pending') <= Cardinality(Pending)
        BY <1>0, <1>1, <2>2, FS_Subset, FS_CardinalityType
      <3>2. /\ Cardinality(Pending') * d <= Cardinality(Pending) * d
            /\ Cardinality(Pending') * d \in Nat /\ Cardinality(Pending) * d \in Nat
            /\ MAX_THREADS * d \in Nat
        BY <1>0, <3>1, FewerPending
      <3>3. Cardinality(Url_bank) + Cardinality(Pending) * d <= MAX_URLS - 1 + MAX_THREADS * d
        BY <2>2 DEF BankInv
      <3>4. Cardinality(Url_bank) + Cardinality(Pending') * d <= MAX_URLS - 1 + MAX_THREADS * d
        <4> HIDE DEF d
        <4> QED
          BY <1>0, <3>2, <3>3
      <3> QED
        BY <1>1, <2>2, <3>4 DEF BankInv, given
    <2> QED
      BY <2>1, <2>2
  <1>2. CASE MainStep
    <2>1. UNCHANGED <<given, Url_bank, stop_crawl>>
      BY <1>2, MainMoves DEF SlotsInv
    <2>2. Pending' \subseteq Pending
      BY <1>2, MainMoves DEF SlotsInv, Pending, TypeOK
    <2> QED
      BY <1>1, <2>1, <2>2
  <1>3. ASSUME NEW t \in Threads, ThreadStep(t) PROVE BankInv'
    <2>0. \A v \in Threads : v # t => pc'[v] = pc[v]
      BY <1>3, ThreadMoves DEF SlotsInv
    <2>1. CASE Collect(t)
      <3>1. t \in Pending /\ pc'[t] = "level" /\ given' = given
        BY <1>3, <2>1 DEF ThreadStep, Collect, Goto, SlotsInv, TypeOK, Pending
      <3>2. Pending' = Pending \ {t}
        BY <2>0, <3>1 DEF Pending
      <3>3. Cardinality(Pending') = Cardinality(Pending) - 1 /\ Cardinality(Pending') \in Nat
        BY <1>0, <3>1, <3>2, FS_RemoveElement, FS_CardinalityType
      <3>4. /\ IsFiniteSet(SetOf(res[t])) /\ Cardinality(SetOf(res[t])) \in Nat
            /\ Cardinality(SetOf(res[t])) <= d
        <4>1. res[t] \in Seq(Urls) /\ Len(res[t]) <= d /\ Len(res[t]) \in Nat
          <5>1. CASE res[t] = <<>>
            BY <1>0, <5>1
          <5>2. CASE res[t] # <<>>
            <6>1. res[t] = LinksOf[job[t].url] /\ job[t].url \in Urls
              BY <5>2 DEF LinksInv, SlotsInv, TypeOK
            <6> QED
              BY <6>1, OutDegree, Constants
          <5> QED
            BY <5>1, <5>2
        <4> QED
          BY <1>0, <4>1, SetOfSeq
      <3>5. Cardinality(Url_bank') \in Nat /\ Cardinality(Url_bank') <= Cardinality(Url_bank) + d
        <4>1. Url_bank' = Url_bank \cup SetOf(res[t])
          BY <2>1 DEF Collect
        <4>2. /\ IsFiniteSet(Url_bank \cup SetOf(res[t]))
              /\ Cardinality(Url_bank \cup SetOf(res[t]))
                    <= Cardinality(Url_bank) + Cardinality(SetOf(res[t]))
          BY <1>0, <3>4, UnionBound
        <4> QED
          BY <1>0, <3>4, <4>1, <4>2, FS_CardinalityType
      <3>6. /\ stop_crawl' = (stop_crawl \/ Cardinality(Url_bank') >= MAX_URLS)
            /\ ~stop_crawl' => ~(Cardinality(Url_bank') >= MAX_URLS)
        <4>1. stop_crawl' = (stop_crawl \/ Cardinality(Url_bank') >= MAX_URLS)
          BY <2>1 DEF Collect, BankFull
        <4> QED
          BY <4>1, Zenon
      <3>7. /\ Cardinality(Pending') * d + d = Cardinality(Pending) * d
            /\ Cardinality(Pending') * d \in Nat /\ Cardinality(Pending) * d \in Nat
            /\ Cardinality(Pending) * d <= MAX_THREADS * d /\ MAX_THREADS * d \in Nat
        BY <1>0, <3>3, FewerPending, OneTimes
      <3>8. stop_crawl => Cardinality(Url_bank) + Cardinality(Pending) * d
                             <= MAX_URLS - 1 + MAX_THREADS * d
        BY DEF BankInv
      <3>9. ~stop_crawl => Cardinality(Url_bank) <= MAX_URLS - 1
        BY DEF BankInv
      <3>10. /\ ~stop_crawl' => Cardinality(Url_bank') <= MAX_URLS - 1
             /\ stop_crawl' => Cardinality(Url_bank') + Cardinality(Pending') * d
                                  <= MAX_URLS - 1 + MAX_THREADS * d
        <4> DEFINE left == Cardinality(Pending') * d
                   had == Cardinality(Pending) * d
                   all == MAX_THREADS * d
                   bank == Cardinality(Url_bank')
        <4>1. /\ left + d = had /\ left \in Nat /\ had \in Nat /\ had <= all /\ all \in Nat
              /\ stop_crawl => Cardinality(Url_bank) + had <= MAX_URLS - 1 + all
          BY <3>7, <3>8
        <4>2. bank \in Nat /\ bank <= Cardinality(Url_bank) + d
          BY <3>5
        <4> HIDE DEF d, left, had, all, bank
        <4>3. bank + left <= MAX_URLS - 1 + all
          <5>1. CASE stop_crawl
            BY <1>0, <4>1, <4>2, <5>1
          <5>2. CASE ~stop_crawl
            BY <1>0, <3>9, <4>1, <4>2, <5>2
          <5> QED
            BY <5>1, <5>2
        <4>4. ~stop_crawl' => bank <= MAX_URLS - 1
          BY <1>0, <3>6, <4>2 DEF bank
        <4> QED
          BY <4>3, <4>4 DEF left, all, bank
      <3> QED
        BY <3>1, <3>10 DEF BankInv, given
    <2>2. CASE ~Collect(t)
      <3>1. UNCHANGED <<given, Url_bank, stop_crawl>>
        BY <1>3, <2>2 DEF ThreadStep, Enter, Visit, Fetch, Decide, PushLinks, Release, shared
      <3>2. stop_crawl /\ pc'[t] \in {"visit", "fetch", "bank"} => t \in Pending
        BY <1>3, <2>2 DEF ThreadStep, Enter, Visit, Fetch, Decide, PushLinks, Release, Goto,
                          SlotsInv, TypeOK, Pending
      <3>3. stop_crawl => Pending' \subseteq Pending
        BY <2>0, <3>2 DEF Pending
      <3> QED
        BY <1>1, <3>1, <3>3
    <2> QED
      BY <2>1, <2>2
  <1>4. CASE UNCHANGED vars
    <2>1. UNCHANGED <<given, Url_bank, stop_crawl>> /\ Pending' = Pending
      BY <1>4 DEF vars, shared, threadVars, Pending
    <2> QED
      BY <1>1, <2>1
  <1> QED
    BY <1>2, <1>3, <1>4 DEF Next

\* The bank overshoots its target by at most a page per slot, whichever threads were
\* past their check of stop_crawl when it was raised (mainbfs.cpp:63-67, 83-88).
THEOREM BankIsBounded == Spec => []BankBounded
  <1>1. SlotsInv /\ BankInv => BankBounded
    <2> SUFFICES ASSUME SlotsInv, BankInv PROVE BankBounded
      OBVIOUS
    <2>1. /\ Cardinality(Url_bank) \in Nat /\ Cardinality(Pending) \in Nat
          /\ MAX_URLS \in Nat \ {0} /\ MAX_THREADS \in Nat
      BY BankFinite, MachineType DEF SlotsInv
    <2>2. MAX_THREADS * MaxOutDegree \in Nat /\ Cardinality(Pending) * MaxOutDegree \in Nat
      BY <2>1, FewerPending
    <2> QED
      BY <2>1, <2>2 DEF BankInv, BankBounded
  <1> QED
    BY <1>1, SlotsInductive, SlotsPreserved, LinksInit, LinksNext, BankInit, BankNext, PTL DEF Spec

-----------------------------------------------------------------------------
(***************************************************************************)
(* What is visited.                                                        *)
(***************************************************************************)

LEMMA FrontierDef ==
    /\ Level - 1 \in Nat /\ Depths = 0..(Level - 1)
    /\ Frontier[0] = SetOf(Seeds)
    /\ \A n \in Depths : Frontier[n] \subseteq Urls
    /\ \A n \in 1..(Level - 1) : Frontier[n] = LinksFrom(LinksOf, Frontier[n - 1] \cap read)
  <1>1. Level - 1 \in Nat /\ Depths = 0..(Level - 1)
    BY Constants DEF Depths
  <1> DEFINE depth == Level - 1
  <1> HIDE DEF depth
  <1>2. depth \in Nat
    BY <1>1 DEF depth
  <1>3. LET near == Reach(Seeds, LinksOf, depth, read)
        IN  /\ near \in [0..depth -> SUBSET Urls]
            /\ near[0] = SetOf(Seeds)
            /\ \A n \in 1..depth : near[n] = LinksFrom(LinksOf, near[n - 1] \cap read)
    BY <1>2, Constants, ReachDef
  <1> QED
    BY <1>1, <1>3 DEF Frontier, depth

\* A URL below the first level is linked from a page one level up.
LEMMA FrontierStep ==
    ASSUME NEW n \in Depths, n # 0, NEW u \in Frontier[n]
    PROVE  \E w \in Frontier[n - 1] \cap read : u \in SetOf(LinksOf[w])
  <1>1. n \in 1..(Level - 1)
    BY FrontierDef
  <1> QED
    BY <1>1, FrontierDef DEF LinksFrom

\* The links of a page are one level down.
LEMMA FrontierLinks ==
    ASSUME NEW n \in Depths, n + 1 \in Depths, NEW w \in Frontier[n] \cap read
    PROVE  SetOf(LinksOf[w]) \subseteq Frontier[n + 1]
  <1>1. n + 1 \in 1..(Level - 1) /\ (n + 1) - 1 = n
    BY FrontierDef
  <1>2. Frontier[n + 1] = LinksFrom(LinksOf, Frontier[n] \cap read)
    BY <1>1, FrontierDef
  <1> QED
    BY <1>2 DEF LinksFrom

LEMMA FrontierGrows ==
    ASSUME read \subseteq read', NEW n \in Depths
    PROVE  Frontier[n] \subseteq Frontier'[n]
  <1> DEFINE depth == Level - 1
  <1> HIDE DEF depth
  <1>1. depth \in Nat /\ n \in 0..depth
    BY Constants DEF Depths, depth
  <1>2. Reach(Seeds, LinksOf, depth, read)[n] \subseteq Reach(Seeds, LinksOf, depth, read')[n]
    BY <1>1, Constants, ReachGrows
  <1> QED
    BY <1>2 DEF Frontier, depth

\* The level of an entry is that of its URL.
Placed(e) == e.url \in Frontier[Level - e.level]

\* No entry is too deep.
DepthInv ==
    /\ \A i \in DOMAIN q : Placed(q[i])
    /\ main \in {"slot", "take", "spawn"} => Placed(curr)
    /\ \A t \in Alive : Placed(job[t])
    /\ \A u \in visited_url : \E n \in Depths : u \in Frontier[n]

LEMMA LevelDepth == \A e \in Entry : e.url \in Urls /\ e.level \in 1..Level /\ Level - e.level \in Depths
  BY Constants DEF Entry, Depths

LEMMA DepthInit == Init => DepthInv
  <1> SUFFICES ASSUME Init PROVE DepthInv
    OBVIOUS
  <1>1. \A i \in DOMAIN q : q[i].url \in SetOf(Seeds) /\ q[i].level = Level
    BY DEF Init, AtLevel, SetOf
  <1>2. Level - Level = 0
    BY Constants
  <1>3. \A i \in DOMAIN q : Placed(q[i])
    BY <1>1, <1>2, FrontierDef DEF Placed
  <1> QED
    BY <1>3 DEF Init, DepthInv, Alive

LEMMA DepthNext ==
    ASSUME SlotsInv, LinksInv, DepthInv, [Next]_vars
    PROVE  DepthInv'
  <1> USE DEF SlotsInv
  <1>0. read \subseteq read'
    BY LinksNext
  <1>1. \A e \in Entry : Placed(e) => e.url \in Frontier'[Level - e.level]
    BY <1>0, FrontierGrows, LevelDepth DEF Placed
  <1>2. /\ \A i \in DOMAIN q : q[i] \in Entry
        /\ main \in {"slot", "take", "spawn"} => curr \in Entry
        /\ \A t \in Alive : job[t] \in Entry
    BY DEF TypeOK, PlaceInv
  <1>3. \A i \in DOMAIN q : q[i].url \in Frontier'[Level - q[i].level]
    BY <1>1, <1>2 DEF DepthInv
  <1>4. main \in {"slot", "take", "spawn"} => curr.url \in Frontier'[Level - curr.level]
    BY <1>1, <1>2 DEF DepthInv
  <1>5. \A t \in Alive : job[t].url \in Frontier'[Level - job[t].level]
    BY <1>1, <1>2 DEF DepthInv
  <1>6. \A u \in visited_url : \E n \in Depths : u \in Frontier'[n]
    BY <1>0, FrontierGrows DEF DepthInv
  <1>7. CASE MainStep
    <2>1. \A i \in DOMAIN q' : q'[i].url \in Frontier'[Level - q'[i].level]
      <3>1. \/ q' = q
            \/ q # <<>> /\ q' = Tail(q)
        BY <1>7 DEF MainStep, CheckStop, PopEntry, LeaveLoop, LoopAgain, WaitForSlot, TakeSlot,
                    Spawn, Join, shared
      <3>2. q # <<>> => \A i \in DOMAIN Tail(q) : i + 1 \in DOMAIN q /\ Tail(q)[i] = q[i + 1]
        BY DEF TypeOK
      <3> QED
        BY <1>3, <3>1, <3>2
    <2>2. main' \in {"slot", "take", "spawn"} => curr'.url \in Frontier'[Level - curr'.level]
      <3>1. CASE PopEntry
        <4>1. 1 \in DOMAIN q /\ curr' = q[1]
          BY <3>1 DEF PopEntry, TypeOK
        <4> QED
          BY <1>3, <4>1
      <3>2. CASE CheckStop \/ LeaveLoop \/ LoopAgain \/ WaitForSlot \/ TakeSlot \/ Spawn \/ Join
        BY <1>4, <3>2 DEF CheckStop, LeaveLoop, LoopAgain, WaitForSlot, TakeSlot, Spawn, Join, TypeOK
      <3> QED
        BY <1>7, <3>1, <3>2 DEF MainStep
    <2>3. \A t \in Alive' : job'[t].url \in Frontier'[Level - job'[t].level]
      <3>1. CASE UNCHANGED <<pc, job>>
        BY <1>5, <3>1 DEF Alive
      <3>2. CASE ~UNCHANGED <<pc, job>>
        <4>1. /\ Spawn /\ spawned' \in Threads
              /\ pc' = [pc EXCEPT ![spawned'] = "start"]
              /\ job' = [job EXCEPT ![spawned'] = curr]
          BY <1>7, <3>2, MainMoves
        <4>2. main = "spawn" /\ job'[spawned'] = curr
          BY <4>1 DEF Spawn, TypeOK
        <4>3. \A t \in Threads : t # spawned' => pc'[t] = pc[t] /\ job'[t] = job[t]
          BY <4>1 DEF TypeOK
        <4> QED
          BY <1>4, <1>5, <4>2, <4>3 DEF Alive
      <3> QED
        BY <3>1, <3>2
    <2>4. visited_url' = visited_url
      BY <1>7, MainMoves
    <2> QED
      BY <1>6, <2>1, <2>2, <2>3, <2>4 DEF DepthInv, Placed
  <1>8. ASSUME NEW t \in Threads, ThreadStep(t) PROVE DepthInv'
    <2>0. /\ t \in Alive /\ job[t] \in Entry /\ UNCHANGED <<main, curr>>
          /\ pc'[t] # "done" => job'[t] = job[t]
          /\ \A v \in Threads : v # t => pc'[v] = pc[v] /\ job'[v] = job[v]
      BY <1>8, ThreadMoves
    <2>1. \A v \in Alive' : job'[v].url \in Frontier'[Level - job'[v].level]
      BY <1>5, <2>0 DEF Alive
    <2>2. \A u \in visited_url' : \E n \in Depths : u \in Frontier'[n]
      <3>1. visited_url' \subseteq visited_url \cup {job[t].url}
        BY <1>8 DEF ThreadStep, Enter, Visit, Fetch, Collect, Decide, PushLinks, Release, shared
      <3> QED
        BY <1>5, <1>6, <2>0, <3>1, LevelDepth
    <2>3. \A i \in DOMAIN q' : q'[i].url \in Frontier'[Level - q'[i].level]
      <3>1. CASE PushLinks(t)
        <4> DEFINE l == job[t].level - 1
                   new == AtLevel(res[t], l)
        <4>1. l \in 1..Level /\ Level - l = (Level - job[t].level) + 1
              /\ Level - l \in Depths /\ Level - job[t].level \in Depths
          <5>1. job[t].level \in 1..Level /\ job[t].level > 1
            BY <2>0, <3>1, LevelDepth DEF PushLinks, PlaceInv
          <5>2. Level \in Nat
            BY Constants
          <5> QED
            BY <5>1, <5>2 DEF Depths
        <4>2. q' = q \o new /\ res[t] \in Seq(Urls) /\ read' = read
          BY <3>1 DEF PushLinks, TypeOK, history
        <4>3. /\ new \in Seq(Entry) /\ Len(new) = Len(res[t])
              /\ \A i \in 1..Len(res[t]) : new[i] = [url |-> res[t][i], level |-> l]
          BY <4>1, <4>2, AtLevelType
        <4>4. \A i \in 1..Len(res[t]) : res[t][i] \in Frontier[Level - l]
          <5> SUFFICES ASSUME NEW i \in 1..Len(res[t]) PROVE res[t][i] \in Frontier[Level - l]
            OBVIOUS
          <5>1. /\ job[t].url \in read /\ res[t] = LinksOf[job[t].url]
            BY <4>2 DEF LinksInv
          <5>2. res[t][i] \in SetOf(LinksOf[job[t].url])
            BY <4>2, <5>1 DEF SetOf
          <5>3. job[t].url \in Frontier[Level - job[t].level]
            BY <2>0 DEF DepthInv, Placed
          <5> QED
            BY <4>1, <5>1, <5>2, <5>3, FrontierLinks
        <4>5. Frontier' = Frontier
          BY <4>2 DEF Frontier
        <4>6. \A i \in 1..Len(res[t]) : new[i].url \in Frontier'[Level - new[i].level]
          <5> SUFFICES ASSUME NEW i \in 1..Len(res[t])
                       PROVE  new[i].url \in Frontier'[Level - new[i].level]
            OBVIOUS
          <5>1. new[i] = [url |-> res[t][i], level |-> l]
            BY <4>3
          <5>2. new[i].url = res[t][i] /\ new[i].level = l
            BY <5>1
          <5> HIDE DEF new, l
          <5> QED
            BY <4>4, <4>5, <5>2
        <4> HIDE DEF new
        <4>7. \A i \in DOMAIN q' : \/ i \in DOMAIN q /\ q'[i] = q[i]
                                   \/ \E j \in 1..Len(new) : q'[i] = new[j]
          <5> SUFFICES ASSUME NEW i \in DOMAIN q'
                       PROVE  \/ i \in DOMAIN q /\ q'[i] = q[i]
                              \/ \E j \in 1..Len(new) : q'[i] = new[j]
            OBVIOUS
          <5>1. q \in Seq(Entry) /\ new \in Seq(Entry)
            BY <4>3 DEF TypeOK
          <5>2. i \in 1..(Len(q) + Len(new))
            BY <4>2, <5>1
          <5>3. CASE i <= Len(q)
            BY <4>2, <5>1, <5>2, <5>3
          <5>4. CASE i > Len(q)
            <6>1. i - Len(q) \in 1..Len(new) /\ q'[i] = new[i - Len(q)]
              BY <4>2, <5>1, <5>2, <5>4
            <6> QED
              BY <6>1
          <5> QED
            BY <5>1, <5>2, <5>3, <5>4
        <4> QED
          BY <1>3, <4>3, <4>6, <4>7
      <3>2. CASE ~PushLinks(t)
        <4>1. q' = q
          BY <1>8, <3>2 DEF ThreadStep, Enter, Visit, Fetch, Collect, Decide, Release, shared
        <4> QED
          BY <1>3, <4>1
      <3> QED
        BY <3>1, <3>2
    <2> QED
      BY <1>4, <2>0, <2>1, <2>2, <2>3 DEF DepthInv, Placed
  <1>9. CASE UNCHANGED vars
    BY <1>9 DEF vars, shared, mainVars, threadVars, history, DepthInv, Placed, Frontier, Alive
  <1> QED
    BY <1>7, <1>8, <1>9 DEF Next

\* A URL is known once it is visited or an entry of it waits for its turn.
Waiting(u) ==
    \/ \E i \in DOMAIN q : q[i].url = u
    \/ main \in {"slot", "take", "spawn"} /\ curr.url = u
    \/ \E t \in Threads : pc[t] \in {"start", "visit"} /\ job[t].url = u
Known(u) == u \in visited_url \/ Waiting(u)

\* A thread is between the page of w and the queue.
Expanding(w) ==
    \E t \in Threads : /\ pc[t] \in {"bank", "level", "push"}
                       /\ job[t].url = w /\ res[t] = LinksOf[w]

\* Nothing is dropped while the crawl is not stopped.
CoverInv ==
    ~stop_crawl =>
        /\ \A u \in SetOf(Seeds) : Known(u)
        /\ \A w \in read : \/ Expanding(w)
                           \/ \A u \in SetOf(LinksOf[w]) : Known(u)
                           \/ w \in Frontier[Level - 1]

LEMMA CoverInit == Init => CoverInv
  <1> SUFFICES ASSUME Init, NEW u \in SetOf(Seeds) PROVE Known(u)
    BY DEF Init, CoverInv
  <1>1. PICK i \in DOMAIN Seeds : Seeds[i] = u
    BY DEF SetOf
  <1>2. i \in DOMAIN q /\ q[i].url = u
    BY <1>1 DEF Init, AtLevel
  <1> QED
    BY <1>2 DEF Known, Waiting

\* A known URL stays known: every step that takes an entry hands it on.
LEMMA KnownStays ==
    ASSUME SlotsInv, [Next]_vars, ~stop_crawl', NEW u, Known(u)
    PROVE  Known(u)'
  <1> USE DEF SlotsInv, TypeOK
  <1>1. CASE MainStep
    <2>1. visited_url' = visited_url /\ stop_crawl' = stop_crawl
      BY <1>1, MainMoves
    <2>2. \A t \in Threads : pc[t] \in {"start", "visit"} => pc'[t] = pc[t] /\ job'[t] = job[t]
      BY <1>1, MainMoves
    <2>3. ASSUME NEW t \in Threads, pc[t] \in {"start", "visit"}, job[t].url = u PROVE Known(u)'
      BY <2>2, <2>3 DEF Known, Waiting
    <2>4. CASE PopEntry
      <3>1. ASSUME NEW i \in DOMAIN q, q[i].url = u PROVE Known(u)'
        <4>1. CASE i = 1
          <5>1. curr' = q[i] /\ main' = "slot"
            BY <2>4, <4>1 DEF PopEntry
          <5> QED
            BY <3>1, <5>1 DEF Known, Waiting
        <4>2. CASE i # 1
          <5>1. q' = Tail(q) /\ i - 1 \in DOMAIN q' /\ q'[i - 1] = q[i]
            BY <2>4, <4>2 DEF PopEntry
          <5> QED
            BY <3>1, <5>1 DEF Known, Waiting
        <4> QED
          BY <4>1, <4>2
      <3>2. main = "look"
        BY <2>4 DEF PopEntry
      <3> QED
        BY <2>1, <2>3, <3>1, <3>2 DEF Known, Waiting
    <2>5. CASE Spawn
      <3>1. q' = q /\ main = "spawn" /\ ~stop_crawl
        BY <2>1, <2>5 DEF Spawn, shared
      <3>2. /\ spawned' \in Threads
            /\ pc'[spawned'] = "start" /\ job'[spawned'] = curr
        <4>1. /\ spawned' \in Threads
              /\ pc' = [pc EXCEPT ![spawned'] = "start"]
              /\ job' = [job EXCEPT ![spawned'] = curr]
          BY <1>1, <2>5, <3>1, MainMoves DEF Spawn
        <4> QED
          BY <4>1
      <3> QED
        BY <2>1, <2>3, <3>1, <3>2 DEF Known, Waiting
    <2>6. CASE CheckStop \/ LeaveLoop \/ LoopAgain \/ WaitForSlot \/ TakeSlot \/ Join
      <3>1. q' = q /\ curr' = curr
        BY <2>6 DEF CheckStop, LeaveLoop, LoopAgain, WaitForSlot, TakeSlot, Join, shared
      <3>2. main \in {"slot", "take", "spawn"} => main' \in {"slot", "take", "spawn"}
        BY <2>6 DEF CheckStop, LeaveLoop, LoopAgain, WaitForSlot, TakeSlot, Join
      <3> QED
        BY <2>1, <2>3, <3>1, <3>2 DEF Known, Waiting
    <2> QED
      BY <1>1, <2>4, <2>5, <2>6 DEF MainStep
  <1>2. ASSUME NEW t \in Threads, ThreadStep(t) PROVE Known(u)'
    <2>1. /\ UNCHANGED <<main, curr>>
          /\ \A v \in Threads : v # t => pc'[v] = pc[v] /\ job'[v] = job[v]
      BY <1>2, ThreadMoves
    <2>2. visited_url \subseteq visited_url'
      BY <1>2 DEF ThreadStep, Enter, Visit, Fetch, Collect, Decide, PushLinks, Release, shared
    <2>3. ASSUME NEW i \in DOMAIN q PROVE i \in DOMAIN q' /\ q'[i] = q[i]
      <3>1. CASE PushLinks(t)
        <4>1. job[t].level - 1 \in 1..Level /\ res[t] \in Seq(Urls)
          <5>1. job[t].level \in 1..Level /\ job[t].level > 1 /\ Level \in Nat
            BY <1>2, <3>1, ThreadMoves, LevelDepth, Constants DEF PushLinks, PlaceInv
          <5> QED
            BY <5>1
        <4>2. AtLevel(res[t], job[t].level - 1) \in Seq(Entry)
          BY <4>1, AtLevelType
        <4> QED
          BY <3>1, <4>2 DEF PushLinks
      <3>2. CASE ~PushLinks(t)
        BY <1>2, <3>2 DEF ThreadStep, Enter, Visit, Fetch, Collect, Decide, Release, shared
      <3> QED
        BY <3>1, <3>2
    <2>4. ASSUME pc[t] \in {"start", "visit"}, job[t].url = u PROVE Known(u)'
      <3>1. CASE Visit(t)
        <4>1. u \in visited_url'
          BY <2>4, <3>1 DEF Visit
        <4> QED
          BY <4>1 DEF Known
      <3>2. CASE Enter(t)
        <4>1. pc'[t] = "visit" /\ job'[t].url = u
          BY <2>4, <3>2 DEF Enter, Goto, shared
        <4> QED
          BY <4>1 DEF Known, Waiting
      <3> QED
        BY <1>2, <2>4, <3>1, <3>2 DEF ThreadStep, Fetch, Collect, Decide, PushLinks, Release
    <2>5. ASSUME NEW v \in Threads, pc[v] \in {"start", "visit"}, job[v].url = u PROVE Known(u)'
      <3>1. CASE v = t
        BY <2>4, <2>5, <3>1
      <3>2. CASE v # t
        BY <2>1, <2>5, <3>2 DEF Known, Waiting
      <3> QED
        BY <3>1, <3>2
    <2> QED
      BY <2>1, <2>2, <2>3, <2>5 DEF Known, Waiting
  <1>3. CASE UNCHANGED vars
    BY <1>3 DEF vars, shared, mainVars, threadVars, Known, Waiting
  <1> QED
    BY <1>1, <1>2, <1>3 DEF Next

LEMMA CoverNext ==
    ASSUME SlotsInv, LinksInv, DepthInv, CoverInv, [Next]_vars
    PROVE  CoverInv'
  <1> SUFFICES ASSUME ~stop_crawl' PROVE /\ \A u \in SetOf(Seeds) : Known(u)'
                                        /\ \A w \in read' : \/ Expanding(w)'
                                              \/ \A u \in SetOf(LinksOf[w]) : Known(u)'
                                              \/ w \in Frontier'[Level - 1]
    BY DEF CoverInv
  <1> USE DEF SlotsInv
  <1>0. read \subseteq read' /\ Level - 1 \in Depths
    BY LinksNext, Constants DEF Depths
  <1>1. ~stop_crawl
    <2>1. ASSUME NEW t \in Threads, ThreadStep(t), stop_crawl PROVE stop_crawl'
      BY <2>1 DEF ThreadStep, Enter, Visit, Fetch, Collect, Decide, PushLinks, Release, shared
    <2>2. CASE MainStep
      BY <2>2, MainMoves
    <2>3. CASE UNCHANGED vars
      BY <2>3 DEF vars, shared
    <2> QED
      BY <2>1, <2>2, <2>3 DEF Next
  <1>2. \A u \in SetOf(Seeds) : Known(u)'
    BY <1>1, KnownStays DEF CoverInv
  <1>3. ASSUME NEW w \in read
        PROVE  \/ Expanding(w)'
               \/ \A u \in SetOf(LinksOf[w]) : Known(u)'
               \/ w \in Frontier'[Level - 1]
    <2>1. CASE \A u \in SetOf(LinksOf[w]) : Known(u)
      BY <2>1, KnownStays
    <2>2. CASE w \in Frontier[Level - 1]
      BY <1>0, <2>2, FrontierGrows
    <2>3. ASSUME NEW t \in Threads, pc[t] \in {"bank", "level", "push"},
                 job[t].url = w, res[t] = LinksOf[w]
          PROVE  \/ Expanding(w)'
                 \/ \A u \in SetOf(LinksOf[w]) : Known(u)'
                 \/ w \in Frontier'[Level - 1]
      <3>1. CASE pc'[t] = pc[t] /\ job'[t] = job[t] /\ res'[t] = res[t]
        BY <2>3, <3>1 DEF Expanding
      <3>2. CASE Collect(t)
        <4>1. pc'[t] = "level" /\ job' = job /\ res' = res
          BY <3>2 DEF Collect, Goto, TypeOK
        <4> QED
          BY <2>3, <4>1 DEF Expanding
      <3>3. CASE Decide(t)
        <4>1. CASE job[t].level > 1
          <5>1. pc'[t] = "push" /\ job' = job /\ res' = res
            BY <1>1, <3>3, <4>1 DEF Decide, Descends, Goto, TypeOK
          <5> QED
            BY <2>3, <5>1 DEF Expanding
        <4>2. CASE ~(job[t].level > 1)
          <5>1. t \in Alive /\ job[t] \in Entry
            BY <2>3 DEF PlaceInv, Alive
          <5>2. job[t].level = 1
            BY <4>2, <5>1, LevelDepth, Constants
          <5>3. w \in Frontier[Level - 1]
            BY <2>3, <5>1, <5>2 DEF DepthInv, Placed
          <5> QED
            BY <1>0, <5>3, FrontierGrows
        <4> QED
          BY <4>1, <4>2
      <3>4. CASE PushLinks(t)
        <4> DEFINE new == AtLevel(res[t], job[t].level - 1)
        <4>1. res[t] \in Seq(Urls) /\ job[t].level - 1 \in 1..Level
          <5>1. job[t].level > 1 /\ job[t] \in Entry
            BY <2>3, <3>4 DEF PushLinks, PlaceInv, Alive
          <5>2. job[t].level \in 1..Level /\ Level \in Nat
            BY <5>1, LevelDepth, Constants
          <5> QED
            BY <5>1, <5>2 DEF TypeOK
        <4>2. /\ new \in Seq(Entry) /\ Len(new) = Len(res[t])
              /\ \A i \in 1..Len(res[t]) : new[i].url = res[t][i]
          <5>1. /\ new \in Seq(Entry) /\ Len(new) = Len(res[t])
                /\ \A i \in 1..Len(res[t]) :
                      new[i] = [url |-> res[t][i], level |-> job[t].level - 1]
            BY <4>1, AtLevelType
          <5>2. ASSUME NEW i \in 1..Len(res[t]) PROVE new[i].url = res[t][i]
            <6>1. new[i] = [url |-> res[t][i], level |-> job[t].level - 1]
              BY <5>1
            <6> HIDE DEF new
            <6> QED
              BY <6>1
          <5> HIDE DEF new
          <5> QED
            BY <5>1, <5>2
        <4>3. q' = q \o new /\ q \in Seq(Entry)
          BY <3>4 DEF PushLinks, TypeOK
        <4> HIDE DEF new
        <4>4. \A u \in SetOf(LinksOf[w]) : \E i \in DOMAIN q' : q'[i].url = u
          <5> SUFFICES ASSUME NEW j \in 1..Len(res[t])
                       PROVE  \E i \in DOMAIN q' : q'[i].url = res[t][j]
            BY <2>3, <4>1 DEF SetOf
          <5>1. Len(q) + j \in DOMAIN q' /\ q'[Len(q) + j] = new[j]
            BY <4>2, <4>3
          <5> QED
            BY <4>2, <5>1
        <4> QED
          BY <4>4 DEF Known, Waiting
      <3>5. CASE MainStep \/ UNCHANGED vars
        <4>1. pc'[t] = pc[t] /\ job'[t] = job[t] /\ res'[t] = res[t]
          BY <2>3, <3>5, MainMoves DEF vars, threadVars, TypeOK
        <4> QED
          BY <3>1, <4>1
      <3>6. ASSUME NEW v \in Threads, ThreadStep(v)
            PROVE  \/ Expanding(w)'
                   \/ \A u \in SetOf(LinksOf[w]) : Known(u)'
                   \/ w \in Frontier'[Level - 1]
        <4>1. CASE v # t
          BY <3>1, <3>6, <4>1, ThreadMoves
        <4>2. CASE v = t
          BY <2>3, <3>2, <3>3, <3>4, <3>6, <4>2 DEF ThreadStep, Enter, Visit, Fetch, Release
        <4> QED
          BY <4>1, <4>2
      <3> QED
        BY <3>5, <3>6 DEF Next
    <2> QED
      BY <1>1, <2>1, <2>2, <2>3 DEF CoverInv, Expanding
  <1>4. ASSUME NEW w \in read', w \notin read PROVE Expanding(w)'
    <2>1. PICK t \in Threads : Fetch(t)
      <3>1. ASSUME NEW t \in Threads, ThreadStep(t), ~Fetch(t) PROVE read' = read
        BY <3>1 DEF ThreadStep, Enter, Visit, Collect, Decide, PushLinks, Release, history
      <3>2. CASE MainStep
        BY <1>4, <3>2, MainMoves DEF history
      <3>3. CASE UNCHANGED vars
        BY <1>4, <3>3 DEF vars, history
      <3> QED
        BY <1>4, <3>1, <3>2, <3>3 DEF Next
    <2>2. /\ w = job[t].url /\ job' = job
          /\ pc'[t] = "bank" /\ res'[t] = LinksOf[w]
      BY <1>4, <2>1 DEF Fetch, Goto, TypeOK
    <2> QED
      BY <2>2 DEF Expanding
  <1> QED
    BY <1>2, <1>3, <1>4

\* A crawl that was not stopped has visited exactly the URLs within its depth,
\* however the threads overtake each other (mainbfs.cpp:69-97, 118-135).
THEOREM CrawlCovers == Spec => []Coverage
  <1>1. SlotsInv /\ NoEarlyExit /\ DepthInv /\ CoverInv => Coverage
    <2> SUFFICES ASSUME SlotsInv, NoEarlyExit, DepthInv, CoverInv,
                        main = "done", ~stop_crawl, Layered
                 PROVE  visited_url = UNION {Frontier[n] : n \in Depths}
      BY DEF Coverage
    <2>1. q = <<>> /\ Alive = {}
      BY DEF NoEarlyExit
    <2>2. \A u : Known(u) => u \in visited_url
      BY <2>1 DEF Known, Waiting, Alive
    <2>3. \A w \in read : ~Expanding(w)
      BY <2>1 DEF Expanding, Alive
    <2>4. ASSUME NEW n \in Depths PROVE Frontier[n] \subseteq visited_url
      <3>1. CASE n = 0
        BY <2>2, <3>1, FrontierDef DEF CoverInv
      <3>2. CASE n # 0
        <4> SUFFICES ASSUME NEW u \in Frontier[n] PROVE u \in visited_url
          OBVIOUS
        <4>1. n - 1 \in Depths /\ Level - 1 \in Depths /\ n - 1 # Level - 1
          BY <3>2, FrontierDef
        <4>2. PICK w \in Frontier[n - 1] \cap read : u \in SetOf(LinksOf[w])
          BY <2>4, <3>2, FrontierStep
        <4>3. w \notin Frontier[Level - 1]
          BY <4>1, <4>2 DEF Layered
        <4> QED
          BY <2>2, <2>3, <4>2, <4>3 DEF CoverInv
      <3> QED
        BY <3>1, <3>2
    <2> QED
      BY <2>4 DEF DepthInv
  <1> QED
    BY <1>1, SlotsInductive, SlotsPreserved, ExitInit, ExitNext, LinksInit, LinksNext,
       DepthInit, DepthNext, CoverInit, CoverNext, PTL DEF Spec
=============================================================================
