--------------------------- MODULE DfsCrawlProofs ---------------------------
(***************************************************************************)
(* Machine-checked facts about DfsCrawl, for every web, every set of seeds, *)
(* every level and every number of slots.                                  *)
(***************************************************************************)
EXTENDS DfsCrawl, SharedLemmas

LEMMA Constants ==
    /\ Level \in Nat \ {0} /\ MAX_THREADS \in Nat \ {0} /\ MaxSpawns \in Nat
    /\ LinksOf \in [Urls -> Seq(Urls)] /\ Seeds \in Seq(Urls)
    /\ 0 \in Threads /\ Threads = Workers \cup {0} /\ 0 \notin Workers
  BY LimitsAssumption, UrlsAssumption DEF Threads, Workers

LEMMA AliveFinite == IsFiniteSet(Workers) /\ IsFiniteSet(Alive) /\ Cardinality(Alive) \in Nat
  <1>1. IsFiniteSet(Workers)
    BY Constants, FS_Interval DEF Workers
  <1>2. Alive \subseteq Workers
    BY DEF Alive
  <1> QED
    BY <1>1, <1>2, FS_Subset, FS_CardinalityType

\* Where each thread can be: threads are born in order, main runs one dfs, a worker
\* has its URL and, as long as it can spawn or will, a level to go down to.
PlaceInv ==
    /\ pc[0] \in {"dfs", "done"} /\ level[0] = Level
    /\ \A t \in Workers : pc[t] = "unborn" <=> t > spawned
    /\ \A t \in Workers : pc[t] # "unborn" => url[t] \in Urls
    /\ \A t \in Threads : pc[t] \in {"visit", "fetch", "bank", "dfs"} => level[t] >= 1
    /\ \A t \in Threads : pc[t] \in {"unborn", "visit", "fetch"} => todo[t] = <<>>

SlotInv == active_threads = Cardinality(Alive)

IInv == TypeOK /\ PlaceInv /\ SlotInv

LEMMA Init_IInv == Init => IInv
  <1> SUFFICES ASSUME Init PROVE IInv
    OBVIOUS
  <1>1. Alive = {}
    BY Constants DEF Init, Alive, Workers, Threads
  <1>2. SlotInv
    BY <1>1, FS_EmptySet DEF Init, SlotInv
  <1>3. PlaceInv
    BY Constants DEF Init, PlaceInv, Workers, Threads
  <1>4. /\ pc \in [Threads -> {"unborn", "visit", "fetch", "bank", "dfs", "release", "done"}]
        /\ url \in [Threads -> Urls \cup {NoUrl}]
        /\ todo \in [Threads -> Seq(Urls)]
        /\ parent \in [Threads -> Threads]
        /\ fetches \in [Urls -> Nat]
    BY Constants DEF Init
  <1>5. level \in [Threads -> 0..Level] /\ active_threads \in 0..MAX_THREADS /\ spawned \in 0..MaxSpawns
    BY Constants DEF Init
  <1> QED
    BY <1>2, <1>3, <1>4, <1>5 DEF Init, IInv, TypeOK

\* A new thread: the next one, one level below the dfs that spawns it.
LEMMA SpawnFacts ==
    ASSUME IInv, NEW t \in Threads, Spawn(t)
    PROVE  /\ spawned' = spawned + 1 /\ spawned' \in Workers /\ spawned' # t
           /\ pc[t] = "dfs" /\ todo[t] # <<>> /\ pc[spawned'] = "unborn"
           /\ pc' = [pc EXCEPT ![spawned'] = "visit"]
           /\ url' = [url EXCEPT ![spawned'] = Head(todo[t])]
           /\ level' = [level EXCEPT ![spawned'] = level[t]]
           /\ parent' = [parent EXCEPT ![spawned'] = t]
           /\ todo' = [todo EXCEPT ![t] = Tail(@)]
           /\ Head(todo[t]) \in Urls /\ Tail(todo[t]) \in Seq(Urls)
           /\ Alive' = Alive \cup {spawned'} /\ spawned' \notin Alive
           /\ active_threads < MAX_THREADS /\ active_threads' = active_threads + 1
           /\ UNCHANGED <<visited_url, Url_bank, history>>
  <1>1. spawned' = spawned + 1 /\ spawned' \in Workers /\ pc[spawned'] = "unborn"
    BY Constants DEF Spawn, IInv, TypeOK, PlaceInv, Workers
  <1>2. todo[t] \in Seq(Urls) /\ todo[t] # <<>>
    BY DEF Spawn, IInv, TypeOK
  <1>3. Head(todo[t]) \in Urls /\ Tail(todo[t]) \in Seq(Urls)
    BY <1>2
  <1>4. pc' = [pc EXCEPT ![spawned'] = "visit"] /\ pc[t] = "dfs"
    BY DEF Spawn
  <1>5. Alive' = Alive \cup {spawned'} /\ spawned' \notin Alive
    BY <1>1, <1>4 DEF Alive, IInv, TypeOK, Threads, Workers
  <1> QED
    BY <1>1, <1>2, <1>3, <1>4, <1>5 DEF Spawn, SlotFree

\* The same, thread by thread.
LEMMA SpawnMoves ==
    ASSUME IInv, NEW t \in Threads, Spawn(t), NEW k, k = spawned'
    PROVE  /\ k \in Workers /\ k \in Threads /\ k # 0 /\ k # t /\ t < k
           /\ pc[t] = "dfs" /\ pc'[t] = "dfs" /\ pc[k] = "unborn" /\ pc'[k] = "visit"
           /\ url'[k] = Head(todo[t]) /\ level'[k] = level[t] /\ parent'[k] = t
           /\ todo[k] = <<>> /\ todo'[k] = <<>>
           /\ todo[t] \in Seq(Urls) /\ todo[t] # <<>> /\ todo'[t] = Tail(todo[t])
           /\ \A v \in Threads : v # k => /\ pc'[v] = pc[v] /\ url'[v] = url[v]
                                          /\ level'[v] = level[v] /\ parent'[v] = parent[v]
           /\ \A v \in Threads : v # t => todo'[v] = todo[v]
           /\ UNCHANGED <<visited_url, Url_bank, fetches, read>>
  <1>0. /\ k \in Workers /\ k # t /\ k = spawned + 1
        /\ pc[t] = "dfs" /\ pc[k] = "unborn" /\ todo[t] # <<>>
        /\ pc' = [pc EXCEPT ![k] = "visit"]
        /\ url' = [url EXCEPT ![k] = Head(todo[t])]
        /\ level' = [level EXCEPT ![k] = level[t]]
        /\ parent' = [parent EXCEPT ![k] = t]
        /\ todo' = [todo EXCEPT ![t] = Tail(@)]
        /\ UNCHANGED <<visited_url, Url_bank, fetches, read>>
    BY SpawnFacts DEF history
  <1>1. k \in Threads /\ k # 0
    BY <1>0, Constants
  <1>2. t < k
    <2>1. CASE t = 0
      BY <1>0, <2>1, Constants DEF Workers
    <2>2. CASE t # 0
      <3>1. t \in Workers /\ ~(t > spawned)
        BY <1>0, <2>2, Constants DEF IInv, PlaceInv
      <3>2. t \in Nat /\ spawned \in Nat
        BY <3>1, Constants DEF Workers, IInv, TypeOK
      <3> QED
        BY <1>0, <3>1, <3>2
    <2> QED
      BY <2>1, <2>2
  <1>3. /\ todo[k] = <<>> /\ todo[t] \in Seq(Urls)
        /\ todo \in [Threads -> Seq(Urls)]
    BY <1>0, <1>1 DEF IInv, PlaceInv, TypeOK
  <1>4. /\ todo'[t] = Tail(todo[t]) /\ todo'[k] = todo[k]
        /\ \A v \in Threads : v # t => todo'[v] = todo[v]
    BY <1>0, <1>1, <1>3
  <1>5. /\ pc'[k] = "visit" /\ pc'[t] = pc[t]
        /\ \A v \in Threads : v # k => pc'[v] = pc[v]
    BY <1>0, <1>1 DEF IInv, TypeOK
  <1>6. /\ url'[k] = Head(todo[t]) /\ \A v \in Threads : v # k => url'[v] = url[v]
    BY <1>0, <1>1 DEF IInv, TypeOK
  <1>7. /\ level'[k] = level[t] /\ parent'[k] = t
        /\ \A v \in Threads : v # k => level'[v] = level[v] /\ parent'[v] = parent[v]
    BY <1>0, <1>1 DEF IInv, TypeOK
  <1> QED
    BY <1>0, <1>1, <1>2, <1>3, <1>4, <1>5, <1>6, <1>7

\* The steps that are no spawns.
LEMMA WorkerMoves ==
    ASSUME IInv, NEW t \in Threads, Step(t), ~Spawn(t)
    PROVE  /\ \/ pc[t] = "visit" /\ pc'[t] \in {"fetch", "release"}
              \/ pc[t] = "fetch" /\ pc'[t] = "bank"
              \/ pc[t] = "bank" /\ pc'[t] \in {"dfs", "release"}
              \/ pc[t] = "dfs" /\ todo[t] = <<>> /\ t # 0 /\ pc'[t] = "release"
              \/ pc[t] = "dfs" /\ todo[t] = <<>> /\ t = 0 /\ pc'[t] = "done"
              \/ pc[t] = "release" /\ pc'[t] = "done"
           /\ t = 0 => pc[t] = "dfs"
           /\ pc' \in [Threads -> {"unborn", "visit", "fetch", "bank", "dfs", "release", "done"}]
           /\ \A v \in Threads : v # t => /\ pc'[v] = pc[v] /\ level'[v] = level[v]
                                          /\ todo'[v] = todo[v]
           /\ UNCHANGED <<url, parent, spawned>>
  <1> USE DEF IInv, TypeOK, Goto, shared, history
  <1>1. CASE Visit(t)
    BY <1>1 DEF Visit, PlaceInv
  <1>2. CASE Fetch(t)
    BY <1>2 DEF Fetch, PlaceInv
  <1>3. CASE Collect(t)
    BY <1>3 DEF Collect, PlaceInv
  <1>4. CASE Join(t)
    BY <1>4 DEF Join, PlaceInv
  <1>5. CASE Release(t)
    BY <1>5 DEF Release, PlaceInv
  <1> QED
    BY <1>1, <1>2, <1>3, <1>4, <1>5 DEF Step

LEMMA SlotStep ==
    ASSUME IInv, NEW t \in Threads, Step(t)
    PROVE  SlotInv' /\ active_threads' \in 0..MAX_THREADS
  <1>0. /\ active_threads = Cardinality(Alive) /\ Cardinality(Alive) \in Nat
        /\ active_threads \in 0..MAX_THREADS /\ MAX_THREADS \in Nat
    BY AliveFinite, Constants DEF IInv, SlotInv, TypeOK
  <1>1. CASE Spawn(t)
    <2>1. Cardinality(Alive') = Cardinality(Alive) + 1
      BY <1>1, SpawnFacts, AliveFinite, FS_AddElement
    <2> QED
      BY <1>0, <1>1, <2>1, SpawnFacts DEF SlotInv
  <1>2. CASE Release(t)
    <2>1. t \in Alive /\ Alive' = Alive \ {t}
      BY <1>2, Constants DEF Release, Goto, IInv, TypeOK, PlaceInv, Alive
    <2>2. Cardinality(Alive') = Cardinality(Alive) - 1 /\ Cardinality(Alive') \in Nat
      BY <2>1, AliveFinite, FS_RemoveElement, FS_CardinalityType
    <2> QED
      BY <1>0, <1>2, <2>2 DEF Release, AfterRelease, SlotInv
  <1>3. CASE ~Spawn(t) /\ ~Release(t)
    <2>1. active_threads' = active_threads
      BY <1>3 DEF Step, Visit, Fetch, Collect, Join, shared
    <2>2. t # 0 => pc'[t] \notin {"unborn", "done"} /\ pc[t] \notin {"unborn", "done"}
      BY <1>3, WorkerMoves DEF Step, Visit, Fetch, Collect, Join
    <2>3. Alive' = Alive
      BY <1>3, <2>2, WorkerMoves, Constants DEF Alive
    <2> QED
      BY <1>0, <2>1, <2>3 DEF SlotInv
  <1> QED
    BY <1>1, <1>2, <1>3

LEMMA TypeStep ==
    ASSUME IInv, NEW t \in Threads, Step(t)
    PROVE  TypeOK'
  <1> USE DEF IInv, TypeOK
  <1>0. active_threads' \in 0..MAX_THREADS
    BY SlotStep
  <1>1. CASE Spawn(t)
    <2>1. spawned' \in 0..MaxSpawns /\ spawned' \in Threads
      BY <1>1, SpawnFacts, Constants DEF Workers, Threads
    <2>2. level' \in [Threads -> 0..Level]
      <3>1. level' = [level EXCEPT ![spawned'] = level[t]]
        BY <1>1, SpawnFacts
      <3>2. level[t] \in 0..Level /\ level \in [Threads -> 0..Level]
        OBVIOUS
      <3> QED
        BY <3>1, <3>2
    <2>4. todo' \in [Threads -> Seq(Urls)]
      <3>1. todo' = [todo EXCEPT ![t] = Tail(todo[t])] /\ Tail(todo[t]) \in Seq(Urls)
        BY <1>1, SpawnFacts
      <3> QED
        BY <3>1
    <2>3. /\ pc' \in [Threads -> {"unborn", "visit", "fetch", "bank", "dfs", "release", "done"}]
          /\ url' \in [Threads -> Urls \cup {NoUrl}]
          /\ parent' \in [Threads -> Threads]
      <3>1. /\ pc' = [pc EXCEPT ![spawned'] = "visit"]
            /\ url' = [url EXCEPT ![spawned'] = Head(todo[t])] /\ Head(todo[t]) \in Urls
            /\ parent' = [parent EXCEPT ![spawned'] = t]
        BY <1>1, SpawnFacts
      <3>2. url' \in [Threads -> Urls \cup {NoUrl}]
        <4>1. url \in [Threads -> Urls \cup {NoUrl}] /\ Head(todo[t]) \in Urls \cup {NoUrl}
          BY <3>1
        <4> HIDE DEF IInv, TypeOK
        <4> QED
          BY <3>1, <4>1
      <3>3. pc' \in [Threads -> {"unborn", "visit", "fetch", "bank", "dfs", "release", "done"}]
        BY <3>1
      <3>4. parent' \in [Threads -> Threads]
        BY <3>1
      <3> QED
        BY <3>2, <3>3, <3>4
    <2> QED
      BY <1>0, <1>1, <2>1, <2>2, <2>3, <2>4, SpawnFacts DEF history
  <1>2. CASE ~Spawn(t)
    <2>0. /\ pc' \in [Threads -> {"unborn", "visit", "fetch", "bank", "dfs", "release", "done"}]
          /\ UNCHANGED <<url, parent, spawned>>
      BY <1>2, WorkerMoves
    <2>1. CASE Visit(t)
      <3>1. url[t] \in Urls
        BY <2>1, Constants DEF Visit, PlaceInv
      <3> QED
        BY <1>0, <2>0, <2>1, <3>1 DEF Visit, history
    <2>2. CASE Fetch(t)
      <3>1. url[t] \in Urls /\ LinksOf[url[t]] \in Seq(Urls)
        BY <2>2, Constants DEF Fetch, PlaceInv
      <3>2. fetches' \in [Urls -> Nat]
        BY <2>2, <3>1 DEF Fetch
      <3>3. todo' \in [Threads -> Seq(Urls)] /\ read' \subseteq Urls
        BY <2>2, <3>1 DEF Fetch
      <3> QED
        BY <1>0, <2>0, <2>2, <3>2, <3>3 DEF Fetch, shared
    <2>3. CASE Collect(t)
      <3>1. level[t] - 1 \in 0..Level
        <4>1. level[t] \in 0..Level /\ level[t] >= 1 /\ Level \in Nat
          BY <2>3, Constants DEF Collect, PlaceInv
        <4> QED
          BY <4>1
      <3>2. level' \in [Threads -> 0..Level]
        BY <2>3, <3>1 DEF Collect
      <3>3. todo' \in [Threads -> Seq(Urls)]
        <4>1. todo' = [todo EXCEPT ![t] = <<>>] \/ todo' = todo
          BY <2>3 DEF Collect
        <4>2. <<>> \in Seq(Urls)
          OBVIOUS
        <4> QED
          BY <4>1, <4>2
      <3>4. Url_bank' \subseteq Urls
        BY <2>3, SetOfSeq DEF Collect
      <3> QED
        BY <1>0, <2>0, <2>3, <3>2, <3>3, <3>4 DEF Collect, history
    <2>4. CASE Join(t)
      BY <1>0, <2>0, <2>4 DEF Join, shared, history
    <2>5. CASE Release(t)
      BY <1>0, <2>0, <2>5 DEF Release, history
    <2> QED
      BY <1>2, <2>1, <2>2, <2>3, <2>4, <2>5 DEF Step
  <1> QED
    BY <1>1, <1>2

LEMMA PlaceStep ==
    ASSUME IInv, NEW t \in Threads, Step(t)
    PROVE  PlaceInv'
  <1> USE DEF IInv
  <1>1. CASE Spawn(t)
    <2> DEFINE k == spawned'
    <2>0. k = spawned + 1 /\ k \in Workers /\ k # t /\ pc[t] = "dfs" /\ pc[k] = "unborn"
      BY <1>1, SpawnFacts
    <2>9. k # 0 /\ k \in Threads
      BY <2>0, Constants
    <2>10. pc'[k] = "visit" /\ url'[k] \in Urls /\ level'[k] = level[t]
      BY <1>1, <2>9, SpawnFacts DEF TypeOK
    <2>11. level[t] >= 1 /\ todo'[k] = todo[k]
      BY <1>1, <2>0, <2>9, SpawnFacts DEF TypeOK, PlaceInv
    <2>1. /\ k = spawned + 1 /\ k \in Workers /\ k # t /\ k # 0 /\ k \in Threads
          /\ pc'[k] = "visit" /\ url'[k] \in Urls /\ level'[k] = level[t]
          /\ pc[t] = "dfs" /\ level[t] >= 1 /\ todo'[k] = todo[k] /\ pc[k] = "unborn"
      BY <2>0, <2>9, <2>10, <2>11
    <2>2. \A v \in Threads : v # k => pc'[v] = pc[v] /\ url'[v] = url[v] /\ level'[v] = level[v]
      BY <1>1, SpawnFacts DEF TypeOK
    <2>3. \A v \in Threads : v # t => todo'[v] = todo[v]
      BY <1>1, SpawnFacts DEF TypeOK
    <2>4. \A v \in Workers : pc'[v] = "unborn" <=> v > k
      <3> TAKE v \in Workers
      <3>1. v \in Threads /\ v \in Nat /\ spawned \in Nat /\ (pc[v] = "unborn" <=> v > spawned)
        BY Constants DEF Workers, TypeOK, PlaceInv
      <3>2. v # k => pc'[v] = pc[v]
        BY <2>2, <3>1
      <3> HIDE DEF k
      <3> QED
        BY <2>1, <3>1, <3>2
    <2> HIDE DEF k
    <2>5. pc'[0] \in {"dfs", "done"} /\ level'[0] = Level
      BY <2>1, <2>2, Constants DEF PlaceInv
    <2>6. \A v \in Workers : pc'[v] # "unborn" => url'[v] \in Urls
      BY <2>1, <2>2, Constants DEF PlaceInv
    <2>7. \A v \in Threads : pc'[v] \in {"visit", "fetch", "bank", "dfs"} => level'[v] >= 1
      BY <2>1, <2>2 DEF PlaceInv
    <2>8. \A v \in Threads : pc'[v] \in {"unborn", "visit", "fetch"} => todo'[v] = <<>>
      BY <2>1, <2>2, <2>3 DEF PlaceInv
    <2> QED
      BY <2>4, <2>5, <2>6, <2>7, <2>8 DEF PlaceInv, k
  <1>2. CASE ~Spawn(t)
    <2>1. /\ \A v \in Threads : v # t => /\ pc'[v] = pc[v] /\ level'[v] = level[v]
                                         /\ todo'[v] = todo[v]
          /\ UNCHANGED <<url, spawned>>
          /\ pc[t] # "unborn" /\ pc'[t] # "unborn"
          /\ t = 0 => pc'[t] = "done" /\ pc[t] = "dfs"
      BY <1>2, WorkerMoves
    <2>2. pc'[t] \in {"visit", "fetch", "bank", "dfs"} => level'[t] >= 1
      <3>1. CASE Collect(t)
        <4>1. level'[t] \in 0..Level /\ (level'[t] # 0 \/ pc'[t] = "release")
          BY <3>1, TypeStep DEF Collect, Bottom, Goto, TypeOK
        <4> QED
          BY <4>1, Constants
      <3>2. CASE ~Collect(t)
        BY <1>2, <3>2 DEF Step, Visit, Fetch, Join, Release, Goto, PlaceInv, TypeOK
      <3> QED
        BY <3>1, <3>2
    <2>3. pc'[t] \in {"unborn", "visit", "fetch"} => todo'[t] = <<>>
      BY <1>2 DEF Step, Visit, Fetch, Collect, Join, Release, Goto, PlaceInv, TypeOK
    <2>4. t = 0 => level'[0] = level[0]
      BY <1>2, <2>1 DEF Step, Visit, Fetch, Collect, Join, Release
    <2>5. pc'[0] \in {"dfs", "done"} /\ level'[0] = Level
      BY <2>1, <2>4, Constants DEF PlaceInv
    <2>6. \A v \in Workers : pc'[v] = "unborn" <=> v > spawned'
      BY <2>1, Constants DEF PlaceInv
    <2> QED
      BY <2>1, <2>2, <2>3, <2>5, <2>6, Constants DEF PlaceInv
  <1> QED
    BY <1>1, <1>2

LEMMA Next_IInv == IInv /\ [Next]_vars => IInv'
  <1>1. ASSUME IInv, NEW t \in Threads, Step(t) PROVE IInv'
    BY <1>1, SlotStep, TypeStep, PlaceStep DEF IInv
  <1>2. ASSUME IInv, UNCHANGED vars PROVE IInv'
    BY <1>2 DEF vars, shared, history, IInv, TypeOK, PlaceInv, SlotInv, Alive
  <1> QED
    BY <1>1, <1>2 DEF Next

\* Every slot that is taken belongs to a thread that has not returned, whatever the
\* order in which threads return (main_dfs.cpp:66-86, 110).
THEOREM SlotsAreExact == Spec => []SlotsExact
  <1>1. IInv => SlotsExact
    BY DEF IInv, SlotInv, SlotsExact
  <1> QED
    BY <1>1, Init_IInv, Next_IInv, PTL DEF Spec

-----------------------------------------------------------------------------
(***************************************************************************)
(* Who waits for whom.                                                     *)
(***************************************************************************)

\* The thread that joins a worker was born before it and is in its dfs, one level
\* above.
LineInv ==
    /\ \A k \in Workers : pc[k] # "unborn" => parent[k] < k
    /\ \A k \in Alive : pc[parent[k]] = "dfs"
    /\ \A k \in Workers : pc[k] \in {"visit", "fetch", "bank"} => level[k] = level[parent[k]]
    /\ \A k \in Workers : pc[k] = "dfs" => level[k] = level[parent[k]] - 1

LEMMA LineInit == Init => LineInv
  BY Constants DEF Init, LineInv, Alive, Workers, Threads

LEMMA LineNext ==
    ASSUME IInv, LineInv, [Next]_vars
    PROVE  LineInv'
  <1> USE DEF IInv, TypeOK
  <1>1. ASSUME NEW t \in Threads, Spawn(t) PROVE LineInv'
    <2> DEFINE k == spawned'
    <2>1. /\ k \in Workers /\ k \in Threads /\ k # t /\ t < k
          /\ pc[t] = "dfs" /\ pc'[t] = "dfs" /\ pc'[k] = "visit"
          /\ level'[k] = level[t] /\ level'[t] = level[t] /\ parent'[k] = t
          /\ \A v \in Threads : v # k => /\ pc'[v] = pc[v] /\ level'[v] = level[v]
                                         /\ parent'[v] = parent[v]
      BY <1>1, SpawnMoves
    <2>2. pc[k] = "unborn"
      BY <1>1, SpawnMoves
    <2> HIDE DEF k
    <2>3. ASSUME NEW v \in Workers, v # k, pc[v] # "unborn"
          PROVE  /\ v \in Threads /\ pc'[v] = pc[v] /\ level'[v] = level[v] /\ parent'[v] = parent[v]
                 /\ parent[v] \in Threads
                 /\ v \in Alive => parent[v] # k
      BY <2>1, <2>2, <2>3, Constants DEF LineInv
    <2>4. \A v \in Workers : pc'[v] # "unborn" => parent'[v] < v
      BY <2>1, <2>3, Constants DEF LineInv
    <2>5. ASSUME NEW v \in Workers, v # k, pc'[v] \notin {"unborn", "done"}
          PROVE  /\ pc'[v] = pc[v] /\ level'[v] = level[v]
                 /\ pc'[parent'[v]] = "dfs" /\ level'[parent'[v]] = level[parent[v]]
      <3>1. v \in Threads /\ pc'[v] = pc[v] /\ v \in Alive
        BY <2>1, <2>5, Constants DEF Alive
      <3>2. parent[v] \in Threads /\ parent[v] # k /\ pc[parent[v]] = "dfs"
        BY <2>3, <2>5, <3>1 DEF LineInv, Alive
      <3> QED
        BY <2>1, <2>3, <2>5, <3>1, <3>2
    <2>6. \A v \in Alive' : pc'[parent'[v]] = "dfs"
      BY <2>1, <2>5 DEF Alive
    <2>7. ASSUME NEW v \in Workers
          PROVE  /\ pc'[v] \in {"visit", "fetch", "bank"} => level'[v] = level'[parent'[v]]
                 /\ pc'[v] = "dfs" => level'[v] = level'[parent'[v]] - 1
      <3>1. CASE v = k
        BY <2>1, <3>1
      <3>2. ASSUME v # k, pc'[v] \in {"visit", "fetch", "bank", "dfs"}
            PROVE  pc'[v] = pc[v] /\ level'[v] = level[v] /\ level'[parent'[v]] = level[parent[v]]
        BY <2>5, <3>2
      <3>3. CASE v # k
        <4> HIDE DEF IInv, TypeOK
        <4> QED
          BY <3>2, <3>3 DEF LineInv
      <3> QED
        BY <3>1, <3>3
    <2> QED
      BY <2>4, <2>6, <2>7 DEF LineInv
  <1>2. ASSUME NEW t \in Threads, Step(t), ~Spawn(t) PROVE LineInv'
    <2>1. /\ \A v \in Threads : v # t => pc'[v] = pc[v] /\ level'[v] = level[v]
          /\ parent' = parent
          /\ pc[t] \notin {"unborn", "done"} /\ pc'[t] # "unborn"
          /\ pc'[t] # "visit"
          /\ pc[t] = "dfs" => Join(t) /\ pc'[t] \in {"release", "done"}
      BY <1>2, WorkerMoves DEF Step, Visit, Fetch, Collect, Release
    <2>2. ASSUME NEW v \in Workers, pc[v] \notin {"unborn", "done"}
          PROVE  /\ v \in Threads /\ parent[v] \in Threads /\ parent[v] # v
                 /\ pc[parent[v]] = "dfs" /\ parent[v] # t
                 /\ pc'[parent[v]] = "dfs" /\ level'[parent[v]] = level[parent[v]]
      <3>1. v \in Threads /\ parent[v] \in Threads /\ pc[parent[v]] = "dfs"
        BY <2>2, Constants DEF LineInv, Alive
      <3>2. parent[v] < v /\ v \in Nat
        BY <2>2 DEF LineInv, Workers
      <3>3. parent[v] # t
        BY <2>1, <2>2, <3>1 DEF Join, Joinable, Children
      <3>4. parent[v] # v
        BY <3>2
      <3> QED
        BY <2>1, <3>1, <3>3, <3>4
    <2>3. ASSUME NEW v \in Workers, pc'[v] # "unborn" PROVE parent'[v] < v
      <3>1. pc[v] # "unborn"
        BY <2>1, <2>3, Constants
      <3> QED
        BY <2>1, <3>1 DEF LineInv
    <2>4. ASSUME NEW v \in Alive' PROVE pc'[parent'[v]] = "dfs"
      <3>1. v \in Workers /\ pc[v] \notin {"unborn", "done"}
        BY <2>1, <2>4, Constants DEF Alive
      <3> QED
        BY <2>1, <2>2, <3>1
    <2>5. level'[t] = IF Collect(t) THEN level[t] - 1 ELSE level[t]
      BY <1>2 DEF Step, Visit, Fetch, Collect, Join, Release
    <2>6. ASSUME NEW v \in Workers, pc'[v] \in {"visit", "fetch", "bank"}
          PROVE  level'[v] = level'[parent'[v]]
      <3>1. pc[v] \in {"visit", "fetch", "bank"} /\ level'[v] = level[v]
        <4>1. CASE v = t
          BY <1>2, <2>1, <2>5, <2>6, <4>1, WorkerMoves DEF Collect, Goto
        <4>2. CASE v # t
          BY <2>1, <2>6, <4>2, Constants
        <4> QED
          BY <4>1, <4>2
      <3> QED
        BY <2>1, <2>2, <3>1 DEF LineInv
    <2>7. ASSUME NEW v \in Workers, pc'[v] = "dfs" PROVE level'[v] = level'[parent'[v]] - 1
      <3>1. CASE v = t
        <4>1. Collect(t)
          BY <1>2, <2>7, <3>1 DEF Step, Visit, Fetch, Join, Release, Goto
        <4>2. pc[v] = "bank" /\ level'[v] = level[v] - 1
          BY <2>5, <3>1, <4>1 DEF Collect
        <4> QED
          BY <2>1, <2>2, <4>2 DEF LineInv
      <3>2. CASE v # t
        <4>1. pc[v] = "dfs" /\ level'[v] = level[v]
          BY <2>1, <2>7, <3>2, Constants
        <4>2. level[v] = level[parent[v]] - 1
          BY <4>1 DEF LineInv
        <4>3. parent'[v] = parent[v] /\ level'[parent[v]] = level[parent[v]]
          BY <2>1, <2>2, <4>1
        <4> HIDE DEF IInv, TypeOK
        <4> QED
          BY <4>1, <4>2, <4>3
      <3> QED
        BY <3>1, <3>2
    <2> QED
      BY <2>3, <2>4, <2>6, <2>7 DEF LineInv
  <1>3. CASE UNCHANGED vars
    BY <1>3 DEF vars, LineInv, Alive
  <1> QED
    BY <1>1, <1>2, <1>3 DEF Next

\* Once main is back from dfs, nothing runs any more.
LEMMA NobodyLeft ==
    ASSUME IInv, LineInv, pc[0] = "done"
    PROVE  Alive = {}
  <1> SUFFICES ASSUME Alive # {} PROVE FALSE
    OBVIOUS
  <1>1. Alive \subseteq Nat
    BY DEF Alive, Workers
  <1>2. PICK x \in Alive : \A y \in Alive : x <= y
    BY <1>1, LeastNat
  <1>3. /\ x \in Workers /\ parent[x] < x /\ parent[x] \in Threads
        /\ pc[parent[x]] = "dfs"
    BY Constants DEF LineInv, Alive, IInv, TypeOK
  <1>4. parent[x] \in Alive
    BY <1>3, Constants DEF Alive
  <1>5. x <= parent[x] /\ x \in Nat /\ parent[x] \in Nat
    BY <1>1, <1>2, <1>4
  <1> QED
    BY <1>3, <1>5

-----------------------------------------------------------------------------
(***************************************************************************)
(* Slots for the leaves.                                                   *)
(***************************************************************************)

\* Every seed has its thread or is still to get one.
SeedInv == Cardinality(Children(0)) + Len(todo[0]) = Len(Seeds)

LEMMA ChildrenFinite ==
    IsFiniteSet(Children(0)) /\ Cardinality(Children(0)) \in Nat
  <1>1. Children(0) \subseteq Workers
    BY DEF Children
  <1> QED
    BY <1>1, AliveFinite, FS_Subset, FS_CardinalityType

LEMMA SeedInit == Init => SeedInv
  <1> SUFFICES ASSUME Init PROVE SeedInv
    OBVIOUS
  <1>1. Children(0) = {} /\ todo[0] = Seeds
    BY Constants DEF Init, Children
  <1>2. Cardinality({}) = 0 /\ Len(Seeds) \in Nat
    BY Constants, FS_EmptySet
  <1>3. 0 + Len(Seeds) = Len(Seeds)
    BY <1>2
  <1> QED
    BY <1>1, <1>2, <1>3 DEF SeedInv

LEMMA SeedNext ==
    ASSUME IInv, SeedInv, [Next]_vars
    PROVE  SeedInv'
  <1> USE DEF IInv, TypeOK
  <1>1. ASSUME NEW t \in Threads, Spawn(t) PROVE SeedInv'
    <2> DEFINE k == spawned'
    <2>1. /\ k \in Workers /\ k \in Threads /\ pc[k] = "unborn" /\ pc'[k] = "visit"
          /\ parent'[k] = t
          /\ todo[t] \in Seq(Urls) /\ todo[t] # <<>> /\ todo'[t] = Tail(todo[t])
          /\ \A v \in Threads : v # k => pc'[v] = pc[v] /\ parent'[v] = parent[v]
          /\ \A v \in Threads : v # t => todo'[v] = todo[v]
      BY <1>1, SpawnMoves
    <2> HIDE DEF k
    <2>2. CASE t = 0
      <3>0. \A v \in Workers : /\ v # k => pc'[v] = pc[v] /\ parent'[v] = parent[v]
                               /\ v = k => pc'[v] # "unborn" /\ parent'[v] = 0
        BY <2>1, <2>2, Constants
      <3>1. Children(0)' = Children(0) \cup {k} /\ k \notin Children(0)
        <4> HIDE DEF IInv, TypeOK
        <4> QED
          BY <2>1, <3>0 DEF Children
      <3>2. Cardinality(Children(0)') = Cardinality(Children(0)) + 1
        BY <3>1, ChildrenFinite, FS_AddElement
      <3>3. Len(todo'[0]) = Len(todo[0]) - 1 /\ Len(todo[0]) \in Nat
        BY <2>1, <2>2
      <3> QED
        BY <3>2, <3>3, ChildrenFinite DEF SeedInv
    <2>3. CASE t # 0
      <3>1. \A v \in Workers : /\ v # k => pc'[v] = pc[v] /\ parent'[v] = parent[v]
                               /\ v = k => pc[v] = "unborn" /\ parent'[v] # 0
        BY <2>1, <2>3, Constants
      <3>2. Children(0)' = Children(0)
        <4> HIDE DEF IInv, TypeOK
        <4> QED
          BY <3>1 DEF Children
      <3>3. todo'[0] = todo[0]
        BY <2>1, <2>3, Constants
      <3> QED
        BY <3>2, <3>3 DEF SeedInv
    <2> QED
      BY <2>2, <2>3
  <1>2. ASSUME NEW t \in Threads, Step(t), ~Spawn(t) PROVE SeedInv'
    <2>1. /\ \A v \in Threads : v # t => pc'[v] = pc[v] /\ todo'[v] = todo[v]
          /\ parent' = parent /\ pc[t] # "unborn" /\ pc'[t] # "unborn"
          /\ t = 0 => pc[t] = "dfs"
      BY <1>2, WorkerMoves
    <2>2. t = 0 => todo' = todo
      BY <1>2, <2>1 DEF Step, Visit, Fetch, Collect, Join, Release
    <2>3. Children(0)' = Children(0)
      BY <2>1, Constants DEF Children
    <2> QED
      BY <2>1, <2>2, <2>3, Constants DEF SeedInv
  <1>3. CASE UNCHANGED vars
    BY <1>3 DEF vars, SeedInv, Children
  <1> QED
    BY <1>1, <1>2, <1>3 DEF Next

\* As main calls dfs, two levels deep, only the threads of the seeds wait for others
\* with a slot in hand, so with more slots than seeds some thread can always go on
\* (main_dfs.cpp:108, 122, 164).
THEOREM LeavesFindRoom == Spec => []RoomForLeaves
  <1>1. IInv /\ LineInv /\ SeedInv => RoomForLeaves
    <2> DEFINE waiting == {t \in Alive : pc[t] = "dfs"}
    <2> SUFFICES ASSUME IInv, LineInv, SeedInv, Level <= 2, Len(Seeds) < MAX_THREADS
                 PROVE  Cardinality(waiting) < MAX_THREADS
      BY DEF RoomForLeaves
    <2>1. ASSUME NEW t \in waiting PROVE t \in Children(0)
      <3>1. /\ t \in Workers /\ t \in Threads /\ pc[t] = "dfs" /\ parent[t] \in Threads
            /\ pc[parent[t]] = "dfs"
            /\ level[t] >= 1 /\ level[t] = level[parent[t]] - 1
        BY Constants DEF LineInv, Alive, IInv, TypeOK, PlaceInv
      <3>2. CASE parent[t] # 0
        <4> DEFINE p == parent[t]
        <4>1. p \in Workers /\ p \in Alive
          BY <3>1, <3>2, Constants DEF Alive
        <4>2. /\ level[p] = level[parent[p]] - 1
              /\ level[t] \in Int /\ level[p] \in Int /\ level[parent[p]] \in Int
              /\ level[parent[p]] <= Level /\ Level \in Int
          <5>1. parent[p] \in Threads
            BY <3>1 DEF IInv, TypeOK
          <5>2. \A v \in Threads : level[v] \in 0..Level
            BY DEF IInv, TypeOK
          <5> QED
            BY <3>1, <4>1, <5>1, <5>2, Constants DEF LineInv
        <4> QED
          BY <3>1, <4>2
      <3> QED
        BY <3>1, <3>2 DEF Children
    <2>2. waiting \subseteq Children(0)
      BY <2>1
    <2> HIDE DEF waiting
    <2>3. Cardinality(waiting) <= Cardinality(Children(0)) /\ Cardinality(waiting) \in Nat
      BY <2>2, ChildrenFinite, FS_Subset, FS_CardinalityType
    <2>4. Len(todo[0]) \in Nat /\ Len(Seeds) \in Nat /\ MAX_THREADS \in Nat
      BY Constants DEF IInv, TypeOK
    <2> QED
      BY <2>3, <2>4, ChildrenFinite DEF SeedInv
  <1> QED
    BY <1>1, Init_IInv, Next_IInv, LineInit, LineNext, SeedInit, SeedNext, PTL DEF Spec

-----------------------------------------------------------------------------
(***************************************************************************)
(* Who fetches a page.                                                     *)
(***************************************************************************)

\* A visited URL is fetched once: it was, or the thread that entered it is about to.
ClaimInv ==
    /\ \A u \in Urls : fetches[u] <= 1 /\ (fetches[u] # 0 => u \in visited_url)
    /\ \A u \in visited_url : \/ fetches[u] = 1
                              \/ \E t \in Threads : pc[t] = "fetch" /\ url[t] = u
    /\ \A t \in Threads : pc[t] = "fetch" => url[t] \in visited_url /\ fetches[url[t]] = 0
    /\ \A s, t \in Threads : s # t /\ pc[s] = "fetch" /\ pc[t] = "fetch" => url[s] # url[t]

LEMMA ClaimInit == Init => ClaimInv
  BY DEF Init, ClaimInv

\* The URL a thread is about to visit or fetch is one.
LEMMA UrlInHand ==
    ASSUME IInv, NEW t \in Threads, pc[t] \in {"visit", "fetch", "bank"}
    PROVE  t \in Workers /\ url[t] \in Urls /\ Level - level[t] \in Depths
  <1>1. t \in Workers
    BY Constants DEF IInv, PlaceInv
  <1>2. level[t] \in 0..Level /\ level[t] >= 1 /\ Level \in Nat
    BY Constants DEF IInv, PlaceInv, TypeOK
  <1> QED
    BY <1>1, <1>2 DEF IInv, PlaceInv, Depths

LEMMA ClaimNext ==
    ASSUME IInv, ClaimInv, [Next]_vars
    PROVE  ClaimInv'
  <1> USE DEF IInv, TypeOK
  <1>1. ASSUME NEW t \in Threads, Spawn(t) PROVE ClaimInv'
    <2> DEFINE k == spawned'
    <2>1. /\ k \in Threads /\ pc[k] = "unborn" /\ pc'[k] = "visit"
          /\ \A v \in Threads : v # k => pc'[v] = pc[v] /\ url'[v] = url[v]
          /\ UNCHANGED <<visited_url, fetches>>
      BY <1>1, SpawnMoves
    <2> HIDE DEF k
    <2>2. \A v \in Threads : /\ pc'[v] = "fetch" <=> pc[v] = "fetch"
                             /\ pc[v] = "fetch" => url'[v] = url[v]
      BY <2>1
    <2> HIDE DEF IInv, TypeOK
    <2> QED
      BY <2>1, <2>2 DEF ClaimInv
  <1>2. ASSUME NEW t \in Threads, Step(t), ~Spawn(t) PROVE ClaimInv'
    <2>0. url' = url /\ \A v \in Threads : v # t => pc'[v] = pc[v]
      BY <1>2, WorkerMoves
    <2>1. CASE Visit(t)
      <3>1. url[t] \in Urls /\ pc[t] = "visit" /\ fetches' = fetches
        BY <2>1, UrlInHand DEF Visit, history
      <3>2. /\ visited_url' = visited_url \cup {url[t]}
            /\ pc'[t] = IF url[t] \notin visited_url THEN "fetch" ELSE "release"
        BY <2>1 DEF Visit, Goto, IsNew
      <3> HIDE DEF IInv, TypeOK
      <3>3. CASE url[t] \in visited_url
        <4>1. \A v \in Threads : pc'[v] = "fetch" <=> pc[v] = "fetch"
          BY <2>0, <3>1, <3>2, <3>3
        <4>2. visited_url' = visited_url
          BY <3>2, <3>3
        <4> QED
          BY <2>0, <3>1, <4>1, <4>2 DEF ClaimInv
      <3>4. CASE url[t] \notin visited_url
        <4>1. \A v \in Threads : pc'[v] = "fetch" <=> (pc[v] = "fetch" \/ v = t)
          BY <2>0, <3>1, <3>2, <3>4
        <4>2. fetches[url[t]] = 0
          BY <3>1, <3>4 DEF ClaimInv
        <4>3. \A u \in Urls : fetches'[u] <= 1 /\ (fetches'[u] # 0 => u \in visited_url')
          BY <3>1, <3>2 DEF ClaimInv
        <4>4. \A u \in visited_url' : \/ fetches'[u] = 1
                                      \/ \E v \in Threads : pc'[v] = "fetch" /\ url'[v] = u
          BY <2>0, <3>1, <3>2, <4>1 DEF ClaimInv
        <4>5. \A v \in Threads : pc'[v] = "fetch" =>
                 url'[v] \in visited_url' /\ fetches'[url'[v]] = 0
          BY <2>0, <3>1, <3>2, <4>1, <4>2 DEF ClaimInv
        <4>6. \A v \in Threads : pc[v] = "fetch" => url[v] # url[t]
          BY <3>4 DEF ClaimInv
        <4>7. \A v, w \in Threads : v # w /\ pc'[v] = "fetch" /\ pc'[w] = "fetch" =>
                 url'[v] # url'[w]
          BY <2>0, <4>1, <4>6 DEF ClaimInv
        <4> QED
          BY <4>3, <4>4, <4>5, <4>7 DEF ClaimInv
      <3> QED
        BY <3>3, <3>4
    <2>2. CASE Fetch(t)
      <3>1. /\ url[t] \in Urls /\ pc[t] = "fetch" /\ pc'[t] = "bank"
            /\ visited_url' = visited_url /\ fetches' = [fetches EXCEPT ![url[t]] = @ + 1]
        BY <2>2, UrlInHand DEF Fetch, Goto, shared
      <3>2. fetches[url[t]] = 0 /\ url[t] \in visited_url
        BY <3>1 DEF ClaimInv
      <3>3. fetches'[url[t]] = 1 /\ \A u \in Urls : u # url[t] => fetches'[u] = fetches[u]
        BY <3>1, <3>2
      <3>4. visited_url \subseteq Urls
        OBVIOUS
      <3> HIDE DEF IInv, TypeOK
      <3>5. \A v \in Threads : pc'[v] = "fetch" <=> (pc[v] = "fetch" /\ v # t)
        BY <2>0, <3>1
      <3>6. \A u \in Urls : fetches'[u] <= 1 /\ (fetches'[u] # 0 => u \in visited_url')
        BY <3>1, <3>2, <3>3 DEF ClaimInv
      <3>7. \A u \in visited_url' : \/ fetches'[u] = 1
                                    \/ \E v \in Threads : pc'[v] = "fetch" /\ url'[v] = u
        BY <2>0, <3>1, <3>3, <3>4, <3>5 DEF ClaimInv
      <3>8. \A v \in Threads : pc'[v] = "fetch" =>
               url'[v] \in visited_url' /\ fetches'[url'[v]] = 0
        BY <2>0, <3>1, <3>3, <3>4, <3>5 DEF ClaimInv
      <3>9. \A v, w \in Threads : v # w /\ pc'[v] = "fetch" /\ pc'[w] = "fetch" =>
               url'[v] # url'[w]
        BY <2>0, <3>5 DEF ClaimInv
      <3> QED
        BY <3>6, <3>7, <3>8, <3>9 DEF ClaimInv
    <2>3. CASE ~Visit(t) /\ ~Fetch(t)
      <3>1. UNCHANGED <<visited_url, fetches>> /\ pc[t] # "fetch" /\ pc'[t] # "fetch"
        BY <1>2, <2>3 DEF Step, Collect, Join, Release, Goto, shared, history
      <3>2. \A v \in Threads : pc'[v] = "fetch" <=> pc[v] = "fetch"
        BY <2>0, <3>1
      <3> HIDE DEF IInv, TypeOK
      <3> QED
        BY <2>0, <3>1, <3>2 DEF ClaimInv
    <2> QED
      BY <2>1, <2>2, <2>3
  <1>3. CASE UNCHANGED vars
    BY <1>3 DEF vars, shared, history, ClaimInv
  <1> QED
    BY <1>1, <1>2, <1>3 DEF Next

-----------------------------------------------------------------------------
(***************************************************************************)
(* What is visited.                                                        *)
(***************************************************************************)

LEMMA FrontierDef ==
    /\ Level - 1 \in Nat /\ Depths = 0..(Level - 1)
    /\ Frontier[0] = SetOf(Seeds)
    /\ \A n \in Depths : Frontier[n] \subseteq Urls
    /\ \A n \in 1..(Level - 1) : Frontier[n] = LinksFrom(LinksOf, Frontier[n - 1] \cap read)
  <1>1. Level - 1 \in Nat /\ Depths = 0..(Level - 1)
    BY Constants DEF Depths
  <1> DEFINE depth == Level - 1
  <1> HIDE DEF depth
  <1>2. depth \in Nat
    BY <1>1 DEF depth
  <1>3. LET near == Reach(Seeds, LinksOf, depth, read)
        IN  /\ near \in [0..depth -> SUBSET Urls]
            /\ near[0] = SetOf(Seeds)
            /\ \A n \in 1..depth : near[n] = LinksFrom(LinksOf, near[n - 1] \cap read)
    <2>1. Seeds \in Seq(Urls) /\ LinksOf \in [Urls -> Seq(Urls)]
      BY Constants
    <2> QED
      BY <1>2, <2>1, ReachDef
  <1> QED
    BY <1>1, <1>3 DEF Frontier, depth

\* A URL below the first level is linked from a page one level up.
LEMMA FrontierStep ==
    ASSUME NEW n \in Depths, n # 0, NEW u \in Frontier[n]
    PROVE  \E w \in Frontier[n - 1] \cap read : u \in SetOf(LinksOf[w])
  <1>1. n \in 1..(Level - 1)
    BY FrontierDef
  <1> QED
    BY <1>1, FrontierDef DEF LinksFrom

\* The links of a page are one level down.
LEMMA FrontierLinks ==
    ASSUME NEW n \in Depths, n + 1 \in Depths, NEW w \in Frontier[n] \cap read
    PROVE  SetOf(LinksOf[w]) \subseteq Frontier[n + 1]
  <1>1. n + 1 \in 1..(Level - 1) /\ (n + 1) - 1 = n
    BY FrontierDef
  <1>2. Frontier[n + 1] = LinksFrom(LinksOf, Frontier[n] \cap read)
    BY <1>1, FrontierDef
  <1> QED
    BY <1>2 DEF LinksFrom

LEMMA FrontierGrows ==
    ASSUME read \subseteq read', NEW n \in Depths
    PROVE  Frontier[n] \subseteq Frontier'[n]
  <1> DEFINE depth == Level - 1
  <1> HIDE DEF depth
  <1>1. depth \in Nat /\ n \in 0..depth
    BY Constants DEF Depths, depth
  <1>2. Reach(Seeds, LinksOf, depth, read)[n] \subseteq Reach(Seeds, LinksOf, depth, read')[n]
    BY <1>1, Constants, ReachGrows
  <1> QED
    BY <1>2 DEF Frontier, depth

LEMMA ReadGrows == [Next]_vars => read \subseteq read'
  BY DEF Next, Step, Visit, Fetch, Collect, Spawn, Join, Release, vars, history

\* The level of a dfs is that of the URLs it runs on.
DepthInv ==
    /\ \A t \in Threads : pc[t] \in {"visit", "fetch", "bank"} =>
          url[t] \in Frontier[Level - level[t]]
    /\ \A t \in Threads : pc[t] = "dfs" => SetOf(todo[t]) \subseteq Frontier[Level - level[t]]
    /\ \A t \in Threads : pc[t] = "bank" =>
          todo[t] = <<>> \/ (url[t] \in read /\ todo[t] = LinksOf[url[t]])
    /\ \A u \in visited_url : \E n \in Depths : u \in Frontier[n]

LEMMA DepthInit == Init => DepthInv
  <1> SUFFICES ASSUME Init PROVE DepthInv
    OBVIOUS
  <1>1. Level - level[0] = 0 /\ todo[0] = Seeds
    BY Constants DEF Init
  <1>2. SetOf(todo[0]) \subseteq Frontier[Level - level[0]]
    BY <1>1, FrontierDef
  <1> QED
    BY <1>2, Constants DEF Init, DepthInv

\* A thread that has a URL in hand, or runs a dfs, is at one of the depths.
LEMMA DepthInHand ==
    ASSUME IInv, NEW t \in Threads, pc[t] \in {"visit", "fetch", "bank", "dfs"}
    PROVE  /\ Level - level[t] \in Depths /\ level[t] \in 1..Level
           /\ todo[t] \in Seq(Urls)
  <1>1. level[t] \in 0..Level /\ level[t] >= 1 /\ Level \in Nat /\ todo[t] \in Seq(Urls)
    BY Constants DEF IInv, PlaceInv, TypeOK
  <1> QED
    BY <1>1 DEF Depths

\* What DepthInv says of one thread.
DepthOf(t) ==
    /\ pc[t] \in {"visit", "fetch", "bank"} => url[t] \in Frontier[Level - level[t]]
    /\ pc[t] = "dfs" => SetOf(todo[t]) \subseteq Frontier[Level - level[t]]
    /\ pc[t] = "bank" => todo[t] = <<>> \/ (url[t] \in read /\ todo[t] = LinksOf[url[t]])

\* A thread that a step leaves alone stays where it is.
LEMMA DepthFrame ==
    ASSUME IInv, NEW t \in Threads, DepthOf(t), read \subseteq read',
           pc'[t] = pc[t], url'[t] = url[t], level'[t] = level[t], todo'[t] = todo[t]
    PROVE  DepthOf(t)'
  <1>1. CASE pc[t] \in {"visit", "fetch", "bank", "dfs"}
    <2>1. Frontier[Level - level[t]] \subseteq Frontier'[Level - level[t]]
      BY <1>1, DepthInHand, FrontierGrows
    <2> QED
      BY <2>1 DEF DepthOf
  <1>2. CASE pc[t] \notin {"visit", "fetch", "bank", "dfs"}
    BY <1>2 DEF DepthOf
  <1> QED
    BY <1>1, <1>2

LEMMA DepthNext ==
    ASSUME IInv, DepthInv, [Next]_vars
    PROVE  DepthInv'
  <1>0. /\ read \subseteq read' /\ \A v \in Threads : DepthOf(v)
        /\ \A u \in visited_url : \E n \in Depths : u \in Frontier'[n]
    BY ReadGrows, FrontierGrows DEF DepthInv, DepthOf
  <1>1. ASSUME NEW t \in Threads, Spawn(t) PROVE DepthInv'
    <2> DEFINE k == spawned'
    <2>1. /\ k \in Threads /\ k # t /\ pc[t] = "dfs" /\ pc'[t] = "dfs"
          /\ pc'[k] = "visit" /\ url'[k] = Head(todo[t]) /\ level'[k] = level[t]
          /\ todo[t] \in Seq(Urls) /\ todo[t] # <<>> /\ todo'[t] = Tail(todo[t])
          /\ \A v \in Threads : v # k => /\ pc'[v] = pc[v] /\ url'[v] = url[v]
                                         /\ level'[v] = level[v] /\ parent'[v] = parent[v]
          /\ \A v \in Threads : v # t => todo'[v] = todo[v]
          /\ UNCHANGED <<visited_url, Url_bank, fetches, read>>
      BY <1>1, SpawnMoves
    <2> HIDE DEF k
    <2>2. Frontier' = Frontier
      BY <2>1 DEF Frontier
    <2>3. /\ SetOf(todo[t]) = {Head(todo[t])} \cup SetOf(Tail(todo[t]))
          /\ SetOf(todo[t]) \subseteq Frontier[Level - level[t]]
      BY <1>0, <2>1, HeadAndTail DEF DepthOf
    <2>4. ASSUME NEW v \in Threads PROVE DepthOf(v)'
      <3>1. CASE v = k
        BY <2>1, <2>2, <2>3, <3>1 DEF DepthOf
      <3>2. CASE v = t
        BY <2>1, <2>2, <2>3, <3>2 DEF DepthOf
      <3>3. CASE v # k /\ v # t
        BY <1>0, <2>1, <3>3, DepthFrame
      <3> QED
        BY <3>1, <3>2, <3>3
    <2>5. \A u \in visited_url' : \E n \in Depths : u \in Frontier'[n]
      BY <1>0, <2>1
    <2> QED
      BY <2>4, <2>5 DEF DepthInv, DepthOf
  <1>2. ASSUME NEW t \in Threads, Step(t), ~Spawn(t) PROVE DepthInv'
    <2>1. \A v \in Threads : v # t => DepthOf(v)'
      BY <1>0, <1>2, WorkerMoves, DepthFrame
    <2>2. DepthOf(t)'
      <3>1. CASE Visit(t)
        <4>1. /\ pc[t] = "visit" /\ pc'[t] \in {"fetch", "release"}
              /\ url' = url /\ level' = level /\ read' = read
          BY <1>2, <3>1, WorkerMoves DEF Visit, history
        <4>2. Frontier' = Frontier
          BY <4>1 DEF Frontier
        <4> QED
          BY <1>0, <4>1, <4>2 DEF DepthOf
      <3>2. CASE Fetch(t)
        <4>1. /\ pc[t] = "fetch" /\ pc'[t] = "bank" /\ url' = url /\ level' = level
              /\ todo'[t] = <<>> \/ (url[t] \in read' /\ todo'[t] = LinksOf[url[t]])
          BY <3>2 DEF Fetch, Goto, IInv, TypeOK, PlaceInv
        <4>2. url[t] \in Frontier'[Level - level[t]]
          BY <1>0, <4>1, DepthInHand, FrontierGrows DEF DepthOf
        <4> QED
          BY <4>1, <4>2 DEF DepthOf
      <3>3. CASE Collect(t)
        <4>1. /\ pc[t] = "bank" /\ pc'[t] \in {"dfs", "release"} /\ read' = read
              /\ level'[t] = level[t] - 1
              /\ pc'[t] = "dfs" => todo'[t] = todo[t]
          BY <1>2, <3>3, WorkerMoves DEF Collect, Goto, IInv, TypeOK, history
        <4>2. Frontier' = Frontier
          BY <4>1 DEF Frontier
        <4>3. SUFFICES ASSUME pc'[t] = "dfs"
                       PROVE  SetOf(todo[t]) \subseteq Frontier[Level - (level[t] - 1)]
          BY <4>1, <4>2 DEF DepthOf
        <4>4. level[t] - 1 # 0
          BY <3>3, <4>1, <4>3 DEF Collect, Bottom, Goto, IInv, TypeOK
        <4> DEFINE n == Level - level[t]
        <4>5. n \in Depths /\ n + 1 \in Depths /\ n + 1 = Level - (level[t] - 1)
          BY <4>1, <4>4, DepthInHand, Constants DEF Depths
        <4>6. CASE todo[t] = <<>>
          BY <4>6 DEF SetOf
        <4>7. CASE todo[t] # <<>>
          <5>1. url[t] \in Frontier[n] \cap read /\ todo[t] = LinksOf[url[t]]
            BY <1>0, <4>1, <4>7 DEF DepthOf
          <5> HIDE DEF n
          <5>2. SetOf(LinksOf[url[t]]) \subseteq Frontier[n + 1]
            BY <4>5, <5>1, FrontierLinks
          <5> QED
            BY <4>5, <5>1, <5>2
        <4> QED
          BY <4>6, <4>7
      <3>4. CASE Join(t) \/ Release(t)
        <4>1. pc'[t] \in {"release", "done"}
          BY <3>4 DEF Join, Release, Goto, IInv, TypeOK
        <4> QED
          BY <4>1 DEF DepthOf
      <3> QED
        BY <1>2, <3>1, <3>2, <3>3, <3>4 DEF Step
    <2>3. \A u \in visited_url' : \E n \in Depths : u \in Frontier'[n]
      <3>1. CASE Visit(t)
        <4>1. /\ pc[t] = "visit" /\ visited_url' = visited_url \cup {url[t]}
          BY <3>1 DEF Visit
        <4>2. url[t] \in Frontier'[Level - level[t]] /\ Level - level[t] \in Depths
          BY <1>0, <4>1, DepthInHand, FrontierGrows DEF DepthOf
        <4> QED
          BY <1>0, <4>1, <4>2
      <3>2. CASE ~Visit(t)
        <4>1. visited_url' = visited_url
          BY <1>2, <3>2 DEF Step, Fetch, Collect, Join, Release, shared
        <4> QED
          BY <1>0, <4>1
      <3> QED
        BY <3>1, <3>2
    <2> QED
      BY <2>1, <2>2, <2>3 DEF DepthInv, DepthOf
  <1>3. CASE UNCHANGED vars
    BY <1>0, <1>3, DepthFrame DEF vars, shared, history, DepthInv, DepthOf
  <1> QED
    BY <1>1, <1>2, <1>3 DEF Next

\* A URL is known once it is visited, or a thread has it in hand or is to spawn one
\* for it.
Known(u) ==
    \/ u \in visited_url
    \/ \E t \in Threads : pc[t] = "visit" /\ url[t] = u
    \/ \E t \in Threads : pc[t] = "dfs" /\ u \in SetOf(todo[t])

\* A thread is between the page of w and the bank.
Expanding(w) == \E t \in Threads : pc[t] = "bank" /\ url[t] = w /\ todo[t] = LinksOf[w]

\* No link of a page that was read is dropped, but for those below the last level.
CoverInv ==
    /\ \A u \in SetOf(Seeds) : Known(u)
    /\ \A w \in read : \/ Expanding(w)
                       \/ \A u \in SetOf(LinksOf[w]) : Known(u)
                       \/ w \in Frontier[Level - 1]

\* The bank holds the links of the pages that were read.
BankInv ==
    /\ Url_bank \subseteq UNION {SetOf(LinksOf[w]) : w \in read}
    /\ \A w \in read : Expanding(w) \/ SetOf(LinksOf[w]) \subseteq Url_bank

LEMMA CoverInit == Init => CoverInv /\ BankInv
  <1> SUFFICES ASSUME Init PROVE CoverInv /\ BankInv
    OBVIOUS
  <1>1. pc[0] = "dfs" /\ todo[0] = Seeds /\ 0 \in Threads /\ read = {} /\ Url_bank = {}
    BY Constants DEF Init
  <1> QED
    BY <1>1 DEF CoverInv, BankInv, Known

\* A known URL stays known.
LEMMA KnownStays ==
    ASSUME IInv, [Next]_vars, NEW u, Known(u)
    PROVE  Known(u)'
  <1>1. ASSUME NEW t \in Threads, Spawn(t) PROVE Known(u)'
    <2> DEFINE k == spawned'
    <2>1. /\ k \in Threads /\ k # t /\ pc[t] = "dfs" /\ pc'[t] = "dfs" /\ pc[k] = "unborn"
          /\ pc'[k] = "visit" /\ url'[k] = Head(todo[t])
          /\ todo[t] \in Seq(Urls) /\ todo[t] # <<>> /\ todo'[t] = Tail(todo[t])
          /\ \A v \in Threads : v # k => /\ pc'[v] = pc[v] /\ url'[v] = url[v]
                                         /\ level'[v] = level[v] /\ parent'[v] = parent[v]
          /\ \A v \in Threads : v # t => todo'[v] = todo[v]
          /\ UNCHANGED <<visited_url, Url_bank, fetches, read>>
      BY <1>1, SpawnMoves
    <2> HIDE DEF k
    <2>2. SetOf(todo[t]) = {Head(todo[t])} \cup SetOf(Tail(todo[t]))
      BY <2>1, HeadAndTail
    <2>3. CASE u \in SetOf(todo[t])
      BY <2>1, <2>2, <2>3 DEF Known
    <2>4. CASE u \notin SetOf(todo[t])
      BY <2>1, <2>4 DEF Known
    <2> QED
      BY <2>3, <2>4
  <1>2. ASSUME NEW t \in Threads, Step(t), ~Spawn(t) PROVE Known(u)'
    <2>1. /\ \A v \in Threads : v # t => pc'[v] = pc[v] /\ todo'[v] = todo[v]
          /\ url' = url
      BY <1>2, WorkerMoves
    <2>2. visited_url \subseteq visited_url'
      BY <1>2 DEF Step, Visit, Fetch, Collect, Join, Release, shared
    <2>3. pc[t] = "visit" => url[t] \in visited_url'
      BY <1>2 DEF Step, Visit, Fetch, Collect, Join, Release
    <2>4. pc[t] = "dfs" => SetOf(todo[t]) = {}
      BY <1>2 DEF Step, Visit, Fetch, Collect, Join, Release, SetOf
    <2> QED
      BY <2>1, <2>2, <2>3, <2>4 DEF Known
  <1>3. CASE UNCHANGED vars
    BY <1>3 DEF vars, shared, Known
  <1> QED
    BY <1>1, <1>2, <1>3 DEF Next

\* A thread keeps the links of its page until it banks them.
LEMMA ExpandingStays ==
    ASSUME IInv, [Next]_vars, NEW w, Expanding(w)
    PROVE  \/ Expanding(w)'
           \/ \E t \in Threads : Collect(t) /\ pc[t] = "bank" /\ url[t] = w /\ todo[t] = LinksOf[w]
  <1>0. PICK t \in Threads : pc[t] = "bank" /\ url[t] = w /\ todo[t] = LinksOf[w]
    BY DEF Expanding
  <1>1. ASSUME NEW s \in Threads, Spawn(s) PROVE Expanding(w)'
    <2> DEFINE k == spawned'
    <2>1. /\ k # t /\ s # t
          /\ \A v \in Threads : v # k => pc'[v] = pc[v] /\ url'[v] = url[v]
          /\ \A v \in Threads : v # s => todo'[v] = todo[v]
      BY <1>0, <1>1, SpawnMoves
    <2> HIDE DEF k
    <2>2. pc'[t] = pc[t] /\ url'[t] = url[t] /\ todo'[t] = todo[t]
      BY <2>1
    <2> QED
      BY <1>0, <2>2 DEF Expanding
  <1>2. ASSUME NEW s \in Threads, Step(s), ~Spawn(s), s # t PROVE Expanding(w)'
    BY <1>0, <1>2, WorkerMoves DEF Expanding
  <1>3. CASE Step(t)
    BY <1>0, <1>3 DEF Step, Visit, Fetch, Spawn, Join, Release
  <1>4. CASE UNCHANGED vars
    BY <1>0, <1>4 DEF vars, Expanding
  <1> QED
    BY <1>1, <1>2, <1>3, <1>4 DEF Next

LEMMA ExpandsWhatIsRead ==
    ASSUME IInv, [Next]_vars, NEW w \in read', w \notin read
    PROVE  Expanding(w)'
  <1>1. PICK t \in Threads : Fetch(t)
    BY DEF Next, Step, Visit, Collect, Spawn, Join, Release, vars, history
  <1>2. /\ w = url[t] /\ url' = url
        /\ pc'[t] = "bank" /\ todo'[t] = LinksOf[w]
    BY <1>1 DEF Fetch, Goto, IInv, TypeOK
  <1> QED
    BY <1>2 DEF Expanding

LEMMA CoverNext ==
    ASSUME IInv, DepthInv, CoverInv, [Next]_vars
    PROVE  CoverInv'
  <1>0. read \subseteq read' /\ Level - 1 \in Depths
    BY ReadGrows, FrontierDef
  <1>1. \A u \in SetOf(Seeds) : Known(u)'
    BY KnownStays DEF CoverInv
  <1>2. ASSUME NEW w \in read
        PROVE  \/ Expanding(w)'
               \/ \A u \in SetOf(LinksOf[w]) : Known(u)'
               \/ w \in Frontier'[Level - 1]
    <2>1. CASE \A u \in SetOf(LinksOf[w]) : Known(u)
      BY <2>1, KnownStays
    <2>2. CASE w \in Frontier[Level - 1]
      BY <1>0, <2>2, FrontierGrows
    <2>3. ASSUME NEW t \in Threads, Collect(t), pc[t] = "bank", url[t] = w, todo[t] = LinksOf[w]
          PROVE  \/ \A u \in SetOf(LinksOf[w]) : Known(u)'
                 \/ w \in Frontier'[Level - 1]
      <3>1. level'[t] = level[t] - 1 /\ level[t] \in 1..Level
        BY <2>3, DepthInHand DEF Collect, IInv, TypeOK
      <3>2. CASE level'[t] = 0
        <4>1. level[t] = 1
          BY <3>1, <3>2, Constants
        <4>2. w \in Frontier[Level - 1]
          BY <2>3, <4>1 DEF DepthInv
        <4> QED
          BY <1>0, <4>2, FrontierGrows
      <3>3. CASE level'[t] # 0
        <4>1. pc'[t] = "dfs" /\ todo'[t] = LinksOf[w]
          BY <2>3, <3>3 DEF Collect, Bottom, Goto, IInv, TypeOK
        <4> QED
          BY <4>1 DEF Known
      <3> QED
        BY <3>2, <3>3
    <2> QED
      BY <2>1, <2>2, <2>3, ExpandingStays DEF CoverInv
  <1> QED
    BY <1>1, <1>2, ExpandsWhatIsRead DEF CoverInv

LEMMA BankNext ==
    ASSUME IInv, DepthInv, BankInv, [Next]_vars
    PROVE  BankInv'
  <1> DEFINE Found == UNION {SetOf(LinksOf[w]) : w \in read'}
  <1>0. read \subseteq read' /\ Url_bank \subseteq Found
    BY ReadGrows DEF BankInv
  <1>1. ASSUME NEW t \in Threads, Collect(t)
        PROVE  Url_bank' = Url_bank \cup SetOf(todo[t]) /\ SetOf(todo[t]) \subseteq Found
    <2>1. pc[t] = "bank" /\ Url_bank' = Url_bank \cup SetOf(todo[t])
      BY <1>1 DEF Collect
    <2>2. todo[t] = <<>> \/ (url[t] \in read /\ todo[t] = LinksOf[url[t]])
      BY <2>1 DEF DepthInv
    <2>3. SetOf(<<>>) = {}
      BY DEF SetOf
    <2> QED
      BY <1>0, <2>1, <2>2, <2>3
  <1>2. CASE \A t \in Threads : ~Collect(t)
    <2>1. Url_bank' = Url_bank
      BY <1>2 DEF Next, Step, Visit, Fetch, Spawn, Join, Release, vars, shared
    <2>2. \A w \in read : Expanding(w)' \/ SetOf(LinksOf[w]) \subseteq Url_bank'
      BY <1>2, <2>1, ExpandingStays DEF BankInv
    <2> QED
      BY <1>0, <2>1, <2>2, ExpandsWhatIsRead DEF BankInv
  <1>3. ASSUME NEW t \in Threads, Collect(t) PROVE BankInv'
    <2>1. Url_bank' \subseteq Found /\ Url_bank \subseteq Url_bank'
      BY <1>0, <1>1, <1>3
    <2>2. ASSUME NEW w \in read PROVE Expanding(w)' \/ SetOf(LinksOf[w]) \subseteq Url_bank'
      <3>1. ASSUME NEW s \in Threads, Collect(s), todo[s] = LinksOf[w]
            PROVE  SetOf(LinksOf[w]) \subseteq Url_bank'
        BY <1>1, <3>1
      <3> QED
        BY <2>1, <3>1, ExpandingStays DEF BankInv
    <2> QED
      BY <2>1, <2>2, ExpandsWhatIsRead DEF BankInv
  <1> QED
    BY <1>2, <1>3

\* When dfs is back in main, exactly the URLs within the depth were fetched, each of
\* them once, and the bank holds the links of the pages that were read
\* (main_dfs.cpp:91-108, 116-126).
THEOREM CrawlCovers == Spec => []Coverage
  <1>1. IInv /\ LineInv /\ ClaimInv /\ DepthInv /\ CoverInv /\ BankInv => Coverage
    <2> SUFFICES ASSUME IInv, LineInv, ClaimInv, DepthInv, CoverInv, BankInv, pc[0] = "done"
                 PROVE  /\ Layered =>
                            \A u \in Urls :
                                fetches[u] = IF \E n \in Depths : u \in Frontier[n] THEN 1 ELSE 0
                        /\ Url_bank = UNION {SetOf(LinksOf[w]) : w \in read}
      BY DEF Coverage
    <2>1. \A t \in Threads : pc[t] \in {"unborn", "done"}
      BY NobodyLeft, Constants DEF Alive
    <2>2. \A u : Known(u) => u \in visited_url
      BY <2>1 DEF Known
    <2>3. \A w : ~Expanding(w)
      BY <2>1 DEF Expanding
    <2>4. Url_bank = UNION {SetOf(LinksOf[w]) : w \in read}
      BY <2>3 DEF BankInv
    <2>5. ASSUME Layered, NEW n \in Depths PROVE Frontier[n] \subseteq visited_url
      <3>1. CASE n = 0
        BY <2>2, <3>1, FrontierDef DEF CoverInv
      <3>2. CASE n # 0
        <4> SUFFICES ASSUME NEW u \in Frontier[n] PROVE u \in visited_url
          OBVIOUS
        <4>1. n - 1 \in Depths /\ Level - 1 \in Depths /\ n - 1 # Level - 1
          BY <3>2, FrontierDef
        <4>2. PICK w \in Frontier[n - 1] \cap read : u \in SetOf(LinksOf[w])
          BY <3>2, FrontierStep
        <4>3. w \notin Frontier[Level - 1]
          BY <2>5, <4>1, <4>2 DEF Layered
        <4> QED
          BY <2>2, <2>3, <4>2, <4>3 DEF CoverInv
      <3> QED
        BY <3>1, <3>2
    <2>6. \A u \in Urls : fetches[u] = IF u \in visited_url THEN 1 ELSE 0
      <3>1. \A u \in Urls : fetches[u] # 0 => u \in visited_url
        BY DEF ClaimInv
      <3>2. \A u \in visited_url : fetches[u] = 1
        BY <2>1 DEF ClaimInv
      <3> QED
        BY <3>1, <3>2
    <2>7. ASSUME Layered, NEW u \in Urls
          PROVE  u \in visited_url <=> \E n \in Depths : u \in Frontier[n]
      BY <2>5, <2>7 DEF DepthInv
    <2> QED
      BY <2>4, <2>6, <2>7
  <1> QED
    BY <1>1, Init_IInv, Next_IInv, LineInit, LineNext, ClaimInit, ClaimNext,
       DepthInit, DepthNext, CoverInit, CoverNext, BankNext, PTL DEF Spec
=============================================================================
