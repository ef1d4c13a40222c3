------------------------------ MODULE DfsCrawl ------------------------------
(***************************************************************************)
(* The recursive multi-threaded crawler, src/main_dfs.cpp.  dfs spawns one *)
(* thread per URL, each in one of MAX_THREADS slots, and joins them; a     *)
(* thread that finds its URL new fetches the page and calls dfs on its     *)
(* links, one level down, WHILE IT KEEPS ITS SLOT.  Thread 0 is main, which *)
(* holds none.  Every mutex section is one step.                           *)
(***************************************************************************)
EXTENDS Integers, Sequences, FiniteSets, CrawlDepths

CONSTANTS
    Urls,
    NoUrl,          \* "not started"
    LinksOf,        \* the links of each page, ascending as in the std::set
    Unreachable,    \* the URLs whose fetch may fail (no links come back)
    Seeds,          \* the urls that main calls dfs with
    Level,          \* the level it is called with
    MAX_THREADS,    \* slots
    MaxSpawns       \* bound on the threads spawned

ASSUME UrlsAssumption ==
    /\ IsFiniteSet(Urls) /\ NoUrl \notin Urls
    /\ LinksOf \in [Urls -> Seq(Urls)]
    /\ Unreachable \subseteq Urls
    /\ Seeds \in Seq(Urls)
ASSUME LimitsAssumption ==
    /\ Level \in Nat \ {0} /\ MAX_THREADS \in Nat \ {0} /\ MaxSpawns \in Nat

Threads == 0..MaxSpawns
Workers == 1..MaxSpawns

VARIABLES
    visited_url,    \* guarded by visited_mutex
    Url_bank,       \* guarded by bank_mutex
    active_threads, \* guarded by count_mutex
    pc,             \* where each thread is in worker() or dfs()
    url,            \* the url a thread was started with
    level,          \* the level of the dfs it runs (or will run on its links)
    todo,           \* the urls its dfs has not spawned threads for
    parent,         \* the thread that spawned it and joins it
    spawned,        \* history: threads spawned so far
    fetches,        \* history: how often each URL was fetched
    read            \* history: the URLs whose page came back

shared == <<visited_url, Url_bank, active_threads>>
history == <<fetches, read>>
vars == <<shared, pc, url, level, todo, parent, spawned, history>>

Goto(t, p) == pc' = [pc EXCEPT ![t] = p]

Alive == {t \in Workers : pc[t] \notin {"unborn", "done"}}
Children(t) == {k \in Workers : pc[k] # "unborn" /\ parent[k] = t}

Init ==
    /\ visited_url = {}
    /\ Url_bank = {}
    /\ active_threads = 0
    /\ pc = [t \in Threads |-> IF t = 0 THEN "dfs" ELSE "unborn"]
    /\ url = [t \in Threads |-> NoUrl]
    /\ level = [t \in Threads |-> IF t = 0 THEN Level ELSE 0]
    /\ todo = [t \in Threads |-> IF t = 0 THEN Seeds ELSE <<>>]
    /\ parent = [t \in Threads |-> 0]
    /\ spawned = 0
    /\ fetches = [u \in Urls |-> 0]
    /\ read = {}

-----------------------------------------------------------------------------
\* visited_url.count and insert under one lock.
AlwaysNew(u) == TRUE
IsNew(u) == u \notin visited_url

Visit(t) ==
    /\ pc[t] = "visit"
    /\ visited_url' = visited_url \cup {url[t]}
    /\ Goto(t, IF IsNew(url[t]) THEN "fetch" ELSE "release")
    /\ UNCHANGED <<Url_bank, active_threads, url, level, todo, parent, spawned, history>>

\* get_all_urls; a page that cannot be read has no links.
Fetch(t) ==
    /\ pc[t] = "fetch"
    /\ fetches' = [fetches EXCEPT ![url[t]] = @ + 1]
    /\ \/ /\ todo' = [todo EXCEPT ![t] = LinksOf[url[t]]]
          /\ read' = read \cup {url[t]}
       \/ /\ url[t] \in Unreachable
          /\ UNCHANGED <<todo, read>>
    /\ Goto(t, "bank")
    /\ UNCHANGED <<shared, url, level, parent, spawned>>

\* dfs returns at once at level 0.
BottomNever(l) == FALSE
Bottom(l) == l = 0

\* The links go to the bank, and dfs is called one level down.
Collect(t) ==
    /\ pc[t] = "bank"
    /\ Url_bank' = Url_bank \cup SetOf(todo[t])
    /\ level' = [level EXCEPT ![t] = @ - 1]
    /\ IF Bottom(level'[t])
       THEN Goto(t, "release") /\ todo' = [todo EXCEPT ![t] = <<>>]
       ELSE Goto(t, "dfs") /\ UNCHANGED todo
    /\ UNCHANGED <<visited_url, active_threads, url, parent, spawned, history>>

SlotFreeOffByOne == active_threads <= MAX_THREADS
SlotFree == active_threads < MAX_THREADS

\* waitForSlot takes a slot under count_mutex, and the thread it is for is
\* created: nobody can tell the two apart.  A failed attempt changes nothing.
Spawn(t) ==
    /\ pc[t] = "dfs" /\ todo[t] # <<>>
    /\ SlotFree
    /\ spawned < MaxSpawns
    /\ active_threads' = active_threads + 1
    /\ spawned' = spawned + 1
    /\ pc' = [pc EXCEPT ![spawned'] = "visit"]
    /\ url' = [url EXCEPT ![spawned'] = Head(todo[t])]
    /\ level' = [level EXCEPT ![spawned'] = level[t]]
    /\ parent' = [parent EXCEPT ![spawned'] = t]
    /\ todo' = [todo EXCEPT ![t] = Tail(@)]
    /\ UNCHANGED <<visited_url, Url_bank, history>>

\* The join at the end of dfs.
JoinableUnwaited(t) == \A k \in Children(t) : pc[k] # "visit"
Joinable(t) == \A k \in Children(t) : pc[k] = "done"

Join(t) ==
    /\ pc[t] = "dfs" /\ todo[t] = <<>>
    /\ Joinable(t)
    /\ Goto(t, IF t = 0 THEN "done" ELSE "release")
    /\ UNCHANGED <<shared, url, level, todo, parent, spawned, history>>

\* releaseSlot, the last thing a worker does.
AfterLeak == active_threads
AfterRelease == active_threads - 1

Release(t) ==
    /\ pc[t] = "release"
    /\ active_threads' = AfterRelease
    /\ Goto(t, "done")
    /\ UNCHANGED <<visited_url, Url_bank, url, level, todo, parent, spawned, history>>

Step(t) == Visit(t) \/ Fetch(t) \/ Collect(t) \/ Spawn(t) \/ Join(t) \/ Release(t)

Next == \E t \in Threads : Step(t)

Spec == Init /\ [][Next]_vars

\* Every thread runs, and a waiting one looks at the slots every 50 ms; which of
\* them finds a slot that was free in between is nobody's promise.
FairSpec == Spec /\ \A t \in Threads : WF_vars(Step(t))

-----------------------------------------------------------------------------
(* Properties. *)

TypeOK ==
    /\ visited_url \subseteq Urls
    /\ Url_bank \subseteq Urls
    /\ active_threads \in 0..MAX_THREADS
    /\ pc \in [Threads -> {"unborn", "visit", "fetch", "bank", "dfs", "release", "done"}]
    /\ url \in [Threads -> Urls \cup {NoUrl}]
    /\ level \in [Threads -> 0..Level]
    /\ todo \in [Threads -> Seq(Urls)]
    /\ parent \in [Threads -> Threads]
    /\ spawned \in 0..MaxSpawns
    /\ fetches \in [Urls -> Nat]
    /\ read \subseteq Urls

\* The variables have their types, and every slot that is taken belongs to a thread
\* that has not returned, waiting parents included: none is leaked or given back
\* twice (main_dfs.cpp:66-86, 110).
SlotsExact == TypeOK /\ active_threads = Cardinality(Alive)

\* Slots are kept while waiting for the slots of children, which can starve all of
\* them.  As main calls it, two levels deep, it cannot come to that as long as
\* there are more slots than seeds: some slot is free or held by a thread that
\* waits for nobody (main_dfs.cpp:108, 122, 164).
RoomForLeaves ==
    Level <= 2 /\ Len(Seeds) < MAX_THREADS =>
        Cardinality({t \in Alive : pc[t] = "dfs"}) < MAX_THREADS

\* Frontier[n]: the URLs n links away from the seeds, along pages that were read.
Depths == 0..(Level - 1)
Frontier == Reach(Seeds, LinksOf, Level - 1, read)
Layered == \A m, n \in Depths : m # n => Frontier[m] \cap Frontier[n] = {}

\* The crawl has fetched exactly the URLs within Level - 1 links, each of them once
\* whichever branches of the recursion met at it, and banked the links of every
\* page it read: nothing runs any more when dfs is back in main.  (For URLs at one depth only: visited_url remembers no level;
\* main_dfs.cpp:91-108, 116-126.)
Coverage ==
    pc[0] = "done" =>
        /\ Layered =>
              \A u \in Urls :
                  fetches[u] = IF \E n \in Depths : u \in Frontier[n] THEN 1 ELSE 0
        /\ Url_bank = UNION {SetOf(LinksOf[u]) : u \in read}

\* The recursion ends and main gets past its joins.
Terminates ==
    Level <= 2 /\ Len(Seeds) < MAX_THREADS => <>(pc[0] = "done")
=============================================================================
