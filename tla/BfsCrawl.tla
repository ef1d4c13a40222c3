------------------------------ MODULE BfsCrawl ------------------------------
(***************************************************************************)
(* The multi-threaded breadth-first crawler, src/mainbfs.cpp.  The main    *)
(* thread takes entries from the shared queue, waits for one of            *)
(* MAX_THREADS slots and spawns a thread per entry; a thread claims its    *)
(* URL, fetches it, collects its links, queues them one level down and     *)
(* gives its slot back.  stop_crawl is raised when enough links have been  *)
(* collected.  Every mutex section is one step; what the code reads outside *)
(* a section is a step of its own.                                         *)
(***************************************************************************)
EXTENDS Integers, Sequences, FiniteSets, CrawlDepths

CONSTANTS
    Urls,
    LinksOf,        \* the links of each page, ascending as in the std::set
    Unreachable,    \* the URLs whose fetch may fail (no links come back)
    Seeds,          \* the urls that bfs is called with, ascending
    Level,          \* the level it is called with
    Machines,       \* the pairs of MAX_URLS and MAX_THREADS to consider
    MaxSpawns       \* bound on the threads spawned

ASSUME UrlsAssumption ==
    /\ IsFiniteSet(Urls)
    /\ LinksOf \in [Urls -> Seq(Urls)]
    /\ Unreachable \subseteq Urls
    /\ Seeds \in Seq(Urls)
ASSUME LimitsAssumption ==
    /\ Level \in Nat \ {0} /\ MaxSpawns \in Nat
    /\ Machines \subseteq (Nat \ {0}) \X (Nat \ {0})

Threads == 1..MaxSpawns
Entry == [url : Urls, level : 1..Level]
NoEntry == <<>>

VARIABLES
    q,              \* queue of entries, guarded by queue_mutex
    visited_url,    \* guarded by visited_mutex
    Url_bank,       \* guarded by bank_mutex
    stop_crawl,     \* atomic<bool>
    active_threads, \* guarded by count_mutex, read without it by bfs()
    MAX_URLS,       \* links to collect before stopping
    MAX_THREADS,    \* slots, as many as the machine has cores
    main,           \* where the main thread is in bfs()
    curr,           \* the entry the main thread has popped
    spawned,        \* threads.size()
    pc,             \* where each spawned thread is in thread_worker()
    job,            \* its url and level
    res,            \* the links it has fetched
    fetches,        \* history: how often each URL was fetched
    read            \* history: the URLs whose page came back

shared == <<q, visited_url, Url_bank, stop_crawl, active_threads>>
mainVars == <<main, curr, spawned>>
threadVars == <<pc, job, res>>
history == <<fetches, read>>
given == <<MAX_URLS, MAX_THREADS>>
vars == <<shared, given, mainVars, threadVars, history>>

AtLevel(s, level) == [i \in DOMAIN s |-> [url |-> s[i], level |-> level]]

Init ==
    /\ q = AtLevel(Seeds, Level)
    /\ visited_url = {}
    /\ Url_bank = {}
    /\ stop_crawl = FALSE
    /\ active_threads = 0
    /\ \E machine \in Machines : MAX_URLS = machine[1] /\ MAX_THREADS = machine[2]
    /\ main = "loop"
    /\ curr = NoEntry
    /\ spawned = 0
    /\ pc = [t \in Threads |-> "unborn"]
    /\ job = [t \in Threads |-> NoEntry]
    /\ res = [t \in Threads |-> <<>>]
    /\ fetches = [u \in Urls |-> 0]
    /\ read = {}

-----------------------------------------------------------------------------
(* The main thread, bfs(). *)

CheckStop ==
    /\ main = "loop"
    /\ main' = IF stop_crawl THEN "join" ELSE "look"
    /\ UNCHANGED <<shared, curr, spawned, threadVars, history>>

\* An entry is there: pop it (under queue_mutex).
PopEntry ==
    /\ main = "look"
    /\ q # <<>>
    /\ curr' = Head(q)
    /\ q' = Tail(q)
    /\ main' = "slot"
    /\ UNCHANGED <<visited_url, Url_bank, stop_crawl, active_threads, spawned, threadVars, history>>

\* q.empty() && active_threads == 0, both read under queue_mutex.
IdleIgnoringThreads == q = <<>>
Idle == q = <<>> /\ active_threads = 0

LeaveLoop ==
    /\ main = "look"
    /\ Idle
    /\ main' = "join"
    /\ UNCHANGED <<shared, given, curr, spawned, threadVars, history>>

\* Nothing to pop yet.  The unsynchronised read of active_threads may also return
\* a value from before the last decrement, and the loop goes round again.
LoopAgain ==
    /\ main = "look"
    /\ q = <<>>
    /\ main' = "loop"
    /\ UNCHANGED <<shared, curr, spawned, threadVars, history>>

\* waitForSlot: returns without a slot once stop_crawl is set.
WaitForSlot ==
    /\ main = "slot"
    /\ main' = IF stop_crawl THEN "spawn" ELSE "take"
    /\ UNCHANGED <<shared, curr, spawned, threadVars, history>>

SlotFreeOffByOne == active_threads <= MAX_THREADS
SlotFree == active_threads < MAX_THREADS

\* Its attempt under count_mutex; a failed one sleeps and starts over.
TakeSlot ==
    /\ main = "take"
    /\ IF SlotFree
       THEN active_threads' = active_threads + 1 /\ main' = "spawn"
       ELSE main' = "slot" /\ UNCHANGED active_threads
    /\ UNCHANGED <<q, visited_url, Url_bank, stop_crawl, curr, spawned, threadVars, history>>

\* With stop_crawl set the loop ends here, and a slot just taken is not returned.
Spawn ==
    /\ main = "spawn"
    /\ \/ /\ stop_crawl
          /\ main' = "join"
          /\ UNCHANGED <<spawned, threadVars>>
       \/ /\ ~stop_crawl
          /\ spawned < MaxSpawns
          /\ spawned' = spawned + 1
          /\ pc' = [pc EXCEPT ![spawned'] = "start"]
          /\ job' = [job EXCEPT ![spawned'] = curr]
          /\ UNCHANGED res
          /\ main' = "loop"
    /\ curr' = NoEntry
    /\ UNCHANGED <<shared, history>>

Join ==
    /\ main = "join"
    /\ \A t \in Threads : pc[t] \in {"unborn", "done"}
    /\ main' = "done"
    /\ UNCHANGED <<shared, curr, spawned, threadVars, history>>

MainStep ==
    /\ \/ CheckStop \/ PopEntry \/ LeaveLoop \/ LoopAgain
       \/ WaitForSlot \/ TakeSlot \/ Spawn \/ Join
    /\ UNCHANGED given

-----------------------------------------------------------------------------
(* A spawned thread, thread_worker(). *)

Goto(t, p) == pc' = [pc EXCEPT ![t] = p]

Enter(t) ==
    /\ pc[t] = "start"
    /\ Goto(t, IF stop_crawl THEN "release" ELSE "visit")
    /\ UNCHANGED <<shared, mainVars, job, res, history>>

\* visited_url.count and insert under one lock.
AlwaysNew(u) == TRUE
IsNew(u) == u \notin visited_url

Visit(t) ==
    /\ pc[t] = "visit"
    /\ visited_url' = visited_url \cup {job[t].url}
    /\ Goto(t, IF IsNew(job[t].url) THEN "fetch" ELSE "release")
    /\ UNCHANGED <<q, Url_bank, stop_crawl, active_threads, mainVars, job, res, history>>

\* globalLimiter.acquire and get_all_urls; a page that cannot be read has no links.
Fetch(t) ==
    /\ pc[t] = "fetch"
    /\ fetches' = [fetches EXCEPT ![job[t].url] = @ + 1]
    /\ \/ /\ res' = [res EXCEPT ![t] = LinksOf[job[t].url]]
          /\ read' = read \cup {job[t].url}
       \/ /\ job[t].url \in Unreachable
          /\ UNCHANGED <<res, read>>
    /\ Goto(t, "bank")
    /\ UNCHANGED <<shared, mainVars, job>>

BankFullExactly(bank) == Cardinality(bank) = MAX_URLS
BankFull(bank) == Cardinality(bank) >= MAX_URLS

Collect(t) ==
    /\ pc[t] = "bank"
    /\ Url_bank' = Url_bank \cup SetOf(res[t])
    /\ stop_crawl' = (stop_crawl \/ BankFull(Url_bank'))
    /\ Goto(t, "level")
    /\ UNCHANGED <<q, visited_url, active_threads, mainVars, job, res, history>>

\* !stop_crawl && level > 1, read before queue_mutex is taken.
DescendsOneDeeper(t) == job[t].level > 0
Descends(t) == job[t].level > 1

Decide(t) ==
    /\ pc[t] = "level"
    /\ Goto(t, IF ~stop_crawl /\ Descends(t) THEN "push" ELSE "release")
    /\ UNCHANGED <<shared, mainVars, job, res, history>>

\* All links are queued under one lock.
PushLinks(t) ==
    /\ pc[t] = "push"
    /\ q' = q \o AtLevel(res[t], job[t].level - 1)
    /\ Goto(t, "release")
    /\ UNCHANGED <<visited_url, Url_bank, stop_crawl, active_threads, mainVars, job, res, history>>

AfterLeak == active_threads
AfterRelease == active_threads - 1

\* db.insert_url, which nothing reads, then releaseSlot and return.
Release(t) ==
    /\ pc[t] = "release"
    /\ active_threads' = AfterRelease
    /\ Goto(t, "done")
    /\ job' = [job EXCEPT ![t] = NoEntry]
    /\ res' = [res EXCEPT ![t] = <<>>]
    /\ UNCHANGED <<q, visited_url, Url_bank, stop_crawl, mainVars, history>>

ThreadStep(t) ==
    /\ \/ Enter(t) \/ Visit(t) \/ Fetch(t) \/ Collect(t)
       \/ Decide(t) \/ PushLinks(t) \/ Release(t)
    /\ UNCHANGED given

Next == MainStep \/ \E t \in Threads : ThreadStep(t)

Spec == Init /\ [][Next]_vars

\* The scheduler runs every thread, and a decrement of active_threads is seen by
\* the main thread sooner or later, however often it looks.
FairSpec ==
    /\ Spec
    /\ WF_vars(MainStep)
    /\ SF_vars(LeaveLoop)
    /\ \A t \in Threads : WF_vars(ThreadStep(t))

-----------------------------------------------------------------------------
(* Properties. *)

Alive == {t \in Threads : pc[t] \notin {"unborn", "done"}}

TypeOK ==
    /\ given \in Machines
    /\ q \in Seq(Entry)
    /\ visited_url \subseteq Urls
    /\ Url_bank \subseteq Urls
    /\ stop_crawl \in BOOLEAN
    /\ active_threads \in 0..MAX_THREADS
    /\ main \in {"loop", "look", "slot", "take", "spawn", "join", "done"}
    /\ curr \in Entry \cup {NoEntry}
    /\ spawned \in 0..MaxSpawns
    /\ pc \in [Threads -> {"unborn", "start", "visit", "fetch", "bank", "level",
                           "push", "release", "done"}]
    /\ job \in [Threads -> Entry \cup {NoEntry}]
    /\ res \in [Threads -> Seq(Urls)]
    /\ fetches \in [Urls -> Nat]
    /\ read \subseteq Urls

\* The variables have their types, and active_threads counts the threads that have
\* not returned, plus the slot the main thread holds for the one it is about to spawn;
\* only stopping may leak it (mainbfs.cpp:37-59, 129-131).
SlotsAccounted ==
    LET held == active_threads - Cardinality(Alive)
    IN  /\ TypeOK
        /\ Cardinality(Alive) <= MAX_THREADS
        /\ held \in {0, 1}
        /\ ~stop_crawl => (held = 1 <=> main = "spawn")

\* bfs() leaves its loop on an empty queue only when no thread is left that could
\* still queue something, though it reads active_threads without its mutex
\* (mainbfs.cpp:122-127).
NoEarlyExit ==
    main \in {"join", "done"} /\ ~stop_crawl => q = <<>> /\ Alive = {}

\* No page is fetched twice, whichever threads meet at its URL
\* (mainbfs.cpp:69-77).
FetchedOnce == \A u \in Urls : fetches[u] <= 1

\* Frontier[n]: the URLs n links away from the seeds, along pages that were read.
Depths == 0..(Level - 1)
Frontier == Reach(Seeds, LinksOf, Level - 1, read)
Layered == \A m, n \in Depths : m # n => Frontier[m] \cap Frontier[n] = {}

\* However the threads overtake each other, a crawl that was not stopped has
\* visited exactly the URLs within Level - 1 links: no entry is dropped between
\* the threads and the loop, and none goes too deep.  (Not so for a URL at two
\* depths: visited_url remembers no level, and a URL first taken at the lower one
\* is not expanded again; mainbfs.cpp:72, 90.)
Coverage ==
    main = "done" /\ ~stop_crawl /\ Layered => visited_url = UNION {Frontier[n] : n \in Depths}

\* After stop_crawl is raised only the threads that already passed their check
\* still add links: at most one page per slot (mainbfs.cpp:63-67, 83-88).
MaxOutDegree == CHOOSE d \in {0} \cup {Len(LinksOf[u]) : u \in Urls} :
                    \A u \in Urls : Len(LinksOf[u]) <= d
BankBounded == Cardinality(Url_bank) <= MAX_URLS - 1 + MAX_THREADS * MaxOutDegree

\* The crawl ends: every thread returns and bfs() joins them all.
Terminates == <>(main = "done")
=============================================================================
