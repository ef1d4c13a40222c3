# A TLA+ model of KTengsearch

KTengsearch is a small search engine in C++: crawl workers that share a Redis server,
pages in MySQL, a batch indexer, and a BM25 search program behind an HTTP gateway. This
directory models its crawlers with what they stand on (the fetcher, the construction of
HTML trees, the Redis connection, the limiter), its document cache and its path from
stored pages to ranked hits, checks them with TLC on small instances and proves with
TLAPS, for every instance, every safety property that holds but one: those of everything
that runs as processes and threads (the worker, the limiter, both crawlers, the document
cache, the indexer with a search over it, and the Redis connection, bytes included), of
the fetcher, and of the functions on texts. The one that is only model-checked is that of
the HTML parser. All line numbers are those of the repository.

## 1. Inventory

| Component | Code | State | Operations | Talks to |
|---|---|---|---|---|
| Crawl worker | `worker_v3.cpp` | Redis: `task_queue`, `visited_set`, `success_counter`; per process: connection, current URL, links left to push | BRPOP, SADD, fetch, INSERT, INCR / GET, EVAL per link | Redis, MySQL, fetcher, limiter; any number of processes |
| Rate limiter | `RateLimiter.cpp` | deque of time stamps under a mutex | `acquire` | all threads of a process |
| Breadth-first crawler | `mainbfs.cpp` | queue, visited set, link bank, stop flag, slot count; four mutexes | `bfs`, `thread_worker`, `waitForSlot`, `releaseSlot` | limiter, fetcher |
| Recursive crawler | `main_dfs.cpp` | visited set, link bank, slot count | `dfs`, `worker` | fetcher |
| Redis client | `hiredis/hiredis.c`, `read.c`, `net.c` | output buffer, sticky error; per reader: buffer, position, task stack, reply under construction | `redisCommand`, `redisReaderGetReply` | worker, server |
| HTML parser | `gumbo-parser/src/parser.c` | open elements, active formatting elements, pending text, insertion mode | `gumbo_parse` | links, content |
| Page fetcher | `LinkFetcher.cpp`, `HTML_getter.cpp` | robots rules per domain, last HTTP status, the lists of links of the last page | `get_all_info`, `get_all_urls`, `isAllowed`, `parseRobots` | web, parser, filter |
| Links | `URL_getter.cpp`, `URL_filter.cpp` | the links of one page | `resolve_url`, `collect_links`, `filtrate` | fetcher |
| Content | `Content_getterv2.cpp` | none | `extract` | fetcher |
| Page store | `DB_manager.cpp` | table `url_log` | `insert_page`, `fetchAllPages`, `execute` | MySQL |
| Indexer | `Indexer.cpp`, `Tokenizer.cpp` | term table in memory, table `inverted_index` | `buildAll` | page store |
| Retrieval | `IndexReader.cpp`, `Retriever.cpp`, `Ranker.cpp` | cached statistics | `retrieve`, `rank` | MySQL |
| Document cache | `DocumentStore.cpp` | LRU list and map under a mutex | `getHeader`, `getContent` | MySQL |
| Snippets | `SnippetGenerator.cpp` | none | `generate`, `highlight` | document cache |
| Search program | `SearchEngine.cpp`, `APItest.cpp` | none | `search`, `cleanUTF8` | all of retrieval |
| Gateway, page | `test.py`, `script.js` | none | one subprocess per request | search program |
| Others | `worker_v2.cpp` (an earlier worker), `URL_checker.cpp` (unused), demonstration programs, scripts, the rest of the vendored `hiredis`, `gumbo-parser`, `third_party` | | | |

What is hard here, and what would make each component correct:

* **Crawl worker.** Processes interleave between Redis commands and may die or
  lose a reply at each of them. A URL must be fetched at most once; the counter
  must not run away from the target, nor from the table; what is lost must be
  accounted for by faults; queued work must be done while somebody works.
* **Rate limiter.** The clock is read *before* the mutex is awaited, so time
  stamps may be old and out of order. Grants must nevertheless be spaced, sleeps
  bounded, and nobody refused for nothing.
* **Breadth-first crawler.** The loop decides to end from a queue and a count
  that are guarded by different mutexes. It must not end early, fetch twice or
  skip an entry; slots must balance; it must end.
* **Recursive crawler.** A worker holds its slot while its children wait for
  theirs: deadlock.
* **Document cache.** `getContent` checks under the mutex, queries without it,
  and writes back under it; map and list must stay in step, and the cache within
  its capacity.
* **Indexer and ranker.** The index is written row by row while readers cache
  statistics of it at different times.
* **Redis client.** Commands and replies are cut anywhere on their way. A command
  must get its own reply, a reply must be seen when it is complete, and after an
  error nothing may be sent any more.
* **HTML parser.** Misnested tags move and copy elements. The result must be a tree
  that has each text once, in order, and in the link in which the source has it.
* **Page fetcher.** Its rules and lists live from page to page: no answer may tell
  of another page, and it may ask for no page that robots.txt disallows. curl follows
  redirects by itself, where nothing looks at the rules.
* **Text functions** (links, terms, snippets, UTF-8). Boundary arithmetic.

## 2. Modules

| Module | Models | State and actions |
|---|---|---|
| `CrawlWorker` | `worker_v3.cpp`, with what the worker sees of hiredis, `insert_page` and `get_all_info` | `task_queue`, `visited_set`, `success_counter` are the Redis keys, `url_log` the stored URLs; `pc`, `link`, `url`, `todo` the locals of each process. One action per command: `Pop` (BRPOP and the parse of the task), `Claim` (SADD), `Fetch`, `Insert`, `Count` (INCR, the exit, the choice to spread), `ReadCount` (GET), `Push` (one EVAL of `LUA_PUSH`), and `Start`, `Crash` |
| `CrawlQuota` | what a crawl promises, without workers, connections or order | `Take`, `Offer`, `Claim`, `Harvest`, `Score` |
| `CrawlWorkerProofs` | theorems about `CrawlWorker` | |
| `RateLimiter` | `RateLimiter.cpp` | `Call` and `Retry` read the clock, `Enter` is the critical section (`Expired` pops, then `Grant` or `Refuse`), `Tick` is time. The deque is `stamps` without its first `popped` entries |
| `CrawlDepths` | | what both crawlers' `Coverage` is stated with: the URLs of a list, and those that lie at a depth behind the pages read |
| `BfsCrawl` | `mainbfs.cpp` | main thread: `CheckStop`, `PopEntry` / `LeaveLoop` / `LoopAgain`, `WaitForSlot`, `TakeSlot`, `Spawn`, `Join`; threads: `Enter`, `Visit`, `Fetch`, `Collect`, `Decide`, `PushLinks`, `Release`. A mutex section is one step; a read outside of one is a step of its own |
| `DfsCrawl` | `main_dfs.cpp` | `Visit`, `Fetch`, `Collect`, `Release` of a worker, `Spawn` and `Join` of the dfs that it, or main, runs; `parent` and `todo` are the call stack |
| `DocumentStore` | `DocumentStore.cpp` | `cache` and `lru` with `HeaderHit` / `HeaderMiss` ... `HeaderInsert` under the mutex, `ContentHit` / `ContentMiss` ... `ContentWrite` with the mutex released in between; `addDocument`, `numDocs` |
| `Indexer` | `Indexer.cpp`, `indexmain.cpp`, `fetchAllPages` | `BuildAll` takes the snapshot and counts it, `SaveRow` is one INSERT, `BuildDone` / `BuildCrash` end the run, `AddPage` is a crawler at work |
| `IndexedSearch` | `IndexReader.cpp`, `Retriever.cpp`, `Ranker.cpp`, `SearchEngine::search` up to its ranking; extends `Indexer` | one action per SELECT: `Open`, `Parse` (the two global statistics), `RetrieveTerm`, `Filter`, `ReadDocFreq`, `ReadDocLength`; `Meanwhile` is a step of the indexer or a crawler |
| `Snippet` | `SnippetGenerator.cpp` | `generate`: `stripHTML`, `Excerpt`, `Cut`, `escapeHTML`, `highlight` (`HitsOfTerm`, `Sorted`, `Merged`, `Tagged`) |
| `Utf8` | `cleanUTF8` of `APItest.cpp` | bytes by their leading bits |
| `Links` | `URL_getter.cpp`, `URL_filter.cpp` | URLs cut at their slashes, pages as their `<base>` and `<a>` elements |
| `PageText` | `Content_getterv2.cpp` | `dfs` over trees of texts and elements, one level of depth after the other (`Walk`) |
| `Tokenizer` | `Tokenizer.cpp`, and so `QueryParser.cpp` | `getstrs`, a loop over the bytes |
| `TextFunctions` | | one state per input of a text function (`TextSpec`), for any sets of inputs, and the properties `SnippetExact`, `BytesExact`, `LinksExact`, `TextIsPrefix`; extends the five modules above |
| `HtmlTree` | tree construction of `gumbo-parser/src/parser.c` | the parser's state as a record, `handle_token` with one operator per insertion mode, the adoption agency algorithm step by step |
| `Page` | what `URL_getter.cpp` and `Content_getterv2.cpp` take from a parsed tree; extends `HtmlTree`, `Links`, `PageText` | `LinksOf`, `extract` |
| `LinkFetcher` | `LinkFetcher.cpp`, `HTML_getter.cpp`; extends `Links` | `robotsRules`, `urls`, `filtered_url`; a call of `get_all_info` or `get_all_urls` ends as `Refuse`, `MissPage`, `TakePage` or `TakeLinks` (one thread owns a fetcher, so a call is one step). `get` is one `HTML_getter::get`, with the requests that redirects add. What the parser and the extractor make of a page are the constants `ElementsOn` and `TextOn`, to which a run gives `LinksOf` and `extract` of `Page` |
| `RespReader` | `hiredis/read.c` and the `create*Object` functions | the reader as a record: buffer, position, task stack, reply, error; `processItem` and its three kinds of item |
| `RedisClient` | `redisCommand` on a blocking context; extends `RespReader` | `Command`, `ProcessItem`, `EndReply`, `CallRefused`, `Write`, `Read`, `Interrupt`, `ConnectionFails`; external: `Run`, `Garble`, `Close` |
| `CommandLink` | what the worker takes a connection to be | `Send`, `Run`, `Answer`, `Break`, `Fail`, `Disappoint` |
| `BfsCrawlProofs`, `DfsCrawlProofs`, `DocumentStoreProofs`, `IndexedSearchProofs`, `RedisClientProofs` | theorems about the modules they are named for | |
| `FetchProofs` | theorems about `LinkFetcher`, `TextFunctions` and `RateLimiter`, what a crawler's `get_all_info` and a search's answer stand on | |
| `SharedLemmas` | lemmas on numbers, finite sets, sequences and depths that several of the proofs cite | |
| `MCTextFunctions` | | a `LinkFetcher` at work, or one state per input of a text function or of the parser, and the property of the parser |
| `MCCrawlWorker`, `MCBfsCrawl`, `MCDfsCrawl`, `MCDocumentStore`, `MCIndexedSearch`, `MCRedisClient` | webs, pages, queries and symmetry for TLC | |

`CrawlWorker` uses neither the limiter's nor the fetcher's details: a fetch takes
its time anyway (the step may come late) and its outcome is chosen. Its Redis
connection is `CommandLink` put shortly: `Outcomes` are an `Answer`, a `Break`
before or after `Run`, and a `Fail`. `CommandLink` lets a sent command run after the
worker has been told NULL; `CrawlWorker` runs it at that moment. Nothing that other
processes see happens in that worker any more, so its step may as well come late. Several
operators have a sibling defined just before them (`FirstTime` and `AnyTime`,
`Idle` and `IdleIgnoringThreads`): the sibling is a plausible mistake in that
line, kept to show that the properties notice it. No specification uses it.

Decisions worth knowing:

* **Connection errors.** hiredis answers NULL, at once and for ever, after an
  error on a connection (`hiredis/hiredis.c:985, 1011`), and the worker never
  reconnects. `Outcomes` gives each command the outcomes answered, lost (run, no
  reply), unsent, refused; after a lost or unsent one, `link[w]` is FALSE. In
  BRPOP such a worker spins; this is a stuttering step. That the connection is like
  this is what `redis_link` checks. (The commands of the spinning worker pile up in
  its output buffer, `hiredis.c:1113`, which no error stops from growing.)
* **RESP.** Bytes are their codes; a client sees a reply as a function from places to
  objects, a server sends it as the sequence of its objects, each in its place
  (`NextPlaces`). The server's side (`Bytes`, numbers as `Decimal`) is written from the
  protocol, not from the reader, for replies of any depth and length. What is no reply is
  a good beginning and then a line that makes no object. A
  server with too many clients sends its error before it is asked, so the first
  command (`SETNX`) takes this for its answer. The reader also parses the types of
  RESP3, which Redis sends only to a client that asked for them and this one does not:
  no reply has one, and no malformed one begins with one (`Resp3Letters`).
  `Discard` stands for 1024.
* **Pages** are sequences of tokens, the texts with numbers of their own. `HtmlTree`
  leaves out white space, tables, selects, templates and foreign elements, so that
  only `<html>` ends a scope and no marker enters the list of formatting elements.
* **robots.txt** is a sequence of lines, in any order. A rule may end in the carriage
  return that `getline` leaves. `Standing` says, without the loop of the code, which
  rules of a file are left to stand (see section 3).
* **Redirects.** `HTML_getter.cpp:34` lets curl follow them, so that one call of `get`
  sends a request for each URL on the way. `way`, one of `Detours`, has those URLs; they
  may be any, of any site. The fetcher sees only the last body, and keeps the URL that it
  asked for as the base of the links (`LinkFetcher.cpp:130`).
* **A cached header** has a docID apart from the fields that come from the row: the docID
  is set where the entry is made (`DocumentStore.cpp:77, 178`), the others again by each
  `getContent` (`:186-191`).
* **Links** are strings `url|1`; `UrlOf` is the parse up to the first `|`, so
  that links containing one collapse to the same URL. `RowKey` is what the
  unique key `uq_url` sees of a URL.
* **`active_threads`** is read in `bfs` without `count_mutex`. `LoopAgain` lets
  this read return a value from before the last decrement. It cannot miss an
  increment, which only the main thread itself makes.
* **One MySQL connection, several threads.** `getContent`, `addDocument` and
  `numDocs` send queries without the mutex that `getHeader` holds around its own.
  Once two are in flight the connection's answers are undefined: `tangled` makes
  every later answer any row, none or an error. `APItest.cpp` uses one thread, so
  this is about the class as its mutex offers it.
* **Counting** of tokens and of pages is a recursive function over the sequence, as the
  loops of the code are, and no fold, so that it can be proved about. Sums that a property
  takes over an index are cardinalities of the pairs they count.
* **Rows and pages** are told by their docIDs; `Bodiless` are those with an empty
  content. What the tokenizer makes of a page is the constant `Tokens`. Its
  tokens are ASCII letters and digits, in lower case, so MySQL's collation sees
  the same terms as the program does.
* **A SELECT of a search that fails** answers 0 or nothing, as in the code.
  `upset` remembers that it happened, or that a row was written during the
  search; the properties that need peace say so.
* **A bound of MAX_URLS = 2** (1000 in the code) or `MAX_THREADS` = 2, 3 changes
  no branch: the constants are only compared.

## 3. Runs

| Run | Question | Instance |
|---|---|---|
| `crawl_faults` | Is a URL fetched once, is the overshoot of the target and the loss of URLs bounded, is a counted page stored, and does all this implement `CrawlQuota`, whatever fails? | 2 workers, 4 process starts, 3 URLs, 4 links, target 2; crashes, lost, unsent and refused commands |
| `crawl_live` | With processes and Redis sound: is anything lost, is queued work done, does the crawl come to rest? | the same web, MySQL may fail and two URLs share a key |
| `bfs_threads` | Does `bfs` end, neither early nor late, with exactly the pages within its depth; and what may still happen when `stop_crawl` is raised? | 8 URLs in layers, one page may fail; as `Machines`, (target, slots): (9, 3), where the target is out of reach, and (3, 2), where it is not |
| `limiter_threads` | What spacing does the limiter ensure, and does it serve everybody? | 3 threads, 2 permits per 2 ticks, 5 calls |
| `dfs_slots` | Can slots held by waiting parents starve their children; do slots balance; is every page within the depth visited once? | 3 slots, 2 seeds, 6 pages, two levels, two pages may fail |
| `store_cache` | Does the cache stay a least-recently-used one and file each row under its document, and is the mutex free after every call? | 2 callers, 3 documents, 2 cache places, 5 calls |
| `search_index` | Is every row of the index right and are completed runs lasting, whatever fails; does a search combine figures that fit together while rows are written? | 2 pages, 2 terms, 2 queries (one repeats a term), 2 runs of the indexer, 1 search |
| `redis_link` | Does the client implement `CommandLink`, and does each command return? | 3 commands of 2 bytes, 8 replies (CRLF inside a string, empty strings, nested and empty arrays, both nils), 5 malformed ones; every way to cut them |
| `text_functions` | Does each text function, the parser and the fetcher do what it promises, at every boundary? | contents of 6 characters with a window of 3, byte strings of 5, texts to cut into terms, pages of 3 elements, trees of depth 3; pages of 4 tokens of 17 kinds, of 5 of the 8 kinds that tangle, well nested ones of 7; 2 page requests of one fetcher, each with or without a redirect, to sites with 4 robots.txt files: lists of agents in each order, carriage returns, an empty path; a reference definition for each (178 939 states) |
| `crawl_blocked` (violation) | `worker_v3.cpp:120`: do workers leave once the target is met? | 2 workers, no faults |
| `limiter_window` (violation) | `RateLimiter.h:7`: at most `max_req` calls in a window? | 2 threads, 1 permit |
| `search_pairing` (violation) | `Ranker.cpp:85`: does `vec[i]` belong to `terms[i]`? | the same pages, no faults, no concurrent run |

What they show:

* SADD is the only arbiter between workers, and it is enough: no page is fetched
  twice, even across crashes (`OneClaimPerUrl`). The price is loss: a URL claimed
  by a worker that dies is never fetched; one at most per process run
  (`LossBounded`), none without faults (`NothingLost`).
* The target is soft. `OvershootBounded` says by how much: a process run adds at
  most one page beyond the target.
* The counter never runs ahead of the table (`CountedPagesStored`) *if* MySQL takes
  every row and no two URLs share a key; otherwise the second page is counted
  without a row, for INSERT IGNORE skips it and nobody looks at the result.
* A worker that sleeps in BRPOP when another one meets the target stays there
  (`crawl_blocked`): nobody pushes any more, and BRPOP has no time-out.
* The limiter spaces a grant from the time *read* by the grant `max_req` before
  it (`GrantsSpaced`), not from that grant; with `Window` and `MaxDelay` as the
  delay between reading and entering, max_req + 1 grants span at least
  `Window - MaxDelay` (`limiter_window` shows less than `Window`).
* The loop of `bfs` is right although it reads two variables under one of their
  two mutexes: a thread queues its links before it gives back its slot.
  `Coverage` needs the layers: `visited_url` knows no levels, so a URL that is at
  two depths may be taken at the lower level first and not expanded.
* The recursive crawler is free of deadlock because of how `main` calls it, not
  because of its design: two levels, and fewer seeds than slots (`RoomForLeaves`).
  With one hardware thread, as many seeds as slots, or three levels with enough
  links, all slots are held by workers that wait for slots, and nothing moves.
* The document cache keeps map and list in step, and in the order of use, through the
  window in which `getContent` holds no lock, because it looks its document up again. A
  blank header cached before a row was written stays until `getContent` reads the row, and
  then gets every field but its docID, which stays 0 for as long as the entry lives.
  (Nobody reads it: `SearchEngine.cpp:36-42` uses its own.) Also, a `getContent` that
  found no row writes its blanks over an entry that another call may have filled
  meanwhile. `RowsBelong` is as strong as that allows: docID and fields are there for
  documents whose row is older than the cache, and a content that is cached has its own
  fields in the header beside it. All of it needs that no two queries meet on the
  connection.
* The index never holds a wrong row (`IndexSound`), only too few of them; a run
  that finishes without a rejected row is not undone by later ones
  (`CertifiedComplete`), since they only rewrite what is there.
* A search during a run of the indexer may find a term in more documents than
  `totalDocs_`, and then takes the logarithm of a negative number. It cannot
  when the index stands still (`ScoreDefined`). What it reads later does cover
  what it read earlier (`SearchCoheres`).
* Postings belong to the terms they are paired with if a hit has all terms
  (`SearchCoheres`), but not under the fallback to some (`search_pairing`).
* Every useful link that names its scheme and host or starts with a single slash is
  followed, and whatever is followed leads where a useful link of the page is meant to
  lead (`LinksExact`). More is not promised, and here the code does not do what its
  comments say. "`//` inherits the scheme" (`URL_getter.cpp:53`): it gets the scheme
  without its colon (`:57`). "Relative paths are resolved against the base's directory"
  (`:64`): they are, but joined without the empty segment behind the scheme (`:65-82`).
  `filtrate` then drops both as not absolute, so that a crawl never follows a relative
  link or one that starts with `//`. A reference that climbs
  above the scheme itself leaves `parts.front()` undefined (`URL_getter.cpp:80`);
  `ClimbRight` says that none that climbs less does.
* A snippet shows the first hit and marks the terms exactly (`SnippetExact`),
  with two remarks: a term that overlaps itself may be marked in part, and the
  marks are set after the escapes, so that a query for "amp" marks inside
  `&amp;`. A cut inside a character is repaired by `cleanUTF8`, which loses
  nothing else (`BytesExact`).
* The stored text of a page is a beginning of its visible text (`TextIsPrefix`);
  400 bytes is where it stops taking more, not how much it can be.
* Documents and queries are cut into the same terms, and a term is cut into itself
  (`BytesExact`).
* However tags are misnested, the tree has each text once and in the order of the source,
  and a text is in a link exactly if the source has it after an `<a>` that is not ended
  (`TreeRight`). The crawler follows every useful link of the source that names its host
  or has one leading slash, and besides only copies that the parser made of a link and
  that a later `<base>` leads elsewhere. Text right before `</form>` is stored although
  forms are hidden: the parser takes the form from its stack while that text is pending
  (`parser.c:2619-2642`) and so puts it behind the form; `ShownRight` names this
  exception.
* Of the URLs it is called with, the fetcher asks for exactly those whose path no
  standing rule begins, and for each robots.txt once, before the first page of its site
  (`RobotsObeyed`). Which rules stand is not quite what a robots.txt says (RFC 9309), and
  `Standing` names the differences: a rule with a carriage return matches nothing, so that
  a file with CRLF line ends disallows nothing; in a list of several agents only the last
  one counts (`LinkFetcher.cpp:59`), so that the rules are passed over if another agent
  comes behind `*`; an empty `Disallow: ` blocks the whole site, for every path begins
  with it (`:82`); and Allow is not read. A robots.txt that does not come allows
  everything, and is not asked for again by the same fetcher. Not in the model: field
  names are compared with their case and one space.
* Nothing is promised of redirects. The URL one leads to may be disallowed, on another
  site or seen before, and nothing bounds how many requests one `acquire()` pays for:
  one for a page, one for a new site's robots.txt, and all that redirects add to either.
* A fetcher that is used again answers with the links of its own page only
  (`AnswerIsOfItsPage`), for both lists are cleared where they are filled. They lead
  where they should also if a redirect within the site led to the page. If it led to
  another site, links with one slash lead to the site that was asked for.
* A Redis command gets its own answer or NULL, no reply is misread wherever it is
  cut, and after the first NULL nothing reaches the server (`ImplementsLink`): so a
  worker may take NULL for the end of its connection.
* Other comments the code does not follow: a success is said to need links
  (`worker_v3.cpp:4`, `LinkFetcher.h:17`), but `ok` is set before the links are
  extracted (`LinkFetcher.cpp:124`); the model follows the code.

Bounds. `MaxStarts`, `MaxCalls`, `LastCall`, `MaxTime`, `MaxSpawns` only end the
exploration. Four starts of two workers give each a restart, and let one restart
while the other is anywhere in its loop. `MaxSpawns` is at least the number of
entries the web can queue, so it never disables `Spawn`. `MaxTime` leaves room
for every call made until `LastCall` to be granted. Five calls on three documents
fill a cache of two, evict, and leave one call to be caught between its lookup
and its write-back. Two pages and two terms are enough for a term in both pages
and one in a single page, a query that one page satisfies whole, or none as long
as rows are missing, and a run of the indexer that stops anywhere between their
three rows; a second run follows the first one's failure. `CHECK_DEADLOCK FALSE` is
stated everywhere because the systems stop: the crawl ends, no more calls or commands come,
or the workers are blocked in BRPOP (a state the model keeps on purpose). The bound
`MaxSearches` is one because `APItest.cpp` makes one search per process and a
search changes nothing. Four tokens are enough for a formatting element, a block
inside it, its end tag and a text, five of the tangling ones for two formatting
elements around a block; up to the bounds of a run every sequence of tokens is tried.
The Redis replies need up to 18 bytes and four levels of the task stack, and three
commands let one follow an answer and one an error. Two page requests are a page and the
one whose answer it may leak into; a call that is refused or misses its page may come
before, between and after. One detour is enough, since the fetcher sees of a redirect only
what came in the end: it ends on the site that was asked for or on the other one.

Fairness. `CrawlWorker`: weak fairness of each worker's loop; a process start and
a crash owe nothing. `RateLimiter`: time goes on, and a thread that can take its
step does; nobody has to call. `BfsCrawl`: weak fairness of every thread, and
strong fairness of `LeaveLoop`, since the main thread looks at `active_threads`
again and again and sees the last decrement eventually (it is ordered after it
through `queue_mutex` and the thread's end, or by cache coherence). `DfsCrawl`: weak
fairness of every thread; a spawner is not promised the slot that was free
between two of its looks. `RedisClient`: the client runs; signals do not
interrupt `recv` for ever, so bytes that are there are read and a closed stream is
noticed in the end (strong fairness); a server that has its command answers or
closes. BRPOP waits for as long as Redis lets it, and nothing is claimed about that.
`DocumentStore`, `Indexer`, `LinkFetcher` and
`IndexedSearch` are checked for safety only: a process may stop anywhere.

## 4. Proofs

Assumed are only the named assumptions on the constants, which TLC evaluates. Those that
say something about the code's surroundings: URLs that are asked for have a scheme and a
host, and some request is not redirected (`WebAssumption`), the empty body has no links
(`ParserAssumption`), lower case twice is lower case (`LowerAssumption`), a tag is no
character (`CharsAssumption`), and the dots that mark a cut occur in no page and query
terms are not empty (`InputsAssumption`; dots of the page itself could not be told from
those). All theorems are of the form `Spec => ...` and hold for any number of workers,
threads, URLs, pages, terms, documents and faults, for every web, and for replies of any
length and depth. Each module proves that an invariant holds at first and is kept by every
action, one lemma per action or per conjunct, and draws its theorems from it.

`CrawlWorkerProofs`
* `TypeCorrect`: the type invariant is inductive by itself, with `LocalsOK`
  (a worker has a URL in hand exactly in the busy part of its loop).
* `ClaimsAreExclusive`: `OneClaimPerUrl` is not inductive: nothing in it prevents
  a claim of a URL that was fetched. The invariant adds that what is fetched or
  in a worker's hands is in `visited_set`, and that a URL about to be fetched has
  not been.
* `LossIsBounded`, `OvershootIsBounded`: budgets. Each start adds one live process
  and one unit; a unit is used by an orphaned URL or by a page beyond the target,
  and each of these ends the life of its process.
* `CountedPagesAreStored`: the counter, plus the pages between INSERT and INCR,
  against the pages stored, with distinct keys.
* `NothingIsLost`: without faults of processes or Redis, every process that runs is
  connected, no URL is orphaned, and the counter plus the pages in hand is the
  number of pages that came back (`LosslessInv`).
* `WorkersImplementQuota`: each action maps to an action of `CrawlQuota` or to a
  stutter; it needs that the counter is below the number of harvested pages
  whenever some worker is about to INCR.

`BfsCrawlProofs`
* `SlotsAreAccounted`: the slots taken are the threads alive, plus one exactly while
  the main thread is about to spawn; when it was stopped, that one may remain (`SlotInv`).
* `LoopIsNotLeftEarly`: from it, the read of `active_threads` may be old, but a value of
  zero means that no thread is alive, for only the main thread makes more of them.
* `PagesAreFetchedOnce`: the URL of a thread that is about to fetch is visited, not
  fetched, and in no other thread's hand.
* `BankIsBounded`: once the crawl is stopped, the bank plus the links that the threads
  past their check can still add does not grow (`BankInv`).
* `CrawlCovers`: two halves. No entry is too deep: the level of an entry is that of its
  URL (`DepthInv`). And nothing is dropped (`CoverInv`): a link of a page that was read
  is visited, or waits in the queue or in somebody's hand, or its page is still being
  expanded. When nobody has anything in hand, every depth is visited, by induction over
  the depths.

`DfsCrawlProofs`
* `SlotsAreExact`: by counting the threads alive.
* `LeavesFindRoom`: `LineInv` says who waits for whom: a parent was born before its
  child, is in its `dfs`, and is one level above it. So two levels down nobody but the
  threads of the seeds waits with a slot, and of these there are no more than seeds
  (`SeedInv`).
* `CrawlCovers`: as above; what waits is on the call stacks. When main is back nobody
  is alive, since a living worker would have a living parent with a smaller number.

`DocumentStoreProofs`
* `CacheStaysLru`: the list is the first `Cap` of the documents in the order of their
  last use, and the map has exactly these (`LruInv`). A `getHeader` that waits for its
  row keeps the mutex, so nobody has cached its document meanwhile (`CallInv`).
* `RowsStayTheirOwn`: a row in a caller's hands is that of its document, or there was
  none when it was asked for, and the same holds of the fields of every entry; none
  is missing, nor is the docID, where the row was there from the start. All this
  for as long as no two queries have met (`RowInv`).

`IndexedSearchProofs`
* `RowsAreTrue`: not inductive by itself, for a row is written from memory. The invariant
  adds that the table in memory is that of a set of stored pages, each counted whole
  (`Indexed`), which is proved of `BuildTable` by induction over pages and tokens.
* `FinishedRunsLast`: the postings of a run that have had their INSERT are rows, unless
  one was rejected; so a run that ends has written all of them.
* `RetrieveIsExact`, `ScoresAreDefined`: as long as no row is written and no SELECT fails,
  what the search has read is still so (`StillInv`).
* `ReadsFitTogether`: for the other case, in which rows are written in between. Hits are
  rows and rows stay (`HitInv`), so what is read after them covers them (`StatInv`).

`RedisClientProofs`
* The reader: the bytes of an object are recognised as such. Numerals are read back as
  the number they were made from, the line ends at its own CRLF and not at one inside,
  and a bulk string is taken whole. The task stack is determined by the objects made
  so far: it is the path to the next one (`Stack`). So one turn of the loop makes the
  next object or waits (`TurnStep`), the stack is empty exactly behind the last
  (`Complete`), and a reader that waits has nothing to do until bytes come (`StuckAfter`).
* `ClientStaysInStep`: the invariant of the connection. As long as there is no error,
  what the reader and the wire hold together is nothing, or what is left of the answer to
  the command the client is at, or the rest of what is no reply (`Stream`); commands are
  counted alike on both sides (`InStep`, `ServerInStep`); an error of the reader means
  that the server was not Redis (`Misread`).
* `ClientImplementsLink`: each step maps to one of `CommandLink` or to a stutter.

`FetchProofs`, the fetcher
* `RobotsAlwaysObeyed`: for any number of sites, pages, redirects, and files with any
  number of lines. The invariant (`FetcherInv`) is about the history: every request of the
  fetcher is for a domain whose rules are known, no page is asked for that those rules
  disallow, and the rules of a domain were asked for once and before all else there
  (`Orderly`); the rules kept are those in the file that was served (`Filed`); and what was
  not asked for was disallowed or is a page that was asked for before (`LastJudged`). What
  is read from a file is then compared with what stands in it: a line is collected exactly
  if the last agent line before it names `*` (`On`), which is exactly if `*` is the last of
  the agents that head it (`OnIsLast`), and a rule with a carriage return matches nothing.
* `AnswersAreOfTheirPages`: inductive by itself, for whatever the lists hold before a
  call, all that its answer is made of is cleared or overwritten in it. Where followable
  links lead depends on scheme and host of the base only (`SiteLinks`), so that redirects
  within a site do no harm.

`FetchProofs`, the functions on texts: for texts, pages and URLs of any length. Each state
has one input, so each theorem is a lemma about the function, and the work is induction
over its loop.
* `LinksAlwaysExact`: what `collect_links` has gathered after n elements is the base and
  the links of the first n (`Resolved`), and what `resolve_url` has on its stack after n
  parts is what the parts mean. What it makes absolute are the links that name their
  scheme or have one leading slash, and these it sends where they lead (`ResolvedRight`).
* `BytesAlwaysExact`: `cleanUTF8` jumps ahead, so the induction runs from the end of the
  text (`DownTo`): from each place on, what is kept are the bytes of the whole sequences
  that begin there or later (`KeptFrom`). `getstrs` is at any moment behind the words that
  have ended, with a beginning of the one it is in (`ReadSoFar`, `InWord`); a term in
  lower case is one word.
* `TextAlwaysPrefix`: by induction over the depth (`LevelRight`). Behind any node, what
  has been taken is what was there before and then the visible texts of the node, all
  of them or as many as it takes to pass the limit (`TakenFrom`).
* `SnippetAlwaysExact`: the window by arithmetic (`Placed`). Each occurrence of a term is a
  hit, or begins inside one and then the term overlaps itself (`HitsRight`, from the end
  of the text). `Sorted` has all hits in order, since no two have the same number of hits
  before them. Merging keeps the places the intervals hold and leaves them apart
  (`Extends`). Tags are set from the last interval to the first: what is behind the place
  reached reads as it must (`Done`), what is before it is still text (`Left`).

`FetchProofs`, the rate limiter
* One invariant: what was popped is a window older than some thread's time, and
  every stamp and every time in hand is at most `clock`, at least `clock - MaxDelay`.
  From it `LimiterTypes` (with the length of the deque), `LimiterSpacesGrants`,
  `LimiterSleepsAreBounded` and `LimiterRefusalsArePaid`.

Induction. The theorems of the library that take an operator cannot be used with
the installed provers. `SharedLemmas` has what replaces them: a set of numbers
that is not empty has a least element, a set that holds 0 and with each number the next
holds all, and a function that is defined by recursion over 0..n exists. With these,
recursive functions (`Reach`, `BuildTable`, `Numeral`, `Value`, `BytesBehind`, and all
loops of the text functions) are reasoned about for every input.

With TLC only:
* Everything under fairness (`QueuedUrlIsClaimed`, `CrawlSettles`, `EveryCallGranted`,
  `Terminates`, `EveryCommandReturns`): liveness is out of the prover's reach.
* The parser (`TreeRight`), whose handlers call each other: it is written with RECURSIVE
  operators, which the prover does not accept. `FetchProofs` therefore leaves open what
  the parser makes of a page; that it makes of it what `ElementsOn` and `TextOn` stand for
  is checked in the run.
* The three properties that do not hold.

## 5. Plan

Done: all the modules of section 2 and the proofs of section 4. What could follow:

1. An abstract index (a set of true rows that only grows, and runs that certify pages),
   and the proof that `IndexedSearch` implements it.
2. The parser's handlers as one recursive function over the tokens and the modes, so
   that `TreeRight` can be proved about.
3. What `CrawlWorker` takes from `CommandLink`: that `Outcomes` are the outcomes a
   connection of `CommandLink` can have, as a lemma.

## 6. Not modelled

* The gateway, the web page, `URL_checker`, demonstration programs and scripts have
  no state or are not called. `worker_v2.cpp` is an earlier version of the loop of
  `worker_v3.cpp`. It does not build against this repository: it calls `insert_url`, which
  `DB_manager` no longer has, and constructs it from one argument (`worker_v2.cpp:128,
  185`). `mainbfs.cpp` does not build for the same two lines (`:34, 98`); it is modelled
  all the same, since nothing has replaced its algorithm and the crawl does not look at
  what `insert_url` does.
* Of the vendored libraries, what the program never reaches: hiredis' asynchronous
  API, TLS, unix sockets, RESP3 and pushes; and what is data: `char_ref.c` is a
  generated table of 23069 lines, half of all implementation lines, `sds.c` strings,
  the tag tables and `nlohmann/json`. This is why the share of lines with a model
  stays small although the program's own code is modelled nearly whole.
* Of the parser: its tokenizer, tables, selects, templates, framesets and foreign
  content; foster parenting goes with the tables. A page that uses them may hide or
  show text otherwise than `Page` says.
* Of the content extractor: the folding of white space and version 1, which is not
  built. Of the search program: the JSON of the answer, the BM25 arithmetic (the
  operands that `rank` combines are modelled), the wording of logs. Of hiredis:
  connecting, the format of commands, time-outs (the worker sets none).
