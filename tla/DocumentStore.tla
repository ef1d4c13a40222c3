--------------------------- MODULE DocumentStore ---------------------------
(***************************************************************************)
(* The read cache in front of url_log, src/DocumentStore.cpp: a map from   *)
(* docID to an entry and a list of docIDs, most recently used first.       *)
(* getHeader holds mtx_ from its lookup to its insertion, around a query.  *)
(* getContent holds it for the lookup and again for the write-back, and    *)
(* queries without it.  Both use the one MySQL connection: once two        *)
(* queries have met on it, what a query gets is undefined, modelled as any *)
(* row, no row or an error.                                                *)
(*                                                                         *)
(* A row is told by its docID; a row with an empty content column is a     *)
(* member of Bodiless.  A cached header has a docID of its own, set when   *)
(* the entry is made, besides the fields that come from the row.           *)
(***************************************************************************)
EXTENDS Integers, Sequences, SequencesExt, FiniteSets

CONSTANTS
    Callers,    \* threads that use one DocumentStore
    Docs,       \* docIDs
    None,       \* no row, no document, no caller; also blank fields and docID 0
    Bodiless,   \* documents whose content column is empty
    Stored,     \* the rows that are there at the start
    Cap,        \* cap_
    MaxCalls    \* bound on the calls of getHeader and getContent

ASSUME DocsAssumption ==
    None \notin Docs /\ None \notin Callers /\ Bodiless \subseteq Docs /\ Stored \subseteq Docs
ASSUME CapAssumption == Cap \in Nat /\ MaxCalls \in Nat

VARIABLES
    table,      \* the documents that have a row in url_log
    cache,      \* cache_: docID -> [docID, header, content]
    lru,        \* lru_
    holder,     \* the caller that holds mtx_, or None
    pc,         \* where each caller is
    doc,        \* its docID
    row,        \* the row its query has met
    inflight,   \* the callers between mysql_query and mysql_store_result
    tangled,    \* two queries have met on the connection
    recent,     \* history: the docIDs by their last use of the cache, latest first
    calls       \* history: how many calls there were

cacheVars == <<cache, lru, recent>>
connVars == <<inflight, tangled>>
vars == <<table, cacheVars, holder, pc, doc, row, connVars, calls>>

Rows == Docs \cup {None}
\* header.docID, and the rows that the other fields of the header and the content
\* are from.
Entry == [docID : Docs \cup {None}, header : Rows, content : Rows]

\* The content column of the row r.
Body(r) == IF r \in Bodiless THEN None ELSE r

ToFront(s, d) == <<d>> \o RemoveFirst(s, d)

\* What the mutex is left as by a call that held it.
StillLocked(t) == t
Unlocked(t) == None

Goto(t, p) == pc' = [pc EXCEPT ![t] = p]
\* The call of t returns: its locals go out of scope.
Return(t) ==
    /\ Goto(t, "idle")
    /\ doc' = [doc EXCEPT ![t] = None]
    /\ row' = [row EXCEPT ![t] = None]

Init ==
    /\ table = Stored
    /\ cache = <<>>
    /\ lru = <<>>
    /\ holder = None
    /\ pc = [t \in Callers |-> "idle"]
    /\ doc = [t \in Callers |-> None]
    /\ row = [t \in Callers |-> None]
    /\ inflight = {}
    /\ tangled = FALSE
    /\ recent = <<>>
    /\ calls = 0

-----------------------------------------------------------------------------
\* d is used: history only.
Use(d) == recent' = ToFront(recent, d)

\* touchLRU: the node that the entry points to moves to the front.
Touched(d) == ToFront(lru, d)

\* evictIfNeeded: where in the list the victim is.
VictimFirst(list) == 1
Victim(list) == Len(list)

\* A new entry goes to the front; if that is one too many, the victim leaves both
\* the list and the map.
AddEntry(d, e) ==
    LET list == <<d>> \o lru
        all == [x \in DOMAIN cache \cup {d} |-> IF x = d THEN e ELSE cache[x]]
        victim == list[Victim(list)]
    IN  IF Cardinality(DOMAIN all) > Cap
        THEN /\ lru' = RemoveAt(list, Victim(list))
             /\ cache' = [x \in DOMAIN all \ {victim} |-> all[x]]
        ELSE /\ lru' = list
             /\ cache' = all

\* mysql_query on the shared connection, which two overlapping queries leave in an
\* undefined state.
Query(t) ==
    /\ inflight' = inflight \cup {t}
    /\ tangled' = (tangled \/ inflight # {})
    /\ row' = [row EXCEPT ![t] = IF doc[t] \in table THEN doc[t] ELSE None]

EndQuery(t) == inflight' = inflight \ {t} /\ UNCHANGED tangled

\* mysql_store_result gives t the row r.
Answer(t, r) ==
    /\ r = row[t] \/ tangled
    /\ EndQuery(t)

-----------------------------------------------------------------------------
(* A call starts by locking mtx_ and looking its document up. *)

Lookup(t) ==
    /\ pc[t] = "idle" /\ holder = None
    /\ calls < MaxCalls
    /\ calls' = calls + 1

Hit(t, d) ==
    /\ Lookup(t)
    /\ lru' = Touched(d)
    /\ Use(d)
    /\ UNCHANGED <<table, cache, holder, pc, doc, row, connVars>>

(* getHeader; getDocLength is a call of it. *)

HeaderHit(t) == \E d \in DOMAIN cache : Hit(t, d)

\* The mutex stays locked.
HeaderMiss(t) ==
    /\ \E d \in Docs \ DOMAIN cache : Lookup(t) /\ doc' = [doc EXCEPT ![t] = d]
    /\ holder' = t
    /\ Goto(t, "hquery")
    /\ UNCHANGED <<table, cacheVars, row, connVars>>

HeaderQuery(t) ==
    /\ pc[t] = "hquery"
    /\ Query(t)
    /\ Goto(t, "hrow")
    /\ UNCHANGED <<table, cacheVars, holder, doc, calls>>

\* DocHeader h{}, which gets its docID and all its fields from a row, or nothing.
HeaderEntry(d, r) ==
    [docID |-> IF r = None THEN None ELSE d, header |-> r, content |-> None]

\* The row, or a blank header if there is none, is cached.
HeaderInsert(t) ==
    /\ pc[t] = "hrow"
    /\ \E r \in Rows : Answer(t, r) /\ AddEntry(doc[t], HeaderEntry(doc[t], r))
    /\ Use(doc[t])
    /\ holder' = Unlocked(t)
    /\ Return(t)
    /\ UNCHANGED <<table, calls>>

\* conn_ is null, mysql_query fails, or there is no result: nothing is cached.
HeaderFail(t) ==
    /\ pc[t] \in {"hquery", "hrow"}
    /\ EndQuery(t)
    /\ holder' = Unlocked(t)
    /\ Return(t)
    /\ UNCHANGED <<table, cacheVars, calls>>

-----------------------------------------------------------------------------
(* getContent. *)

\* An entry whose content is empty is no hit.
HasContent(d) == d \in DOMAIN cache /\ cache[d].content # None

ContentHit(t) == \E d \in Docs : HasContent(d) /\ Hit(t, d)

\* The mutex is unlocked before the query.
ContentMiss(t) ==
    /\ \E d \in Docs : ~HasContent(d) /\ Lookup(t) /\ doc' = [doc EXCEPT ![t] = d]
    /\ Goto(t, "cquery")
    /\ UNCHANGED <<table, cacheVars, holder, row, connVars>>

ContentQuery(t) ==
    /\ pc[t] = "cquery"
    /\ Query(t)
    /\ Goto(t, "crow")
    /\ UNCHANGED <<table, cacheVars, holder, doc, calls>>

ContentRead(t) ==
    /\ pc[t] = "crow"
    /\ \E r \in Rows :
          /\ Answer(t, r)
          /\ row' = [row EXCEPT ![t] = r]
    /\ Goto(t, "cwrite")
    /\ UNCHANGED <<table, cacheVars, holder, doc, calls>>

ContentFail(t) ==
    /\ pc[t] \in {"cquery", "crow"}
    /\ EndQuery(t)
    /\ Return(t)
    /\ UNCHANGED <<table, cacheVars, holder, calls>>

\* What the write-back makes of an entry that is there: all fields are written, but
\* not header.docID.
KeepHeader(e, r) == [e EXCEPT !.content = Body(r)]
Refreshed(e, r) == [e EXCEPT !.header = r, !.content = Body(r)]

\* DocHeader h{docID, ...}: a new entry has its docID, also where there is no row.
ContentEntry(d, r) == [docID |-> d, header |-> r, content |-> Body(r)]

\* The write-back looks the entry up again: it may have come or gone.
Absent(d) == d \notin DOMAIN cache

ContentWrite(t) ==
    /\ pc[t] = "cwrite" /\ holder = None
    /\ LET d == doc[t]
       IN  \/ /\ Absent(d)
              /\ AddEntry(d, ContentEntry(d, row[t]))
           \/ /\ ~Absent(d)
              /\ cache' = [cache EXCEPT ![d] = Refreshed(@, row[t])]
              /\ lru' = Touched(d)
    /\ Use(doc[t])
    /\ Return(t)
    /\ UNCHANGED <<table, holder, connVars, calls>>

-----------------------------------------------------------------------------
(* addDocument and numDocs use the connection without the mutex, too. *)

Intrusion == tangled' = (tangled \/ inflight # {})

\* A row is written: INSERT IGNORE, by a crawl worker over its own connection or
\* by addDocument over this one.
AddRow ==
    /\ \E d \in Docs \ table : table' = table \cup {d}
    /\ UNCHANGED tangled \/ Intrusion
    /\ UNCHANGED <<cacheVars, holder, pc, doc, row, inflight, calls>>

numDocs ==
    /\ Intrusion
    /\ UNCHANGED <<table, cacheVars, holder, pc, doc, row, inflight, calls>>

Call(t) == HeaderHit(t) \/ HeaderMiss(t) \/ ContentHit(t) \/ ContentMiss(t)
Continue(t) ==
    \/ HeaderQuery(t) \/ HeaderInsert(t) \/ HeaderFail(t)
    \/ ContentQuery(t) \/ ContentRead(t) \/ ContentFail(t) \/ ContentWrite(t)

Next == AddRow \/ numDocs \/ \E t \in Callers : Call(t) \/ Continue(t)

Spec == Init /\ [][Next]_vars

-----------------------------------------------------------------------------
(* Properties. *)

\* Types, and who holds the mutex: the caller whose getHeader waits for its query,
\* so that no path out of a call leaves it locked.
TypeOK ==
    /\ table \subseteq Docs
    /\ DOMAIN cache \subseteq Docs /\ \A d \in DOMAIN cache : cache[d] \in Entry
    /\ lru \in Seq(Docs)
    /\ holder \in Callers \cup {None}
    /\ \A t \in Callers : pc[t] \in {"hquery", "hrow"} <=> holder = t
    /\ pc \in [Callers -> {"idle", "hquery", "hrow", "cquery", "crow", "cwrite"}]
    /\ doc \in [Callers -> Docs \cup {None}]
    /\ row \in [Callers -> Rows]
    /\ inflight \subseteq Callers
    /\ tangled \in BOOLEAN
    /\ recent \in Seq(Docs)
    /\ calls \in 0..MaxCalls

\* Whatever happens between getContent's lookup and its write-back, the cache is
\* a least-recently-used one: list and map agree, and they hold the Cap documents
\* used last, in that order (DocumentStore.cpp:56-60, 86-90, 171-194, 220-236).
CacheIsLru ==
    /\ ToSet(lru) = DOMAIN cache
    /\ lru = SubSeq(recent, 1, IF Len(recent) < Cap THEN Len(recent) ELSE Cap)

\* The types hold and the mutex is free again after each call.  As long as no two
\* queries have met on the connection, which getContent's unlocked query allows, an
\* entry tells of its own document, and of one that had a row when the store was
\* opened it has docID and fields.  A cached content comes with the fields of its
\* header, also where a blank header was cached before the row was written; but the
\* docID of such a header stays 0 then (DocumentStore.cpp:53, 63-87, 149-193).
RowsBelong ==
    /\ TypeOK
    /\ ~tangled =>
          \A d \in DOMAIN cache :
              /\ cache[d].docID \in {d, None}
              /\ cache[d].header \in {d, None} /\ cache[d].content \in {Body(d), None}
              /\ d \in Stored => cache[d].docID = d /\ cache[d].header = d
              /\ cache[d].content # None => cache[d].header = d
=============================================================================
