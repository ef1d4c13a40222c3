--------------------------- MODULE IndexedSearch ---------------------------
(***************************************************************************)
(* A search (src/Retriever.cpp, src/Ranker.cpp over src/IndexReader.cpp,   *)
(* driven by src/SearchEngine.cpp) against an index that the indexer may   *)
(* be writing.  The Ranker reads the number of documents once, when it is  *)
(* constructed; the posting lists, document frequencies and document       *)
(* lengths are read later, one SELECT each.  APItest.cpp makes one search  *)
(* per process.                                                            *)
(***************************************************************************)
EXTENDS Indexer

CONSTANTS Queries,      \* the term lists that may be asked
          MaxSearches   \* bound on the search processes

ASSUME QueriesAssumption == Queries \subseteq Seq(Terms) /\ MaxSearches \in Nat

VARIABLES
    stage,          \* where the search is: "off", "open", "ask" (retrieve), "df" (rank)
    totalDocs,      \* totalDocs_
    avgTerms,       \* the total behind avgDocLength_
    terms,          \* the parsed query
    asked,          \* how many of its terms this stage has looked up
    hits,           \* retrieve's results: docID -> [term, frequency] in the order pushed
    dfCache,        \* dfCache_
    docLenCache,    \* docLenCache_
    upset,          \* history: what came in the way of this search: "written", "read"
    searches        \* history: searches so far

searchVars == <<stage, totalDocs, avgTerms, terms, asked, hits, dfCache, docLenCache, upset, searches>>
vars == <<indexerVars, searchVars>>

Init ==
    /\ IndexerInit
    /\ stage = "off"
    /\ totalDocs = 0 /\ avgTerms = 0
    /\ terms = <<>> /\ asked = 0
    /\ hits = <<>> /\ dfCache = <<>> /\ docLenCache = <<>>
    /\ upset = {}
    /\ searches = 0

-----------------------------------------------------------------------------
(* What the statements of IndexReader answer. *)

PostingDocs(t) == {d \in Docs : <<t, d>> \in DOMAIN inverted_index}
TotalOver(rows) == Cardinality(UNION {{r} \X (1..inverted_index[r]) : r \in rows})
RowsOf(d) == {r \in DOMAIN inverted_index : r[2] = d}

getTotalDocCount == Cardinality({r[2] : r \in DOMAIN inverted_index})
getTotalTerms == TotalOver(DOMAIN inverted_index)

TotalFreq(t) == TotalOver({r \in DOMAIN inverted_index : r[1] = t})
getDocFreq(t) == Cardinality(PostingDocs(t))

RowCount(d) == Cardinality(RowsOf(d))
getDocLength(d) == TotalOver(RowsOf(d))

\* A statement either gives its answer or fails, and then the caller gets `empty`.
Select(answer, empty) ==
    {[is |-> answer, upset |-> upset]}
        \cup (IF "read" \in Faults
              THEN {[is |-> empty, upset |-> upset \cup {"read"}]} ELSE {})

Extend(f, x, v) == [y \in DOMAIN f \cup {x} |-> IF y = x THEN v ELSE f[y]]

-----------------------------------------------------------------------------
\* The constructor of Ranker: totalDocs_ first ...
Open ==
    /\ stage = "off"
    /\ searches < MaxSearches
    /\ searches' = searches + 1
    /\ \E s \in Select(getTotalDocCount, 0) : totalDocs' = s.is /\ upset' = s.upset
    /\ stage' = "open"
    /\ UNCHANGED <<indexerVars, avgTerms, terms, asked, hits, dfCache, docLenCache>>

\* ... then avgDocLength_; and a query is parsed.
Parse ==
    /\ stage = "open"
    /\ \E s \in Select(getTotalTerms, 0) : avgTerms' = s.is /\ upset' = s.upset
    /\ terms' \in Queries
    /\ stage' = "ask"
    /\ UNCHANGED <<indexerVars, totalDocs, asked, hits, dfCache, docLenCache, searches>>

\* results[docID].push_back for every posting of the next term.
HitsOf(d) == IF d \in DOMAIN hits THEN hits[d] ELSE <<>>
PostingOf(t, d) == [term |-> t, frequency |-> inverted_index[<<t, d>>]]

Pushed(t, docs) ==
    [d \in DOMAIN hits \cup docs |->
        IF d \in docs THEN Append(HitsOf(d), PostingOf(t, d)) ELSE hits[d]]

RetrieveTerm ==
    /\ stage = "ask"
    /\ asked < Len(terms)
    /\ LET t == terms[asked + 1]
       IN  \E s \in Select(PostingDocs(t), {}) : hits' = Pushed(t, s.is) /\ upset' = s.upset
    /\ asked' = asked + 1
    /\ UNCHANGED <<indexerVars, stage, totalDocs, avgTerms, terms, dfCache, docLenCache, searches>>

\* The documents that have all terms, or, if there is none, those that have any.
HasAny(d) == Len(hits[d]) > 0
HasAll(d) == Len(hits[d]) >= Len(terms)
Matching ==
    LET all == {d \in DOMAIN hits : HasAll(d)}
    IN  IF all = {} THEN DOMAIN hits ELSE all

\* The search process ends.
Reset ==
    /\ stage' = "off"
    /\ totalDocs' = 0 /\ avgTerms' = 0
    /\ terms' = <<>> /\ asked' = 0
    /\ hits' = <<>> /\ dfCache' = <<>> /\ docLenCache' = <<>>
    /\ upset' = {}

\* The end of retrieve; search returns at once if nothing was found.
Filter ==
    /\ stage = "ask"
    /\ asked = Len(terms)
    /\ IF hits = <<>>
       THEN Reset
       ELSE /\ hits' = [d \in Matching |-> hits[d]]
            /\ asked' = 0
            /\ stage' = "df"
            /\ UNCHANGED <<totalDocs, avgTerms, terms, dfCache, docLenCache, upset>>
    /\ UNCHANGED <<indexerVars, searches>>

\* rank: the document frequency of the next term, unless it is cached ...
ReadDocFreq ==
    /\ stage = "df"
    /\ asked < Len(terms)
    /\ LET t == terms[asked + 1]
       IN  IF t \in DOMAIN dfCache
           THEN UNCHANGED <<dfCache, upset>>
           ELSE \E s \in Select(getDocFreq(t), 0) :
                    dfCache' = Extend(dfCache, t, s.is) /\ upset' = s.upset
    /\ asked' = asked + 1
    /\ UNCHANGED <<indexerVars, stage, totalDocs, avgTerms, terms, hits, docLenCache, searches>>

\* ... and the length of each hit, in the order of a hash table.
ReadDocLength ==
    /\ stage = "df"
    /\ asked = Len(terms)
    /\ \E d \in DOMAIN hits \ DOMAIN docLenCache : \E s \in Select(getDocLength(d), 0) :
          docLenCache' = Extend(docLenCache, d, s.is) /\ upset' = s.upset
    /\ UNCHANGED <<indexerVars, stage, totalDocs, avgTerms, terms, asked, hits, dfCache, searches>>

\* The statistics are complete.
Scoring == stage = "df" /\ asked = Len(terms) /\ DOMAIN hits = DOMAIN docLenCache

\* The scores are computed and the answer is printed.
Finish ==
    /\ Scoring
    /\ Reset
    /\ UNCHANGED <<indexerVars, searches>>

SearchNext ==
    \/ Open \/ Parse \/ RetrieveTerm \/ Filter
    \/ ReadDocFreq \/ ReadDocLength \/ Finish

\* The indexer writes a row while the search is on, or does something else.
Meanwhile ==
    /\ IndexerNext
    /\ upset' = IF stage # "off" /\ inverted_index' # inverted_index
                THEN upset \cup {"written"} ELSE upset
    /\ UNCHANGED <<stage, totalDocs, avgTerms, terms, asked, hits, dfCache, docLenCache, searches>>

Next == SearchNext \/ Meanwhile

Spec == Init /\ [][Next]_vars

-----------------------------------------------------------------------------
(* Properties. *)

TypeOK ==
    /\ IndexerTypeOK
    /\ stage \in {"off", "open", "ask", "df"}
    /\ totalDocs \in Nat /\ avgTerms \in Nat
    /\ terms \in Queries \cup {<<>>} /\ asked \in 0..Len(terms)
    /\ DOMAIN hits \subseteq Docs
    /\ DOMAIN dfCache \subseteq ToSet(terms) /\ \A t \in DOMAIN dfCache : dfCache[t] \in Nat
    /\ DOMAIN docLenCache \subseteq DOMAIN hits
    /\ \A d \in DOMAIN docLenCache : docLenCache[d] \in Nat
    /\ upset \subseteq {"written", "read"}

Has(d, t) == <<t, d>> \in DOMAIN inverted_index

\* With an index that stands still, retrieve finds the documents that have every
\* term of the query, and only if there are none those that have some, also when
\* the query repeats a term (Retriever.cpp:18-35).
HitsExact ==
    stage = "df" /\ upset = {} =>
        LET all == {d \in Docs : \A t \in ToSet(terms) : Has(d, t)}
            some == {d \in Docs : \E t \in ToSet(terms) : Has(d, t)}
        IN  DOMAIN hits = IF all # {} THEN all ELSE some

\* No posting runs past the query terms, and where a hit has them all, posting and
\* term are paired rightly.
TermsCohere ==
    \A d \in DOMAIN hits :
        /\ Len(hits[d]) \in 1..Len(terms)
        /\ HasAll(d) => \A i \in DOMAIN terms : hits[d][i].term = terms[i]

\* A term occurs in at least the documents it was found in, a document is at least
\* as long as its hit.
HitsWith(t) == {d \in DOMAIN hits : \E i \in DOMAIN hits[d] : hits[d][i].term = t}
StatsCohere ==
    /\ \A t \in ToSet(terms) : dfCache[t] >= Cardinality(HitsWith(t))
    /\ \A d \in DOMAIN hits : \A i \in DOMAIN hits[d] : docLenCache[d] >= hits[d][i].frequency

\* The variables have their types, and what a search reads by several statements
\* fits together although rows are being written: the postings among themselves, and
\* the statistics read after them (Ranker.cpp:61-73, 85-88).
SearchCoheres ==
    /\ TypeOK
    /\ stage = "df" => TermsCohere
    /\ Scoring /\ "read" \notin upset => StatsCohere

\* With an index that stands still, no logarithm of a negative number and no
\* division by zero: N >= df and avgDocLength_ > 0 (Ranker.cpp:92-96).
ScoreDefined ==
    Scoring /\ upset = {} =>
        /\ avgTerms > 0 /\ totalDocs > 0
        /\ \A t \in ToSet(terms) : dfCache[t] <= totalDocs

\* What rank says of its input: vec[i] belongs to terms[i] (Ranker.cpp:85).  Asked
\* only where nothing came in the way and no run of the indexer is under way.
PairedWithTerms ==
    Scoring /\ upset = {} /\ ~indexing =>
        \A d \in DOMAIN hits : \A i \in DOMAIN hits[d] : hits[d][i].term = terms[i]
=============================================================================
