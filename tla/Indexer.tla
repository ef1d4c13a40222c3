------------------------------ MODULE Indexer ------------------------------
(***************************************************************************)
(* The batch indexer, src/Indexer.cpp, as src/indexmain.cpp runs it: read  *)
(* all pages, count their tokens in memory, then write inverted_index row  *)
(* by row, outside of any transaction.  Meanwhile crawl workers add pages. *)
(* A run may die between two rows, and a row that MySQL rejects is only    *)
(* reported.                                                               *)
(***************************************************************************)
EXTENDS Integers, Sequences, SequencesExt, FiniteSets

CONSTANTS
    Docs,       \* docIDs
    Terms,
    Tokens,     \* Tokens[d]: what the tokenizer makes of the content of d
    Faults,     \* "crash": a run may die, "row": a row may be rejected,
                \* "read": a SELECT may fail, which is taken for an empty answer
    MaxRuns     \* bound on the runs of the indexer

ASSUME TokensAssumption == Tokens \in [Docs -> Seq(Terms)]
ASSUME RunsAssumption == Faults \subseteq {"crash", "row", "read"} /\ MaxRuns \in Nat

VARIABLES
    pages,          \* url_log, by id
    inverted_index, \* <<term, doc_id>> -> frequency, for the rows there are
    indexing,       \* a run of the indexer is writing rows
    statstable,     \* statstable_: term -> postings, of that run
    saved,          \* term -> how many of its postings have had their INSERT
    skipped,        \* history: a row of this run was rejected
    runs,           \* history: runs so far
    certified       \* history: the pages of the runs that ended without a rejected row

runVars == <<indexing, statstable, saved, skipped>>
indexerVars == <<pages, inverted_index, runVars, runs, certified>>

NoPostings == [t \in Terms |-> <<>>]
NoneSaved == [t \in Terms |-> 0]
NoRun == indexing = FALSE /\ statstable = NoPostings /\ saved = NoneSaved /\ skipped = FALSE

IndexerInit ==
    /\ pages = <<>>
    /\ inverted_index = <<>>
    /\ NoRun
    /\ runs = 0
    /\ certified = {}

-----------------------------------------------------------------------------
\* What a SELECT with this answer may be taken for.
Answers(answer, empty) == {answer} \cup (IF "read" \in Faults THEN {empty} ELSE {})

\* A posting is started for the first token of a document, by looking at the last
\* posting of the term only.
NewOnlyAtFirst(vec, d) == vec = <<>>
NewEachTime(vec, d) == TRUE
NewPosting(vec, d) == vec = <<>> \/ Last(vec).docID # d

CountToken(table, t, d) ==
    LET vec == table[t]
    IN  [table EXCEPT ![t] =
            IF NewPosting(vec, d) THEN Append(vec, [docID |-> d, frequency |-> 1])
                                  ELSE [vec EXCEPT ![Len(vec)].frequency = @ + 1]]

indexDocument(table, d) ==
    LET after[n \in 0..Len(Tokens[d])] ==
            IF n = 0 THEN table ELSE CountToken(after[n - 1], Tokens[d][n], d)
    IN  after[Len(Tokens[d])]

\* fetchAllPages and the loop of buildAll over its result.
BuildTable(list) ==
    LET after[n \in 0..Len(list)] ==
            IF n = 0 THEN NoPostings ELSE indexDocument(after[n - 1], list[n])
    IN  after[Len(list)]

BuildAll ==
    /\ ~indexing
    /\ runs < MaxRuns
    /\ runs' = runs + 1
    /\ indexing' = TRUE
    /\ \E list \in Answers(pages, <<>>) : statstable' = BuildTable(list)
    /\ UNCHANGED <<pages, inverted_index, saved, skipped, certified>>

\* What an INSERT ... ON DUPLICATE KEY UPDATE makes of the table.
Upsert(row, frequency) ==
    [r \in DOMAIN inverted_index \cup {row} |->
        IF r = row THEN frequency ELSE inverted_index[r]]

\* saveIndexToDB writes the postings of one term after the other, the terms in the
\* order of the hash table.
OthersWhole(t) == \A u \in Terms \ {t} : saved[u] \in {0, Len(statstable[u])}

SaveRow(t) ==
    /\ indexing
    /\ saved[t] < Len(statstable[t])
    /\ OthersWhole(t)
    /\ LET info == statstable[t][saved[t] + 1]
       IN  \/ /\ inverted_index' = Upsert(<<t, info.docID>>, info.frequency)
              /\ UNCHANGED skipped
           \/ /\ "row" \in Faults
              /\ skipped' = TRUE
              /\ UNCHANGED inverted_index
    /\ saved' = [saved EXCEPT ![t] = @ + 1]
    /\ UNCHANGED <<pages, indexing, statstable, runs, certified>>

\* Every row has had its INSERT.
FirstPerTerm == \A t \in Terms : statstable[t] # <<>> => saved[t] > 0
AllSaved == \A t \in Terms : saved[t] = Len(statstable[t])

Postings == UNION {ToSet(statstable[t]) : t \in Terms}

EndRun ==
    /\ indexing' = FALSE
    /\ statstable' = NoPostings
    /\ saved' = NoneSaved
    /\ skipped' = FALSE
    /\ UNCHANGED <<pages, inverted_index, runs>>

BuildDone ==
    /\ indexing
    /\ AllSaved
    /\ certified' = IF skipped THEN certified ELSE certified \cup {p.docID : p \in Postings}
    /\ EndRun

BuildCrash ==
    /\ "crash" \in Faults
    /\ indexing
    /\ EndRun
    /\ UNCHANGED certified

\* A crawl worker stores a page.
AddPage ==
    /\ \E d \in Docs \ ToSet(pages) : pages' = Append(pages, d)
    /\ UNCHANGED <<inverted_index, runVars, runs, certified>>

IndexerStep == BuildAll \/ (\E t \in Terms : SaveRow(t)) \/ BuildDone \/ BuildCrash
IndexerNext == IndexerStep \/ AddPage

-----------------------------------------------------------------------------
(* Properties. *)

Occurrences(t, d) == Cardinality({i \in DOMAIN Tokens[d] : Tokens[d][i] = t})

\* Types; a term has one posting per document, and so one row to save.
IndexerTypeOK ==
    /\ ToSet(pages) \subseteq Docs /\ Cardinality(ToSet(pages)) = Len(pages)
    /\ DOMAIN inverted_index \subseteq Terms \X Docs
    /\ indexing \in BOOLEAN /\ skipped \in BOOLEAN
    /\ \A t \in Terms :
          /\ saved[t] \in 0..Len(statstable[t])
          /\ \A i, j \in DOMAIN statstable[t] :
                i # j => statstable[t][i].docID # statstable[t][j].docID
    /\ runs \in 0..MaxRuns
    /\ certified \subseteq Docs

\* Whatever is skipped, repeated or cut short, a row that is there is right: it
\* counts the term in a stored page (Indexer.cpp:71-96).
IndexSound ==
    \A r \in DOMAIN inverted_index :
        r[2] \in ToSet(pages) /\ inverted_index[r] = Occurrences(r[1], r[2])

\* A run that ended without a rejected row has indexed its pages completely, and
\* later runs that fail do not undo it (Indexer.cpp:61-69, 82-96).
CertifiedComplete ==
    \A d \in certified, t \in Terms :
        Occurrences(t, d) > 0 => <<t, d>> \in DOMAIN inverted_index
=============================================================================
