------------------------ MODULE IndexedSearchProofs ------------------------
(***************************************************************************)
(* Machine-checked facts about Indexer and IndexedSearch, for any pages,   *)
(* terms, queries and faults.                                              *)
(***************************************************************************)
EXTENDS IndexedSearch, SharedLemmas

-----------------------------------------------------------------------------
(***************************************************************************)
(* The tables.                                                             *)
(***************************************************************************)

Posting == [docID : Docs, frequency : Nat]
Table == [Terms -> Seq(Posting)]

\* How often t is among the first n tokens of d.
Counted(t, d, n) == Cardinality({i \in 1..n : Tokens[d][i] = t})

LEMMA CountedSteps ==
    ASSUME NEW t, NEW d, NEW n \in Nat
    PROVE  /\ Counted(t, d, 0) = 0
           /\ Counted(t, d, n) \in Nat
           /\ Counted(t, d, n + 1) = IF Tokens[d][n + 1] = t THEN Counted(t, d, n) + 1
                                                             ELSE Counted(t, d, n)
  <1> DEFINE S == {i \in 1..n : Tokens[d][i] = t}
             T == {i \in 1..(n + 1) : Tokens[d][i] = t}
  <1>1. IsFiniteSet(S) /\ Cardinality(S) \in Nat
    <2>1. IsFiniteSet(1..n) /\ S \in SUBSET (1..n)
      BY FS_Interval
    <2> HIDE DEF S
    <2> QED
      BY <2>1, FS_Subset, FS_CardinalityType
  <1>2. {i \in 1..0 : Tokens[d][i] = t} = {}
    OBVIOUS
  <1>3. T = IF Tokens[d][n + 1] = t THEN S \cup {n + 1} ELSE S
    OBVIOUS
  <1>4. n + 1 \notin S
    OBVIOUS
  <1> HIDE DEF S, T
  <1>5. Cardinality(T) = IF Tokens[d][n + 1] = t THEN Cardinality(S) + 1 ELSE Cardinality(S)
    BY <1>1, <1>3, <1>4, FS_AddElement
  <1> QED
    BY <1>1, <1>2, <1>5, FS_EmptySet DEF Counted, S, T

LEMMA CountedAll ==
    ASSUME NEW t, NEW d \in Docs
    PROVE  /\ Tokens[d] \in Seq(Terms)
           /\ Counted(t, d, Len(Tokens[d])) = Occurrences(t, d)
           /\ Occurrences(t, d) \in Nat
  <1>1. Tokens[d] \in Seq(Terms)
    BY TokensAssumption
  <1>2. DOMAIN Tokens[d] = 1..Len(Tokens[d]) /\ Len(Tokens[d]) \in Nat
    BY <1>1
  <1>3. Counted(t, d, Len(Tokens[d])) \in Nat
    BY <1>2, CountedSteps
  <1> QED
    BY <1>1, <1>2, <1>3 DEF Counted, Occurrences

\* The table once the first n tokens of a document that is new to it are counted.
Partly(table, d, n) ==
    [t \in Terms |->
        IF Counted(t, d, n) = 0 THEN table[t]
        ELSE Append(table[t], [docID |-> d, frequency |-> Counted(t, d, n)])]

NewTo(table, d) == \A t \in Terms : \A i \in 1..Len(table[t]) : table[t][i].docID # d

LEMMA PartlyTable ==
    ASSUME NEW table \in Table, NEW d \in Docs, NEW n \in Nat
    PROVE  Partly(table, d, n) \in Table
  <1>1. ASSUME NEW t \in Terms PROVE Partly(table, d, n)[t] \in Seq(Posting)
    <2>1. Counted(t, d, n) \in Nat /\ table[t] \in Seq(Posting)
      BY CountedSteps DEF Table
    <2>2. [docID |-> d, frequency |-> Counted(t, d, n)] \in Posting
      BY <2>1 DEF Posting
    <2> QED
      BY <2>1, <2>2 DEF Partly
  <1> QED
    BY <1>1 DEF Partly, Table

\* One more token.
LEMMA PartlyStep ==
    ASSUME NEW table \in Table, NEW d \in Docs, NewTo(table, d), NEW n \in Nat,
           Tokens[d][n + 1] \in Terms
    PROVE  CountToken(Partly(table, d, n), Tokens[d][n + 1], d) = Partly(table, d, n + 1)
  <1> DEFINE t == Tokens[d][n + 1]
             old == Partly(table, d, n)
             vec == old[t]
             c == Counted(t, d, n)
             more == IF NewPosting(vec, d) THEN Append(vec, [docID |-> d, frequency |-> 1])
                     ELSE [vec EXCEPT ![Len(vec)].frequency = @ + 1]
  <1>1. CountToken(old, t, d) = [old EXCEPT ![t] = more]
    BY DEF CountToken
  <1>2. t \in Terms /\ table[t] \in Seq(Posting) /\ c \in Nat
    BY CountedSteps DEF Table
  <1>3. vec = IF c = 0 THEN table[t] ELSE Append(table[t], [docID |-> d, frequency |-> c])
    BY <1>2 DEF Partly
  <1>4. more = Append(table[t], [docID |-> d, frequency |-> c + 1])
    <2>1. CASE c = 0
      <3>1. vec = table[t]
        BY <1>3, <2>1
      <3>2. NewPosting(vec, d)
        <4>1. CASE vec = <<>>
          BY <4>1 DEF NewPosting
        <4>2. CASE vec # <<>>
          <5>1. Len(table[t]) \in 1..Len(table[t])
            BY <1>2, <3>1, <4>2
          <5>2. table[t][Len(table[t])].docID # d
            BY <1>2, <5>1 DEF NewTo
          <5> QED
            BY <3>1, <5>2 DEF NewPosting, Last
        <4> QED
          BY <4>1, <4>2
      <3>3. c + 1 = 1
        BY <2>1
      <3> QED
        BY <3>1, <3>2, <3>3
    <2>2. CASE c # 0
      <3> DEFINE p == [docID |-> d, frequency |-> c]
      <3>1. vec = Append(table[t], p) /\ p \in Posting
        BY <1>2, <1>3, <2>2 DEF Posting
      <3> HIDE DEF vec
      <3>2. /\ vec \in Seq(Posting) /\ Len(vec) = Len(table[t]) + 1 /\ vec[Len(vec)] = p
            /\ vec # <<>> /\ Len(table[t]) \in Nat
        <4> HIDE DEF p
        <4>1. Append(table[t], p) \in Seq(Posting) /\ Len(Append(table[t], p)) = Len(table[t]) + 1
          BY <1>2, <3>1
        <4>2. Append(table[t], p)[Len(table[t]) + 1] = p /\ Len(table[t]) \in Nat
          BY <1>2, <3>1
        <4> QED
          BY <3>1, <4>1, <4>2
      <3>3. ~NewPosting(vec, d)
        BY <3>2 DEF NewPosting, Last
      <3>4. more = [vec EXCEPT ![Len(vec)] = [p EXCEPT !.frequency = @ + 1]]
        BY <3>2, <3>3
      <3>5. [p EXCEPT !.frequency = @ + 1] = [docID |-> d, frequency |-> c + 1]
        OBVIOUS
      <3> DEFINE q == [docID |-> d, frequency |-> c + 1]
      <3>6. q \in Posting
        BY <1>2 DEF Posting
      <3>7. [vec EXCEPT ![Len(vec)] = q] = Append(table[t], q)
        <4> HIDE DEF q, p
        <4>1. DOMAIN vec = 1..Len(vec) /\ vec = [i \in 1..Len(vec) |-> vec[i]]
          BY <3>2
        <4>2. /\ Append(table[t], q) \in Seq(Posting)
              /\ Len(Append(table[t], q)) = Len(vec)
          BY <1>2, <3>2, <3>6
        <4>3. [vec EXCEPT ![Len(vec)] = q] \in Seq(Posting) /\ Len([vec EXCEPT ![Len(vec)] = q]) = Len(vec)
          BY <3>2, <3>6
        <4>4. ASSUME NEW i \in 1..Len(vec)
              PROVE  [vec EXCEPT ![Len(vec)] = q][i] = Append(table[t], q)[i]
          <5>1. CASE i = Len(vec)
            <6>1. [vec EXCEPT ![Len(vec)] = q][Len(vec)] = q
              BY <3>2, <4>1
            <6>2. Append(table[t], q)[Len(table[t]) + 1] = q
              BY <1>2, <3>6
            <6> QED
              BY <3>2, <5>1, <6>1, <6>2
          <5>2. CASE i # Len(vec)
            <6>1. i \in 1..Len(table[t])
              BY <3>2, <5>2
            <6>2. vec[i] = table[t][i] /\ Append(table[t], q)[i] = table[t][i]
              BY <1>2, <3>1, <3>6, <6>1
            <6> QED
              BY <4>1, <5>2, <6>2
          <5> QED
            BY <5>1, <5>2
        <4> DEFINE a == [vec EXCEPT ![Len(vec)] = q]
                   b == Append(table[t], q)
        <4>5. /\ a \in Seq(Posting) /\ b \in Seq(Posting) /\ Len(a) = Len(b)
              /\ \A i \in 1..Len(a) : a[i] = b[i]
          BY <4>2, <4>3, <4>4
        <4> HIDE DEF a, b
        <4>6. a = b
          BY <4>5
        <4> QED
          BY <4>6 DEF a, b
      <3> QED
        BY <3>4, <3>5, <3>7
    <2> QED
      BY <2>1, <2>2
  <1>5. Counted(t, d, n + 1) = c + 1 /\ c + 1 # 0
    <2>1. \A u : Counted(u, d, n + 1) = IF Tokens[d][n + 1] = u THEN Counted(u, d, n) + 1
                                        ELSE Counted(u, d, n)
      BY CountedSteps
    <2> QED
      BY <1>2, <2>1
  <1>6. \A u \in Terms : u # t => Counted(u, d, n + 1) = Counted(u, d, n)
    BY CountedSteps
  <1> HIDE DEF more, c, vec
  <1>7. ASSUME NEW u \in Terms
        PROVE  [old EXCEPT ![t] = more][u] = Partly(table, d, n + 1)[u]
    <2>1. CASE u = t
      <3>1. Partly(table, d, n + 1)[t] = more
        BY <1>2, <1>4, <1>5 DEF Partly
      <3>2. DOMAIN old = Terms
        BY DEF Partly
      <3> HIDE DEF old
      <3> QED
        BY <1>2, <2>1, <3>1, <3>2
    <2>2. CASE u # t
      <3>1. Partly(table, d, n + 1)[u] = old[u]
        BY <1>6, <2>2 DEF Partly
      <3>2. DOMAIN old = Terms
        BY DEF Partly
      <3> HIDE DEF old, t
      <3> QED
        BY <2>2, <3>1, <3>2
    <2> QED
      BY <2>1, <2>2
  <1> QED
    <2>1. /\ DOMAIN [old EXCEPT ![t] = more] = Terms /\ DOMAIN Partly(table, d, n + 1) = Terms
      BY DEF Partly
    <2>2. Partly(table, d, n + 1) = [u \in Terms |-> Partly(table, d, n + 1)[u]]
      BY DEF Partly
    <2>3. [old EXCEPT ![t] = more] = [u \in Terms |-> [old EXCEPT ![t] = more][u]]
      BY <2>1
    <2>4. Partly(table, d, n + 1) = [old EXCEPT ![t] = more]
      <3> DEFINE a == Partly(table, d, n + 1)
                 b == [old EXCEPT ![t] = more]
      <3>1. \A u \in Terms : a[u] = b[u]
        BY <1>7
      <3>2. a = [u \in Terms |-> a[u]] /\ b = [u \in Terms |-> b[u]]
        BY <2>2, <2>3
      <3> HIDE DEF a, b
      <3>3. a = b
        BY <3>1, <3>2
      <3> QED
        BY <3>3 DEF a, b
    <2> QED
      BY <1>1, <2>4

\* A document that is new to the table gets one posting for each of its terms.
LEMMA IndexOne ==
    ASSUME NEW table \in Table, NEW d \in Docs, NewTo(table, d)
    PROVE  /\ indexDocument(table, d) \in Table
           /\ \A t \in Terms :
                 indexDocument(table, d)[t] =
                    IF Occurrences(t, d) = 0 THEN table[t]
                    ELSE Append(table[t], [docID |-> d, frequency |-> Occurrences(t, d)])
  <1> DEFINE N == Len(Tokens[d])
             Body(f) == [n \in 0..N |->
                            IF n = 0 THEN table ELSE CountToken(f[n - 1], Tokens[d][n], d)]
             after == CHOOSE f : f = Body(f)
             g == [n \in 0..N |-> Partly(table, d, n)]
  <1>1. N \in Nat /\ \A n \in 1..N : Tokens[d][n] \in Terms
    <2>1. Tokens[d] \in Seq(Terms)
      BY TokensAssumption
    <2> DEFINE s == Tokens[d]
    <2> HIDE DEF s
    <2>2. Len(s) \in Nat /\ \A n \in 1..Len(s) : s[n] \in Terms
      BY <2>1 DEF s
    <2> QED
      BY <2>2 DEF s
  <1>2. indexDocument(table, d) = after[N]
    BY DEF indexDocument
  <1>3. Partly(table, d, 0) = table
    <2>1. \A t \in Terms : Partly(table, d, 0)[t] = table[t]
      BY CountedSteps DEF Partly
    <2>2. table = [t \in Terms |-> table[t]] /\ Partly(table, d, 0) = [t \in Terms |-> Partly(table, d, 0)[t]]
      BY DEF Table, Partly
    <2> QED
      BY <2>1, <2>2
  <1>4. ASSUME NEW n \in 0..N PROVE g[n] = Body(g)[n]
    <2>1. CASE n = 0
      BY <1>3, <2>1
    <2>2. CASE n # 0
      <3>1. n - 1 \in 0..N /\ n - 1 \in Nat /\ (n - 1) + 1 = n /\ n \in 1..N
        BY <1>1, <2>2
      <3>2. Tokens[d][(n - 1) + 1] \in Terms
        BY <1>1, <3>1
      <3>3. CountToken(Partly(table, d, n - 1), Tokens[d][(n - 1) + 1], d) = Partly(table, d, (n - 1) + 1)
        BY <3>1, <3>2, PartlyStep
      <3>4. CountToken(g[n - 1], Tokens[d][n], d) = g[n]
        BY <3>1, <3>3
      <3> HIDE DEF g
      <3> QED
        BY <2>2, <3>4
    <2> QED
      BY <2>1, <2>2
  <1>5. g = Body(g)
    <2>1. g = [n \in 0..N |-> g[n]] /\ Body(g) = [n \in 0..N |-> Body(g)[n]]
      OBVIOUS
    <2> HIDE DEF g, Body
    <2> QED
      BY <1>4, <2>1
  <1> HIDE DEF g
  <1>6. after = Body(after)
    BY <1>5
  <1> HIDE DEF after
  <1> DEFINE Same == {n \in Nat : n \in 0..N => after[n] = Partly(table, d, n)}
  <1>7. 0 \in Same
    <2>1. Body(after)[0] = table
      BY <1>1
    <2> HIDE DEF Body
    <2> QED
      BY <1>3, <1>6, <2>1
  <1>8. ASSUME NEW n \in Nat, n \in Same, n + 1 \in 0..N
        PROVE  after[n + 1] = Partly(table, d, n + 1)
    <2>1. n \in 0..N /\ n + 1 \in 1..N /\ (n + 1) - 1 = n /\ n + 1 # 0
      BY <1>1, <1>8
    <2>2. after[n] = Partly(table, d, n) /\ Tokens[d][n + 1] \in Terms
      BY <1>1, <1>8, <2>1
    <2>3. CountToken(Partly(table, d, n), Tokens[d][n + 1], d) = Partly(table, d, n + 1)
      BY <2>2, PartlyStep
    <2>4. Body(after)[n + 1] = CountToken(after[n], Tokens[d][n + 1], d)
      BY <1>8, <2>1
    <2> HIDE DEF Body
    <2> QED
      BY <1>6, <2>2, <2>3, <2>4
  <1>9. Nat \subseteq Same
    <2>1. \A n \in Nat : n \in Same => n + 1 \in Same
      <3> SUFFICES ASSUME NEW n \in Nat, n \in Same PROVE n + 1 \in 0..N => after[n + 1] = Partly(table, d, n + 1)
        OBVIOUS
      <3> QED
        BY <1>8
    <2> HIDE DEF Same
    <2> QED
      BY <1>7, <2>1, NatInd
  <1>10. after[N] = Partly(table, d, N)
    BY <1>1, <1>9
  <1>11. \A t : Counted(t, d, N) = Occurrences(t, d)
    BY CountedAll
  <1> QED
    <2>1. indexDocument(table, d) = Partly(table, d, N)
      BY <1>2, <1>10
    <2>2. Partly(table, d, N) \in Table
      BY <1>1, PartlyTable
    <2>3. \A t \in Terms :
             Partly(table, d, N)[t] =
                IF Occurrences(t, d) = 0 THEN table[t]
                ELSE Append(table[t], [docID |-> d, frequency |-> Occurrences(t, d)])
      BY <1>11 DEF Partly
    <2> HIDE DEF N, Body, after, g
    <2> QED
      BY <2>1, <2>2, <2>3

\* The table holds exactly the terms of the documents D, each document once.
Indexed(table, D) ==
    \A t \in Terms :
        /\ \A i \in 1..Len(table[t]) :
              /\ table[t][i].docID \in D
              /\ table[t][i].frequency = Occurrences(t, table[t][i].docID)
              /\ table[t][i].frequency > 0
        /\ \A i, j \in 1..Len(table[t]) : table[t][i].docID = table[t][j].docID => i = j
        /\ \A d \in D : Occurrences(t, d) > 0 =>
              \E i \in 1..Len(table[t]) : table[t][i].docID = d

LEMMA NothingIndexed == NoPostings \in Table /\ Indexed(NoPostings, {})
  <1>1. \A t \in Terms : NoPostings[t] = <<>> /\ Len(<<>>) = 0
    BY DEF NoPostings
  <1>2. NoPostings \in Table
    BY DEF NoPostings, Table
  <1> QED
    BY <1>1, <1>2 DEF Indexed

LEMMA IndexMore ==
    ASSUME NEW table \in Table, NEW D \in SUBSET Docs, Indexed(table, D), NEW d \in Docs \ D
    PROVE  /\ indexDocument(table, d) \in Table
           /\ Indexed(indexDocument(table, d), D \cup {d})
  <1> DEFINE new == indexDocument(table, d)
  <1>1. NewTo(table, d)
    BY DEF NewTo, Indexed
  <1>2. /\ new \in Table
        /\ \A t \in Terms : new[t] = IF Occurrences(t, d) = 0 THEN table[t]
                                     ELSE Append(table[t], [docID |-> d, frequency |-> Occurrences(t, d)])
    BY <1>1, IndexOne
  <1> HIDE DEF new
  <1>3. ASSUME NEW t \in Terms
        PROVE  /\ \A i \in 1..Len(new[t]) :
                     /\ new[t][i].docID \in D \cup {d}
                     /\ new[t][i].frequency = Occurrences(t, new[t][i].docID)
                     /\ new[t][i].frequency > 0
               /\ \A i, j \in 1..Len(new[t]) : new[t][i].docID = new[t][j].docID => i = j
               /\ \A x \in D \cup {d} : Occurrences(t, x) > 0 =>
                     \E i \in 1..Len(new[t]) : new[t][i].docID = x
    <2>1. /\ \A i \in 1..Len(table[t]) :
                /\ table[t][i].docID \in D
                /\ table[t][i].frequency = Occurrences(t, table[t][i].docID)
                /\ table[t][i].frequency > 0
          /\ \A i, j \in 1..Len(table[t]) : table[t][i].docID = table[t][j].docID => i = j
          /\ \A x \in D : Occurrences(t, x) > 0 =>
                \E i \in 1..Len(table[t]) : table[t][i].docID = x
      BY DEF Indexed
    <2>2. table[t] \in Seq(Posting) /\ Occurrences(t, d) \in Nat
      BY CountedAll DEF Table
    <2>3. CASE Occurrences(t, d) = 0
      <3>1. new[t] = table[t]
        BY <1>2, <2>3
      <3>2. \A x \in D \cup {d} : Occurrences(t, x) > 0 => x \in D
        BY <2>2, <2>3
      <3> QED
        BY <2>1, <3>1, <3>2
    <2>4. CASE Occurrences(t, d) # 0
      <3> DEFINE p == [docID |-> d, frequency |-> Occurrences(t, d)]
                 old == table[t]
                 vec == new[t]
                 n == Len(old)
      <3>1. vec = Append(old, p) /\ p \in Posting /\ p.docID = d /\ p.frequency = Occurrences(t, d)
        BY <1>2, <2>2, <2>4 DEF Posting
      <3>2. old \in Seq(Posting) /\ n \in Nat
        BY <2>2
      <3> HIDE DEF p, old, vec
      <3>3. Len(vec) = n + 1 /\ vec[n + 1] = p /\ \A i \in 1..n : vec[i] = old[i]
        BY <3>1, <3>2
      <3>4. \A i \in 1..(n + 1) : i \in 1..n \/ i = n + 1
        BY <3>2
      <3>5. /\ \A i \in 1..n : /\ old[i].docID \in D
                               /\ old[i].frequency = Occurrences(t, old[i].docID)
                               /\ old[i].frequency > 0
            /\ \A i, j \in 1..n : old[i].docID = old[j].docID => i = j
            /\ \A x \in D : Occurrences(t, x) > 0 => \E i \in 1..n : old[i].docID = x
        BY <2>1 DEF old
      <3> HIDE DEF n
      <3>6. ASSUME NEW i \in 1..(n + 1)
            PROVE  /\ vec[i].docID \in D \cup {d}
                   /\ vec[i].frequency = Occurrences(t, vec[i].docID)
                   /\ vec[i].frequency > 0
        <4>1. CASE i \in 1..n
          BY <3>3, <3>5, <4>1
        <4>2. CASE i = n + 1
          <5>1. vec[i] = p
            BY <3>3, <4>2
          <5>2. p.frequency > 0
            BY <2>2, <2>4, <3>1
          <5> QED
            BY <3>1, <5>1, <5>2
        <4> QED
          BY <3>4, <4>1, <4>2
      <3>7. ASSUME NEW i \in 1..(n + 1), NEW j \in 1..(n + 1), vec[i].docID = vec[j].docID
            PROVE  i = j
        <4>1. \A k \in 1..n : vec[k].docID \in D
          BY <3>3, <3>5
        <4>2. vec[n + 1].docID \notin D
          BY <3>1, <3>3
        <4> QED
          BY <3>3, <3>4, <3>5, <3>7, <4>1, <4>2
      <3>8. ASSUME NEW x \in D \cup {d}, Occurrences(t, x) > 0
            PROVE  \E i \in 1..(n + 1) : vec[i].docID = x
        <4>1. CASE x = d
          <5>1. n + 1 \in 1..(n + 1)
            BY <3>2
          <5> QED
            BY <3>1, <3>3, <4>1, <5>1
        <4>2. CASE x # d
          <5>1. PICK i \in 1..n : old[i].docID = x
            BY <3>5, <3>8, <4>2
          <5>2. i \in 1..(n + 1)
            BY <3>2
          <5> QED
            BY <3>3, <5>1, <5>2
        <4> QED
          BY <4>1, <4>2
      <3> QED
        BY <3>3, <3>6, <3>7, <3>8 DEF vec
    <2> QED
      BY <2>3, <2>4
  <1> QED
    BY <1>2, <1>3 DEF Indexed, new

Upto(list, n) == {list[i] : i \in 1..n}
Distinct(list) == \A i, j \in 1..Len(list) : list[i] = list[j] => i = j

\* What the loop of buildAll makes of a list of documents without duplicates.
LEMMA BuildTableIndexes ==
    ASSUME NEW list \in Seq(Docs), Distinct(list)
    PROVE  BuildTable(list) \in Table /\ Indexed(BuildTable(list), ToSet(list))
  <1> DEFINE N == Len(list)
             Good(table, n) == table \in Table /\ Indexed(table, Upto(list, n))
             Body(f) == [n \in 0..N |->
                            IF n = 0 THEN NoPostings ELSE indexDocument(f[n - 1], list[n])]
             after == CHOOSE f : f = Body(f)
  <1>1. N \in Nat /\ DOMAIN list = 1..N
    OBVIOUS
  <1>2. Good(NoPostings, 0)
    <2>1. Upto(list, 0) = {}
      BY DEF Upto
    <2> QED
      BY <2>1, NothingIndexed
  <1>3. ASSUME NEW n \in 1..N, NEW table, Good(table, n - 1)
        PROVE  Good(indexDocument(table, list[n]), n)
    <2>1. Upto(list, n - 1) \in SUBSET Docs /\ list[n] \in Docs
      BY <1>1 DEF Upto
    <2>2. list[n] \notin Upto(list, n - 1)
      BY <1>1 DEF Upto, Distinct
    <2>3. Upto(list, n) = Upto(list, n - 1) \cup {list[n]}
      BY <1>1 DEF Upto
    <2> QED
      BY <1>3, <2>1, <2>2, <2>3, IndexMore
  <1>4. \E f : f = Body(f) /\ \A n \in 0..N : Good(f[n], n)
    <2> DEFINE Fits(f, k) == /\ f = [n \in 0..k |-> f[n]]
                             /\ f[0] = NoPostings
                             /\ \A n \in 1..k : f[n] = indexDocument(f[n - 1], list[n])
                             /\ \A n \in 0..k : Good(f[n], n)
               S == {k \in Nat : k <= N => \E f : Fits(f, k)}
    <2> HIDE DEF Good
    <2>1. 0 \in S
      <3> DEFINE f == [n \in 0..0 |-> NoPostings]
      <3>1. Fits(f, 0)
        <4>1. 0..0 = {0} /\ 1..0 = {}
          OBVIOUS
        <4> QED
          BY <1>2, <4>1
      <3> QED
        BY <3>1
    <2>2. ASSUME NEW k \in Nat, k + 1 <= N, NEW f, Fits(f, k) PROVE \E g : Fits(g, k + 1)
      <3> DEFINE next == indexDocument(f[k], list[k + 1])
                 g == [n \in 0..(k + 1) |-> IF n = k + 1 THEN next ELSE f[n]]
      <3>1. k \in 0..k /\ k + 1 \in 1..N /\ (k + 1) - 1 = k
        BY <2>2, <1>1
      <3>2. Good(f[k], k)
        BY <2>2, <3>1
      <3>3. Good(next, k + 1)
        BY <1>3, <3>1, <3>2
      <3> HIDE DEF next
      <3>4. g[k + 1] = next /\ \A n \in 0..k : g[n] = f[n]
        BY <3>1
      <3>5. g = [n \in 0..(k + 1) |-> g[n]]
        OBVIOUS
      <3> HIDE DEF g
      <3>6. \A n \in 0..(k + 1) : n \in 0..k \/ n = k + 1
        OBVIOUS
      <3>7. ASSUME NEW n \in 0..(k + 1) PROVE Good(g[n], n)
        BY <2>2, <3>3, <3>4, <3>6
      <3>8. g[0] = NoPostings
        <4>1. 0 \in 0..k
          OBVIOUS
        <4> QED
          BY <2>2, <3>4, <4>1
      <3>9. ASSUME NEW n \in 1..(k + 1) PROVE g[n] = indexDocument(g[n - 1], list[n])
        <4>1. CASE n = k + 1
          <5>1. n - 1 = k /\ g[n - 1] = f[k] /\ g[n] = next
            BY <3>1, <3>4, <4>1
          <5> QED
            BY <4>1, <5>1 DEF next
        <4>2. CASE n # k + 1
          <5>1. n \in 1..k /\ n \in 0..k /\ n - 1 \in 0..k
            BY <4>2
          <5>2. f[n] = indexDocument(f[n - 1], list[n])
            BY <2>2, <5>1
          <5> QED
            BY <3>4, <5>1, <5>2
        <4> QED
          BY <4>1, <4>2
      <3> QED
        BY <3>5, <3>7, <3>8, <3>9
    <2>3. \A k \in Nat : k \in S => k + 1 \in S
      <3> HIDE DEF Fits
      <3> SUFFICES ASSUME NEW k \in Nat, k \in S, k + 1 <= N PROVE \E f : Fits(f, k + 1)
        OBVIOUS
      <3>1. k <= N
        BY <1>1
      <3>2. PICK f : Fits(f, k)
        BY <3>1
      <3> QED
        BY <2>2, <3>2
    <2>4. Nat \subseteq S
      <3> HIDE DEF S
      <3> QED
        BY <2>1, <2>3, NatInd
    <2>5. PICK f : Fits(f, N)
      <3> HIDE DEF Fits
      <3> QED
        BY <1>1, <2>4
    <2>6. f = Body(f)
      <3>1. \A n \in 0..N : n = 0 \/ n \in 1..N
        OBVIOUS
      <3>2. \A n \in 0..N : f[n] = Body(f)[n]
        BY <2>5, <3>1
      <3>3. f = [n \in 0..N |-> f[n]] /\ Body(f) = [n \in 0..N |-> Body(f)[n]]
        BY <2>5
      <3> HIDE DEF Body, Fits
      <3> QED
        BY <3>2, <3>3
    <2> QED
      BY <2>5, <2>6
  <1>5. after = Body(after)
    BY <1>4
  <1>6. BuildTable(list) = after[N]
    BY DEF BuildTable
  <1> HIDE DEF after
  <1> DEFINE Same == {n \in Nat : n \in 0..N => Good(after[n], n)}
  <1>7. 0 \in Same
    <2>1. Body(after)[0] = NoPostings
      BY <1>1
    <2> HIDE DEF Body, Good
    <2> QED
      BY <1>2, <1>5, <2>1
  <1>8. \A n \in Nat : n \in Same => n + 1 \in Same
    <2> HIDE DEF Good
    <2> SUFFICES ASSUME NEW n \in Nat, n \in Same, n + 1 \in 0..N PROVE Good(after[n + 1], n + 1)
      OBVIOUS
    <2>1. n \in 0..N /\ n + 1 \in 1..N /\ (n + 1) - 1 = n /\ n + 1 # 0
      BY <1>1
    <2>2. Good(after[n], n)
      BY <2>1
    <2>3. Body(after)[n + 1] = indexDocument(after[n], list[n + 1])
      BY <2>1
    <2> HIDE DEF Body
    <2>4. after[n + 1] = indexDocument(after[n], list[n + 1])
      BY <1>5, <2>3
    <2> QED
      BY <1>3, <2>1, <2>2, <2>4
  <1>9. Good(after[N], N)
    <2> HIDE DEF Good
    <2>1. Nat \subseteq Same
      <3> HIDE DEF Same
      <3> QED
        BY <1>7, <1>8, NatInd
    <2> QED
      BY <1>1, <2>1
  <1>10. Upto(list, N) = ToSet(list)
    BY <1>1 DEF Upto, ToSet
  <1> QED
    BY <1>6, <1>9, <1>10

-----------------------------------------------------------------------------
(***************************************************************************)
(* The indexer: what a run has in memory is true of stored pages, and what *)
(* it has written is what it had in memory.                                *)
(***************************************************************************)

RowAt(t, i) == <<t, statstable[t][i].docID>>

PagesInv == pages \in Seq(Docs) /\ Distinct(pages)

\* A row is there for a stored page and says how often the page has the term.
RowInv ==
    /\ IsFiniteSet(DOMAIN inverted_index)
    /\ DOMAIN inverted_index \subseteq Terms \X Docs
    /\ \A r \in DOMAIN inverted_index :
          /\ r[2] \in ToSet(pages)
          /\ inverted_index[r] = Occurrences(r[1], r[2]) /\ inverted_index[r] > 0

\* The table is that of the pages a run has read, and its first postings are saved.
RunInv ==
    /\ indexing \in BOOLEAN /\ skipped \in BOOLEAN
    /\ statstable \in Table
    /\ \E D \in SUBSET ToSet(pages) : Indexed(statstable, D)
    /\ saved \in [Terms -> Nat]
    /\ \A t \in Terms : saved[t] <= Len(statstable[t])
    /\ ~indexing => NoRun
    /\ ~skipped => \A t \in Terms : \A i \in 1..saved[t] : RowAt(t, i) \in DOMAIN inverted_index

CertInv == runs \in 0..MaxRuns /\ certified \subseteq Docs /\ CertifiedComplete

IndexInv == PagesInv /\ RowInv /\ RunInv /\ CertInv

-----------------------------------------------------------------------------
(***************************************************************************)
(* The search: what it has read was true when it was read.                 *)
(***************************************************************************)

Hit == [term : Terms, frequency : Nat]

\* How many terms have been looked up in the index for the hits.
Retrieved == IF stage = "df" THEN Len(terms) ELSE asked

SearchTypes ==
    /\ stage \in {"off", "open", "ask", "df"}
    /\ totalDocs \in Nat /\ avgTerms \in Nat
    /\ terms \in Queries \cup {<<>>} /\ asked \in 0..Len(terms)
    /\ DOMAIN hits \subseteq Docs /\ hits \in [DOMAIN hits -> Seq(Hit)]
    /\ DOMAIN dfCache \subseteq ToSet(terms) /\ \A t \in DOMAIN dfCache : dfCache[t] \in Nat
    /\ DOMAIN docLenCache \subseteq DOMAIN hits
    /\ \A d \in DOMAIN docLenCache : docLenCache[d] \in Nat
    /\ upset \subseteq {"written", "read"}

\* Nothing is left of an earlier search, and nothing is ranked before it is found.
StageInv ==
    /\ stage \in {"off", "open"} => terms = <<>> /\ asked = 0 /\ hits = <<>>
    /\ stage # "df" => DOMAIN dfCache = {} /\ DOMAIN docLenCache = {}
    /\ stage = "df" => DOMAIN dfCache = {terms[i] : i \in 1..asked}

\* Hits are rows; one that has a posting for each term has them in order.
HitInv ==
    \A d \in DOMAIN hits :
        /\ Len(hits[d]) \in 1..Retrieved
        /\ Len(hits[d]) = Retrieved => \A i \in 1..Retrieved : hits[d][i].term = terms[i]
        /\ \A i \in 1..Len(hits[d]) :
              /\ <<hits[d][i].term, d>> \in DOMAIN inverted_index
              /\ inverted_index[<<hits[d][i].term, d>>] = hits[d][i].frequency

\* Unless the index changed or a statement failed, what was read is still so.
StillInv ==
    upset = {} =>
        /\ stage # "off" => totalDocs = getTotalDocCount
        /\ stage \in {"ask", "df"} => avgTerms = getTotalTerms
        /\ stage = "ask" =>
              /\ DOMAIN hits = {d \in Docs : \E i \in 1..asked : Has(d, terms[i])}
              /\ \A d \in DOMAIN hits :
                    Len(hits[d]) = asked <=> \A i \in 1..asked : Has(d, terms[i])
        /\ \A t \in DOMAIN dfCache : dfCache[t] = getDocFreq(t)

\* The statistics cover the hits.
StatInv ==
    stage = "df" =>
        /\ DOMAIN hits # {}
        /\ HitsExact
        /\ "read" \notin upset =>
              /\ \A t \in DOMAIN dfCache : dfCache[t] >= Cardinality(HitsWith(t))
              /\ \A d \in DOMAIN docLenCache : \A i \in 1..Len(hits[d]) :
                    docLenCache[d] >= hits[d][i].frequency

SearchInv == SearchTypes /\ StageInv /\ HitInv /\ StillInv /\ StatInv

IInv == IndexInv /\ SearchInv

-----------------------------------------------------------------------------
(***************************************************************************)
(* Steps of the indexer.                                                   *)
(***************************************************************************)

LEMMA NoRunFits ==
    NoRun => /\ indexing \in BOOLEAN /\ skipped \in BOOLEAN
             /\ statstable \in Table /\ Indexed(statstable, {})
             /\ saved \in [Terms -> Nat]
             /\ \A t \in Terms : saved[t] = 0 /\ Len(statstable[t]) = 0
  <1> SUFFICES ASSUME NoRun
               PROVE  /\ indexing \in BOOLEAN /\ skipped \in BOOLEAN
                      /\ statstable \in Table /\ Indexed(statstable, {})
                      /\ saved \in [Terms -> Nat]
                      /\ \A t \in Terms : saved[t] = 0 /\ Len(statstable[t]) = 0
    OBVIOUS
  <1>1. statstable = NoPostings /\ saved = NoneSaved /\ indexing = FALSE /\ skipped = FALSE
    BY DEF NoRun
  <1>2. saved \in [Terms -> Nat] /\ \A t \in Terms : saved[t] = 0
    BY <1>1 DEF NoneSaved
  <1>3. \A t \in Terms : Len(statstable[t]) = 0
    <2>1. Len(<<>>) = 0
      OBVIOUS
    <2> QED
      BY <1>1, <2>1 DEF NoPostings
  <1> QED
    BY <1>1, <1>2, <1>3, NothingIndexed

\* Between two runs there is nothing in memory.
LEMMA NoRunInv == NoRun => RunInv
  <1> SUFFICES ASSUME NoRun PROVE RunInv
    OBVIOUS
  <1>1. /\ indexing \in BOOLEAN /\ skipped \in BOOLEAN
        /\ statstable \in Table /\ Indexed(statstable, {})
        /\ saved \in [Terms -> Nat]
        /\ \A t \in Terms : saved[t] = 0 /\ Len(statstable[t]) = 0
    BY NoRunFits
  <1>2. \A t \in Terms : 1..saved[t] = {}
    BY <1>1
  <1>3. \E D \in SUBSET ToSet(pages) : Indexed(statstable, D)
    BY <1>1
  <1> QED
    BY <1>1, <1>2, <1>3 DEF RunInv

LEMMA IndexInit == IndexerInit => IndexInv
  <1> SUFFICES ASSUME IndexerInit PROVE IndexInv
    OBVIOUS
  <1>1. PagesInv
    BY DEF IndexerInit, PagesInv, Distinct
  <1>2. RowInv
    <2>1. inverted_index = <<>> /\ DOMAIN <<>> = {}
      BY DEF IndexerInit
    <2> QED
      BY <2>1, FS_EmptySet DEF RowInv
  <1>3. RunInv
    BY NoRunInv DEF IndexerInit
  <1>4. CertInv
    BY RunsAssumption DEF IndexerInit, CertInv, CertifiedComplete
  <1> QED
    BY <1>1, <1>2, <1>3, <1>4 DEF IndexInv

LEMMA PageSet ==
    ASSUME PagesInv
    PROVE  /\ ToSet(pages) = {pages[i] : i \in 1..Len(pages)} /\ ToSet(pages) \subseteq Docs
           /\ Len(pages) \in Nat
  BY DEF PagesInv, ToSet

\* A run reads the pages, or fails to.
LEMMA BuildAllInv ==
    ASSUME IndexInv, BuildAll
    PROVE  IndexInv'
  <1>1. PICK list \in Answers(pages, <<>>) : statstable' = BuildTable(list)
    BY DEF BuildAll
  <1>2. list = pages \/ list = <<>>
    BY DEF Answers
  <1>3. list \in Seq(Docs) /\ Distinct(list) /\ ToSet(list) \subseteq ToSet(pages)
    <2>1. CASE list = pages
      BY <2>1 DEF IndexInv, PagesInv
    <2>2. CASE list = <<>>
      BY <2>2 DEF Distinct, ToSet
    <2> QED
      BY <1>2, <2>1, <2>2
  <1>4. statstable' \in Table /\ Indexed(statstable', ToSet(list))
    BY <1>1, <1>3, BuildTableIndexes
  <1>5. NoRun /\ indexing' = TRUE
        /\ UNCHANGED <<pages, inverted_index, saved, skipped, certified>>
        /\ runs < MaxRuns /\ runs' = runs + 1
    BY DEF BuildAll, IndexInv, RunInv
  <1>6. saved' = NoneSaved /\ skipped' = FALSE
    BY <1>5 DEF NoRun
  <1>7. saved' \in [Terms -> Nat] /\ \A t \in Terms : saved'[t] = 0
    BY <1>6 DEF NoneSaved
  <1>8. RunInv'
    <2>1. \A t \in Terms : saved'[t] <= Len(statstable'[t])
      BY <1>4, <1>7 DEF Table
    <2>2. \A t \in Terms : 1..saved'[t] = {}
      BY <1>7
    <2>3. \E D \in SUBSET ToSet(pages') : Indexed(statstable', D)
      BY <1>3, <1>4, <1>5
    <2> QED
      BY <1>4, <1>5, <1>6, <1>7, <2>1, <2>2, <2>3 DEF RunInv
  <1>9. PagesInv' /\ RowInv'
    BY <1>5 DEF IndexInv, PagesInv, RowInv
  <1>10. CertInv'
    BY <1>5, RunsAssumption DEF IndexInv, CertInv, CertifiedComplete
  <1> QED
    BY <1>8, <1>9, <1>10 DEF IndexInv

\* A row more, and nothing else.
LEMMA UpsertRows ==
    ASSUME NEW row, NEW frequency, inverted_index' = Upsert(row, frequency)
    PROVE  /\ DOMAIN inverted_index' = DOMAIN inverted_index \cup {row}
           /\ \A r \in DOMAIN inverted_index' :
                 inverted_index'[r] = IF r = row THEN frequency ELSE inverted_index[r]
  BY DEF Upsert

LEMMA SaveRowInv ==
    ASSUME IndexInv, NEW t \in Terms, SaveRow(t)
    PROVE  IndexInv'
  <1> DEFINE k == saved[t] + 1
             info == statstable[t][k]
             row == <<t, info.docID>>
  <1>1. /\ indexing /\ saved[t] < Len(statstable[t])
        /\ saved' = [saved EXCEPT ![t] = @ + 1]
        /\ UNCHANGED <<pages, indexing, statstable, runs, certified>>
    BY DEF SaveRow
  <1>2. \/ inverted_index' = Upsert(row, info.frequency) /\ skipped' = skipped
        \/ inverted_index' = inverted_index /\ skipped' = TRUE
    BY DEF SaveRow
  <1>3. /\ statstable \in Table /\ saved \in [Terms -> Nat] /\ skipped \in BOOLEAN
        /\ indexing \in BOOLEAN
    BY DEF IndexInv, RunInv
  <1>4. k \in 1..Len(statstable[t]) /\ statstable[t] \in Seq(Posting) /\ info \in Posting
    BY <1>1, <1>3 DEF Table
  <1>5. PICK D \in SUBSET ToSet(pages) : Indexed(statstable, D)
    BY DEF IndexInv, RunInv
  <1>6. /\ info.docID \in ToSet(pages) /\ info.docID \in Docs
        /\ info.frequency = Occurrences(t, info.docID) /\ info.frequency > 0
    BY <1>4, <1>5 DEF Indexed, Posting
  <1>7. row \in Terms \X Docs /\ row[1] = t /\ row[2] = info.docID
    BY <1>6
  <1>8. RowAt(t, k) = row
    BY DEF RowAt
  <1> HIDE DEF row, info
  <1>9. DOMAIN inverted_index \subseteq DOMAIN inverted_index'
    BY <1>2, UpsertRows
  <1>10. RowInv'
    <2>0. /\ IsFiniteSet(DOMAIN inverted_index)
          /\ DOMAIN inverted_index \subseteq Terms \X Docs
          /\ \A r \in DOMAIN inverted_index :
                /\ r[2] \in ToSet(pages)
                /\ inverted_index[r] = Occurrences(r[1], r[2]) /\ inverted_index[r] > 0
      BY DEF IndexInv, RowInv
    <2>1. CASE inverted_index' = inverted_index
      BY <1>1, <2>0, <2>1 DEF RowInv, Occurrences
    <2>2. CASE inverted_index' = Upsert(row, info.frequency)
      <3>1. /\ DOMAIN inverted_index' = DOMAIN inverted_index \cup {row}
            /\ \A r \in DOMAIN inverted_index' :
                  inverted_index'[r] = IF r = row THEN info.frequency ELSE inverted_index[r]
        BY <2>2, UpsertRows
      <3>2. IsFiniteSet(DOMAIN inverted_index')
        BY <2>0, <3>1, FS_AddElement
      <3>3. DOMAIN inverted_index' \subseteq Terms \X Docs
        BY <1>7, <2>0, <3>1
      <3>4. ASSUME NEW r \in DOMAIN inverted_index'
            PROVE  /\ r[2] \in ToSet(pages)
                   /\ inverted_index'[r] = Occurrences(r[1], r[2]) /\ inverted_index'[r] > 0
        <4>1. CASE r = row
          BY <1>6, <1>7, <3>1, <4>1
        <4>2. CASE r # row
          BY <2>0, <3>1, <4>2
        <4> QED
          BY <4>1, <4>2
      <3> QED
        BY <1>1, <3>2, <3>3, <3>4 DEF RowInv, Occurrences
    <2> QED
      BY <1>2, <2>1, <2>2
  <1>11. RunInv'
    <2>1. saved' \in [Terms -> Nat] /\ saved'[t] = k /\ \A u \in Terms : u # t => saved'[u] = saved[u]
      BY <1>1, <1>3
    <2>2. \A u \in Terms : saved'[u] <= Len(statstable'[u])
      <3>1. \A u \in Terms : saved[u] <= Len(statstable[u])
        BY DEF IndexInv, RunInv
      <3> QED
        BY <1>1, <1>4, <2>1, <3>1
    <2>3. skipped' \in BOOLEAN
      BY <1>2, <1>3
    <2>4. ASSUME ~skipped', NEW u \in Terms, NEW i \in 1..saved'[u]
          PROVE  RowAt(u, i)' \in DOMAIN inverted_index'
      <3>1. inverted_index' = Upsert(row, info.frequency) /\ ~skipped
        BY <1>2, <2>4
      <3>2. row \in DOMAIN inverted_index'
        BY <3>1, UpsertRows
      <3>3. RowAt(u, i)' = RowAt(u, i)
        BY <1>1 DEF RowAt
      <3>4. i \in 1..saved[u] \/ (u = t /\ i = k)
        BY <1>3, <2>1
      <3>5. CASE i \in 1..saved[u]
        BY <1>9, <3>1, <3>3, <3>5 DEF IndexInv, RunInv
      <3>6. CASE u = t /\ i = k
        BY <1>8, <3>2, <3>3, <3>6
      <3> QED
        BY <3>4, <3>5, <3>6
    <2>5. \E X \in SUBSET ToSet(pages') : Indexed(statstable', X)
      BY <1>1, <1>5
    <2> QED
      BY <1>1, <1>3, <2>1, <2>2, <2>3, <2>4, <2>5 DEF RunInv
  <1>12. PagesInv'
    BY <1>1 DEF IndexInv, PagesInv
  <1>13. CertInv'
    BY <1>1, <1>9 DEF IndexInv, CertInv, CertifiedComplete, Occurrences
  <1> QED
    BY <1>10, <1>11, <1>12, <1>13 DEF IndexInv

LEMMA BuildDoneInv ==
    ASSUME IndexInv, BuildDone
    PROVE  IndexInv'
  <1>1. NoRun' /\ UNCHANGED <<pages, inverted_index, runs>>
    BY DEF BuildDone, EndRun, NoRun, NoPostings, NoneSaved
  <1>2. RunInv'
    <2>1. NoRun' => RunInv'
      BY NoRunInv, PTL
    <2> QED
      BY <1>1, <2>1
  <1>3. PagesInv' /\ RowInv'
    BY <1>1 DEF IndexInv, PagesInv, RowInv, Occurrences
  <1>4. CertInv'
    <2>1. CASE skipped
      BY <1>1, <2>1 DEF BuildDone, IndexInv, CertInv, CertifiedComplete, Occurrences
    <2>2. CASE ~skipped
      <3> DEFINE new == {p.docID : p \in Postings}
      <3>1. certified' = certified \cup new
        BY <2>2 DEF BuildDone
      <3>2. PICK D \in SUBSET ToSet(pages) : Indexed(statstable, D)
        BY DEF IndexInv, RunInv
      <3>3. statstable \in Table /\ saved \in [Terms -> Nat]
        BY DEF IndexInv, RunInv
      <3>4. new \subseteq D
        <4>1. ASSUME NEW u \in Terms, NEW p \in ToSet(statstable[u]) PROVE p.docID \in D
          <5>1. statstable[u] \in Seq(Posting)
            BY <3>3 DEF Table
          <5>2. PICK i \in 1..Len(statstable[u]) : p = statstable[u][i]
            BY <5>1 DEF ToSet
          <5> QED
            BY <3>2, <5>2 DEF Indexed
        <4> QED
          BY <4>1 DEF Postings
      <3>5. ASSUME NEW d \in new, NEW t \in Terms, Occurrences(t, d) > 0
            PROVE  <<t, d>> \in DOMAIN inverted_index
        <4>1. PICK i \in 1..Len(statstable[t]) : statstable[t][i].docID = d
          BY <3>2, <3>4, <3>5 DEF Indexed
        <4>2. saved[t] = Len(statstable[t])
          BY DEF BuildDone, AllSaved
        <4>3. RowAt(t, i) \in DOMAIN inverted_index
          BY <2>2, <4>1, <4>2 DEF IndexInv, RunInv
        <4> QED
          BY <4>1, <4>3 DEF RowAt
      <3> HIDE DEF new
      <3>6. D \subseteq Docs
        BY PageSet DEF IndexInv
      <3>7. \A d \in certified, t \in Terms : Occurrences(t, d) > 0 => <<t, d>> \in DOMAIN inverted_index
        BY DEF IndexInv, CertInv, CertifiedComplete
      <3>8. CertifiedComplete'
        BY <1>1, <3>1, <3>5, <3>7 DEF CertifiedComplete, Occurrences
      <3> QED
        BY <1>1, <3>1, <3>4, <3>6, <3>8 DEF IndexInv, CertInv
    <2> QED
      BY <2>1, <2>2
  <1> QED
    BY <1>2, <1>3, <1>4 DEF IndexInv

LEMMA BuildCrashInv ==
    ASSUME IndexInv, BuildCrash
    PROVE  IndexInv'
  <1>1. NoRun' /\ UNCHANGED <<pages, inverted_index, runs, certified>>
    BY DEF BuildCrash, EndRun, NoRun, NoPostings, NoneSaved
  <1>2. RunInv'
    <2>1. NoRun' => RunInv'
      BY NoRunInv, PTL
    <2> QED
      BY <1>1, <2>1
  <1>3. PagesInv' /\ RowInv' /\ CertInv'
    BY <1>1 DEF IndexInv, PagesInv, RowInv, CertInv, CertifiedComplete, Occurrences
  <1> QED
    BY <1>2, <1>3 DEF IndexInv

LEMMA AddPageInv ==
    ASSUME IndexInv, AddPage
    PROVE  IndexInv'
  <1>1. PICK d \in Docs \ ToSet(pages) : pages' = Append(pages, d)
    BY DEF AddPage
  <1>2. UNCHANGED <<inverted_index, indexing, statstable, saved, skipped, runs, certified>>
    BY DEF AddPage, runVars
  <1>3. /\ pages \in Seq(Docs) /\ Distinct(pages) /\ Len(pages) \in Nat
        /\ ToSet(pages) = {pages[i] : i \in 1..Len(pages)}
    BY PageSet DEF IndexInv, PagesInv
  <1>4. /\ pages' \in Seq(Docs) /\ Len(pages') = Len(pages) + 1
        /\ pages'[Len(pages) + 1] = d /\ \A i \in 1..Len(pages) : pages'[i] = pages[i]
    BY <1>1, <1>3
  <1>5. PagesInv'
    <2>1. \A i \in 1..Len(pages') : i \in 1..Len(pages) \/ i = Len(pages) + 1
      BY <1>3, <1>4
    <2>2. \A i \in 1..Len(pages) : pages[i] # d
      BY <1>3
    <2>3. \A i, j \in 1..Len(pages') : pages'[i] = pages'[j] => i = j
      BY <1>3, <1>4, <2>1, <2>2 DEF Distinct
    <2> QED
      BY <1>4, <2>3 DEF PagesInv, Distinct
  <1>6. ToSet(pages) \subseteq ToSet(pages')
    <2>1. \A i \in 1..Len(pages) : i \in DOMAIN pages'
      BY <1>3, <1>4
    <2> QED
      BY <1>3, <1>4, <2>1 DEF ToSet
  <1>7. RowInv'
    BY <1>2, <1>6 DEF IndexInv, RowInv, Occurrences
  <1>8. RunInv'
    <2>1. PICK D \in SUBSET ToSet(pages) : Indexed(statstable, D)
      BY DEF IndexInv, RunInv
    <2>2. D \in SUBSET ToSet(pages') /\ Indexed(statstable', D)
      BY <1>2, <1>6, <2>1
    <2>3. NoRun' <=> NoRun
      BY <1>2 DEF NoRun
    <2>4. /\ indexing' \in BOOLEAN /\ skipped' \in BOOLEAN
          /\ statstable' \in Table
          /\ saved' \in [Terms -> Nat]
          /\ \A t \in Terms : saved'[t] <= Len(statstable'[t])
          /\ ~indexing' => NoRun'
      BY <1>2, <2>3 DEF IndexInv, RunInv
    <2>5. ~skipped' => \A t \in Terms : \A i \in 1..saved'[t] : RowAt(t, i)' \in DOMAIN inverted_index'
      BY <1>2 DEF IndexInv, RunInv, RowAt
    <2> QED
      BY <2>2, <2>4, <2>5 DEF RunInv
  <1>9. CertInv'
    BY <1>2 DEF IndexInv, CertInv, CertifiedComplete, Occurrences
  <1> QED
    BY <1>5, <1>7, <1>8, <1>9 DEF IndexInv

LEMMA IndexStep ==
    ASSUME IndexInv, IndexerNext \/ UNCHANGED indexerVars
    PROVE  IndexInv'
  <1>1. CASE IndexerNext
    BY <1>1, BuildAllInv, SaveRowInv, BuildDoneInv, BuildCrashInv, AddPageInv
       DEF IndexerNext, IndexerStep
  <1>2. CASE UNCHANGED indexerVars
    <2>1. UNCHANGED <<pages, inverted_index, indexing, statstable, saved, skipped, runs, certified>>
      BY <1>2 DEF indexerVars, runVars
    <2>2. PagesInv' /\ RowInv' /\ CertInv'
      BY <2>1 DEF IndexInv, PagesInv, RowInv, CertInv, CertifiedComplete, Occurrences
    <2>3. RunInv'
      BY <2>1 DEF IndexInv, RunInv, RowAt, NoRun
    <2> QED
      BY <2>2, <2>3 DEF IndexInv
  <1> QED
    BY <1>1, <1>2

\* Rows stay, with what they say.
LEMMA RowsStay ==
    ASSUME IndexInv, IndexInv', IndexerNext
    PROVE  \A r \in DOMAIN inverted_index :
              r \in DOMAIN inverted_index' /\ inverted_index'[r] = inverted_index[r]
  <1>1. DOMAIN inverted_index \subseteq DOMAIN inverted_index'
    BY UpsertRows DEF IndexerNext, IndexerStep, BuildAll, SaveRow, BuildDone, BuildCrash, EndRun, AddPage
  <1>2. /\ \A r \in DOMAIN inverted_index : inverted_index[r] = Occurrences(r[1], r[2])
        /\ \A r \in DOMAIN inverted_index' : inverted_index'[r] = Occurrences(r[1], r[2])
    BY DEF IndexInv, RowInv, Occurrences
  <1> QED
    BY <1>1, <1>2

-----------------------------------------------------------------------------
(***************************************************************************)
(* Counting rows and their frequencies.                                    *)
(***************************************************************************)

\* The documents of the index are finitely many.
LEMMA DocCounts ==
    ASSUME RowInv
    PROVE  /\ IsFiniteSet({r[2] : r \in DOMAIN inverted_index})
           /\ getTotalDocCount \in Nat
           /\ DOMAIN inverted_index # {} => getTotalDocCount > 0
  <1> DEFINE all == {r[2] : r \in DOMAIN inverted_index}
             second == [r \in DOMAIN inverted_index |-> r[2]]
  <1>1. IsFiniteSet(all)
    <2>1. all = {second[r] : r \in DOMAIN inverted_index} /\ DOMAIN second = DOMAIN inverted_index
      OBVIOUS
    <2>2. IsFiniteSet(DOMAIN inverted_index)
      BY DEF RowInv
    <2> HIDE DEF second, all
    <2> QED
      BY <2>1, <2>2, FiniteImage
  <1>2. DOMAIN inverted_index # {} => all # {}
    OBVIOUS
  <1>3. getTotalDocCount = Cardinality(all)
    BY DEF getTotalDocCount
  <1> HIDE DEF all
  <1>4. Cardinality(all) \in Nat /\ (all # {} => Cardinality(all) # 0)
    BY <1>1, FS_CardinalityType, FS_EmptySet
  <1> QED
    BY <1>1, <1>2, <1>3, <1>4 DEF all

\* The documents of a term are among them.
LEMMA PostingCounts ==
    ASSUME RowInv, NEW t
    PROVE  /\ getDocFreq(t) \in Nat
           /\ getDocFreq(t) <= getTotalDocCount
           /\ IsFiniteSet(PostingDocs(t)) /\ getDocFreq(t) = Cardinality(PostingDocs(t))
  <1> DEFINE all == {r[2] : r \in DOMAIN inverted_index}
  <1>1. IsFiniteSet(all)
    BY DocCounts
  <1>2. PostingDocs(t) \in SUBSET all
    <2>1. ASSUME NEW d \in Docs, <<t, d>> \in DOMAIN inverted_index PROVE d \in all
      <3>1. <<t, d>>[2] = d
        OBVIOUS
      <3> QED
        BY <2>1, <3>1
    <2> QED
      BY <2>1 DEF PostingDocs
  <1>3. getTotalDocCount = Cardinality(all) /\ getDocFreq(t) = Cardinality(PostingDocs(t))
    BY DEF getTotalDocCount, getDocFreq
  <1> HIDE DEF all
  <1>4. IsFiniteSet(PostingDocs(t)) /\ Cardinality(PostingDocs(t)) <= Cardinality(all)
    BY <1>1, <1>2, FS_Subset
  <1>5. Cardinality(PostingDocs(t)) \in Nat
    BY <1>4, FS_CardinalityType
  <1> QED
    BY <1>3, <1>4, <1>5

\* A sum of frequencies is at least each of them.
LEMMA TotalCovers ==
    ASSUME RowInv, NEW rows \in SUBSET DOMAIN inverted_index
    PROVE  /\ TotalOver(rows) \in Nat
           /\ \A r \in rows : inverted_index[r] <= TotalOver(rows)
  <1> DEFINE Part(r) == {r} \X (1..inverted_index[r])
             parts == {Part(r) : r \in rows}
             f == [r \in rows |-> Part(r)]
  <1>1. IsFiniteSet(rows) /\ \A r \in rows : inverted_index[r] \in Nat
    <2>1. IsFiniteSet(DOMAIN inverted_index)
      BY DEF RowInv
    <2>2. \A r \in rows : inverted_index[r] = Occurrences(r[1], r[2]) /\ r[2] \in Docs
      BY DEF RowInv
    <2> QED
      BY <2>1, <2>2, FS_Subset, CountedAll
  <1>2. ASSUME NEW r \in rows
        PROVE  IsFiniteSet(Part(r)) /\ Cardinality(Part(r)) = inverted_index[r]
    <2> DEFINE n == inverted_index[r]
    <2>1. n \in Nat
      BY <1>1
    <2> HIDE DEF n
    <2>2. IsFiniteSet(1..n) /\ Cardinality(1..n) = n
      BY <2>1, FS_Interval
    <2>3. IsFiniteSet({r}) /\ Cardinality({r}) = 1
      BY FS_Singleton
    <2>4. /\ IsFiniteSet({r} \X (1..n))
          /\ Cardinality({r} \X (1..n)) = Cardinality({r}) * Cardinality(1..n)
      <3> DEFINE R == {r}
                 I == 1..n
      <3>1. IsFiniteSet(R) /\ IsFiniteSet(I)
        BY <2>2, <2>3
      <3> HIDE DEF R, I
      <3>2. IsFiniteSet(R \X I) /\ Cardinality(R \X I) = Cardinality(R) * Cardinality(I)
        BY <3>1, FS_Product, ZenonT(30)
      <3> QED
        BY <3>2 DEF R, I
    <2>5. Cardinality({r}) * Cardinality(1..n) = n
      BY <2>1, <2>2, <2>3
    <2> QED
      BY <2>4, <2>5 DEF n
  <1>3. IsFiniteSet(parts)
    <2>1. parts = {f[r] : r \in rows} /\ DOMAIN f = rows
      OBVIOUS
    <2> HIDE DEF f, parts
    <2> QED
      BY <1>1, <2>1, FiniteImage
  <1>4. IsFiniteSet(UNION parts)
    <2>1. \A T \in parts : IsFiniteSet(T)
      BY <1>2
    <2> HIDE DEF parts
    <2> QED
      BY <1>3, <2>1, FS_UNION
  <1>5. \A r \in rows : Part(r) \in SUBSET (UNION parts)
    OBVIOUS
  <1>6. TotalOver(rows) = Cardinality(UNION parts)
    BY DEF TotalOver
  <1> HIDE DEF Part, parts
  <1>7. \A r \in rows : Cardinality(Part(r)) <= Cardinality(UNION parts)
    BY <1>4, <1>5, FS_Subset
  <1> QED
    BY <1>2, <1>4, <1>6, <1>7, FS_CardinalityType

-----------------------------------------------------------------------------
(***************************************************************************)
(* Steps of the search.                                                    *)
(***************************************************************************)

LEMMA SelectCases ==
    ASSUME NEW answer, NEW empty, NEW s \in Select(answer, empty)
    PROVE  \/ s.is = answer /\ s.upset = upset
           \/ s.is = empty /\ s.upset = upset \cup {"read"}
  BY DEF Select

\* What is said of the index depends on the rows alone.
LEMMA SameIndex ==
    ASSUME inverted_index' = inverted_index
    PROVE  /\ getTotalDocCount' = getTotalDocCount /\ getTotalTerms' = getTotalTerms
           /\ \A t : getDocFreq(t)' = getDocFreq(t)
           /\ \A d, t : Has(d, t)' = Has(d, t)
  BY DEF getTotalDocCount, getTotalTerms, TotalOver, getDocFreq, PostingDocs, Has

\* What holds of a search on an index that stands still is kept by a step that
\* changes neither.
LEMMA StillKept ==
    ASSUME StillInv, inverted_index' = inverted_index, upset' = {} => upset = {},
           UNCHANGED <<stage, totalDocs, avgTerms, terms, asked, hits, dfCache>>
    PROVE  StillInv'
  <1> SUFFICES ASSUME upset' = {}
               PROVE  StillInv'
    BY DEF StillInv
  <1>1. upset = {}
    OBVIOUS
  <1>2. stage' # "off" => totalDocs' = getTotalDocCount'
    BY <1>1, SameIndex DEF StillInv
  <1>3. stage' \in {"ask", "df"} => avgTerms' = getTotalTerms'
    BY <1>1, SameIndex DEF StillInv
  <1>4. ASSUME stage' = "ask"
        PROVE  DOMAIN hits' = {d \in Docs : \E i \in 1..asked' : Has(d, terms[i])'}
    <2>1. DOMAIN hits = {d \in Docs : \E i \in 1..asked : Has(d, terms[i])}
      BY <1>1, <1>4 DEF StillInv
    <2>2. \A d, i : Has(d, terms[i])' = Has(d, terms[i])
      BY DEF Has
    <2> QED
      BY <2>1, <2>2
  <1>5. ASSUME stage' = "ask", NEW d \in DOMAIN hits'
        PROVE  Len(hits'[d]) = asked' <=> \A i \in 1..asked' : Has(d, terms[i])'
    <2>1. Len(hits[d]) = asked <=> \A i \in 1..asked : Has(d, terms[i])
      BY <1>1, <1>5 DEF StillInv
    <2>2. \A i : Has(d, terms[i])' = Has(d, terms[i])
      BY DEF Has
    <2> QED
      BY <2>1, <2>2
  <1>6. \A t \in DOMAIN dfCache' : dfCache'[t] = getDocFreq(t)'
    BY <1>1, SameIndex DEF StillInv
  <1> QED
    BY <1>2, <1>3, <1>4, <1>5, <1>6 DEF StillInv

LEMMA QueryTypes ==
    ASSUME SearchTypes
    PROVE  /\ terms \in Seq(Terms) /\ Len(terms) \in Nat /\ asked \in Nat /\ asked <= Len(terms)
           /\ DOMAIN terms = 1..Len(terms)
           /\ ToSet(terms) = {terms[i] : i \in 1..Len(terms)}
           /\ \A i \in 1..Len(terms) : terms[i] \in Terms
  <1>1. terms \in Seq(Terms)
    <2>1. <<>> \in Seq(Terms)
      OBVIOUS
    <2> QED
      BY <2>1, QueriesAssumption DEF SearchTypes
  <1>2. asked \in 0..Len(terms)
    BY DEF SearchTypes
  <1> QED
    BY <1>1, <1>2 DEF ToSet

LEMMA Nothing == DOMAIN <<>> = {} /\ Len(<<>>) = 0 /\ <<>> \in [DOMAIN <<>> -> Seq(Hit)]
  OBVIOUS

\* A search that ends leaves nothing.
LEMMA ResetInv == Reset => SearchInv'
  <1> SUFFICES ASSUME Reset PROVE SearchInv'
    OBVIOUS
  <1>1. /\ stage' = "off" /\ totalDocs' = 0 /\ avgTerms' = 0
        /\ terms' = <<>> /\ asked' = 0
        /\ hits' = <<>> /\ dfCache' = <<>> /\ docLenCache' = <<>>
        /\ upset' = {}
    BY DEF Reset
  <1>2. SearchTypes'
    <2>1. DOMAIN hits' \subseteq Docs /\ hits' \in [DOMAIN hits' -> Seq(Hit)]
      BY <1>1, Nothing
    <2>2. DOMAIN dfCache' = {} /\ DOMAIN docLenCache' = {} /\ asked' \in 0..Len(terms')
      BY <1>1, Nothing
    <2> QED
      BY <1>1, <2>1, <2>2 DEF SearchTypes
  <1>3. StageInv' /\ HitInv' /\ StatInv'
    BY <1>1, Nothing DEF StageInv, HitInv, StatInv
  <1>4. StillInv'
    BY <1>1, Nothing DEF StillInv
  <1> QED
    BY <1>2, <1>3, <1>4 DEF SearchInv

LEMMA SearchInit == Init => SearchInv
  <1> SUFFICES ASSUME Init PROVE SearchInv
    OBVIOUS
  <1>1. /\ stage = "off" /\ totalDocs = 0 /\ avgTerms = 0
        /\ terms = <<>> /\ asked = 0
        /\ hits = <<>> /\ dfCache = <<>> /\ docLenCache = <<>>
        /\ upset = {}
    BY DEF Init
  <1>2. SearchTypes
    <2>1. DOMAIN hits \subseteq Docs /\ hits \in [DOMAIN hits -> Seq(Hit)]
      BY <1>1, Nothing
    <2>2. DOMAIN dfCache = {} /\ DOMAIN docLenCache = {} /\ asked \in 0..Len(terms)
      BY <1>1, Nothing
    <2> QED
      BY <1>1, <2>1, <2>2 DEF SearchTypes
  <1>3. StageInv /\ HitInv /\ StatInv
    BY <1>1, Nothing DEF StageInv, HitInv, StatInv
  <1>4. StillInv
    BY <1>1, Nothing DEF StillInv
  <1> QED
    BY <1>2, <1>3, <1>4 DEF SearchInv

LEMMA OpenInv ==
    ASSUME IInv, Open
    PROVE  SearchInv'
  <1>1. PICK s \in Select(getTotalDocCount, 0) : totalDocs' = s.is /\ upset' = s.upset
    BY DEF Open
  <1>2. /\ stage = "off" /\ stage' = "open"
        /\ UNCHANGED <<inverted_index, avgTerms, terms, asked, hits, dfCache, docLenCache>>
    BY DEF Open, indexerVars
  <1>3. \/ totalDocs' = getTotalDocCount /\ upset' = upset
        \/ totalDocs' = 0 /\ upset' = upset \cup {"read"}
    BY <1>1, SelectCases
  <1>4. /\ terms = <<>> /\ asked = 0 /\ hits = <<>> /\ DOMAIN hits = {}
        /\ DOMAIN dfCache = {} /\ DOMAIN docLenCache = {}
    BY <1>2, Nothing DEF IInv, SearchInv, StageInv
  <1>5. SearchTypes'
    <2>1. totalDocs' \in Nat
      BY <1>3, DocCounts DEF IInv, IndexInv
    <2>2. upset' \subseteq {"written", "read"}
      BY <1>3 DEF IInv, SearchInv, SearchTypes
    <2> QED
      BY <1>2, <2>1, <2>2 DEF IInv, SearchInv, SearchTypes
  <1>6. StageInv' /\ HitInv' /\ StatInv'
    BY <1>2, <1>4 DEF StageInv, HitInv, StatInv
  <1>7. StillInv'
    <2>1. upset' = {} => totalDocs' = getTotalDocCount'
      BY <1>2, <1>3, SameIndex
    <2> QED
      BY <1>2, <1>4, <2>1 DEF StillInv
  <1> QED
    BY <1>5, <1>6, <1>7 DEF SearchInv

LEMMA ParseInv ==
    ASSUME IInv, Parse
    PROVE  SearchInv'
  <1>1. PICK s \in Select(getTotalTerms, 0) : avgTerms' = s.is /\ upset' = s.upset
    BY DEF Parse
  <1>2. /\ stage = "open" /\ stage' = "ask" /\ terms' \in Queries
        /\ UNCHANGED <<inverted_index, totalDocs, asked, hits, dfCache, docLenCache>>
    BY DEF Parse, indexerVars
  <1>3. \/ avgTerms' = getTotalTerms /\ upset' = upset
        \/ avgTerms' = 0 /\ upset' = upset \cup {"read"}
    BY <1>1, SelectCases
  <1>4. /\ asked = 0 /\ hits = <<>> /\ DOMAIN hits = {}
        /\ DOMAIN dfCache = {} /\ DOMAIN docLenCache = {}
    BY <1>2, Nothing DEF IInv, SearchInv, StageInv
  <1>5. SearchTypes'
    <2>1. avgTerms' \in Nat
      BY <1>3, TotalCovers DEF IInv, IndexInv, getTotalTerms
    <2>2. upset' \subseteq {"written", "read"}
      BY <1>3 DEF IInv, SearchInv, SearchTypes
    <2>3. asked' \in 0..Len(terms')
      <3>1. Len(terms') \in Nat
        BY <1>2, QueriesAssumption
      <3> QED
        BY <1>2, <1>4, <3>1
    <2>4. DOMAIN dfCache' = {} /\ DOMAIN docLenCache' = {}
      BY <1>2, <1>4
    <2> QED
      BY <1>2, <2>1, <2>2, <2>3, <2>4 DEF IInv, SearchInv, SearchTypes
  <1>6. StageInv' /\ HitInv' /\ StatInv'
    BY <1>2, <1>4 DEF StageInv, HitInv, StatInv
  <1>7. StillInv'
    <2>1. upset' = {} => totalDocs' = getTotalDocCount' /\ avgTerms' = getTotalTerms'
      <3>1. upset' = {} => upset = {} /\ totalDocs = getTotalDocCount
        BY <1>2, <1>3 DEF IInv, SearchInv, StillInv
      <3> QED
        BY <1>2, <1>3, <3>1, SameIndex
    <2>2. DOMAIN hits' = {d \in Docs : \E i \in 1..asked' : Has(d, terms[i])'}
      <3>1. 1..asked' = {}
        BY <1>2, <1>4
      <3> QED
        BY <1>2, <1>4, <3>1
    <2> QED
      BY <1>2, <1>4, <2>1, <2>2 DEF StillInv
  <1> QED
    BY <1>5, <1>6, <1>7 DEF SearchInv

\* A hit, or the lack of one, before the next term.
LEMMA HitsBefore ==
    ASSUME IInv, stage = "ask", NEW d \in Docs
    PROVE  /\ HitsOf(d) \in Seq(Hit) /\ Len(HitsOf(d)) \in Nat /\ Len(HitsOf(d)) <= asked
           /\ Len(HitsOf(d)) = asked => \A i \in 1..asked : HitsOf(d)[i].term = terms[i]
           /\ \A i \in 1..Len(HitsOf(d)) :
                 /\ <<HitsOf(d)[i].term, d>> \in DOMAIN inverted_index
                 /\ inverted_index[<<HitsOf(d)[i].term, d>>] = HitsOf(d)[i].frequency
           /\ upset = {} => (Len(HitsOf(d)) = asked <=> \A i \in 1..asked : Has(d, terms[i]))
  <1>1. asked \in Nat /\ Retrieved = asked
    BY QueryTypes DEF IInv, SearchInv, Retrieved
  <1>2. CASE d \in DOMAIN hits
    <2>1. HitsOf(d) = hits[d] /\ hits[d] \in Seq(Hit)
      BY <1>2 DEF HitsOf, IInv, SearchInv, SearchTypes
    <2>2. /\ Len(hits[d]) \in 1..asked
          /\ Len(hits[d]) = asked => \A i \in 1..asked : hits[d][i].term = terms[i]
          /\ \A i \in 1..Len(hits[d]) :
                /\ <<hits[d][i].term, d>> \in DOMAIN inverted_index
                /\ inverted_index[<<hits[d][i].term, d>>] = hits[d][i].frequency
      BY <1>1, <1>2 DEF IInv, SearchInv, HitInv
    <2>3. upset = {} => (Len(hits[d]) = asked <=> \A i \in 1..asked : Has(d, terms[i]))
      BY <1>2 DEF IInv, SearchInv, StillInv
    <2>4. Len(hits[d]) \in Nat /\ Len(hits[d]) <= asked
      BY <1>1, <2>2
    <2> QED
      BY <2>1, <2>2, <2>3, <2>4
  <1>3. CASE d \notin DOMAIN hits
    <2>1. HitsOf(d) = <<>> /\ Len(<<>>) = 0 /\ <<>> \in Seq(Hit)
      BY <1>3 DEF HitsOf
    <2>2. upset = {} => \A i \in 1..asked : ~Has(d, terms[i])
      BY <1>3 DEF IInv, SearchInv, StillInv
    <2>3. asked = 0 \/ 1 \in 1..asked
      BY <1>1
    <2> QED
      BY <1>1, <2>1, <2>2, <2>3
  <1> QED
    BY <1>2, <1>3

LEMMA RetrieveTermInv ==
    ASSUME IInv, RetrieveTerm
    PROVE  SearchInv'
  <1> DEFINE t == terms[asked + 1]
  <1>1. PICK s \in Select(PostingDocs(t), {}) : hits' = Pushed(t, s.is) /\ upset' = s.upset
    BY DEF RetrieveTerm
  <1> DEFINE docs == s.is
  <1>2. /\ stage = "ask" /\ stage' = "ask" /\ asked < Len(terms) /\ asked' = asked + 1
        /\ UNCHANGED <<inverted_index, totalDocs, avgTerms, terms, dfCache, docLenCache>>
    BY DEF RetrieveTerm, indexerVars
  <1>3. \/ docs = PostingDocs(t) /\ upset' = upset
        \/ docs = {} /\ upset' = upset \cup {"read"}
    BY <1>1, SelectCases
  <1>4. /\ asked \in Nat /\ Len(terms) \in Nat /\ asked + 1 \in 1..Len(terms) /\ t \in Terms
        /\ \A i \in 1..Len(terms) : terms[i] \in Terms
    BY <1>2, QueryTypes DEF IInv, SearchInv
  <1>5. \A i \in 1..(asked + 1) : i \in 1..asked \/ i = asked + 1
    BY <1>4
  <1> HIDE DEF docs
  <1>6. docs \subseteq Docs /\ \A d \in docs : <<t, d>> \in DOMAIN inverted_index
    BY <1>3 DEF PostingDocs
  <1>7. /\ DOMAIN hits' = DOMAIN hits \cup docs
        /\ \A d \in DOMAIN hits' :
              hits'[d] = IF d \in docs THEN Append(HitsOf(d), PostingOf(t, d)) ELSE hits[d]
        /\ hits' = [d \in DOMAIN hits' |-> hits'[d]]
    BY <1>1 DEF Pushed, docs
  <1>8. DOMAIN hits \subseteq Docs /\ DOMAIN hits' \subseteq Docs
    BY <1>6, <1>7 DEF IInv, SearchInv, SearchTypes
  <1> DEFINE p(d) == PostingOf(t, d)
  <1>9. ASSUME NEW d \in docs
        PROVE  /\ p(d) \in Hit /\ p(d).term = t /\ p(d).frequency = inverted_index[<<t, d>>]
    <2>1. inverted_index[<<t, d>>] = Occurrences(<<t, d>>[1], <<t, d>>[2]) /\ <<t, d>>[2] = d
      BY <1>6 DEF IInv, IndexInv, RowInv
    <2>2. inverted_index[<<t, d>>] \in Nat
      BY <1>6, <2>1, CountedAll
    <2> QED
      BY <1>4, <2>2 DEF PostingOf, Hit
  <1> HIDE DEF t, p
  \* What a document of the posting list has now.
  <1>10. ASSUME NEW d \in docs
         PROVE  /\ hits'[d] \in Seq(Hit) /\ Len(hits'[d]) = Len(HitsOf(d)) + 1
                /\ hits'[d][Len(HitsOf(d)) + 1] = p(d)
                /\ \A i \in 1..Len(HitsOf(d)) : hits'[d][i] = HitsOf(d)[i]
    <2>1. HitsOf(d) \in Seq(Hit) /\ p(d) \in Hit
      BY <1>2, <1>6, <1>9, HitsBefore
    <2>2. hits'[d] = Append(HitsOf(d), p(d))
      BY <1>7 DEF p
    <2> QED
      BY <2>1, <2>2
  <1>11. ASSUME NEW d \in DOMAIN hits'
         PROVE  /\ hits'[d] \in Seq(Hit)
                /\ Len(hits'[d]) \in 1..(asked + 1)
                /\ Len(hits'[d]) = asked + 1 =>
                      \A i \in 1..(asked + 1) : hits'[d][i].term = terms[i]
                /\ \A i \in 1..Len(hits'[d]) :
                      /\ <<hits'[d][i].term, d>> \in DOMAIN inverted_index
                      /\ inverted_index[<<hits'[d][i].term, d>>] = hits'[d][i].frequency
                /\ upset' = {} => (Len(hits'[d]) = asked + 1
                                      <=> \A i \in 1..(asked + 1) : Has(d, terms[i]))
    <2> DEFINE old == HitsOf(d)
               new == hits'[d]
               n == Len(old)
    <2>1. /\ old \in Seq(Hit) /\ n \in Nat /\ n <= asked
          /\ n = asked => \A i \in 1..asked : old[i].term = terms[i]
          /\ \A i \in 1..n :
                /\ <<old[i].term, d>> \in DOMAIN inverted_index
                /\ inverted_index[<<old[i].term, d>>] = old[i].frequency
          /\ upset = {} => (n = asked <=> \A i \in 1..asked : Has(d, terms[i]))
      BY <1>2, <1>8, HitsBefore
    <2>2. CASE d \in docs
      <3>1. /\ new \in Seq(Hit) /\ Len(new) = n + 1
            /\ new[n + 1] = p(d)
            /\ \A i \in 1..n : new[i] = old[i]
        BY <1>10, <2>2
      <3>2. /\ p(d).term = t /\ p(d).frequency = inverted_index[<<t, d>>]
            /\ <<t, d>> \in DOMAIN inverted_index
        BY <1>6, <1>9, <2>2
      <3> HIDE DEF old, new, n
      <3>3. \A i \in 1..(n + 1) : i \in 1..n \/ i = n + 1
        BY <2>1
      <3>4. Len(new) \in 1..(asked + 1)
        BY <1>4, <2>1, <3>1
      <3>5. Len(new) = asked + 1 => \A i \in 1..(asked + 1) : new[i].term = terms[i]
        <4>1. ASSUME n + 1 = asked + 1, NEW i \in 1..(asked + 1) PROVE new[i].term = terms[i]
          <5>1. n = asked
            BY <1>4, <2>1, <4>1
          <5>2. CASE i \in 1..asked
            BY <2>1, <3>1, <5>1, <5>2
          <5>3. CASE i = asked + 1
            BY <3>1, <3>2, <5>1, <5>3 DEF t
          <5> QED
            BY <1>5, <5>2, <5>3
        <4> QED
          BY <3>1, <4>1
      <3>6. ASSUME NEW i \in 1..(n + 1)
            PROVE  /\ <<new[i].term, d>> \in DOMAIN inverted_index
                   /\ inverted_index[<<new[i].term, d>>] = new[i].frequency
        <4>1. CASE i \in 1..n
          BY <2>1, <3>1, <4>1
        <4>2. CASE i = n + 1
          BY <3>1, <3>2, <4>2
        <4> QED
          BY <3>3, <4>1, <4>2
      <3>7. upset' = {} => (n + 1 = asked + 1 <=> \A i \in 1..(asked + 1) : Has(d, terms[i]))
        <4>1. upset' = {} => upset = {}
          BY <1>3
        <4>2. Has(d, terms[asked + 1])
          BY <3>2 DEF t, Has
        <4>3. (\A i \in 1..(asked + 1) : Has(d, terms[i])) <=> \A i \in 1..asked : Has(d, terms[i])
          <5>1. \A i \in 1..asked : i \in 1..(asked + 1)
            BY <1>4
          <5> QED
            BY <1>5, <4>2, <5>1
        <4>4. n + 1 = asked + 1 <=> n = asked
          BY <1>4, <2>1
        <4> QED
          BY <2>1, <4>1, <4>3, <4>4
      <3> QED
        BY <3>1, <3>4, <3>5, <3>6, <3>7 DEF new
    <2>3. CASE d \notin docs
      <3>1. new = hits[d] /\ d \in DOMAIN hits /\ old = hits[d]
        BY <1>7, <2>3 DEF HitsOf
      <3>2. Len(new) = n /\ Len(new) \in 1..asked
        <4>1. Len(hits[d]) \in 1..Retrieved /\ Retrieved = asked
          BY <1>2, <3>1 DEF IInv, SearchInv, HitInv, Retrieved
        <4> QED
          BY <3>1, <4>1
      <3>3. upset' = {} => ~Has(d, terms[asked + 1])
        <4>1. upset' = {} => docs = PostingDocs(t)
          BY <1>3
        <4> QED
          BY <1>8, <2>3, <3>1, <4>1 DEF PostingDocs, Has, t
      <3>4. asked + 1 \in 1..(asked + 1) /\ Len(new) # asked + 1 /\ Len(new) \in 1..(asked + 1)
        BY <1>4, <3>2
      <3> HIDE DEF old, new, n
      <3> QED
        BY <2>1, <3>1, <3>2, <3>3, <3>4 DEF new
    <2> QED
      BY <2>2, <2>3
  <1>12. DOMAIN dfCache = {} /\ DOMAIN docLenCache = {}
    BY <1>2 DEF IInv, SearchInv, StageInv
  <1>13. SearchTypes'
    <2>1. hits' \in [DOMAIN hits' -> Seq(Hit)]
      BY <1>7, <1>11
    <2>2. upset' \subseteq {"written", "read"}
      BY <1>3 DEF IInv, SearchInv, SearchTypes
    <2>3. asked' \in 0..Len(terms')
      BY <1>2, <1>4
    <2>4. DOMAIN dfCache' = {} /\ DOMAIN docLenCache' = {}
      BY <1>2, <1>12
    <2>5. totalDocs' \in Nat /\ avgTerms' \in Nat /\ terms' \in Queries \cup {<<>>}
      BY <1>2 DEF IInv, SearchInv, SearchTypes
    <2> QED
      BY <1>2, <1>8, <2>1, <2>2, <2>3, <2>4, <2>5 DEF SearchTypes
  <1>14. StageInv' /\ StatInv'
    BY <1>2, <1>12 DEF StageInv, StatInv
  <1>15. HitInv'
    <2>1. Retrieved' = asked + 1
      BY <1>2 DEF Retrieved
    <2> QED
      BY <1>2, <1>11, <2>1 DEF HitInv
  <1>16. StillInv'
    <2>1. ASSUME upset' = {}
          PROVE  DOMAIN hits' = {d \in Docs : \E i \in 1..(asked + 1) : Has(d, terms[i])}
      <3>1. docs = PostingDocs(t) /\ upset = {}
        BY <1>3, <2>1
      <3>2. DOMAIN hits = {d \in Docs : \E i \in 1..asked : Has(d, terms[i])}
        BY <1>2, <3>1 DEF IInv, SearchInv, StillInv
      <3>3. docs = {d \in Docs : Has(d, terms[asked + 1])}
        BY <3>1 DEF PostingDocs, Has, t
      <3>4. \A i \in 1..asked : i \in 1..(asked + 1)
        BY <1>4
      <3>5. asked + 1 \in 1..(asked + 1)
        BY <1>4
      <3> QED
        BY <1>5, <1>7, <3>2, <3>3, <3>4, <3>5
    <2>2. upset' = {} => totalDocs' = getTotalDocCount' /\ avgTerms' = getTotalTerms'
      <3>1. upset' = {} => upset = {}
        BY <1>3
      <3>2. upset = {} => totalDocs = getTotalDocCount /\ avgTerms = getTotalTerms
        BY <1>2 DEF IInv, SearchInv, StillInv
      <3> QED
        BY <1>2, <3>1, <3>2, SameIndex
    <2>3. asked' = asked + 1 /\ \A d, i : Has(d, terms[i])' = Has(d, terms[i])
      BY <1>2 DEF Has
    <2>4. upset' = {} => DOMAIN hits' = {d \in Docs : \E i \in 1..asked' : Has(d, terms[i])'}
      BY <2>1, <2>3
    <2>5. upset' = {} => \A d \in DOMAIN hits' :
                            Len(hits'[d]) = asked' <=> \A i \in 1..asked' : Has(d, terms[i])'
      <3> SUFFICES ASSUME upset' = {}, NEW d \in DOMAIN hits'
                   PROVE  Len(hits'[d]) = asked' <=> \A i \in 1..asked' : Has(d, terms[i])'
        OBVIOUS
      <3>1. Len(hits'[d]) = asked + 1 <=> \A i \in 1..(asked + 1) : Has(d, terms[i])
        BY <1>11
      <3> QED
        BY <2>3, <3>1
    <2>6. \A u \in DOMAIN dfCache' : dfCache'[u] = getDocFreq(u)'
      BY <1>2, <1>12
    <2> QED
      BY <1>2, <2>2, <2>4, <2>5, <2>6 DEF StillInv
  <1> QED
    BY <1>13, <1>14, <1>15, <1>16 DEF SearchInv

\* The documents that have all terms are kept, or else all hits.
LEMMA FilterInv ==
    ASSUME IInv, Filter
    PROVE  SearchInv'
  <1>1. CASE hits = <<>>
    BY <1>1, ResetInv DEF Filter
  <1>2. CASE hits # <<>>
    <2>1. /\ stage = "ask" /\ stage' = "df" /\ asked = Len(terms) /\ asked' = 0
          /\ hits' = [d \in Matching |-> hits[d]]
          /\ UNCHANGED <<inverted_index, totalDocs, avgTerms, terms, dfCache, docLenCache, upset>>
      BY <1>2 DEF Filter, indexerVars
    <2>2. /\ asked \in Nat /\ DOMAIN terms = 1..Len(terms)
          /\ ToSet(terms) = {terms[i] : i \in 1..Len(terms)}
      BY QueryTypes DEF IInv, SearchInv
    <2>3. /\ DOMAIN hits \subseteq Docs /\ hits \in [DOMAIN hits -> Seq(Hit)]
          /\ DOMAIN hits # {}
      BY <1>2 DEF IInv, SearchInv, SearchTypes
    <2>4. \A d \in DOMAIN hits :
             /\ Len(hits[d]) \in 1..asked
             /\ Len(hits[d]) = asked => \A i \in 1..asked : hits[d][i].term = terms[i]
             /\ \A i \in 1..Len(hits[d]) :
                   /\ <<hits[d][i].term, d>> \in DOMAIN inverted_index
                   /\ inverted_index[<<hits[d][i].term, d>>] = hits[d][i].frequency
      BY <2>1 DEF IInv, SearchInv, HitInv, Retrieved
    <2> DEFINE whole == {d \in DOMAIN hits : HasAll(d)}
    <2>5. Matching = IF whole = {} THEN DOMAIN hits ELSE whole
      BY DEF Matching
    <2>6. whole = {d \in DOMAIN hits : Len(hits[d]) = asked}
      <3>1. \A d \in DOMAIN hits : HasAll(d) <=> Len(hits[d]) = asked
        <4>1. ASSUME NEW d \in DOMAIN hits PROVE Len(hits[d]) >= asked <=> Len(hits[d]) = asked
          <5>1. Len(hits[d]) \in 1..asked
            BY <2>4
          <5> QED
            BY <2>2, <5>1
        <4> QED
          BY <2>1, <4>1 DEF HasAll
      <3> QED
        BY <3>1
    <2> HIDE DEF whole
    <2>7. Matching \subseteq DOMAIN hits /\ Matching # {}
      <3>1. whole \subseteq DOMAIN hits
        BY <2>6
      <3> QED
        BY <2>3, <2>5, <3>1
    <2>8. /\ DOMAIN hits' = Matching /\ \A d \in Matching : hits'[d] = hits[d]
          /\ DOMAIN dfCache = {} /\ DOMAIN docLenCache = {}
      BY <2>1 DEF IInv, SearchInv, StageInv
    <2>9. SearchTypes'
      <3>1. DOMAIN hits' \subseteq Docs /\ hits' \in [DOMAIN hits' -> Seq(Hit)]
        <4>1. \A d \in Matching : hits[d] \in Seq(Hit)
          BY <2>3, <2>7
        <4> QED
          BY <2>1, <2>3, <2>7, <2>8, <4>1
      <3>2. asked' \in 0..Len(terms')
        BY <2>1, <2>2
      <3>3. DOMAIN dfCache' = {} /\ DOMAIN docLenCache' = {}
        BY <2>1, <2>8
      <3>4. /\ totalDocs' \in Nat /\ avgTerms' \in Nat /\ terms' \in Queries \cup {<<>>}
            /\ upset' \subseteq {"written", "read"}
        BY <2>1 DEF IInv, SearchInv, SearchTypes
      <3> QED
        BY <2>1, <3>1, <3>2, <3>3, <3>4 DEF SearchTypes
    <2>10. StageInv'
      <3>1. 1..asked' = {}
        BY <2>1
      <3> QED
        BY <2>1, <2>8, <3>1 DEF StageInv
    <2>11. HitInv'
      <3>1. Retrieved' = asked
        BY <2>1 DEF Retrieved
      <3> QED
        BY <2>1, <2>4, <2>7, <2>8, <3>1 DEF HitInv
    <2>12. StillInv'
      <3>1. upset = {} => totalDocs = getTotalDocCount /\ avgTerms = getTotalTerms
        BY <2>1 DEF IInv, SearchInv, StillInv
      <3> QED
        BY <2>1, <2>8, <3>1, SameIndex DEF StillInv
    <2>13. HitsExact'
      <3> DEFINE all == {d \in Docs : \A t \in ToSet(terms) : Has(d, t)}
                 some == {d \in Docs : \E t \in ToSet(terms) : Has(d, t)}
      <3>1. ASSUME upset = {} PROVE Matching = IF all # {} THEN all ELSE some
        <4>1. /\ DOMAIN hits = {d \in Docs : \E i \in 1..asked : Has(d, terms[i])}
              /\ \A d \in DOMAIN hits :
                    Len(hits[d]) = asked <=> \A i \in 1..asked : Has(d, terms[i])
          BY <2>1, <3>1 DEF IInv, SearchInv, StillInv
        <4>2. DOMAIN hits = some
          BY <2>1, <2>2, <4>1
        <4>3. 1 \in 1..asked
          <5>1. PICK d \in DOMAIN hits : TRUE
            BY <2>3
          <5>2. Len(hits[d]) \in 1..asked
            BY <2>4
          <5> QED
            BY <2>2, <5>2
        <4>4. all = {d \in Docs : \A i \in 1..asked : Has(d, terms[i])}
          BY <2>1, <2>2
        <4>5. all = whole
          BY <2>6, <4>1, <4>3, <4>4
        <4> HIDE DEF all, some
        <4> QED
          BY <2>5, <4>2, <4>5
      <3>2. DOMAIN hits' = Matching /\ terms' = terms /\ inverted_index' = inverted_index /\ upset' = upset
        BY <2>1, <2>8
      <3>3. (upset = {} => Matching = IF all # {} THEN all ELSE some)
        BY <3>1
      <3> QED
        BY <3>2, <3>3 DEF HitsExact, Has
    <2>14. StatInv'
      <3>1. DOMAIN dfCache' = {} /\ DOMAIN docLenCache' = {} /\ DOMAIN hits' # {}
        BY <2>1, <2>7, <2>8
      <3> QED
        BY <2>13, <3>1 DEF StatInv
    <2> QED
      BY <2>9, <2>10, <2>11, <2>12, <2>14 DEF SearchInv
  <1> QED
    BY <1>1, <1>2

\* While the statistics are read, the hits stay as they are.
LEMMA RankFrame ==
    ASSUME SearchInv, stage = "df", stage' = "df",
           UNCHANGED <<inverted_index, totalDocs, avgTerms, terms, hits>>,
           upset' = upset \/ upset' = upset \cup {"read"}
    PROVE  /\ HitInv' /\ HitsExact' /\ DOMAIN hits' # {}
           /\ upset' = {} => upset = {} /\ totalDocs' = getTotalDocCount' /\ avgTerms' = getTotalTerms'
           /\ \A t : HitsWith(t)' = HitsWith(t)
           /\ upset' \subseteq {"written", "read"}
  <1>1. HitInv'
    BY DEF SearchInv, HitInv, Retrieved
  <1>2. HitsExact'
    BY DEF SearchInv, StatInv, HitsExact, Has
  <1>3. DOMAIN hits' # {}
    BY DEF SearchInv, StatInv
  <1>4. upset' = {} => upset = {} /\ totalDocs' = getTotalDocCount' /\ avgTerms' = getTotalTerms'
    <2>1. upset = {} => totalDocs = getTotalDocCount /\ avgTerms = getTotalTerms
      BY DEF SearchInv, StillInv
    <2> QED
      BY <2>1, SameIndex
  <1>5. \A t : HitsWith(t)' = HitsWith(t)
    BY DEF HitsWith
  <1>6. upset' \subseteq {"written", "read"}
    BY DEF SearchInv, SearchTypes
  <1> QED
    BY <1>1, <1>2, <1>3, <1>4, <1>5, <1>6

\* A term was found in documents that have it.
LEMMA HitsArePostings ==
    ASSUME IInv, NEW t
    PROVE  Cardinality(HitsWith(t)) \in Nat /\ Cardinality(HitsWith(t)) <= getDocFreq(t)
  <1>1. HitsWith(t) \in SUBSET PostingDocs(t)
    <2>1. ASSUME NEW d \in DOMAIN hits, NEW i \in DOMAIN hits[d], hits[d][i].term = t
          PROVE  d \in Docs /\ <<t, d>> \in DOMAIN inverted_index
      <3>1. d \in Docs /\ hits[d] \in Seq(Hit)
        BY DEF IInv, SearchInv, SearchTypes
      <3>2. i \in 1..Len(hits[d])
        BY <3>1
      <3> QED
        BY <2>1, <3>1, <3>2 DEF IInv, SearchInv, HitInv
    <2> QED
      BY <2>1 DEF HitsWith, PostingDocs
  <1>2. IsFiniteSet(PostingDocs(t)) /\ getDocFreq(t) = Cardinality(PostingDocs(t))
    BY PostingCounts DEF IInv, IndexInv
  <1>3. IsFiniteSet(HitsWith(t)) /\ Cardinality(HitsWith(t)) <= Cardinality(PostingDocs(t))
    BY <1>1, <1>2, FS_Subset
  <1> QED
    BY <1>2, <1>3, FS_CardinalityType

LEMMA ReadDocFreqInv ==
    ASSUME IInv, ReadDocFreq
    PROVE  SearchInv'
  <1> DEFINE t == terms[asked + 1]
  <1>1. /\ stage = "df" /\ stage' = "df" /\ asked < Len(terms) /\ asked' = asked + 1
        /\ UNCHANGED <<inverted_index, totalDocs, avgTerms, terms, hits, docLenCache>>
    BY DEF ReadDocFreq, indexerVars
  <1>2. \/ t \in DOMAIN dfCache /\ dfCache' = dfCache /\ upset' = upset
        \/ \E s \in Select(getDocFreq(t), 0) :
              dfCache' = Extend(dfCache, t, s.is) /\ upset' = s.upset
    BY DEF ReadDocFreq
  <1>3. /\ asked \in Nat /\ Len(terms) \in Nat /\ asked + 1 \in 1..Len(terms)
        /\ ToSet(terms) = {terms[i] : i \in 1..Len(terms)}
    BY <1>1, QueryTypes DEF IInv, SearchInv
  <1>4. t \in ToSet(terms)
    BY <1>3
  <1>5. /\ DOMAIN dfCache \subseteq ToSet(terms) /\ DOMAIN dfCache = {terms[i] : i \in 1..asked}
        /\ \A u \in DOMAIN dfCache : dfCache[u] \in Nat
    BY <1>1 DEF IInv, SearchInv, SearchTypes, StageInv
  <1>6. {terms[i] : i \in 1..(asked + 1)} = {terms[i] : i \in 1..asked} \cup {t}
    <2>1. \A i \in 1..(asked + 1) : i \in 1..asked \/ i = asked + 1
      BY <1>3
    <2>2. \A i \in 1..asked : i \in 1..(asked + 1)
      BY <1>3
    <2>3. asked + 1 \in 1..(asked + 1)
      BY <1>3
    <2> QED
      BY <2>1, <2>2, <2>3
  <1>7. getDocFreq(t) \in Nat /\ Cardinality(HitsWith(t)) \in Nat
        /\ Cardinality(HitsWith(t)) <= getDocFreq(t)
    BY HitsArePostings, PostingCounts DEF IInv, IndexInv
  <1> HIDE DEF t
  <1>8. /\ upset' = upset \/ upset' = upset \cup {"read"}
        /\ DOMAIN dfCache' = DOMAIN dfCache \cup {t}
        /\ \A u \in DOMAIN dfCache' :
              \/ u \in DOMAIN dfCache /\ dfCache'[u] = dfCache[u]
              \/ u = t /\ dfCache'[u] = getDocFreq(t)
              \/ u = t /\ dfCache'[u] = 0 /\ "read" \in upset'
    <2>1. CASE t \in DOMAIN dfCache /\ dfCache' = dfCache /\ upset' = upset
      BY <2>1
    <2>2. ASSUME NEW s \in Select(getDocFreq(t), 0),
                 dfCache' = Extend(dfCache, t, s.is), upset' = s.upset
          PROVE  /\ upset' = upset \/ upset' = upset \cup {"read"}
                 /\ DOMAIN dfCache' = DOMAIN dfCache \cup {t}
                 /\ \A u \in DOMAIN dfCache' :
                       \/ u \in DOMAIN dfCache /\ dfCache'[u] = dfCache[u]
                       \/ u = t /\ dfCache'[u] = getDocFreq(t)
                       \/ u = t /\ dfCache'[u] = 0 /\ "read" \in upset'
      <3>1. \/ s.is = getDocFreq(t) /\ upset' = upset
            \/ s.is = 0 /\ upset' = upset \cup {"read"}
        BY <2>2, SelectCases
      <3>2. /\ DOMAIN dfCache' = DOMAIN dfCache \cup {t} /\ dfCache'[t] = s.is
            /\ \A u \in DOMAIN dfCache : u # t => dfCache'[u] = dfCache[u]
        BY <2>2 DEF Extend
      <3> QED
        BY <3>1, <3>2
    <2> QED
      BY <1>2, <2>1, <2>2
  <1>9. /\ HitInv' /\ HitsExact' /\ DOMAIN hits' # {}
        /\ upset' = {} => upset = {} /\ totalDocs' = getTotalDocCount' /\ avgTerms' = getTotalTerms'
        /\ \A u : HitsWith(u)' = HitsWith(u)
        /\ upset' \subseteq {"written", "read"}
    BY <1>1, <1>8, RankFrame DEF IInv
  <1>10. SearchTypes'
    <2>1. asked' \in 0..Len(terms')
      BY <1>1, <1>3
    <2>2. DOMAIN dfCache' \subseteq ToSet(terms')
      BY <1>1, <1>4, <1>5, <1>8
    <2>3. \A u \in DOMAIN dfCache' : dfCache'[u] \in Nat
      BY <1>5, <1>7, <1>8
    <2>4. /\ totalDocs' \in Nat /\ avgTerms' \in Nat /\ terms' \in Queries \cup {<<>>}
          /\ DOMAIN hits' \subseteq Docs /\ hits' \in [DOMAIN hits' -> Seq(Hit)]
          /\ DOMAIN docLenCache' \subseteq DOMAIN hits'
          /\ \A d \in DOMAIN docLenCache' : docLenCache'[d] \in Nat
      BY <1>1 DEF IInv, SearchInv, SearchTypes
    <2> QED
      BY <1>1, <1>9, <2>1, <2>2, <2>3, <2>4 DEF SearchTypes
  <1>11. StageInv'
    <2>1. DOMAIN dfCache' = {terms'[i] : i \in 1..asked'}
      <3>1. DOMAIN dfCache' = DOMAIN dfCache \cup {t}
        BY <1>8
      <3>2. DOMAIN dfCache = {terms[i] : i \in 1..asked}
        BY <1>5
      <3>3. DOMAIN dfCache' = {terms[i] : i \in 1..(asked + 1)}
        BY <1>6, <3>1, <3>2
      <3>4. asked' = asked + 1 /\ terms' = terms
        BY <1>1
      <3> QED
        BY <3>3, <3>4
    <2> QED
      BY <1>1, <2>1 DEF StageInv
  <1>12. StillInv'
    <2>1. upset = {} => \A u \in DOMAIN dfCache : dfCache[u] = getDocFreq(u)
      BY DEF IInv, SearchInv, StillInv
    <2>2. \A u : getDocFreq(u)' = getDocFreq(u)
      BY <1>1, SameIndex
    <2>3. upset' = {} => \A u \in DOMAIN dfCache' : dfCache'[u] = getDocFreq(u)
      BY <1>8, <1>9, <2>1
    <2>4. upset' = {} => \A u \in DOMAIN dfCache' : dfCache'[u] = getDocFreq(u)'
      BY <2>2, <2>3
    <2> QED
      BY <1>1, <1>9, <2>4 DEF StillInv
  <1>13. StatInv'
    <2>1. "read" \notin upset =>
             /\ \A u \in DOMAIN dfCache : dfCache[u] >= Cardinality(HitsWith(u))
             /\ \A d \in DOMAIN docLenCache : \A i \in 1..Len(hits[d]) :
                   docLenCache[d] >= hits[d][i].frequency
      BY <1>1 DEF IInv, SearchInv, StatInv
    <2>2. "read" \notin upset' => "read" \notin upset
      BY <1>8
    <2>3. "read" \notin upset' => \A u \in DOMAIN dfCache' : dfCache'[u] >= Cardinality(HitsWith(u))
      BY <1>7, <1>8, <2>1, <2>2
    <2>4. "read" \notin upset' => \A u \in DOMAIN dfCache' : dfCache'[u] >= Cardinality(HitsWith(u)')
      BY <1>9, <2>3
    <2>5. "read" \notin upset' =>
             \A d \in DOMAIN docLenCache' : \A i \in 1..Len(hits'[d]) :
                docLenCache'[d] >= hits'[d][i].frequency
      BY <1>1, <2>1, <2>2
    <2> QED
      BY <1>9, <2>4, <2>5 DEF StatInv
  <1> QED
    BY <1>9, <1>10, <1>11, <1>12, <1>13 DEF SearchInv

LEMMA ReadDocLengthInv ==
    ASSUME IInv, ReadDocLength
    PROVE  SearchInv'
  <1>1. /\ stage = "df" /\ stage' = "df" /\ asked = Len(terms)
        /\ UNCHANGED <<inverted_index, totalDocs, avgTerms, terms, asked, hits, dfCache>>
    BY DEF ReadDocLength, indexerVars
  <1>0. PICK d \in DOMAIN hits \ DOMAIN docLenCache :
           \E s \in Select(getDocLength(d), 0) :
              docLenCache' = Extend(docLenCache, d, s.is) /\ upset' = s.upset
    BY DEF ReadDocLength
  <1>2. PICK s \in Select(getDocLength(d), 0) :
           docLenCache' = Extend(docLenCache, d, s.is) /\ upset' = s.upset
    BY <1>0
  <1>3. \/ s.is = getDocLength(d) /\ upset' = upset
        \/ s.is = 0 /\ upset' = upset \cup {"read"}
    BY <1>2, SelectCases
  <1>4. /\ DOMAIN docLenCache' = DOMAIN docLenCache \cup {d} /\ docLenCache'[d] = s.is
        /\ \A x \in DOMAIN docLenCache : docLenCache'[x] = docLenCache[x]
    BY <1>2 DEF Extend
  <1>5. /\ DOMAIN docLenCache \subseteq DOMAIN hits
        /\ \A x \in DOMAIN docLenCache : docLenCache[x] \in Nat
    BY DEF IInv, SearchInv, SearchTypes
  <1>6. /\ getDocLength(d) \in Nat
        /\ \A i \in 1..Len(hits[d]) : getDocLength(d) >= hits[d][i].frequency
    <2>1. RowsOf(d) \in SUBSET DOMAIN inverted_index
      BY DEF RowsOf
    <2>2. /\ getDocLength(d) \in Nat
          /\ \A r \in RowsOf(d) : inverted_index[r] <= getDocLength(d)
      BY <2>1, TotalCovers DEF getDocLength, IInv, IndexInv
    <2>3. ASSUME NEW i \in 1..Len(hits[d]) PROVE getDocLength(d) >= hits[d][i].frequency
      <3> DEFINE row == <<hits[d][i].term, d>>
      <3>1. row \in DOMAIN inverted_index /\ inverted_index[row] = hits[d][i].frequency
        BY DEF IInv, SearchInv, HitInv
      <3>2. row[2] = d
        OBVIOUS
      <3> HIDE DEF row
      <3>3. row \in RowsOf(d)
        BY <3>1, <3>2 DEF RowsOf
      <3>4. inverted_index[row] <= getDocLength(d) /\ hits[d][i].frequency \in Nat
        <4>1. hits[d] \in Seq(Hit)
          BY DEF IInv, SearchInv, SearchTypes
        <4>2. hits[d][i] \in Hit
          BY <4>1
        <4> QED
          BY <2>2, <3>3, <4>2 DEF Hit
      <3> QED
        BY <2>2, <3>1, <3>4
    <2> QED
      BY <2>2, <2>3
  <1>7. /\ HitInv' /\ HitsExact' /\ DOMAIN hits' # {}
        /\ upset' = {} => upset = {} /\ totalDocs' = getTotalDocCount' /\ avgTerms' = getTotalTerms'
        /\ \A u : HitsWith(u)' = HitsWith(u)
        /\ upset' \subseteq {"written", "read"}
    BY <1>1, <1>3, RankFrame DEF IInv
  <1>8. SearchTypes'
    <2>1. /\ DOMAIN docLenCache' \subseteq DOMAIN hits'
          /\ \A x \in DOMAIN docLenCache' : docLenCache'[x] \in Nat
      BY <1>1, <1>3, <1>4, <1>5, <1>6
    <2>2. /\ totalDocs' \in Nat /\ avgTerms' \in Nat /\ terms' \in Queries \cup {<<>>}
          /\ asked' \in 0..Len(terms')
          /\ DOMAIN hits' \subseteq Docs /\ hits' \in [DOMAIN hits' -> Seq(Hit)]
          /\ DOMAIN dfCache' \subseteq ToSet(terms') /\ \A u \in DOMAIN dfCache' : dfCache'[u] \in Nat
      BY <1>1 DEF IInv, SearchInv, SearchTypes
    <2> QED
      BY <1>1, <1>7, <2>1, <2>2 DEF SearchTypes
  <1>9. StageInv'
    BY <1>1 DEF IInv, SearchInv, StageInv
  <1>10. StillInv'
    <2>1. upset = {} => \A u \in DOMAIN dfCache : dfCache[u] = getDocFreq(u)
      BY DEF IInv, SearchInv, StillInv
    <2>2. upset' = {} => \A u \in DOMAIN dfCache' : dfCache'[u] = getDocFreq(u)'
      BY <1>1, <1>7, <2>1, SameIndex
    <2> QED
      BY <1>1, <1>7, <2>2 DEF StillInv
  <1>11. StatInv'
    <2>1. "read" \notin upset =>
             /\ \A u \in DOMAIN dfCache : dfCache[u] >= Cardinality(HitsWith(u))
             /\ \A x \in DOMAIN docLenCache : \A i \in 1..Len(hits[x]) :
                   docLenCache[x] >= hits[x][i].frequency
      BY <1>1 DEF IInv, SearchInv, StatInv
    <2>2. "read" \notin upset' => "read" \notin upset /\ docLenCache'[d] = getDocLength(d)
      BY <1>3, <1>4
    <2>3. "read" \notin upset' =>
             \A u \in DOMAIN dfCache' : dfCache'[u] >= Cardinality(HitsWith(u)')
      BY <1>1, <1>7, <2>1, <2>2
    <2>4. "read" \notin upset' =>
             \A x \in DOMAIN docLenCache' : \A i \in 1..Len(hits[x]) :
                docLenCache'[x] >= hits[x][i].frequency
      BY <1>4, <1>6, <2>1, <2>2
    <2> QED
      BY <1>1, <1>7, <2>3, <2>4 DEF StatInv
  <1> QED
    BY <1>7, <1>8, <1>9, <1>10, <1>11 DEF SearchInv

\* The indexer goes on: the hits stay rows, and a change of the index is noted.
LEMMA MeanwhileInv ==
    ASSUME IInv, IInv => IndexInv', Meanwhile
    PROVE  SearchInv'
  <1>1. UNCHANGED <<stage, totalDocs, avgTerms, terms, asked, hits, dfCache, docLenCache>>
    BY DEF Meanwhile
  <1>2. \A r \in DOMAIN inverted_index :
           r \in DOMAIN inverted_index' /\ inverted_index'[r] = inverted_index[r]
    BY RowsStay DEF Meanwhile, IInv
  <1>3. /\ upset' = upset \/ upset' = upset \cup {"written"}
        /\ upset' = {} => upset = {} /\ (stage = "off" \/ inverted_index' = inverted_index)
    BY DEF Meanwhile
  <1>4. SearchTypes'
    <2>1. upset' \subseteq {"written", "read"}
      BY <1>3 DEF IInv, SearchInv, SearchTypes
    <2> QED
      BY <1>1, <2>1 DEF IInv, SearchInv, SearchTypes
  <1>5. StageInv'
    BY <1>1 DEF IInv, SearchInv, StageInv
  <1>6. HitInv'
    <2>1. Retrieved' = Retrieved
      BY <1>1 DEF Retrieved
    <2> QED
      BY <1>1, <1>2, <2>1 DEF IInv, SearchInv, HitInv
  <1>7. StillInv'
    <2>1. CASE upset' # {}
      BY <2>1 DEF StillInv
    <2>2. CASE upset' = {} /\ stage = "off"
      <3>1. DOMAIN dfCache' = {} /\ stage' = "off"
        BY <1>1, <2>2 DEF IInv, SearchInv, StageInv
      <3> QED
        BY <3>1 DEF StillInv
    <2>3. CASE upset' = {} /\ inverted_index' = inverted_index
      <3>1. upset = {}
        BY <1>3, <2>3
      <3> QED
        BY <1>1, <2>3, <3>1, StillKept DEF IInv, SearchInv
    <2> QED
      BY <1>3, <2>1, <2>2, <2>3
  <1>8. StatInv'
    <2>1. ASSUME stage = "df" PROVE HitsExact'
      <3>1. CASE upset' # {}
        BY <3>1 DEF HitsExact
      <3>2. CASE upset' = {}
        <4>1. upset = {} /\ inverted_index' = inverted_index
          BY <1>3, <2>1, <3>2
        <4> QED
          BY <1>1, <2>1, <3>2, <4>1 DEF IInv, SearchInv, StatInv, HitsExact, Has
      <3> QED
        BY <3>1, <3>2
    <2>2. \A u : HitsWith(u)' = HitsWith(u)
      BY <1>1 DEF HitsWith
    <2>3. "read" \notin upset' => "read" \notin upset
      BY <1>3
    <2> QED
      BY <1>1, <2>1, <2>2, <2>3 DEF IInv, SearchInv, StatInv
  <1> QED
    BY <1>4, <1>5, <1>6, <1>7, <1>8 DEF SearchInv

LEMMA SearchStep ==
    ASSUME IInv, [Next]_vars
    PROVE  IInv'
  <1>1. IndexInv'
    <2>1. IndexerNext \/ UNCHANGED indexerVars
      BY DEF Next, SearchNext, Open, Parse, RetrieveTerm, Filter, ReadDocFreq, ReadDocLength,
             Finish, Meanwhile, vars
    <2> QED
      BY <2>1, IndexStep DEF IInv
  <1>2. SearchInv'
    <2>1. CASE Open
      BY <2>1, OpenInv
    <2>2. CASE Parse
      BY <2>2, ParseInv
    <2>3. CASE RetrieveTerm
      BY <2>3, RetrieveTermInv
    <2>4. CASE Filter
      BY <2>4, FilterInv
    <2>5. CASE ReadDocFreq
      BY <2>5, ReadDocFreqInv
    <2>6. CASE ReadDocLength
      BY <2>6, ReadDocLengthInv
    <2>7. CASE Finish
      BY <2>7, ResetInv DEF Finish
    <2>8. CASE Meanwhile
      BY <1>1, <2>8, MeanwhileInv
    <2>9. CASE UNCHANGED vars
      <3>1. /\ UNCHANGED <<stage, totalDocs, avgTerms, terms, asked, hits, dfCache, docLenCache>>
            /\ inverted_index' = inverted_index /\ upset' = upset
        BY <2>9 DEF vars, searchVars, indexerVars
      <3>2. SearchTypes' /\ StageInv'
        BY <3>1 DEF IInv, SearchInv, SearchTypes, StageInv
      <3>3. HitInv'
        BY <3>1 DEF IInv, SearchInv, HitInv, Retrieved
      <3>4. StillInv'
        BY <3>1, StillKept DEF IInv, SearchInv
      <3>5. StatInv'
        BY <3>1 DEF IInv, SearchInv, StatInv, HitsExact, Has, HitsWith
      <3> QED
        BY <3>2, <3>3, <3>4, <3>5 DEF SearchInv
    <2> QED
      BY <2>1, <2>2, <2>3, <2>4, <2>5, <2>6, <2>7, <2>8, <2>9 DEF Next, SearchNext
  <1> QED
    BY <1>1, <1>2 DEF IInv

\* The inductive invariant of the indexer and a search over it (Indexer.cpp:61-96,
\* Retriever.cpp:10-35, Ranker.cpp:33-88).
THEOREM Inductive == Spec => []IInv
  <1>1. Init => IInv
    BY SearchInit, IndexInit DEF Init, IInv
  <1>2. IInv /\ [Next]_vars => IInv'
    BY SearchStep
  <1> QED
    BY <1>1, <1>2, PTL DEF Spec

-----------------------------------------------------------------------------
(***************************************************************************)
(* What follows.                                                           *)
(***************************************************************************)

\* Whatever is skipped, repeated or cut short, a row that is there counts the term in
\* a stored page (Indexer.cpp:71-96).
THEOREM RowsAreTrue == Spec => []IndexSound
  <1>1. IInv => IndexSound
    BY DEF IInv, IndexInv, RowInv, IndexSound
  <1> QED
    BY <1>1, Inductive, PTL

\* What a run without rejected rows has indexed stays indexed (Indexer.cpp:61-69, 82-96).
THEOREM FinishedRunsLast == Spec => []CertifiedComplete
  <1>1. IInv => CertifiedComplete
    BY DEF IInv, IndexInv, CertInv
  <1> QED
    BY <1>1, Inductive, PTL

\* Over an index that stands still, retrieve finds the documents with every term, or
\* else those with some (Retriever.cpp:18-35).
THEOREM RetrieveIsExact == Spec => []HitsExact
  <1>1. IInv => HitsExact
    BY DEF IInv, SearchInv, StatInv, HitsExact
  <1> QED
    BY <1>1, Inductive, PTL

LEMMA DistinctLength ==
    ASSUME NEW R, NEW s \in Seq(R), Distinct(s)
    PROVE  Cardinality(ToSet(s)) = Len(s)
  <1>1. IsFiniteSet(1..Len(s)) /\ Cardinality(1..Len(s)) = Len(s)
    <2>1. Len(s) \in Nat /\ 1 \in Int /\ Len(s) \in Int
      OBVIOUS
    <2> QED
      BY <2>1, FS_Interval, SMTT(30)
  <1>2. s \in Bijection(1..Len(s), ToSet(s))
    <2>1. s \in [1..Len(s) -> ToSet(s)]
      BY DEF ToSet
    <2>2. \A i, j \in 1..Len(s) : s[i] = s[j] => i = j
      BY DEF Distinct
    <2>3. \A v \in ToSet(s) : \E i \in 1..Len(s) : s[i] = v
      BY DEF ToSet
    <2> QED
      BY <2>1, <2>2, <2>3 DEF Bijection, Injection, Surjection, IsInjective
  <1>3. ExistsBijection(1..Len(s), ToSet(s))
    BY <1>2 DEF ExistsBijection
  <1> QED
    BY <1>1, <1>3, FS_Bijection

LEMMA TypesFollow == IInv => TypeOK
  <1> SUFFICES ASSUME IInv PROVE TypeOK
    OBVIOUS
  <1>1. IndexerTypeOK
    <2>1. ToSet(pages) \subseteq Docs /\ Cardinality(ToSet(pages)) = Len(pages)
      BY PageSet, DistinctLength DEF IInv, IndexInv, PagesInv
    <2>2. DOMAIN inverted_index \subseteq Terms \X Docs
      BY DEF IInv, IndexInv, RowInv
    <2>3. indexing \in BOOLEAN /\ skipped \in BOOLEAN
      BY DEF IInv, IndexInv, RunInv
    <2>4. ASSUME NEW t \in Terms
          PROVE  /\ saved[t] \in 0..Len(statstable[t])
                 /\ \A i, j \in DOMAIN statstable[t] :
                       i # j => statstable[t][i].docID # statstable[t][j].docID
      <3>1. statstable[t] \in Seq(Posting) /\ saved[t] \in Nat /\ saved[t] <= Len(statstable[t])
        BY DEF IInv, IndexInv, RunInv, Table
      <3>2. \A i, j \in 1..Len(statstable[t]) :
               statstable[t][i].docID = statstable[t][j].docID => i = j
        BY DEF IInv, IndexInv, RunInv, Indexed
      <3> QED
        BY <3>1, <3>2
    <2>5. runs \in 0..MaxRuns /\ certified \subseteq Docs
      BY DEF IInv, IndexInv, CertInv
    <2> QED
      BY <2>1, <2>2, <2>3, <2>4, <2>5 DEF IndexerTypeOK
  <1> QED
    BY <1>1 DEF TypeOK, IInv, SearchInv, SearchTypes

\* What a search reads by several statements fits together although rows are being
\* written (Ranker.cpp:61-73, 85-88).
THEOREM ReadsFitTogether == Spec => []SearchCoheres
  <1>1. IInv => SearchCoheres
    <2> SUFFICES ASSUME IInv PROVE SearchCoheres
      OBVIOUS
    <2>1. \A d \in DOMAIN hits : hits[d] \in Seq(Hit)
      BY DEF IInv, SearchInv, SearchTypes
    <2>2. /\ DOMAIN terms = 1..Len(terms) /\ Len(terms) \in Nat
          /\ ToSet(terms) = {terms[i] : i \in 1..Len(terms)}
      BY QueryTypes DEF IInv, SearchInv
    <2>3. ASSUME stage = "df" PROVE TermsCohere
      <3>1. Retrieved = Len(terms)
        BY <2>3 DEF Retrieved
      <3>2. ASSUME NEW d \in DOMAIN hits
            PROVE  /\ Len(hits[d]) \in 1..Len(terms)
                   /\ HasAll(d) => \A i \in DOMAIN terms : hits[d][i].term = terms[i]
        <4>1. /\ Len(hits[d]) \in 1..Len(terms)
              /\ Len(hits[d]) = Len(terms) => \A i \in 1..Len(terms) : hits[d][i].term = terms[i]
          BY <3>1 DEF IInv, SearchInv, HitInv
        <4>2. HasAll(d) => Len(hits[d]) = Len(terms)
          BY <2>2, <4>1 DEF HasAll
        <4> QED
          BY <2>2, <4>1, <4>2
      <3> QED
        BY <3>2 DEF TermsCohere
    <2>4. ASSUME Scoring, "read" \notin upset PROVE StatsCohere
      <3>1. stage = "df" /\ asked = Len(terms) /\ DOMAIN hits = DOMAIN docLenCache
        BY <2>4 DEF Scoring
      <3>2. /\ \A t \in DOMAIN dfCache : dfCache[t] >= Cardinality(HitsWith(t))
            /\ \A d \in DOMAIN docLenCache : \A i \in 1..Len(hits[d]) :
                  docLenCache[d] >= hits[d][i].frequency
            /\ DOMAIN dfCache = {terms[i] : i \in 1..asked}
        BY <2>4, <3>1 DEF IInv, SearchInv, StatInv, StageInv
      <3>3. DOMAIN dfCache = ToSet(terms)
        BY <2>2, <3>1, <3>2
      <3>4. \A d \in DOMAIN hits : DOMAIN hits[d] = 1..Len(hits[d])
        BY <2>1
      <3> QED
        BY <3>1, <3>2, <3>3, <3>4 DEF StatsCohere
    <2> QED
      BY <2>3, <2>4, TypesFollow DEF SearchCoheres
  <1> QED
    BY <1>1, Inductive, PTL

\* Over an index that stands still, a score has no logarithm of a negative number and
\* no division by zero (Ranker.cpp:92-96).
THEOREM ScoresAreDefined == Spec => []ScoreDefined
  <1>1. IInv => ScoreDefined
    <2> SUFFICES ASSUME IInv, Scoring, upset = {}
                 PROVE  /\ avgTerms > 0 /\ totalDocs > 0
                        /\ \A t \in ToSet(terms) : dfCache[t] <= totalDocs
      BY DEF ScoreDefined
    <2>1. stage = "df" /\ asked = Len(terms)
      BY DEF Scoring
    <2>2. totalDocs = getTotalDocCount /\ avgTerms = getTotalTerms
          /\ \A t \in DOMAIN dfCache : dfCache[t] = getDocFreq(t)
      BY <2>1 DEF IInv, SearchInv, StillInv
    <2>3. PICK d \in DOMAIN hits : TRUE
      BY <2>1 DEF IInv, SearchInv, StatInv
    <2> DEFINE row == <<hits[d][1].term, d>>
    <2>4. row \in DOMAIN inverted_index
      <3>1. Len(hits[d]) \in 1..Len(terms) /\ Len(terms) \in Nat
        BY <2>1, QueryTypes DEF IInv, SearchInv, HitInv, Retrieved
      <3>2. 1 \in 1..Len(hits[d])
        BY <3>1
      <3> QED
        BY <3>2 DEF IInv, SearchInv, HitInv
    <2> HIDE DEF row
    <2>5. totalDocs > 0
      BY <2>2, <2>4, DocCounts DEF IInv, IndexInv
    <2>6. avgTerms > 0
      <3>1. /\ getTotalTerms \in Nat
            /\ \A r \in DOMAIN inverted_index : inverted_index[r] <= getTotalTerms
        BY TotalCovers DEF IInv, IndexInv, getTotalTerms
      <3>2. inverted_index[row] > 0 /\ inverted_index[row] \in Nat
        <4>1. inverted_index[row] = Occurrences(row[1], row[2]) /\ row[2] \in Docs
              /\ inverted_index[row] > 0
          BY <2>4 DEF IInv, IndexInv, RowInv
        <4> QED
          BY <4>1, CountedAll
      <3> QED
        BY <2>2, <2>4, <3>1, <3>2
    <2>7. ASSUME NEW t \in ToSet(terms) PROVE dfCache[t] <= totalDocs
      <3>1. t \in DOMAIN dfCache
        BY <2>1, QueryTypes DEF IInv, SearchInv, StageInv
      <3>2. getDocFreq(t) <= getTotalDocCount
        BY PostingCounts DEF IInv, IndexInv
      <3> QED
        BY <2>2, <3>1, <3>2
    <2> QED
      BY <2>5, <2>6, <2>7
  <1> QED
    BY <1>1, Inductive, PTL
=============================================================================
