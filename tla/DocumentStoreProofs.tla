------------------------ MODULE DocumentStoreProofs ------------------------
(***************************************************************************)
(* Machine-checked facts about DocumentStore, for any callers, documents   *)
(* and capacity.                                                           *)
(***************************************************************************)
EXTENDS DocumentStore, FiniteSetTheorems, TLAPS

-----------------------------------------------------------------------------
(***************************************************************************)
(* Moving to the front.                                                    *)
(***************************************************************************)

Distinct(s) == \A i, j \in 1..Len(s) : s[i] = s[j] => i = j

LEMMA RemoveFirstAt ==
    ASSUME NEW R, NEW s \in Seq(R), Distinct(s), NEW p \in 1..Len(s)
    PROVE  RemoveFirst(s, s[p]) = RemoveAt(s, p)
  <1> DEFINE I == {i \in 1..Len(s) : s[i] = s[p]}
  <1>1. I = {p}
    BY DEF Distinct
  <1>2. Min({p}) = p
    BY DEF Min
  <1>3. SelectInSeq(s, LAMBDA v : v = s[p]) = p
    BY <1>1, <1>2 DEF SelectInSeq
  <1> QED
    BY <1>3 DEF RemoveFirst

LEMMA RemoveAtSeq ==
    ASSUME NEW R, NEW s \in Seq(R), NEW p \in 1..Len(s)
    PROVE  /\ RemoveAt(s, p) \in Seq(R) /\ Len(RemoveAt(s, p)) = Len(s) - 1
           /\ \A i \in 1..(Len(s) - 1) : RemoveAt(s, p)[i] = IF i < p THEN s[i] ELSE s[i + 1]
  <1> DEFINE before == SubSeq(s, 1, p - 1)
             after == SubSeq(s, p + 1, Len(s))
  <1>1. before \in Seq(R) /\ Len(before) = p - 1 /\ \A i \in 1..(p - 1) : before[i] = s[i]
    OBVIOUS
  <1>2. after \in Seq(R) /\ Len(after) = Len(s) - p /\ \A i \in 1..(Len(s) - p) : after[i] = s[p + i]
    OBVIOUS
  <1> HIDE DEF before, after
  <1>3. /\ before \o after \in Seq(R) /\ Len(before \o after) = Len(s) - 1
        /\ \A i \in 1..(Len(s) - 1) : (before \o after)[i] = IF i < p THEN s[i] ELSE s[i + 1]
    <2>1. before \o after \in Seq(R) /\ Len(before \o after) = Len(s) - 1
      <3>1. before \o after \in Seq(R) /\ Len(before \o after) = Len(before) + Len(after)
        <4>1. before \in Seq(R) /\ after \in Seq(R)
          BY <1>1, <1>2
        <4> QED
          BY <4>1
      <3>2. (p - 1) + (Len(s) - p) = Len(s) - 1
        OBVIOUS
      <3> QED
        BY <1>1, <1>2, <3>1, <3>2
    <2>2. ASSUME NEW i \in 1..(Len(s) - 1)
          PROVE  (before \o after)[i] = IF i < p THEN s[i] ELSE s[i + 1]
      <3>1. CASE i < p
        BY <1>1, <1>2, <3>1
      <3>2. CASE ~(i < p)
        <4>1. i - (p - 1) \in 1..(Len(s) - p) /\ p + (i - (p - 1)) = i + 1
          BY <3>2
        <4>2. (before \o after)[i] = after[i - (p - 1)]
          BY <1>1, <1>2, <3>2
        <4> QED
          BY <1>2, <3>2, <4>1, <4>2
      <3> QED
        BY <3>1, <3>2
    <2> QED
      BY <2>1, <2>2
  <1> QED
    BY <1>3 DEF RemoveAt, before, after

\* d goes to the front; those before it move back by one, those after it stay.
LEMMA ToFrontOld ==
    ASSUME NEW R, NEW s \in Seq(R), Distinct(s), NEW p \in 1..Len(s), NEW d, d = s[p]
    PROVE  /\ ToFront(s, d) \in Seq(R) /\ Len(ToFront(s, d)) = Len(s)
           /\ \A i \in 1..Len(s) :
                 ToFront(s, d)[i] = IF i = 1 THEN d ELSE IF i <= p THEN s[i - 1] ELSE s[i]
  <1> DEFINE rest == RemoveAt(s, p)
  <1>1. /\ rest \in Seq(R) /\ Len(rest) = Len(s) - 1
        /\ \A i \in 1..(Len(s) - 1) : rest[i] = IF i < p THEN s[i] ELSE s[i + 1]
    BY RemoveAtSeq
  <1>2. ToFront(s, d) = <<d>> \o rest
    BY RemoveFirstAt DEF ToFront
  <1>3. d \in R
    OBVIOUS
  <1> HIDE DEF rest
  <1>4. <<d>> \o rest \in Seq(R) /\ Len(<<d>> \o rest) = Len(s)
    BY <1>1, <1>3
  <1>5. ASSUME NEW i \in 1..Len(s)
        PROVE  (<<d>> \o rest)[i] = IF i = 1 THEN d ELSE IF i <= p THEN s[i - 1] ELSE s[i]
    <2>1. CASE i = 1
      BY <1>1, <1>3, <2>1
    <2>2. CASE i # 1
      <3>1. i - 1 \in 1..(Len(s) - 1) /\ (i - 1) + 1 = i
        BY <2>2
      <3>2. (<<d>> \o rest)[i] = rest[i - 1]
        BY <1>1, <1>3, <2>2
      <3> QED
        BY <1>1, <2>2, <3>1, <3>2
    <2> QED
      BY <2>1, <2>2
  <1> QED
    BY <1>2, <1>4, <1>5

\* A new d pushes all others back by one.
LEMMA ToFrontNew ==
    ASSUME NEW R, NEW s \in Seq(R), NEW d \in R, d \notin ToSet(s)
    PROVE  /\ ToFront(s, d) = <<d>> \o s
           /\ <<d>> \o s \in Seq(R) /\ Len(<<d>> \o s) = Len(s) + 1
           /\ \A i \in 1..(Len(s) + 1) : (<<d>> \o s)[i] = IF i = 1 THEN d ELSE s[i - 1]
  <1>1. ToFront(s, d) = <<d>> \o s
    <2>1. \A i \in 1..Len(s) : s[i] # d
      BY DEF ToSet
    <2> QED
      BY <2>1 DEF ToFront, RemoveFirst
  <1>2. <<d>> \o s \in Seq(R) /\ Len(<<d>> \o s) = Len(s) + 1
    OBVIOUS
  <1>3. \A i \in 1..(Len(s) + 1) : (<<d>> \o s)[i] = IF i = 1 THEN d ELSE s[i - 1]
    OBVIOUS
  <1> QED
    BY <1>1, <1>2, <1>3

LEMMA ToSetOf ==
    ASSUME NEW R, NEW s \in Seq(R)
    PROVE  ToSet(s) = {s[i] : i \in 1..Len(s)} /\ ToSet(s) \subseteq R
  BY DEF ToSet

\* A list without duplicates is as long as its set.
LEMMA DistinctLength ==
    ASSUME NEW R, NEW s \in Seq(R), Distinct(s)
    PROVE  IsFiniteSet(ToSet(s)) /\ Cardinality(ToSet(s)) = Len(s)
  <1>1. IsFiniteSet(1..Len(s)) /\ Cardinality(1..Len(s)) = Len(s)
    <2>1. Len(s) \in Nat /\ 1 \in Int /\ Len(s) \in Int
      OBVIOUS
    <2> QED
      BY <2>1, FS_Interval, SMTT(30)
  <1>2. s \in Bijection(1..Len(s), ToSet(s))
    <2>1. s \in [1..Len(s) -> ToSet(s)]
      BY DEF ToSet
    <2>2. \A i, j \in 1..Len(s) : s[i] = s[j] => i = j
      BY DEF Distinct
    <2>3. \A v \in ToSet(s) : \E i \in 1..Len(s) : s[i] = v
      BY ToSetOf
    <2> QED
      BY <2>1, <2>2, <2>3 DEF Bijection, Injection, Surjection, IsInjective
  <1>3. ExistsBijection(1..Len(s), ToSet(s))
    BY <1>2 DEF ExistsBijection
  <1> QED
    BY <1>1, <1>3, FS_Bijection

-----------------------------------------------------------------------------
(***************************************************************************)
(* What a call has in hand.                                                *)
(***************************************************************************)

\* A call has its document; a getHeader that waits for its row keeps the mutex, so
\* nobody has cached its document meanwhile.
CallInv ==
    /\ \A t \in Callers : pc[t] # "idle" => doc[t] \in Docs
    /\ \A t \in Callers : pc[t] \in {"hquery", "hrow"} => doc[t] \notin DOMAIN cache

\* The list holds the Cap documents used last, the map the documents of the list.
LruInv ==
    /\ Distinct(recent)
    /\ Len(lru) = IF Len(recent) < Cap THEN Len(recent) ELSE Cap
    /\ \A i \in 1..Len(lru) : lru[i] = recent[i]
    /\ ToSet(lru) = DOMAIN cache

IInv == TypeOK /\ CallInv /\ LruInv

LEMMA Constants == None \notin Docs /\ None \notin Callers /\ Cap \in Nat /\ MaxCalls \in Nat
                   /\ Bodiless \subseteq Docs /\ Stored \subseteq Docs
  BY DocsAssumption, CapAssumption

LEMMA InitIInv == Init => IInv
  <1> SUFFICES ASSUME Init PROVE IInv
    OBVIOUS
  <1>1. TypeOK
    <2>1. <<>> \in Seq(Docs) /\ DOMAIN <<>> = {}
      OBVIOUS
    <2>2. DOMAIN cache \subseteq Docs /\ \A d \in DOMAIN cache : cache[d] \in Entry
      BY <2>1 DEF Init
    <2>3. /\ pc \in [Callers -> {"idle", "hquery", "hrow", "cquery", "crow", "cwrite"}]
          /\ doc \in [Callers -> Docs \cup {None}] /\ row \in [Callers -> Rows]
          /\ \A t \in Callers : pc[t] \in {"hquery", "hrow"} <=> holder = t
      BY Constants DEF Init, Rows
    <2>4. lru \in Seq(Docs) /\ recent \in Seq(Docs) /\ table \subseteq Docs /\ calls \in 0..MaxCalls
      BY <2>1, Constants DEF Init
    <2>5. holder \in Callers \cup {None} /\ inflight \subseteq Callers /\ tangled \in BOOLEAN
      BY DEF Init
    <2> QED
      BY <2>2, <2>3, <2>4, <2>5 DEF TypeOK
  <1>2. CallInv
    BY DEF Init, CallInv
  <1>3. LruInv
    <2>1. lru = <<>> /\ recent = <<>> /\ cache = <<>> /\ Len(<<>>) = 0 /\ DOMAIN <<>> = {}
      BY DEF Init
    <2>2. ToSet(<<>>) = {} /\ Distinct(<<>>)
      BY DEF ToSet, Distinct
    <2> QED
      BY <2>1, <2>2, Constants DEF LruInv
  <1> QED
    BY <1>1, <1>2, <1>3 DEF IInv

\* The list before and after, position by position.
LEMMA LruFacts ==
    ASSUME IInv
    PROVE  /\ lru \in Seq(Docs) /\ recent \in Seq(Docs) /\ Cap \in Nat
           /\ Len(lru) \in Nat /\ Len(recent) \in Nat
           /\ Len(lru) <= Len(recent) /\ Len(lru) <= Cap
           /\ Distinct(recent) /\ Distinct(lru)
           /\ \A i \in 1..Len(lru) : lru[i] = recent[i]
  <1>1. lru \in Seq(Docs) /\ recent \in Seq(Docs) /\ Cap \in Nat
    BY Constants DEF IInv, TypeOK
  <1>2. Len(lru) \in Nat /\ Len(recent) \in Nat
    BY <1>1
  <1>3. Len(lru) <= Len(recent) /\ Len(lru) <= Cap
    BY <1>1, <1>2 DEF IInv, LruInv
  <1>4. Distinct(recent) /\ \A i \in 1..Len(lru) : lru[i] = recent[i]
    BY DEF IInv, LruInv
  <1>5. Distinct(lru)
    <2>1. \A i \in 1..Len(lru) : i \in 1..Len(recent)
      BY <1>2, <1>3
    <2> QED
      BY <1>4, <2>1 DEF Distinct
  <1> QED
    BY <1>1, <1>2, <1>3, <1>4, <1>5

\* Moving to the front keeps a list free of duplicates.
LEMMA ToFrontDistinct ==
    ASSUME NEW R, NEW s \in Seq(R), Distinct(s), NEW d \in R
    PROVE  Distinct(ToFront(s, d)) /\ ToFront(s, d) \in Seq(R)
  <1> DEFINE f == ToFront(s, d)
  <1>1. CASE d \in ToSet(s)
    <2>1. PICK p \in 1..Len(s) : s[p] = d
      BY <1>1, ToSetOf
    <2>2. /\ f \in Seq(R) /\ Len(f) = Len(s)
          /\ \A i \in 1..Len(s) : f[i] = IF i = 1 THEN d ELSE IF i <= p THEN s[i - 1] ELSE s[i]
      BY <2>1, ToFrontOld
    <2> HIDE DEF f
    <2> DEFINE from == [i \in 1..Len(s) |-> IF i = 1 THEN p ELSE IF i <= p THEN i - 1 ELSE i]
    <2>4. \A i \in 1..Len(s) : from[i] \in 1..Len(s) /\ f[i] = s[from[i]]
      BY <2>1, <2>2
    <2>5. \A i, j \in 1..Len(s) : from[i] = from[j] => i = j
      OBVIOUS
    <2> HIDE DEF from
    <2>3. \A i, j \in 1..Len(s) : f[i] = f[j] => i = j
      BY <2>4, <2>5 DEF Distinct
    <2> QED
      BY <2>2, <2>3 DEF Distinct, f
  <1>2. CASE d \notin ToSet(s)
    <2>0. /\ f = <<d>> \o s /\ <<d>> \o s \in Seq(R) /\ Len(<<d>> \o s) = Len(s) + 1
          /\ \A i \in 1..(Len(s) + 1) : (<<d>> \o s)[i] = IF i = 1 THEN d ELSE s[i - 1]
      BY <1>2, ToFrontNew
    <2> HIDE DEF f
    <2>1. /\ f \in Seq(R) /\ Len(f) = Len(s) + 1
          /\ \A i \in 1..(Len(s) + 1) : f[i] = IF i = 1 THEN d ELSE s[i - 1]
      BY <2>0
    <2>2. \A i \in 1..Len(s) : s[i] # d
      BY <1>2, ToSetOf
    <2>3. ASSUME NEW i \in 1..(Len(s) + 1), NEW j \in 1..(Len(s) + 1), f[i] = f[j] PROVE i = j
      <3>1. /\ i = 1 \/ (i - 1 \in 1..Len(s) /\ f[i] = s[i - 1])
            /\ j = 1 \/ (j - 1 \in 1..Len(s) /\ f[j] = s[j - 1])
            /\ 1 \in 1..(Len(s) + 1) /\ f[1] = d
        BY <2>1
      <3>2. CASE i # 1 /\ j # 1
        <4>1. i - 1 = j - 1
          BY <2>3, <3>1, <3>2 DEF Distinct
        <4> QED
          BY <4>1
      <3>3. CASE i = 1 \/ j = 1
        BY <2>2, <2>3, <3>1, <3>3
      <3> QED
        BY <3>2, <3>3
    <2> QED
      BY <2>1, <2>3 DEF Distinct, f
  <1> QED
    BY <1>1, <1>2

\* A document in the cache is used.
LEMMA TouchLru ==
    ASSUME IInv, NEW d \in DOMAIN cache, lru' = Touched(d), Use(d), DOMAIN cache' = DOMAIN cache
    PROVE  LruInv' /\ lru' \in Seq(Docs) /\ recent' \in Seq(Docs)
  <1>0. d \in ToSet(lru) /\ ToSet(lru) = DOMAIN cache /\ d \in Docs
    BY DEF IInv, LruInv, TypeOK
  <1>1. PICK p \in 1..Len(lru) : lru[p] = d
    BY <1>0, LruFacts, ToSetOf
  <1>2. p \in 1..Len(recent) /\ recent[p] = d
    BY <1>1, LruFacts
  <1>3. /\ lru' \in Seq(Docs) /\ Len(lru') = Len(lru)
        /\ \A i \in 1..Len(lru) :
              lru'[i] = IF i = 1 THEN d ELSE IF i <= p THEN lru[i - 1] ELSE lru[i]
    BY <1>1, LruFacts, ToFrontOld DEF Touched
  <1>4. /\ recent' \in Seq(Docs) /\ Len(recent') = Len(recent)
        /\ \A i \in 1..Len(recent) :
              recent'[i] = IF i = 1 THEN d ELSE IF i <= p THEN recent[i - 1] ELSE recent[i]
    BY <1>2, LruFacts, ToFrontOld DEF Use
  <1>5. Distinct(recent)'
    <2>1. Distinct(ToFront(recent, d))
      BY <1>0, LruFacts, ToFrontDistinct
    <2> QED
      BY <2>1 DEF Use, Distinct
  <1>6. ASSUME NEW i \in 1..Len(lru') PROVE lru'[i] = recent'[i]
    <2>1. /\ i \in 1..Len(lru) /\ i \in 1..Len(recent) /\ lru[i] = recent[i]
          /\ i # 1 => i - 1 \in 1..Len(lru)
      BY <1>3, LruFacts
    <2>2. i # 1 => lru[i - 1] = recent[i - 1]
      BY <2>1, LruFacts
    <2> QED
      BY <1>3, <1>4, <2>1, <2>2
  <1>7. ToSet(lru') = ToSet(lru)
    <2>0. \A j \in 1..Len(lru) : lru[j] \in ToSet(lru)
      BY LruFacts, ToSetOf
    <2>1. ASSUME NEW i \in 1..Len(lru) PROVE lru'[i] \in ToSet(lru)
      <3>1. i = 1 \/ i - 1 \in 1..Len(lru)
        BY LruFacts
      <3> QED
        BY <1>0, <1>3, <2>0, <3>1
    <2>2. ASSUME NEW i \in 1..Len(lru) PROVE \E j \in 1..Len(lru) : lru'[j] = lru[i]
      <3>1. CASE i = p
        <4>1. 1 \in 1..Len(lru) /\ lru'[1] = lru[i]
          BY <1>1, <1>3, <3>1, LruFacts
        <4> QED
          BY <4>1
      <3>2. CASE i < p
        <4>1. i + 1 \in 1..Len(lru) /\ lru'[i + 1] = lru[i]
          BY <1>1, <1>3, <3>2, LruFacts
        <4> QED
          BY <4>1
      <3>3. CASE p < i
        <4>1. lru'[i] = lru[i]
          BY <1>1, <1>3, <3>3, LruFacts
        <4> QED
          BY <4>1
      <3> QED
        BY <1>1, <3>1, <3>2, <3>3, LruFacts
    <2>3. /\ ToSet(lru') = {lru'[i] : i \in 1..Len(lru)}
          /\ ToSet(lru) = {lru[i] : i \in 1..Len(lru)}
      <3>1. ToSet(lru) = {lru[i] : i \in 1..Len(lru)}
        BY LruFacts, ToSetOf
      <3>2. ToSet(lru') = {lru'[i] : i \in 1..Len(lru')} /\ Len(lru') = Len(lru)
        <4>1. lru' \in Seq(Docs) /\ Len(lru') = Len(lru)
          BY <1>3
        <4> QED
          BY <4>1, ToSetOf
      <3> QED
        BY <3>1, <3>2
    <2>4. ASSUME NEW v \in ToSet(lru) PROVE v \in ToSet(lru')
      <3>1. PICK i \in 1..Len(lru) : lru[i] = v
        BY <2>3
      <3>2. PICK j \in 1..Len(lru) : lru'[j] = lru[i]
        BY <2>2
      <3> QED
        BY <2>3, <3>1, <3>2
    <2>5. ToSet(lru') \subseteq ToSet(lru)
      BY <2>1, <2>3
    <2> QED
      BY <2>4, <2>5
  <1> QED
    BY <1>0, <1>3, <1>4, <1>5, <1>6, <1>7 DEF LruInv, IInv

\* A new entry changes no other.
LEMMA AddEntryMap ==
    ASSUME NEW d, NEW e, AddEntry(d, e)
    PROVE  /\ DOMAIN cache' \subseteq DOMAIN cache \cup {d}
           /\ \A x \in DOMAIN cache' : cache'[x] = IF x = d THEN e ELSE cache[x]
  BY DEF AddEntry

\* A document that is not in the cache is entered; if the cache was full, the one
\* used longest ago goes.
LEMMA AddLru ==
    ASSUME IInv, NEW d \in Docs, d \notin DOMAIN cache, NEW e, AddEntry(d, e), Use(d)
    PROVE  LruInv' /\ lru' \in Seq(Docs) /\ recent' \in Seq(Docs)
  <1> DEFINE list == <<d>> \o lru
             all == [x \in DOMAIN cache \cup {d} |-> IF x = d THEN e ELSE cache[x]]
             L == Len(lru)
  <1>0. /\ d \notin ToSet(lru) /\ ToSet(lru) = DOMAIN cache
        /\ L = IF Len(recent) < Cap THEN Len(recent) ELSE Cap
        /\ L \in Nat
    BY LruFacts DEF IInv, LruInv
  <1>1. /\ list \in Seq(Docs) /\ Len(list) = L + 1
        /\ \A i \in 1..(L + 1) : list[i] = IF i = 1 THEN d ELSE lru[i - 1]
    BY <1>0, LruFacts, ToFrontNew
  <1>2. list = ToFront(lru, d) /\ Distinct(list)
    <2>0. lru \in Seq(Docs) /\ Distinct(lru)
      BY LruFacts
    <2>1. ToFront(lru, d) = <<d>> \o lru /\ Distinct(ToFront(lru, d))
      BY <1>0, <2>0, ToFrontNew, ToFrontDistinct
    <2> QED
      BY <2>1
  <1>3. ToSet(list) = ToSet(lru) \cup {d}
    <2>0. \A j \in 1..L : lru[j] \in ToSet(lru)
      BY LruFacts, ToSetOf
    <2>1. ASSUME NEW i \in 1..(L + 1) PROVE list[i] \in ToSet(lru) \cup {d}
      <3>1. i = 1 \/ i - 1 \in 1..L
        BY <1>0
      <3> HIDE DEF list
      <3> QED
        BY <1>1, <2>0, <3>1
    <2>2. \A i \in 1..L : i + 1 \in 1..(L + 1) /\ list[i + 1] = lru[i]
      BY <1>0, <1>1
    <2>3. 1 \in 1..(L + 1) /\ list[1] = d
      BY <1>0, <1>1
    <2> HIDE DEF list
    <2>4. ToSet(list) = {list[i] : i \in 1..(L + 1)} /\ ToSet(lru) = {lru[i] : i \in 1..L}
      BY <1>1, LruFacts, ToSetOf
    <2> HIDE DEF L
    <2> QED
      BY <2>1, <2>2, <2>3, <2>4
  <1>4. DOMAIN all = ToSet(list) /\ Cardinality(DOMAIN all) = L + 1
    BY <1>0, <1>1, <1>2, <1>3, DistinctLength
  <1>5. Distinct(recent)' /\ recent' \in Seq(Docs)
    <2>1. Distinct(ToFront(recent, d)) /\ ToFront(recent, d) \in Seq(Docs)
      BY LruFacts, ToFrontDistinct
    <2> QED
      BY <2>1 DEF Use, Distinct
  \* The front of the history moves back by one, too: d was not among the last L.
  <1>6. /\ Len(recent') = Len(recent) \/ Len(recent') = Len(recent) + 1
        /\ Len(recent) = L => Len(recent') = L + 1
        /\ \A i \in 1..(L + 1) : i <= Len(recent') => recent'[i] = IF i = 1 THEN d ELSE recent[i - 1]
    <2>1. CASE d \in ToSet(recent)
      <3>1. PICK p \in 1..Len(recent) : recent[p] = d
        BY <2>1, LruFacts, ToSetOf
      <3>2. ~(p <= L)
        <4>1. \A i \in 1..L : recent[i] # d
          BY <1>0, LruFacts, ToSetOf
        <4> QED
          BY <1>0, <3>1, <4>1, LruFacts
      <3>3. /\ Len(recent') = Len(recent)
            /\ \A i \in 1..Len(recent) :
                  recent'[i] = IF i = 1 THEN d ELSE IF i <= p THEN recent[i - 1] ELSE recent[i]
        BY <3>1, LruFacts, ToFrontOld DEF Use
      <3> QED
        BY <1>0, <3>1, <3>2, <3>3, LruFacts
    <2>2. CASE d \notin ToSet(recent)
      <3>1. /\ recent' = <<d>> \o recent /\ Len(recent') = Len(recent) + 1
            /\ \A i \in 1..(Len(recent) + 1) : recent'[i] = IF i = 1 THEN d ELSE recent[i - 1]
        BY <2>2, LruFacts, ToFrontNew DEF Use
      <3> QED
        BY <1>0, <3>1, LruFacts
    <2> QED
      BY <2>1, <2>2
  <1>7. CASE Cardinality(DOMAIN all) > Cap
    <2>1. L = Cap
      BY <1>0, <1>4, <1>7, LruFacts
    <2>2. /\ lru' = RemoveAt(list, L + 1)
          /\ DOMAIN cache' = ToSet(list) \ {list[L + 1]}
      <3>1. lru' = RemoveAt(list, Victim(list))
            /\ cache' = [x \in DOMAIN all \ {list[Victim(list)]} |-> all[x]]
        BY <1>7 DEF AddEntry
      <3>2. Victim(list) = L + 1
        BY <1>1 DEF Victim
      <3> HIDE DEF list, all, L
      <3> QED
        BY <1>4, <3>1, <3>2
    <2>3. L + 1 \in 1..Len(list)
      BY <1>0, <1>1
    <2> HIDE DEF list
    <2>4. /\ lru' \in Seq(Docs) /\ Len(lru') = L
          /\ \A i \in 1..L : lru'[i] = list[i]
      <3>1. /\ RemoveAt(list, L + 1) \in Seq(Docs) /\ Len(RemoveAt(list, L + 1)) = Len(list) - 1
            /\ \A i \in 1..(Len(list) - 1) :
                  RemoveAt(list, L + 1)[i] = IF i < L + 1 THEN list[i] ELSE list[i + 1]
        BY <1>1, <2>3, RemoveAtSeq
      <3>2. Len(list) - 1 = L /\ \A i \in 1..L : i < L + 1
        BY <1>0, <1>1
      <3> QED
        BY <2>2, <3>1, <3>2
    <2>5. Len(recent') >= Cap
      BY <1>0, <1>6, <2>1, LruFacts
    <2>6. ASSUME NEW i \in 1..L PROVE lru'[i] = recent'[i]
      <3>1. i \in 1..(L + 1) /\ i <= Len(recent') /\ (i = 1 \/ i - 1 \in 1..L)
        BY <1>0, <1>5, <2>1, <2>5, LruFacts
      <3>2. i # 1 => lru[i - 1] = recent[i - 1]
        BY <3>1, LruFacts
      <3> QED
        BY <1>1, <1>6, <2>4, <3>1, <3>2
    <2>7. ToSet(lru') = DOMAIN cache'
      <3>1. /\ ToSet(lru') = {lru'[i] : i \in 1..L}
            /\ ToSet(list) = {list[i] : i \in 1..(L + 1)}
        BY <1>1, <2>4, ToSetOf
      <3>2. \A i \in 1..L : list[i] # list[L + 1] /\ i \in 1..(L + 1)
        BY <1>0, <1>1, <1>2 DEF Distinct
      <3>3. \A i \in 1..(L + 1) : i \in 1..L \/ i = L + 1
        BY <1>0
      <3> HIDE DEF L
      <3> QED
        BY <2>2, <2>4, <3>1, <3>2, <3>3
    <2>8. Len(recent') \in Nat
      BY <1>5
    <2> QED
      BY <1>5, <2>1, <2>4, <2>5, <2>6, <2>7, <2>8, LruFacts DEF LruInv
  <1>8. CASE ~(Cardinality(DOMAIN all) > Cap)
    <2>1. lru' = list /\ DOMAIN cache' = ToSet(list)
      BY <1>4, <1>8 DEF AddEntry
    <2>2. L + 1 <= Cap /\ Len(recent) = L /\ Len(recent') = L + 1
      BY <1>0, <1>4, <1>6, <1>8, LruFacts
    <2> HIDE DEF list
    <2>3. Len(lru') = L + 1 /\ lru' \in Seq(Docs)
      BY <1>1, <2>1
    <2>4. \A i \in 1..(L + 1) : lru'[i] = recent'[i]
      BY <1>0, <1>1, <1>6, <2>1, <2>2, LruFacts
    <2> QED
      BY <1>0, <1>5, <2>1, <2>2, <2>3, <2>4, LruFacts DEF LruInv
  <1> QED
    BY <1>7, <1>8

\* The steps that use the cache: a document that is in it, a new one, or one whose
\* content is written back.
LEMMA CacheSteps ==
    ASSUME IInv, [Next]_vars
    PROVE  \/ UNCHANGED cacheVars
           \/ \E d \in DOMAIN cache : lru' = Touched(d) /\ Use(d) /\ cache' = cache
           \/ \E t \in Callers : HeaderInsert(t)
           \/ \E t \in Callers : ContentWrite(t)
  <1>1. ASSUME NEW t \in Callers, Call(t) \/ Continue(t)
        PROVE  \/ UNCHANGED cacheVars
               \/ \E d \in DOMAIN cache : lru' = Touched(d) /\ Use(d) /\ cache' = cache
               \/ HeaderInsert(t) \/ ContentWrite(t)
    <2>1. CASE HeaderHit(t) \/ ContentHit(t)
      BY <2>1 DEF HeaderHit, ContentHit, Hit, HasContent
    <2>2. CASE HeaderMiss(t) \/ ContentMiss(t)
      BY <2>2 DEF HeaderMiss, ContentMiss
    <2>3. CASE HeaderQuery(t) \/ HeaderFail(t) \/ ContentQuery(t) \/ ContentRead(t) \/ ContentFail(t)
      BY <2>3 DEF HeaderQuery, HeaderFail, ContentQuery, ContentRead, ContentFail
    <2> QED
      BY <1>1, <2>1, <2>2, <2>3 DEF Call, Continue
  <1>2. CASE AddRow \/ numDocs
    BY <1>2 DEF AddRow, numDocs
  <1>3. CASE UNCHANGED vars
    BY <1>3 DEF vars
  <1> QED
    BY <1>1, <1>2, <1>3 DEF Next

\* The two steps that write an entry: of a document that is not there, or of one
\* that is.
LEMMA InsertFacts ==
    ASSUME IInv, NEW t \in Callers, HeaderInsert(t)
    PROVE  /\ doc[t] \in Docs /\ doc[t] \notin DOMAIN cache /\ Use(doc[t]) /\ pc[t] = "hrow"
           /\ \E r \in Rows : /\ r = row[t] \/ tangled
                              /\ AddEntry(doc[t], HeaderEntry(doc[t], r))
  BY DEF HeaderInsert, Answer, IInv, CallInv

LEMMA WriteFacts ==
    ASSUME IInv, NEW t \in Callers, ContentWrite(t)
    PROVE  /\ doc[t] \in Docs /\ Use(doc[t]) /\ pc[t] = "cwrite" /\ row[t] \in Rows
           /\ \/ /\ doc[t] \notin DOMAIN cache
                 /\ AddEntry(doc[t], ContentEntry(doc[t], row[t]))
              \/ /\ doc[t] \in DOMAIN cache /\ lru' = Touched(doc[t])
                 /\ cache' = [cache EXCEPT ![doc[t]] = Refreshed(cache[doc[t]], row[t])]
  BY DEF ContentWrite, Absent, IInv, CallInv, TypeOK

LEMMA LruNext ==
    ASSUME IInv, [Next]_vars
    PROVE  LruInv' /\ lru' \in Seq(Docs) /\ recent' \in Seq(Docs)
  <1>1. CASE UNCHANGED cacheVars
    BY <1>1 DEF cacheVars, IInv, TypeOK, LruInv, Distinct
  <1>2. ASSUME NEW d \in DOMAIN cache, lru' = Touched(d), Use(d), cache' = cache
        PROVE  LruInv' /\ lru' \in Seq(Docs) /\ recent' \in Seq(Docs)
    BY <1>2, TouchLru
  <1>3. ASSUME NEW t \in Callers, HeaderInsert(t)
        PROVE  LruInv' /\ lru' \in Seq(Docs) /\ recent' \in Seq(Docs)
    BY <1>3, InsertFacts, AddLru
  <1>4. ASSUME NEW t \in Callers, ContentWrite(t)
        PROVE  LruInv' /\ lru' \in Seq(Docs) /\ recent' \in Seq(Docs)
    <2>1. CASE doc[t] \notin DOMAIN cache
      BY <1>4, <2>1, WriteFacts, AddLru
    <2>2. CASE doc[t] \in DOMAIN cache
      <3>1. DOMAIN cache' = DOMAIN cache /\ lru' = Touched(doc[t]) /\ Use(doc[t])
        BY <1>4, <2>2, WriteFacts
      <3> QED
        BY <2>2, <3>1, TouchLru
    <2> QED
      BY <2>1, <2>2
  <1> QED
    BY <1>1, <1>2, <1>3, <1>4, CacheSteps

LEMMA BodyType == \A r \in Rows : Body(r) \in Rows
  BY DEF Body, Rows

\* What a call makes of the entry of its document d, from a row r.
Written(d, r, e) ==
    \/ e \in {HeaderEntry(d, r), ContentEntry(d, r)}
    \/ d \in DOMAIN cache /\ e = Refreshed(cache[d], r)

\* t writes the entry of its document from the row r; others may leave, none is
\* changed.
Writes(t, r) ==
    /\ doc[t] \in Docs /\ r \in Rows
    /\ DOMAIN cache' \subseteq DOMAIN cache \cup {doc[t]}
    /\ \A x \in DOMAIN cache' :
          IF x = doc[t] THEN Written(x, r, cache'[x]) ELSE cache'[x] = cache[x]
    /\ pc[t] \in {"hrow", "cwrite"}
    /\ r = row[t] \/ tangled

LEMMA MapStep ==
    ASSUME IInv, [Next]_vars
    PROVE  cache' = cache \/ \E t \in Callers, r \in Rows : Writes(t, r)
  <1>1. ASSUME NEW t \in Callers, HeaderInsert(t) PROVE \E r \in Rows : Writes(t, r)
    <2>1. PICK r \in Rows : /\ r = row[t] \/ tangled
                            /\ AddEntry(doc[t], HeaderEntry(doc[t], r))
      BY <1>1, InsertFacts
    <2>2. doc[t] \in Docs /\ pc[t] = "hrow"
      BY <1>1, InsertFacts
    <2> DEFINE e == HeaderEntry(doc[t], r)
    <2> HIDE DEF e
    <2>3. AddEntry(doc[t], e)
      BY <2>1 DEF e
    <2>4. /\ DOMAIN cache' \subseteq DOMAIN cache \cup {doc[t]}
          /\ \A x \in DOMAIN cache' : cache'[x] = IF x = doc[t] THEN e ELSE cache[x]
      BY <2>3, AddEntryMap
    <2>5. Written(doc[t], r, e)
      BY DEF Written, e
    <2> QED
      BY <2>1, <2>2, <2>4, <2>5 DEF Writes
  <1>2. ASSUME NEW t \in Callers, ContentWrite(t) PROVE \E r \in Rows : Writes(t, r)
    <2>1. row[t] \in Rows /\ doc[t] \in Docs /\ pc[t] = "cwrite"
      BY <1>2, WriteFacts
    <2>2. CASE doc[t] \notin DOMAIN cache
      <3> DEFINE e == ContentEntry(doc[t], row[t])
      <3> HIDE DEF e
      <3>1. AddEntry(doc[t], e)
        BY <1>2, <2>2, WriteFacts DEF e
      <3>2. /\ DOMAIN cache' \subseteq DOMAIN cache \cup {doc[t]}
            /\ \A x \in DOMAIN cache' : cache'[x] = IF x = doc[t] THEN e ELSE cache[x]
        BY <3>1, AddEntryMap
      <3>3. Written(doc[t], row[t], e)
        BY DEF Written, e
      <3> QED
        BY <2>1, <3>2, <3>3 DEF Writes
    <2>3. CASE doc[t] \in DOMAIN cache
      <3> DEFINE e == Refreshed(cache[doc[t]], row[t])
      <3>1. cache' = [cache EXCEPT ![doc[t]] = e]
        BY <1>2, <2>3, WriteFacts
      <3>2. Written(doc[t], row[t], e)
        BY <2>3 DEF Written
      <3> HIDE DEF e
      <3> QED
        BY <2>1, <2>3, <3>1, <3>2 DEF Writes
    <2> QED
      BY <2>2, <2>3
  <1> QED
    BY <1>1, <1>2, CacheSteps DEF cacheVars

LEMMA MapType ==
    ASSUME IInv, [Next]_vars
    PROVE  DOMAIN cache' \subseteq Docs /\ \A d \in DOMAIN cache' : cache'[d] \in Entry
  <1>0. DOMAIN cache \subseteq Docs /\ \A d \in DOMAIN cache : cache[d] \in Entry
    BY DEF IInv, TypeOK
  <1>1. ASSUME NEW d \in Docs, NEW r \in Rows, NEW e, Written(d, r, e) PROVE e \in Entry
    <2>1. Body(r) \in Rows /\ None \in Rows
      BY BodyType DEF Rows
    <2>2. HeaderEntry(d, r) \in Entry
      BY <2>1 DEF HeaderEntry, Entry
    <2>3. ContentEntry(d, r) \in Entry
      BY <2>1 DEF ContentEntry, Entry
    <2>4. ASSUME NEW old \in Entry PROVE Refreshed(old, r) \in Entry
      BY <2>1 DEF Refreshed, Entry
    <2> QED
      BY <1>0, <1>1, <2>2, <2>3, <2>4 DEF Written
  <1>2. CASE cache' = cache
    BY <1>0, <1>2
  <1>3. ASSUME NEW t \in Callers, NEW r \in Rows, Writes(t, r)
        PROVE  DOMAIN cache' \subseteq Docs /\ \A d \in DOMAIN cache' : cache'[d] \in Entry
    BY <1>0, <1>1, <1>3 DEF Writes
  <1> QED
    BY <1>2, <1>3, MapStep

\* Where the calls are, and who has the mutex.
CallType ==
    /\ pc \in [Callers -> {"idle", "hquery", "hrow", "cquery", "crow", "cwrite"}]
    /\ doc \in [Callers -> Docs \cup {None}]
    /\ row \in [Callers -> Rows]
    /\ holder \in Callers \cup {None}
    /\ \A t \in Callers : pc[t] \in {"hquery", "hrow"} <=> holder = t
    /\ \A t \in Callers : pc[t] # "idle" => doc[t] \in Docs

\* One caller goes on; the mutex is where it was, taken or given back.
LEMMA CallFrame ==
    ASSUME CallType, NEW t \in Callers,
           NEW p \in {"idle", "hquery", "hrow", "cquery", "crow", "cwrite"},
           NEW d \in Docs \cup {None}, NEW r \in Rows,
           pc' = [pc EXCEPT ![t] = p], doc' = [doc EXCEPT ![t] = d], row' = [row EXCEPT ![t] = r],
           p # "idle" => d \in Docs,
           \/ holder' = holder /\ (p \in {"hquery", "hrow"} <=> holder = t)
           \/ holder = None /\ holder' = t /\ p \in {"hquery", "hrow"}
           \/ holder = t /\ holder' = None /\ p \notin {"hquery", "hrow"}
    PROVE  CallType'
  <1>0. None \notin Callers
    BY Constants
  <1>1. /\ pc' \in [Callers -> {"idle", "hquery", "hrow", "cquery", "crow", "cwrite"}]
        /\ pc'[t] = p /\ \A v \in Callers : v # t => pc'[v] = pc[v]
    BY DEF CallType
  <1>2. /\ doc' \in [Callers -> Docs \cup {None}]
        /\ doc'[t] = d /\ \A v \in Callers : v # t => doc'[v] = doc[v]
    BY DEF CallType
  <1>3. row' \in [Callers -> Rows]
    BY DEF CallType
  <1>4. holder' \in Callers \cup {None}
    BY DEF CallType
  <1>5. \A v \in Callers : pc'[v] \in {"hquery", "hrow"} <=> holder' = v
    BY <1>0, <1>1 DEF CallType
  <1>6. \A v \in Callers : pc'[v] # "idle" => doc'[v] \in Docs
    BY <1>1, <1>2 DEF CallType
  <1> QED
    BY <1>1, <1>2, <1>3, <1>4, <1>5, <1>6 DEF CallType

LEMMA CallNext ==
    ASSUME CallType, [Next]_vars
    PROVE  CallType'
  <1>0. None \in Docs \cup {None} /\ None \in Rows /\ None \notin Callers
    BY Constants DEF Rows
  <1>1. ASSUME NEW t \in Callers, Call(t) \/ Continue(t) PROVE CallType'
    <2>0. /\ doc = [doc EXCEPT ![t] = doc[t]] /\ row = [row EXCEPT ![t] = row[t]]
          /\ doc[t] \in Docs \cup {None} /\ row[t] \in Rows
          /\ pc[t] \in {"hquery", "hrow"} <=> holder = t
          /\ pc[t] # "idle" => doc[t] \in Docs
      BY DEF CallType
    <2>1. CASE HeaderHit(t) \/ ContentHit(t)
      BY <2>1 DEF HeaderHit, ContentHit, Hit, CallType
    <2>2. CASE HeaderMiss(t)
      <3>1. PICK d \in Docs : doc' = [doc EXCEPT ![t] = d] /\ holder = None
        BY <2>2 DEF HeaderMiss, Lookup
      <3>2. pc' = [pc EXCEPT ![t] = "hquery"] /\ holder' = t /\ row' = row
        BY <2>2 DEF HeaderMiss, Goto
      <3> QED
        BY <2>0, <3>1, <3>2, CallFrame
    <2>3. CASE ContentMiss(t)
      <3>1. PICK d \in Docs : doc' = [doc EXCEPT ![t] = d] /\ holder = None
        BY <2>3 DEF ContentMiss, Lookup
      <3>2. pc' = [pc EXCEPT ![t] = "cquery"] /\ holder' = holder /\ row' = row
        BY <2>3 DEF ContentMiss, Goto
      <3> QED
        BY <1>0, <2>0, <3>1, <3>2, CallFrame
    <2>4. CASE HeaderQuery(t) \/ ContentQuery(t)
      <3>1. PICK r \in Rows : row' = [row EXCEPT ![t] = r]
        BY <2>0, <2>4 DEF HeaderQuery, ContentQuery, Query, Rows
      <3>2. doc' = doc /\ holder' = holder
        BY <2>4 DEF HeaderQuery, ContentQuery
      <3>3. \/ pc[t] = "hquery" /\ pc' = [pc EXCEPT ![t] = "hrow"]
            \/ pc[t] = "cquery" /\ pc' = [pc EXCEPT ![t] = "crow"]
        BY <2>4 DEF HeaderQuery, ContentQuery, Goto
      <3> QED
        BY <2>0, <3>1, <3>2, <3>3, CallFrame
    <2>5. CASE ContentRead(t)
      <3>1. PICK r \in Rows : row' = [row EXCEPT ![t] = r]
        BY <2>5 DEF ContentRead
      <3>2. /\ doc' = doc /\ holder' = holder
            /\ pc[t] = "crow" /\ pc' = [pc EXCEPT ![t] = "cwrite"]
        BY <2>5 DEF ContentRead, Goto
      <3> QED
        BY <2>0, <3>1, <3>2, CallFrame
    <2>6. CASE HeaderInsert(t) \/ HeaderFail(t)
      <3>1. /\ pc[t] \in {"hquery", "hrow"} /\ holder' = None
            /\ pc' = [pc EXCEPT ![t] = "idle"]
            /\ doc' = [doc EXCEPT ![t] = None] /\ row' = [row EXCEPT ![t] = None]
        BY <2>6 DEF HeaderInsert, HeaderFail, Return, Goto, Unlocked
      <3> QED
        BY <1>0, <2>0, <3>1, CallFrame
    <2>7. CASE ContentFail(t) \/ ContentWrite(t)
      <3>1. /\ pc[t] \in {"cquery", "crow", "cwrite"} /\ holder' = holder
            /\ pc' = [pc EXCEPT ![t] = "idle"]
            /\ doc' = [doc EXCEPT ![t] = None] /\ row' = [row EXCEPT ![t] = None]
        BY <2>7 DEF ContentFail, ContentWrite, Return, Goto
      <3> QED
        BY <1>0, <2>0, <3>1, CallFrame
    <2> QED
      BY <1>1, <2>1, <2>2, <2>3, <2>4, <2>5, <2>6, <2>7 DEF Call, Continue
  <1>2. CASE AddRow \/ numDocs
    BY <1>2 DEF AddRow, numDocs, CallType
  <1>3. CASE UNCHANGED vars
    BY <1>3 DEF vars, CallType
  <1> QED
    BY <1>1, <1>2, <1>3 DEF Next

\* The document of a getHeader stays out of the cache: nobody else writes to it.
LEMMA FreshNext ==
    ASSUME IInv, [Next]_vars, NEW t \in Callers, pc'[t] \in {"hquery", "hrow"}
    PROVE  doc'[t] \notin DOMAIN cache'
  <1>0. CallType /\ CallType'
    <2>1. CallType
      BY DEF IInv, TypeOK, CallInv, CallType
    <2> QED
      BY <2>1, CallNext
  <1>1. holder' = t
    BY <1>0 DEF CallType
  <1>2. pc[t] \in {"hquery", "hrow"} => doc[t] \notin DOMAIN cache
    BY DEF IInv, CallInv
  <1>3. ASSUME NEW s \in Callers, Call(s) \/ Continue(s) PROVE doc'[t] \notin DOMAIN cache'
    <2>1. CASE HeaderHit(s) \/ ContentHit(s)
      BY <1>2, <2>1 DEF HeaderHit, ContentHit, Hit
    <2>2. CASE HeaderMiss(s)
      <3>1. s = t
        BY <1>1, <2>2 DEF HeaderMiss
      <3>2. PICK d \in Docs \ DOMAIN cache : doc' = [doc EXCEPT ![t] = d]
        BY <2>2, <3>1 DEF HeaderMiss
      <3>3. cache' = cache /\ doc'[t] = d
        BY <1>0, <2>2, <3>2 DEF HeaderMiss, cacheVars, CallType
      <3> QED
        BY <3>2, <3>3
    <2>3. CASE HeaderQuery(s)
      <3>1. pc[t] \in {"hquery", "hrow"} /\ doc' = doc /\ cache' = cache
        BY <1>0, <1>1, <2>3 DEF HeaderQuery, cacheVars, CallType
      <3> QED
        BY <1>2, <3>1
    <2>4. CASE HeaderInsert(s) \/ HeaderFail(s)
      BY <1>0, <1>1, <2>4, Constants DEF HeaderInsert, HeaderFail, Unlocked
    <2>5. CASE ContentMiss(s) \/ ContentQuery(s) \/ ContentRead(s) \/ ContentFail(s)
      <3>1. holder' = holder /\ cache' = cache
        BY <2>5 DEF ContentMiss, ContentQuery, ContentRead, ContentFail, cacheVars
      <3>2. pc[t] \in {"hquery", "hrow"}
        BY <1>0, <1>1, <3>1 DEF CallType
      <3>3. s # t
        <4>1. s = t => pc'[t] \notin {"hquery", "hrow"}
          BY <1>0, <2>5 DEF ContentMiss, ContentQuery, ContentRead, ContentFail, Return, Goto, CallType
        <4> QED
          BY <4>1
      <3>4. doc'[t] = doc[t]
        BY <1>0, <2>5, <3>3 DEF ContentMiss, ContentQuery, ContentRead, ContentFail, Return, CallType
      <3> QED
        BY <1>2, <3>1, <3>2, <3>4
    <2>6. CASE ContentWrite(s)
      BY <1>1, <2>6, Constants DEF ContentWrite
    <2> QED
      BY <1>3, <2>1, <2>2, <2>3, <2>4, <2>5, <2>6 DEF Call, Continue
  <1>4. CASE AddRow \/ numDocs
    BY <1>2, <1>4 DEF AddRow, numDocs, cacheVars
  <1>5. CASE UNCHANGED vars
    BY <1>2, <1>5 DEF vars, cacheVars
  <1> QED
    BY <1>3, <1>4, <1>5 DEF Next

LEMMA NextIInv == IInv /\ [Next]_vars => IInv'
  <1> SUFFICES ASSUME IInv, [Next]_vars PROVE IInv'
    OBVIOUS
  <1>1. LruInv' /\ lru' \in Seq(Docs) /\ recent' \in Seq(Docs)
    BY LruNext
  <1>2. DOMAIN cache' \subseteq Docs /\ \A d \in DOMAIN cache' : cache'[d] \in Entry
    BY MapType
  <1>3. CallType'
    <2>1. CallType
      BY DEF IInv, TypeOK, CallInv, CallType
    <2> QED
      BY <2>1, CallNext
  <1>4. CallInv'
    BY <1>3, FreshNext DEF CallInv, CallType
  <1>5. table' \subseteq Docs
    <2>1. table \subseteq Docs
      BY DEF IInv, TypeOK
    <2>2. ASSUME NEW t \in Callers, Call(t) \/ Continue(t) PROVE table' = table
      BY <2>2 DEF Call, Continue, HeaderHit, ContentHit, Hit, HeaderMiss, HeaderQuery, HeaderInsert,
                  HeaderFail, ContentMiss, ContentQuery, ContentRead, ContentFail, ContentWrite
    <2> QED
      BY <2>1, <2>2 DEF Next, AddRow, numDocs, vars
  <1>6. inflight' \subseteq Callers /\ tangled' \in BOOLEAN
    <2>1. inflight \subseteq Callers /\ tangled \in BOOLEAN
      BY DEF IInv, TypeOK
    <2>2. ASSUME NEW t \in Callers, Call(t) \/ Continue(t)
          PROVE  inflight' \subseteq Callers /\ tangled' \in BOOLEAN
      <3>1. CASE HeaderQuery(t) \/ ContentQuery(t)
        BY <2>1, <3>1 DEF HeaderQuery, ContentQuery, Query
      <3>2. CASE HeaderInsert(t) \/ HeaderFail(t) \/ ContentRead(t) \/ ContentFail(t)
        BY <2>1, <3>2 DEF HeaderInsert, HeaderFail, ContentRead, ContentFail, Answer, EndQuery
      <3>3. CASE HeaderHit(t) \/ ContentHit(t) \/ HeaderMiss(t) \/ ContentMiss(t) \/ ContentWrite(t)
        BY <2>1, <3>3 DEF HeaderHit, ContentHit, Hit, HeaderMiss, ContentMiss, ContentWrite, connVars
      <3> QED
        BY <2>2, <3>1, <3>2, <3>3 DEF Call, Continue
    <2>3. CASE AddRow \/ numDocs
      BY <2>1, <2>3 DEF AddRow, numDocs, Intrusion
    <2>4. CASE UNCHANGED vars
      BY <2>1, <2>4 DEF vars, connVars
    <2> QED
      BY <2>2, <2>3, <2>4 DEF Next
  <1>7. calls' \in 0..MaxCalls
    <2>1. calls \in 0..MaxCalls /\ MaxCalls \in Nat
      BY Constants DEF IInv, TypeOK
    <2>2. ASSUME NEW t \in Callers, Call(t) \/ Continue(t)
          PROVE  calls' = calls \/ (calls' = calls + 1 /\ calls < MaxCalls)
      BY <2>2 DEF Call, Continue, HeaderHit, ContentHit, Hit, Lookup, HeaderMiss, HeaderQuery,
                  HeaderInsert, HeaderFail, ContentMiss, ContentQuery, ContentRead, ContentFail,
                  ContentWrite
    <2>3. calls' = calls \/ (calls' = calls + 1 /\ calls < MaxCalls)
      BY <2>2 DEF Next, AddRow, numDocs, vars
    <2> QED
      BY <2>1, <2>3
  <1> QED
    BY <1>1, <1>2, <1>3, <1>4, <1>5, <1>6, <1>7 DEF IInv, TypeOK, CallType

\* The cache stays a least-recently-used one, whatever comes between the lookup of a
\* getContent and its write-back (DocumentStore.cpp:56-60, 86-90, 171-194, 220-236).
THEOREM CacheStaysLru == Spec => []CacheIsLru
  <1>1. IInv => CacheIsLru
    <2> SUFFICES ASSUME IInv PROVE CacheIsLru
      OBVIOUS
    <2> DEFINE n == IF Len(recent) < Cap THEN Len(recent) ELSE Cap
    <2>1. n \in Nat /\ n <= Len(recent) /\ n = Len(lru)
      BY LruFacts DEF IInv, LruInv
    <2> HIDE DEF n
    <2>2. /\ SubSeq(recent, 1, n) \in Seq(Docs) /\ Len(SubSeq(recent, 1, n)) = n
          /\ \A i \in 1..n : SubSeq(recent, 1, n)[i] = recent[i]
      BY <2>1, LruFacts
    <2>3. \A i \in 1..n : lru[i] = recent[i]
      BY <2>1, LruFacts
    <2>4. lru = SubSeq(recent, 1, n)
      BY <2>1, <2>2, <2>3, LruFacts
    <2> QED
      BY <2>4 DEF n, CacheIsLru, IInv, LruInv
  <1> QED
    BY <1>1, InitIInv, NextIInv, PTL DEF Spec

-----------------------------------------------------------------------------
(***************************************************************************)
(* Rows and their documents.                                               *)
(***************************************************************************)

\* A row that a call has got is its document's, if there was one.
OwnRow(t) == row[t] \in {doc[t], None} /\ (doc[t] \in Stored => row[t] = doc[t])

OwnParts(d, e) ==
    /\ e.docID \in {d, None} /\ e.header \in {d, None} /\ e.content \in {Body(d), None}
    /\ d \in Stored => e.docID = d /\ e.header = d
    /\ e.content # None => e.header = d

OwnEntry(d) == OwnParts(d, cache[d])

\* Rows stay, and as long as no two queries have met, no row is filed under another
\* document.
RowInv ==
    /\ Stored \subseteq table
    /\ ~tangled => /\ \A t \in Callers : pc[t] \in {"hrow", "crow", "cwrite"} => OwnRow(t)
                   /\ \A d \in DOMAIN cache : OwnEntry(d)

LEMMA InitRowInv == Init => RowInv
  <1> SUFFICES ASSUME Init PROVE RowInv
    OBVIOUS
  <1>1. DOMAIN cache = {} /\ \A t \in Callers : pc[t] = "idle"
    BY DEF Init
  <1> QED
    BY <1>1 DEF Init, RowInv

\* Neither is a row deleted nor a tangled connection mended.
LEMMA Monotone == [Next]_vars => table \subseteq table' /\ (tangled => tangled')
  <1> SUFFICES ASSUME [Next]_vars PROVE table \subseteq table' /\ (tangled => tangled')
    OBVIOUS
  <1>1. ASSUME NEW t \in Callers, Call(t) \/ Continue(t)
        PROVE  table \subseteq table' /\ (tangled => tangled')
    <2>1. CASE HeaderQuery(t) \/ ContentQuery(t)
      BY <2>1 DEF HeaderQuery, ContentQuery, Query
    <2>2. CASE HeaderInsert(t) \/ HeaderFail(t) \/ ContentRead(t) \/ ContentFail(t)
      <3>1. table' = table
        BY <2>2 DEF HeaderInsert, HeaderFail, ContentRead, ContentFail
      <3>2. tangled' = tangled
        BY <2>2 DEF HeaderInsert, HeaderFail, ContentRead, ContentFail, Answer, EndQuery
      <3> QED
        BY <3>1, <3>2
    <2>3. CASE HeaderHit(t) \/ ContentHit(t) \/ HeaderMiss(t) \/ ContentMiss(t) \/ ContentWrite(t)
      BY <2>3 DEF HeaderHit, ContentHit, Hit, HeaderMiss, ContentMiss, ContentWrite, connVars
    <2> QED
      BY <1>1, <2>1, <2>2, <2>3 DEF Call, Continue
  <1>2. CASE AddRow \/ numDocs
    <2>1. table \subseteq table'
      BY <1>2 DEF AddRow, numDocs
    <2>2. tangled => tangled'
      BY <1>2 DEF AddRow, numDocs, Intrusion
    <2> QED
      BY <2>1, <2>2
  <1>3. CASE UNCHANGED vars
    BY <1>3 DEF vars, connVars
  <1> QED
    BY <1>1, <1>2, <1>3 DEF Next

LEMMA OwnRowNext ==
    ASSUME IInv, RowInv, [Next]_vars, ~tangled',
           NEW t \in Callers, pc'[t] \in {"hrow", "crow", "cwrite"}
    PROVE  OwnRow(t)'
  <1>0. /\ ~tangled /\ Stored \subseteq table
        /\ pc[t] \in {"hrow", "crow", "cwrite"} => OwnRow(t)
    BY Monotone DEF RowInv
  <1>1. ASSUME pc'[t] = pc[t], doc'[t] = doc[t], row'[t] = row[t] PROVE OwnRow(t)'
    BY <1>0, <1>1 DEF OwnRow
  <1>2. ASSUME NEW s \in Callers, Call(s) \/ Continue(s) PROVE OwnRow(t)'
    <2>1. CASE s # t
      <3>1. pc'[t] = pc[t] /\ doc'[t] = doc[t] /\ row'[t] = row[t]
        <4> USE DEF IInv, TypeOK
        <4>1. CASE HeaderHit(s) \/ ContentHit(s) \/ HeaderMiss(s) \/ ContentMiss(s)
          BY <2>1, <4>1 DEF HeaderHit, ContentHit, Hit, HeaderMiss, ContentMiss, Goto
        <4>2. CASE HeaderQuery(s) \/ ContentQuery(s) \/ ContentRead(s)
          BY <2>1, <4>2 DEF HeaderQuery, ContentQuery, ContentRead, Query, Goto
        <4>3. CASE HeaderInsert(s) \/ HeaderFail(s) \/ ContentFail(s) \/ ContentWrite(s)
          BY <2>1, <4>3 DEF HeaderInsert, HeaderFail, ContentFail, ContentWrite, Return, Goto
        <4> QED
          BY <1>2, <4>1, <4>2, <4>3 DEF Call, Continue
      <3> QED
        BY <1>1, <3>1
    <2>2. CASE s = t
      <3>1. CASE HeaderHit(t) \/ ContentHit(t)
        BY <1>1, <3>1 DEF HeaderHit, ContentHit, Hit
      <3>2. CASE HeaderQuery(t) \/ ContentQuery(t)
        <4>1. /\ doc' = doc
              /\ row'[t] = IF doc[t] \in table THEN doc[t] ELSE None
          BY <3>2 DEF HeaderQuery, ContentQuery, Query, IInv, TypeOK
        <4> QED
          BY <1>0, <4>1 DEF OwnRow
      <3>3. CASE ContentRead(t)
        <4>1. doc' = doc /\ row'[t] = row[t] /\ pc[t] = "crow"
          BY <1>0, <3>3 DEF ContentRead, Answer, IInv, TypeOK
        <4> QED
          BY <1>0, <4>1 DEF OwnRow
      <3>4. CASE HeaderMiss(t) \/ ContentMiss(t) \/ HeaderInsert(t) \/ HeaderFail(t)
                 \/ ContentFail(t) \/ ContentWrite(t)
        <4>1. pc'[t] \in {"hquery", "cquery", "idle"}
          BY <3>4 DEF HeaderMiss, ContentMiss, HeaderInsert, HeaderFail, ContentFail, ContentWrite,
                      Return, Goto, IInv, TypeOK
        <4> QED
          BY <4>1
      <3> QED
        BY <1>2, <2>2, <3>1, <3>2, <3>3, <3>4 DEF Call, Continue
    <2> QED
      BY <2>1, <2>2
  <1>3. CASE AddRow \/ numDocs
    BY <1>1, <1>3 DEF AddRow, numDocs
  <1>4. CASE UNCHANGED vars
    BY <1>1, <1>4 DEF vars
  <1> QED
    BY <1>2, <1>3, <1>4 DEF Next

LEMMA RowNext == IInv /\ RowInv /\ [Next]_vars => RowInv'
  <1> SUFFICES ASSUME IInv, RowInv, [Next]_vars PROVE RowInv'
    OBVIOUS
  <1>1. Stored \subseteq table'
    BY Monotone DEF RowInv
  <1>2. ASSUME ~tangled', NEW d \in DOMAIN cache' PROVE OwnEntry(d)'
    <2>0. /\ ~tangled
          /\ \A x \in DOMAIN cache : OwnEntry(x)
          /\ \A t \in Callers : pc[t] \in {"hrow", "crow", "cwrite"} => OwnRow(t)
      BY <1>2, Monotone DEF RowInv
    <2>1. CASE cache' = cache
      BY <1>2, <2>0, <2>1 DEF OwnEntry
    <2>2. ASSUME NEW t \in Callers, NEW r \in Rows, Writes(t, r) PROVE OwnEntry(d)'
      <3>1. CASE d = doc[t]
        <4>1. r \in {d, None} /\ (d \in Stored => r = d) /\ d \in Docs
          BY <2>0, <2>2, <3>1 DEF OwnRow, Writes
        <4>2. d # None
          BY <4>1, Constants
        <4>3. Written(d, r, cache'[d])
          BY <1>2, <2>2, <3>1 DEF Writes
        <4>4. Body(r) \in {Body(d), None} /\ (Body(r) # None => r = d)
          BY <4>1 DEF Body
        <4>5. OwnParts(d, HeaderEntry(d, r))
          BY <4>1, <4>2 DEF OwnParts, HeaderEntry
        <4>6. OwnParts(d, ContentEntry(d, r))
          BY <4>1, <4>4 DEF OwnParts, ContentEntry
        <4>7. ASSUME d \in DOMAIN cache PROVE OwnParts(d, Refreshed(cache[d], r))
          <5>1. cache[d] \in Entry /\ OwnParts(d, cache[d])
            BY <2>0, <4>7 DEF IInv, TypeOK, OwnEntry
          <5> DEFINE e == cache[d]
          <5>2. /\ Refreshed(e, r).docID = e.docID /\ Refreshed(e, r).header = r
                /\ Refreshed(e, r).content = Body(r)
            BY <5>1 DEF Refreshed, Entry
          <5> QED
            BY <4>1, <4>4, <5>1, <5>2 DEF OwnParts
        <4> QED
          BY <4>3, <4>5, <4>6, <4>7 DEF Written, OwnEntry
      <3>2. CASE d # doc[t]
        BY <1>2, <2>0, <2>2, <3>2 DEF OwnEntry, Writes
      <3> QED
        BY <3>1, <3>2
    <2> QED
      BY <2>1, <2>2, MapStep
  <1> QED
    BY <1>1, <1>2, OwnRowNext DEF RowInv

\* Types, a mutex that only a waiting getHeader holds, and entries whose docID, fields
\* and content are those of their own documents or blank, as long as no two queries
\* have met on the connection (DocumentStore.cpp:53, 63-87, 149-193).
THEOREM RowsStayTheirOwn == Spec => []RowsBelong
  <1>1. IInv /\ RowInv => RowsBelong
    BY DEF IInv, RowInv, OwnEntry, OwnParts, RowsBelong
  <1> QED
    BY <1>1, InitIInv, NextIInv, InitRowInv, RowNext, PTL DEF Spec
=============================================================================
