-------------------------- MODULE DataBufferProofs ---------------------------
(***************************************************************************)
(* What the database holds once memory is flushed depends on what has been *)
(* published, and not on how it was flushed: for any venue, trades,        *)
(* flushers and bounds, and whatever fails in between.                     *)
(*                                                                         *)
(* The argument is an algebra of merging.  Two sequences of events are     *)
(* equivalent when they keep the same events and order those that no key   *)
(* orders in the same way; appending preserves the equivalence, and        *)
(* Canonical yields the one sequence in normal form of each class.         *)
(*                                                                         *)
(* The second half is about aggregated trades, which a derivation replaces *)
(* by their sums.  Its invariant is a ledger: the events of a row, a       *)
(* bucket or a batch stand for disjoint sets of trades, and count their    *)
(* volume and ticks; every step adds, merges or coalesces them without     *)
(* losing or counting a trade twice.                                       *)
(***************************************************************************)
EXTENDS DataBuffer, FiniteSetTheorems, FunctionTheorems, SequenceTheorems,
         WellFoundedInduction, TLAPS

-----------------------------------------------------------------------------
(***************************************************************************)
(* Least elements and arrangements.                                        *)
(***************************************************************************)
LEMMA LeastOfNats ==
  ASSUME NEW S \in SUBSET Nat, S # {}
  PROVE  \E i \in S : \A j \in S : i <= j
<1>1. PICK i \in S : \A j \in S : ~(<<j, i>> \in OpToRel(<, Nat))
  BY NatLessThanWellFounded, WFMin
<1>2. \A j \in S : ~(j < i)
  BY <1>1 DEF OpToRel
<1> QED BY <1>2

LEMMA MinFacts ==
  ASSUME NEW S \in SUBSET Nat, S # {}
  PROVE  Min(S) \in S /\ \A j \in S : Min(S) <= j
<1>1. \E i \in S : \A j \in S : i <= j
  BY LeastOfNats
<1> QED BY <1>1 DEF Min

LEMMA MinIs ==
  ASSUME NEW S \in SUBSET Nat, NEW i \in S, \A j \in S : i <= j
  PROVE  Min(S) = i
<1>1. Min(S) \in S /\ \A j \in S : Min(S) <= j
  BY MinFacts
<1>2. Min(S) <= i /\ i <= Min(S) /\ Min(S) \in Nat /\ i \in Nat
  BY <1>1
<1> QED BY <1>2

\* A strict total order on S.
Orders(R, S) ==
  /\ \A i \in S : <<i, i>> \notin R
  /\ \A i, j, k \in S : <<i, j>> \in R /\ <<j, k>> \in R => <<i, k>> \in R
  /\ \A i, j \in S : i # j => <<i, j>> \in R \/ <<j, i>> \in R

\* Arrange lists each element of S once, in order.
Arranged(at, S, R) ==
  /\ at \in [1 .. Cardinality(S) -> S]
  /\ \A i \in S : \E p \in 1 .. Cardinality(S) : at[p] = i
  /\ \A p, q \in 1 .. Cardinality(S) : p < q => <<at[p], at[q]>> \in R

LEMMA ArrangeFacts ==
  ASSUME NEW S, IsFiniteSet(S), NEW R, Orders(R, S)
  PROVE  Arranged(Arrange(S, R), S, R)
<1> DEFINE B(i) == {j \in S : <<j, i>> \in R}
           n == Cardinality(S)
           rank == [i \in S |-> Cardinality(B(i)) + 1]
<1>1. n \in Nat
  BY FS_CardinalityType
<1>2. ASSUME NEW i \in S
      PROVE  IsFiniteSet(B(i)) /\ Cardinality(B(i)) \in Nat /\ Cardinality(B(i)) + 1 <= n
  <2>1. B(i) \in SUBSET S /\ i \notin B(i) /\ B(i) \cup {i} \in SUBSET S
    BY DEF Orders
  <2>2. IsFiniteSet(B(i))
    BY <2>1, FS_Subset
  <2> HIDE DEF B
  <2>3. Cardinality(B(i)) \in Nat /\ Cardinality(B(i) \cup {i}) = Cardinality(B(i)) + 1
    BY <2>1, <2>2, FS_AddElement, FS_CardinalityType
  <2>4. Cardinality(B(i) \cup {i}) <= n
    BY <2>1, FS_Subset
  <2> QED BY <2>2, <2>3, <2>4
<1>3. ASSUME NEW i \in S, NEW j \in S, <<i, j>> \in R
      PROVE  Cardinality(B(i)) < Cardinality(B(j))
  <2>1. B(i) \cup {i} \in SUBSET B(j) /\ i \notin B(i)
    BY <1>3 DEF Orders
  <2>2. IsFiniteSet(B(i)) /\ IsFiniteSet(B(j))
    BY <1>2
  <2> HIDE DEF B
  <2>3. Cardinality(B(i) \cup {i}) = Cardinality(B(i)) + 1
    BY <2>1, <2>2, FS_AddElement
  <2>4. Cardinality(B(i) \cup {i}) <= Cardinality(B(j))
    BY <2>1, <2>2, FS_Subset
  <2> QED BY <1>2, <2>3, <2>4
<1> HIDE DEF B
<1>4. rank \in [S -> 1 .. n]
  <2>1. ASSUME NEW i \in S PROVE Cardinality(B(i)) + 1 \in 1 .. n
    BY <1>1, <1>2
  <2> QED BY <2>1
<1>5. \A i, j \in S : i # j => rank[i] # rank[j]
  <2> SUFFICES ASSUME NEW i \in S, NEW j \in S, i # j
               PROVE  Cardinality(B(i)) + 1 # Cardinality(B(j)) + 1
    OBVIOUS
  <2>1. Cardinality(B(i)) # Cardinality(B(j))
    <3>1. CASE <<i, j>> \in R
      BY <1>2, <1>3, <3>1
    <3>2. CASE <<j, i>> \in R
      BY <1>2, <1>3, <3>2
    <3> QED BY <3>1, <3>2 DEF Orders
  <2> QED BY <1>2, <2>1
<1>6. rank \in Surjection(S, 1 .. n)
  <2>1. rank \in Injection(S, 1 .. n)
    BY <1>4, <1>5 DEF Injection, IsInjective
  <2>2. IsFiniteSet(1 .. n) /\ Cardinality(1 .. n) = n
    BY <1>1, FS_Interval
  <2> HIDE DEF rank
  <2> QED BY <2>1, <2>2, FS_Injection
<1>7. ASSUME NEW p \in 1 .. n
      PROVE  \E i \in S : Cardinality(B(i)) = p - 1
  <2>1. PICK i \in S : rank[i] = p
    BY <1>6 DEF Surjection
  <2>2. Cardinality(B(i)) + 1 = p
    BY <2>1
  <2> QED BY <1>1, <1>2, <2>2
<1> DEFINE at == Arrange(S, R)
<1>8. ASSUME NEW p \in 1 .. n
      PROVE  at[p] \in S /\ Cardinality(B(at[p])) = p - 1
  <2>1. at[p] = CHOOSE i \in S : Cardinality(B(i)) = p - 1
    BY DEF Arrange, B
  <2> HIDE DEF at
  <2> QED BY <1>7, <2>1
<1>9. at \in [1 .. n -> S]
  <2>1. at = [p \in 1 .. n |-> CHOOSE i \in S : Cardinality(B(i)) = p - 1]
    BY DEF Arrange, B
  <2>2. DOMAIN at = 1 .. n /\ at = [p \in 1 .. n |-> at[p]]
    BY <2>1
  <2> HIDE DEF at
  <2> QED BY <1>8, <2>2
<1> HIDE DEF at
<1>10. ASSUME NEW i \in S PROVE \E p \in 1 .. n : at[p] = i
  <2> DEFINE p == Cardinality(B(i)) + 1
  <2>1. p \in 1 .. n /\ p - 1 = Cardinality(B(i))
    BY <1>1, <1>2
  <2>2. at[p] \in S /\ Cardinality(B(at[p])) = Cardinality(B(i))
    BY <1>8, <2>1
  <2>3. at[p] = i
    <3> DEFINE k == at[p]
    <3>1. k \in S /\ Cardinality(B(k)) = Cardinality(B(i))
      BY <2>2
    <3> HIDE DEF k
    <3>2. ~(<<k, i>> \in R) /\ ~(<<i, k>> \in R)
      BY <1>2, <1>3, <3>1
    <3>3. k = i
      BY <3>1, <3>2 DEF Orders
    <3> QED BY <3>3 DEF k
  <2> QED BY <2>1, <2>3
<1>11. ASSUME NEW p \in 1 .. n, NEW q \in 1 .. n, p < q
       PROVE  <<at[p], at[q]>> \in R
  <2>1. /\ at[p] \in S /\ Cardinality(B(at[p])) = p - 1
        /\ at[q] \in S /\ Cardinality(B(at[q])) = q - 1
    BY <1>8
  <2> DEFINE i == at[p]
             j == at[q]
  <2>2. i \in S /\ j \in S /\ Cardinality(B(i)) < Cardinality(B(j))
    BY <1>1, <1>11, <2>1
  <2> HIDE DEF i, j
  <2>3. i # j
    BY <1>2, <2>2
  <2>4. ~(<<j, i>> \in R)
    BY <1>2, <1>3, <2>2
  <2>5. <<i, j>> \in R
    BY <2>2, <2>3, <2>4 DEF Orders
  <2> QED BY <2>5 DEF i, j
<1> QED BY <1>9, <1>10, <1>11 DEF Arranged, at


-----------------------------------------------------------------------------
(***************************************************************************)
(* Raw events: their order, and the sequences that are equivalent.         *)
(***************************************************************************)
Lt(e, f) == Less("raw", e, f)
Tie(e, f) == ~Lt(e, f) /\ ~Lt(f, e)

\* Less is a strict weak order on every venue.
LEMMA LtOrders ==
  /\ \A e \in Events : ~Lt(e, e)
  /\ \A e, f, g \in Events : Lt(e, f) /\ Lt(f, g) => Lt(e, g)
  /\ \A e, f, g \in Events : Lt(e, g) => Lt(e, f) \/ Lt(f, g)
<1>1. \A e \in Events : e.uid \in Nat /\ e.time \in Nat
  BY DEF Events
<1> QED BY <1>1 DEF Lt, Less

\* The first event with an uid, and where it is.
Place(s, u) == Min({i \in DOMAIN s : s[i].uid = u})
First(s, u) == s[Place(s, u)]

LEMMA SeqFacts ==
  ASSUME NEW s \in Seq(Events)
  PROVE  /\ Len(s) \in Nat /\ DOMAIN s = 1 .. Len(s)
         /\ \A i \in 1 .. Len(s) : s[i] \in Events
BY LenProperties, ElementOfSeq

LEMMA PlaceFacts ==
  ASSUME NEW s \in Seq(Events), NEW u \in UidsOf(s)
  PROVE  /\ Place(s, u) \in 1 .. Len(s) /\ Place(s, u) \in Nat /\ s[Place(s, u)].uid = u
         /\ First(s, u) = s[Place(s, u)] /\ First(s, u) \in Events /\ First(s, u).uid = u
         /\ \A i \in 1 .. Len(s) : s[i].uid = u => Place(s, u) <= i
<1> DEFINE S == {i \in DOMAIN s : s[i].uid = u}
<1>1. Len(s) \in Nat /\ DOMAIN s = 1 .. Len(s)
  BY SeqFacts
<1>2. S \in SUBSET Nat /\ S # {}
  BY <1>1 DEF UidsOf
<1>3. Min(S) \in S /\ \A j \in S : Min(S) <= j
  BY <1>2, MinFacts
<1> QED BY <1>1, <1>2, <1>3, SeqFacts DEF Place, First

LEMMA PlaceIs ==
  ASSUME NEW s \in Seq(Events), NEW p \in 1 .. Len(s),
         \A i \in 1 .. Len(s) : s[i].uid = s[p].uid => p <= i
  PROVE  s[p].uid \in UidsOf(s) /\ Place(s, s[p].uid) = p /\ First(s, s[p].uid) = s[p]
<1> DEFINE S == {i \in DOMAIN s : s[i].uid = s[p].uid}
<1>1. Len(s) \in Nat /\ DOMAIN s = 1 .. Len(s)
  BY SeqFacts
<1>2. S \in SUBSET Nat /\ p \in S /\ \A j \in S : p <= j
  BY <1>1
<1>3. Min(S) = p
  BY <1>2, MinIs
<1> QED BY <1>1, <1>3 DEF Place, First, UidsOf

\* s and t keep the same events, and agree on the order of those that tie.
Equivalent(s, t) ==
  /\ UidsOf(s) = UidsOf(t)
  /\ \A u \in UidsOf(s) : First(s, u) = First(t, u)
  /\ \A u, v \in UidsOf(s) :
       Tie(First(s, u), First(s, v)) => (Place(s, u) < Place(s, v) <=> Place(t, u) < Place(t, v))

LEMMA EquivalentRefl == ASSUME NEW s PROVE Equivalent(s, s)
BY DEF Equivalent

LEMMA EquivalentSym == ASSUME NEW s, NEW t, Equivalent(s, t) PROVE Equivalent(t, s)
BY DEF Equivalent

LEMMA EquivalentTrans ==
  ASSUME NEW r, NEW s, NEW t, Equivalent(r, s), Equivalent(s, t) PROVE Equivalent(r, t)
BY DEF Equivalent

\* Where an event is first in a concatenation.
LEMMA PlaceInConcat ==
  ASSUME NEW s \in Seq(Events), NEW t \in Seq(Events)
  PROVE  /\ s \o t \in Seq(Events) /\ UidsOf(s \o t) = UidsOf(s) \cup UidsOf(t)
         /\ \A u \in UidsOf(s) :
              Place(s \o t, u) = Place(s, u) /\ First(s \o t, u) = First(s, u)
         /\ \A u \in UidsOf(t) : u \notin UidsOf(s) =>
              Place(s \o t, u) = Len(s) + Place(t, u) /\ First(s \o t, u) = First(t, u)
<1> DEFINE w == s \o t
           m == Len(s)
           n == Len(t)
<1>1. /\ m \in Nat /\ n \in Nat /\ DOMAIN s = 1 .. m /\ DOMAIN t = 1 .. n
      /\ w \in Seq(Events) /\ Len(w) = m + n /\ DOMAIN w = 1 .. m + n
      /\ \A i \in 1 .. m + n : w[i] = IF i <= m THEN s[i] ELSE t[i - m]
  BY SeqFacts, ConcatProperties
<1> HIDE DEF w
<1>2. \A i \in 1 .. m : w[i] = s[i] /\ i \in 1 .. m + n
  BY <1>1
<1>3. \A i \in 1 .. n : w[m + i] = t[i] /\ m + i \in 1 .. m + n
  <2> SUFFICES ASSUME NEW i \in 1 .. n PROVE w[m + i] = t[i] /\ m + i \in 1 .. m + n
    OBVIOUS
  <2>1. m + i \in 1 .. m + n /\ ~(m + i <= m) /\ (m + i) - m = i
    BY <1>1
  <2> QED BY <1>1, <2>1
<1>4. \A i \in 1 .. m + n : i \in 1 .. m \/ \E j \in 1 .. n : i = m + j
  <2> SUFFICES ASSUME NEW i \in 1 .. m + n, i \notin 1 .. m PROVE \E j \in 1 .. n : i = m + j
    OBVIOUS
  <2>1. i - m \in 1 .. n /\ i = m + (i - m)
    BY <1>1
  <2> QED BY <2>1
<1>5. \A u : u \in UidsOf(s) <=> \E i \in 1 .. m : s[i].uid = u
  BY <1>1 DEF UidsOf
<1>6. \A u : u \in UidsOf(t) <=> \E i \in 1 .. n : t[i].uid = u
  BY <1>1 DEF UidsOf
<1>7. \A u : u \in UidsOf(w) <=> \E i \in 1 .. m + n : w[i].uid = u
  BY <1>1 DEF UidsOf
<1> HIDE DEF m, n
<1>8. UidsOf(w) = UidsOf(s) \cup UidsOf(t)
  <2>1. \A u \in UidsOf(w) : u \in UidsOf(s) \cup UidsOf(t)
    BY <1>2, <1>3, <1>4, <1>5, <1>6, <1>7
  <2>2. \A u \in UidsOf(s) : u \in UidsOf(w)
    BY <1>2, <1>5, <1>7
  <2>3. \A u \in UidsOf(t) : u \in UidsOf(w)
    BY <1>3, <1>6, <1>7
  <2> QED BY <2>1, <2>2, <2>3
<1>9. ASSUME NEW u \in UidsOf(s)
      PROVE  Place(w, u) = Place(s, u) /\ First(w, u) = First(s, u)
  <2> DEFINE p == Place(s, u)
  <2>1. /\ p \in 1 .. m /\ s[p].uid = u /\ First(s, u) = s[p]
        /\ \A i \in 1 .. m : s[i].uid = u => p <= i
    BY PlaceFacts DEF m
  <2> HIDE DEF p
  <2>2. p \in 1 .. Len(w) /\ w[p] = s[p]
    BY <1>1, <1>2, <2>1
  <2>3. ASSUME NEW i \in 1 .. Len(w), w[i].uid = w[p].uid PROVE p <= i
    <3>1. CASE i \in 1 .. m
      BY <1>2, <2>1, <2>2, <2>3, <3>1
    <3>2. CASE i \notin 1 .. m
      BY <1>1, <2>1, <3>2
    <3> QED BY <3>1, <3>2
  <2>4. Place(w, w[p].uid) = p /\ First(w, w[p].uid) = w[p]
    BY <1>1, <2>2, <2>3, PlaceIs
  <2> QED BY <2>1, <2>2, <2>4 DEF p
<1>10. ASSUME NEW u \in UidsOf(t), u \notin UidsOf(s)
       PROVE  Place(w, u) = m + Place(t, u) /\ First(w, u) = First(t, u)
  <2> DEFINE p == Place(t, u)
  <2>1. /\ p \in 1 .. n /\ t[p].uid = u /\ First(t, u) = t[p]
        /\ \A i \in 1 .. n : t[i].uid = u => p <= i
    BY PlaceFacts DEF n
  <2> HIDE DEF p
  <2>2. m + p \in 1 .. Len(w) /\ w[m + p] = t[p]
    BY <1>1, <1>3, <2>1
  <2>3. ASSUME NEW i \in 1 .. Len(w), w[i].uid = w[m + p].uid PROVE m + p <= i
    <3>1. i \notin 1 .. m
      BY <1>2, <1>5, <1>10, <2>1, <2>2, <2>3
    <3>2. PICK j \in 1 .. n : i = m + j
      BY <1>1, <1>4, <3>1
    <3>3. t[j].uid = u
      BY <1>3, <2>1, <2>2, <2>3, <3>2
    <3>4. p <= j
      BY <2>1, <3>3
    <3> QED BY <1>1, <2>1, <3>2, <3>4
  <2>4. Place(w, w[m + p].uid) = m + p /\ First(w, w[m + p].uid) = w[m + p]
    BY <1>1, <2>2, <2>3, PlaceIs
  <2> QED BY <2>1, <2>2, <2>4 DEF p
<1> QED BY <1>1, <1>8, <1>9, <1>10 DEF w, m

\* The same is true of what is appended to sequences that are equivalent.
LEMMA EquivalentConcat ==
  ASSUME NEW s \in Seq(Events), NEW s2 \in Seq(Events), Equivalent(s, s2),
         NEW t \in Seq(Events), NEW t2 \in Seq(Events), Equivalent(t, t2)
  PROVE  Equivalent(s \o t, s2 \o t2)
<1> DEFINE w == s \o t
           w2 == s2 \o t2
           U == UidsOf(s)
           V == UidsOf(t)
<1>1. /\ UidsOf(w) = U \cup V
      /\ \A u \in U : Place(w, u) = Place(s, u) /\ First(w, u) = First(s, u)
      /\ \A u \in V : u \notin U => Place(w, u) = Len(s) + Place(t, u) /\ First(w, u) = First(t, u)
  BY PlaceInConcat
<1>2. U = UidsOf(s2) /\ V = UidsOf(t2)
  BY DEF Equivalent
<1>3. /\ UidsOf(w2) = U \cup V
      /\ \A u \in U : Place(w2, u) = Place(s2, u) /\ First(w2, u) = First(s2, u)
      /\ \A u \in V : u \notin U =>
           Place(w2, u) = Len(s2) + Place(t2, u) /\ First(w2, u) = First(t2, u)
  BY <1>2, PlaceInConcat
<1>4. /\ \A u \in U : Place(s, u) \in 1 .. Len(s) /\ Place(s2, u) \in 1 .. Len(s2)
      /\ \A u \in V : Place(t, u) \in 1 .. Len(t) /\ Place(t2, u) \in 1 .. Len(t2)
      /\ Len(s) \in Nat /\ Len(s2) \in Nat /\ Len(t) \in Nat /\ Len(t2) \in Nat
  BY <1>2, PlaceFacts, SeqFacts
<1>5. /\ \A u \in U : First(s, u) = First(s2, u)
      /\ \A u \in V : First(t, u) = First(t2, u)
      /\ \A u, v \in U : Tie(First(s, u), First(s, v)) =>
           (Place(s, u) < Place(s, v) <=> Place(s2, u) < Place(s2, v))
      /\ \A u, v \in V : Tie(First(t, u), First(t, v)) =>
           (Place(t, u) < Place(t, v) <=> Place(t2, u) < Place(t2, v))
  BY DEF Equivalent
<1> HIDE DEF w, w2, U, V
<1>6. \A u \in U \cup V : First(w, u) = First(w2, u)
  BY <1>1, <1>3, <1>5
<1>7. ASSUME NEW u \in U \cup V, NEW v \in U \cup V, Tie(First(w, u), First(w, v))
      PROVE  Place(w, u) < Place(w, v) <=> Place(w2, u) < Place(w2, v)
  <2>1. CASE u \in U /\ v \in U
    BY <1>1, <1>3, <1>5, <1>7, <2>1
  <2>2. CASE u \in U /\ v \notin U
    <3>1. /\ Place(w, u) \in 1 .. Len(s) /\ Place(w2, u) \in 1 .. Len(s2)
          /\ Place(w, v) = Len(s) + Place(t, v) /\ Place(w2, v) = Len(s2) + Place(t2, v)
          /\ Place(t, v) \in 1 .. Len(t) /\ Place(t2, v) \in 1 .. Len(t2)
      BY <1>1, <1>3, <1>4, <2>2
    <3> QED BY <1>4, <3>1
  <2>3. CASE u \notin U /\ v \in U
    <3>1. /\ Place(w, v) \in 1 .. Len(s) /\ Place(w2, v) \in 1 .. Len(s2)
          /\ Place(w, u) = Len(s) + Place(t, u) /\ Place(w2, u) = Len(s2) + Place(t2, u)
          /\ Place(t, u) \in 1 .. Len(t) /\ Place(t2, u) \in 1 .. Len(t2)
      BY <1>1, <1>3, <1>4, <2>3
    <3> QED BY <1>4, <3>1
  <2>4. CASE u \notin U /\ v \notin U
    <3>1. /\ Place(w, u) = Len(s) + Place(t, u) /\ Place(w2, u) = Len(s2) + Place(t2, u)
          /\ Place(w, v) = Len(s) + Place(t, v) /\ Place(w2, v) = Len(s2) + Place(t2, v)
          /\ Place(t, u) \in 1 .. Len(t) /\ Place(t2, u) \in 1 .. Len(t2)
          /\ Place(t, v) \in 1 .. Len(t) /\ Place(t2, v) \in 1 .. Len(t2)
          /\ First(w, u) = First(t, u) /\ First(w, v) = First(t, v)
      BY <1>1, <1>3, <1>4, <2>4
    <3>2. Place(t, u) < Place(t, v) <=> Place(t2, u) < Place(t2, v)
      BY <1>5, <1>7, <2>4, <3>1
    <3> QED BY <1>4, <3>1, <3>2
  <2> QED BY <2>1, <2>2, <2>3, <2>4
<1>8. UidsOf(w) = UidsOf(w2)
  BY <1>1, <1>3
<1>9. Equivalent(w, w2)
  BY <1>1, <1>6, <1>7, <1>8 DEF Equivalent
<1> QED BY <1>9 DEF w, w2

\* Events that are known add nothing.
LEMMA EquivalentAbsorb ==
  ASSUME NEW s \in Seq(Events), NEW t \in Seq(Events), UidsOf(t) \subseteq UidsOf(s)
  PROVE  Equivalent(s \o t, s)
<1>1. /\ UidsOf(s \o t) = UidsOf(s)
      /\ \A u \in UidsOf(s) :
           Place(s \o t, u) = Place(s, u) /\ First(s \o t, u) = First(s, u)
  <2>1. UidsOf(s \o t) = UidsOf(s) \cup UidsOf(t)
    BY PlaceInConcat
  <2>2. UidsOf(s \o t) = UidsOf(s)
    BY <2>1
  <2>3. \A u \in UidsOf(s) :
          Place(s \o t, u) = Place(s, u) /\ First(s \o t, u) = First(s, u)
    BY PlaceInConcat
  <2> QED BY <2>2, <2>3
<1> QED BY <1>1 DEF Equivalent

-----------------------------------------------------------------------------
(***************************************************************************)
(* The normal form: sorted, and each uid once.                             *)
(***************************************************************************)
Distinct(r) == \A i, j \in DOMAIN r : r[i].uid = r[j].uid => i = j
Sorted(r) == \A i, j \in DOMAIN r : i < j => ~Lt(r[j], r[i])
Normal(r) == Distinct(r) /\ Sorted(r)

LEMMA DistinctPlaces ==
  ASSUME NEW r \in Seq(Events), Distinct(r), NEW p \in 1 .. Len(r)
  PROVE  /\ r[p].uid \in UidsOf(r) /\ Place(r, r[p].uid) = p /\ First(r, r[p].uid) = r[p]
<1>1. \A i \in 1 .. Len(r) : r[i].uid = r[p].uid => p <= i
  BY SeqFacts DEF Distinct
<1> QED BY <1>1, PlaceIs

\* Where two normal forms of one class first differ, the event of one comes
\* later in the other.
LEMMA LaterInOther ==
  ASSUME NEW r \in Seq(Events), NEW t \in Seq(Events), Distinct(r), Distinct(t),
         Equivalent(r, t), NEW p \in 1 .. Len(r),
         p \in 1 .. Len(t) => r[p] # t[p],
         \A q \in 1 .. Len(t) : q < p => q \in 1 .. Len(r) /\ r[q] = t[q]
  PROVE  \E q \in 1 .. Len(t) : p < q /\ t[q] = r[p] /\ Place(t, r[p].uid) = q
<1> DEFINE u == r[p].uid
           q == Place(t, u)
<1>1. u \in UidsOf(t) /\ First(r, u) = r[p] /\ First(r, u) = First(t, u)
  BY DistinctPlaces DEF Equivalent
<1>2. q \in 1 .. Len(t) /\ t[q] = r[p]
  BY <1>1, PlaceFacts
<1> HIDE DEF q
<1>3. Len(r) \in Nat /\ Len(t) \in Nat /\ DOMAIN r = 1 .. Len(r)
  BY SeqFacts
<1>4. ~(q < p)
  <2> SUFFICES ASSUME q < p PROVE FALSE
    OBVIOUS
  <2>1. q \in 1 .. Len(r) /\ r[q] = r[p]
    BY <1>2
  <2>2. q = p
    BY <1>3, <2>1 DEF Distinct
  <2> QED BY <1>2, <1>3, <2>2
<1>5. q # p
  BY <1>2
<1> QED BY <1>2, <1>3, <1>4, <1>5 DEF q

LEMMA SameBound ==
  ASSUME NEW m \in Nat, NEW n \in Nat, \A p \in Nat \ {0} : p <= m <=> p <= n
  PROVE  m = n
<1>1. CASE m < n
  <2>1. n \in Nat \ {0} /\ n <= n /\ ~(n <= m)
    BY <1>1
  <2> QED BY <2>1
<1>2. CASE n < m
  <2>1. m \in Nat \ {0} /\ m <= m /\ ~(m <= n)
    BY <1>2
  <2> QED BY <2>1
<1> QED BY <1>1, <1>2

LEMMA NormalUnique ==
  ASSUME NEW r \in Seq(Events), NEW t \in Seq(Events), Normal(r), Normal(t), Equivalent(r, t)
  PROVE  r = t
<1> DEFINE Agree(p) == (p \in 1 .. Len(r) <=> p \in 1 .. Len(t))
                         /\ (p \in 1 .. Len(r) => r[p] = t[p])
           D == {p \in Nat \ {0} : ~Agree(p)}
<1>1. /\ Len(r) \in Nat /\ Len(t) \in Nat /\ DOMAIN r = 1 .. Len(r) /\ DOMAIN t = 1 .. Len(t)
      /\ \A i \in 1 .. Len(r) : r[i] \in Events
      /\ \A i \in 1 .. Len(t) : t[i] \in Events
  BY SeqFacts
<1>2. CASE D = {}
  <2>1. \A p \in Nat \ {0} : Agree(p)
    BY <1>2
  <2>2. Len(r) = Len(t)
    <3>1. \A p \in Nat \ {0} : p <= Len(r) <=> p <= Len(t)
      BY <1>1, <2>1
    <3>2. Len(r) \in Nat /\ Len(t) \in Nat
      BY <1>1
    <3> QED BY <3>1, <3>2, SameBound
  <2>3. \A p \in 1 .. Len(r) : r[p] = t[p]
    BY <1>1, <2>1
  <2> QED BY <2>2, <2>3, SeqEqual
<1>3. CASE D # {}
  <2>1. PICK p \in D : \A q \in D : p <= q
    <3>1. D \in SUBSET Nat
      OBVIOUS
    <3> QED BY <1>3, <3>1, LeastOfNats
  <2>2. p \in Nat \ {0} /\ ~Agree(p)
    BY <2>1
  <2>3. \A q \in Nat \ {0} : q < p => Agree(q)
    BY <2>1, <2>2
  <2>4. /\ \A q \in 1 .. Len(t) : q < p => q \in 1 .. Len(r) /\ r[q] = t[q]
        /\ \A q \in 1 .. Len(r) : q < p => q \in 1 .. Len(t) /\ t[q] = r[q]
    BY <1>1, <2>3
  <2>5. /\ p \in 1 .. Len(r) \/ p \in 1 .. Len(t)
        /\ p \in 1 .. Len(r) /\ p \in 1 .. Len(t) => r[p] # t[p]
    BY <2>2
  <2> HIDE DEF D, Agree
  <2>6. Distinct(r) /\ Distinct(t) /\ Equivalent(t, r)
    BY EquivalentSym DEF Normal
  <2>7. p \in 1 .. Len(r) =>
          \E q \in 1 .. Len(t) : p < q /\ t[q] = r[p] /\ Place(t, r[p].uid) = q
    BY <2>4, <2>5, <2>6, LaterInOther
  <2>8. p \in 1 .. Len(t) =>
          \E q \in 1 .. Len(r) : p < q /\ r[q] = t[p] /\ Place(r, t[p].uid) = q
    BY <2>4, <2>5, <2>6, LaterInOther
  <2>9. p \in 1 .. Len(r) /\ p \in 1 .. Len(t)
    BY <1>1, <2>2, <2>5, <2>7, <2>8
  <2>10. PICK q \in 1 .. Len(t) : p < q /\ t[q] = r[p] /\ Place(t, r[p].uid) = q
    BY <2>7, <2>9
  <2>11. PICK k \in 1 .. Len(r) : p < k /\ r[k] = t[p] /\ Place(r, t[p].uid) = k
    BY <2>8, <2>9
  <2>12. Tie(r[p], t[p])
    BY <1>1, <2>9, <2>10, <2>11 DEF Tie, Normal, Sorted
  <2>13. /\ r[p].uid \in UidsOf(r) /\ First(r, r[p].uid) = r[p] /\ Place(r, r[p].uid) = p
         /\ t[p].uid \in UidsOf(t) /\ First(t, t[p].uid) = t[p] /\ Place(t, t[p].uid) = p
    BY <2>6, <2>9, DistinctPlaces
  <2>14. t[p].uid \in UidsOf(r) /\ First(r, t[p].uid) = t[p]
    BY <2>13 DEF Equivalent
  <2>15. Place(r, r[p].uid) < Place(r, t[p].uid) <=> Place(t, r[p].uid) < Place(t, t[p].uid)
    BY <2>12, <2>13, <2>14 DEF Equivalent
  <2>16. p < k <=> q < p
    BY <2>10, <2>11, <2>13, <2>15
  <2>17. q \in Nat /\ k \in Nat /\ p \in Nat
    BY <1>1, <2>2
  <2>18. FALSE
    BY <2>10, <2>11, <2>16, <2>17
  <2> QED BY <2>18
<1> QED BY <1>2, <1>3

-----------------------------------------------------------------------------
(***************************************************************************)
(* Canonical and Insert compute normal forms.                              *)
(***************************************************************************)
LEMMA CountUpTo ==
  ASSUME NEW n \in Nat
  PROVE  IsFiniteSet(1 .. n) /\ Cardinality(1 .. n) = n
BY FS_Interval

LEMMA FunctionIsSeq ==
  ASSUME NEW S, NEW n \in Nat, NEW f \in [1 .. n -> S]
  PROVE  f \in Seq(S) /\ Len(f) = n
BY SeqDef

\* A sequence that takes from s the first event of each uid once, and leaves
\* those that tie in place, is equivalent to s.
LEMMA SelectionIsEquivalent ==
  ASSUME NEW s \in Seq(Events), NEW r \in Seq(Events), NEW at \in [1 .. Len(r) -> 1 .. Len(s)],
         \A p \in 1 .. Len(r) : r[p] = s[at[p]] /\ at[p] = Place(s, s[at[p]].uid),
         \A p, q \in 1 .. Len(r) : at[p] = at[q] => p = q,
         \A u \in UidsOf(s) : \E p \in 1 .. Len(r) : at[p] = Place(s, u),
         \A p, q \in 1 .. Len(r) : Tie(r[p], r[q]) => (p < q <=> at[p] < at[q])
  PROVE  Distinct(r) /\ Equivalent(s, r)
<1>1. /\ Len(r) \in Nat /\ DOMAIN r = 1 .. Len(r)
      /\ Len(s) \in Nat /\ DOMAIN s = 1 .. Len(s)
  BY SeqFacts
<1>2. Distinct(r)
  BY <1>1 DEF Distinct
<1>3. UidsOf(r) = UidsOf(s)
  <2>1. \A u \in UidsOf(r) : u \in UidsOf(s)
    BY <1>1 DEF UidsOf
  <2>2. ASSUME NEW u \in UidsOf(s) PROVE u \in UidsOf(r)
    <3>1. PICK p \in 1 .. Len(r) : at[p] = Place(s, u)
      OBVIOUS
    <3>2. r[p].uid = u
      BY <3>1, PlaceFacts
    <3> QED BY <1>1, <3>2 DEF UidsOf
  <2> QED BY <2>1, <2>2
<1>4. ASSUME NEW u \in UidsOf(s)
      PROVE  \E p \in 1 .. Len(r) :
               p = Place(r, u) /\ at[p] = Place(s, u) /\ r[p] = First(s, u) /\ r[p] = First(r, u)
  <2>1. PICK p \in 1 .. Len(r) : at[p] = Place(s, u)
    OBVIOUS
  <2>2. s[at[p]] = First(s, u) /\ r[p] = First(s, u) /\ r[p].uid = u
    BY <2>1, PlaceFacts
  <2>3. Place(r, u) = p /\ First(r, u) = r[p]
    BY <1>2, <2>2, DistinctPlaces
  <2> QED BY <2>1, <2>2, <2>3
<1>5. \A u \in UidsOf(s) : First(s, u) = First(r, u)
  BY <1>4
<1>6. ASSUME NEW u \in UidsOf(s), NEW v \in UidsOf(s), Tie(First(s, u), First(s, v))
      PROVE  Place(s, u) < Place(s, v) <=> Place(r, u) < Place(r, v)
  <2>1. PICK p \in 1 .. Len(r) :
          p = Place(r, u) /\ at[p] = Place(s, u) /\ r[p] = First(s, u) /\ r[p] = First(r, u)
    BY <1>4
  <2>2. PICK q \in 1 .. Len(r) :
          q = Place(r, v) /\ at[q] = Place(s, v) /\ r[q] = First(s, v) /\ r[q] = First(r, v)
    BY <1>4
  <2>3. Tie(r[p], r[q])
    BY <1>6, <2>1, <2>2
  <2>4. p < q <=> at[p] < at[q]
    BY <2>3
  <2> QED BY <2>1, <2>2, <2>4
<1> QED BY <1>2, <1>3, <1>5, <1>6 DEF Equivalent

LEMMA LessOrders ==
  ASSUME NEW stream
  PROVE  /\ \A e \in Events : ~Less(stream, e, e)
         /\ \A e, f, g \in Events : Less(stream, e, f) /\ Less(stream, f, g) => Less(stream, e, g)
         /\ \A e, f, g \in Events :
              Less(stream, e, g) => Less(stream, e, f) \/ Less(stream, f, g)
<1>1. \A e \in Events : e.uid \in Nat /\ e.time \in Nat
  BY DEF Events
<1> QED BY <1>1 DEF Less

LEMMA AheadOrders ==
  ASSUME NEW stream, NEW d \in Seq(Events)
  PROVE  Orders(Ahead(stream, d), 1 .. Len(d))
<1> DEFINE R == Ahead(stream, d)
           L(i, j) == Less(stream, d[i], d[j])
           D == 1 .. Len(d)
<1>1. Len(d) \in Nat /\ DOMAIN d = D /\ \A i \in D : d[i] \in Events
  BY SeqFacts
<1>2. \A i, j \in D : <<i, j>> \in R <=> L(i, j) \/ (~L(j, i) /\ i < j)
  BY <1>1 DEF Ahead
<1>3. /\ \A i \in D : ~L(i, i)
      /\ \A i, j, k \in D : L(i, j) /\ L(j, k) => L(i, k)
      /\ \A i, j, k \in D : L(i, k) => L(i, j) \/ L(j, k)
  BY <1>1, LessOrders
<1>4. \A i \in D : i \in Nat
  BY <1>1
<1> HIDE DEF R, L, D
<1>5. \A i \in D : <<i, i>> \notin R
  BY <1>2, <1>3, <1>4
<1>6. ASSUME NEW i \in D, NEW j \in D, NEW k \in D, <<i, j>> \in R, <<j, k>> \in R
      PROVE  <<i, k>> \in R
  <2>1. CASE L(i, j) \/ L(j, k)
    <3>1. L(i, k)
      BY <1>2, <1>3, <1>6, <2>1
    <3> QED BY <1>2, <3>1
  <2>2. CASE ~L(i, j) /\ ~L(j, k)
    <3>1. ~L(j, i) /\ i < j /\ ~L(k, j) /\ j < k
      BY <1>2, <1>6, <2>2
    <3>2. ~L(k, i)
      BY <1>3, <3>1
    <3> QED BY <1>2, <1>4, <3>1, <3>2
  <2> QED BY <2>1, <2>2
<1>7. \A i, j \in D : i # j => <<i, j>> \in R \/ <<j, i>> \in R
  BY <1>2, <1>4
<1> QED BY <1>5, <1>6, <1>7 DEF Orders, R, D

LEMMA SortIsArrangement ==
  ASSUME NEW stream, NEW d \in Seq(Events)
  PROVE  \E at : /\ Arranged(at, 1 .. Len(d), Ahead(stream, d))
                 /\ at \in [1 .. Len(d) -> 1 .. Len(d)]
                 /\ StableSort(stream, d) = [p \in 1 .. Len(d) |-> d[at[p]]]
<1> DEFINE at == Arrange(1 .. Len(d), Ahead(stream, d))
<1>1. Len(d) \in Nat /\ DOMAIN d = 1 .. Len(d)
  BY SeqFacts
<1>2. IsFiniteSet(1 .. Len(d)) /\ Cardinality(1 .. Len(d)) = Len(d)
  BY <1>1, CountUpTo
<1>3. Arranged(at, 1 .. Len(d), Ahead(stream, d))
  BY <1>2, AheadOrders, ArrangeFacts
<1>4. at \in [1 .. Len(d) -> 1 .. Len(d)]
  BY <1>2, <1>3 DEF Arranged
<1>5. StableSort(stream, d) = [p \in DOMAIN at |-> d[at[p]]]
  BY <1>1 DEF StableSort
<1> HIDE DEF at
<1> QED BY <1>3, <1>4, <1>5

LEMMA SortType ==
  ASSUME NEW stream, NEW d \in Seq(Events)
  PROVE  StableSort(stream, d) \in Seq(Events) /\ Len(StableSort(stream, d)) = Len(d)
<1>1. PICK at : /\ at \in [1 .. Len(d) -> 1 .. Len(d)]
                /\ StableSort(stream, d) = [p \in 1 .. Len(d) |-> d[at[p]]]
  BY SortIsArrangement
<1>2. Len(d) \in Nat /\ \A i \in 1 .. Len(d) : d[i] \in Events
  BY SeqFacts
<1>3. StableSort(stream, d) \in [1 .. Len(d) -> Events]
  BY <1>1, <1>2
<1> QED BY <1>2, <1>3, FunctionIsSeq

LEMMA SortFacts ==
  ASSUME NEW d \in Seq(Events), Distinct(d)
  PROVE  /\ StableSort("raw", d) \in Seq(Events)
         /\ Normal(StableSort("raw", d)) /\ Equivalent(d, StableSort("raw", d))
<1> DEFINE r == StableSort("raw", d)
           n == Len(d)
           R == Ahead("raw", d)
<1>1. n \in Nat /\ DOMAIN d = 1 .. n /\ \A i \in 1 .. n : d[i] \in Events
  BY SeqFacts
<1>2. PICK at : /\ Arranged(at, 1 .. n, R) /\ at \in [1 .. n -> 1 .. n]
                /\ r = [p \in 1 .. n |-> d[at[p]]]
  BY SortIsArrangement
<1>3. r \in Seq(Events) /\ Len(r) = n /\ DOMAIN r = 1 .. n
  BY SortType, SeqFacts
<1>4. \A p \in 1 .. n : r[p] = d[at[p]]
  BY <1>2
<1>5. Orders(R, 1 .. n)
  BY AheadOrders
<1>6. \A i, j \in 1 .. n : <<i, j>> \in R <=> Lt(d[i], d[j]) \/ (~Lt(d[j], d[i]) /\ i < j)
  BY <1>1 DEF Ahead, Lt
<1>7. Cardinality(1 .. n) = n
  BY <1>1, CountUpTo
<1> HIDE DEF r, n, R
<1>8. /\ \A i \in 1 .. n : \E p \in 1 .. n : at[p] = i
      /\ \A p, q \in 1 .. n : p < q => <<at[p], at[q]>> \in R
  BY <1>2, <1>7 DEF Arranged
<1>9. \A p, q \in 1 .. n : at[p] = at[q] => p = q
  <2> SUFFICES ASSUME NEW p \in 1 .. n, NEW q \in 1 .. n, at[p] = at[q], p # q PROVE FALSE
    OBVIOUS
  <2>1. p < q \/ q < p
    BY <1>1
  <2>2. <<at[p], at[p]>> \in R
    BY <1>8, <2>1
  <2> QED BY <1>2, <1>5, <2>2 DEF Orders
<1>10. Sorted(r)
  <2> SUFFICES ASSUME NEW p \in 1 .. n, NEW q \in 1 .. n, p < q PROVE ~Lt(r[q], r[p])
    BY <1>3 DEF Sorted
  <2> DEFINE i == at[p]
             j == at[q]
  <2>1. i \in 1 .. n /\ j \in 1 .. n /\ r[p] = d[i] /\ r[q] = d[j] /\ <<i, j>> \in R
    BY <1>2, <1>4, <1>8
  <2> HIDE DEF i, j
  <2>2. Lt(d[i], d[j]) => ~Lt(d[j], d[i])
    BY <1>1, <2>1, LtOrders
  <2> QED BY <1>6, <2>1, <2>2
<1>11. \A p \in 1 .. n : at[p] = Place(d, d[at[p]].uid)
  BY <1>2, DistinctPlaces DEF n
<1>12. \A u \in UidsOf(d) : \E p \in 1 .. n : at[p] = Place(d, u)
  BY <1>8, PlaceFacts DEF n
<1>13. \A p, q \in 1 .. n : Tie(r[p], r[q]) => (p < q <=> at[p] < at[q])
  <2> SUFFICES ASSUME NEW p \in 1 .. n, NEW q \in 1 .. n, Tie(r[p], r[q])
               PROVE  p < q <=> at[p] < at[q]
    OBVIOUS
  <2> DEFINE i == at[p]
             j == at[q]
  <2>1. i \in 1 .. n /\ j \in 1 .. n /\ ~Lt(d[i], d[j]) /\ ~Lt(d[j], d[i])
    BY <1>2, <1>4 DEF Tie
  <2>2. p < q => <<i, j>> \in R
    BY <1>8
  <2>3. q < p => <<j, i>> \in R
    BY <1>8
  <2>4. p = q => i = j
    OBVIOUS
  <2> HIDE DEF i, j
  <2>5. (p < q => i < j) /\ (q < p => j < i)
    BY <1>6, <2>1, <2>2, <2>3
  <2>6. p < q <=> i < j
    BY <1>1, <2>1, <2>4, <2>5
  <2> QED BY <2>6 DEF i, j
<1>14. Distinct(r) /\ Equivalent(d, r)
  <2>1. at \in [1 .. Len(r) -> 1 .. Len(d)]
    BY <1>2, <1>3 DEF n
  <2>2. \A p \in 1 .. Len(r) : r[p] = d[at[p]] /\ at[p] = Place(d, d[at[p]].uid)
    BY <1>3, <1>4, <1>11
  <2>3. /\ \A p, q \in 1 .. Len(r) : at[p] = at[q] => p = q
        /\ \A u \in UidsOf(d) : \E p \in 1 .. Len(r) : at[p] = Place(d, u)
        /\ \A p, q \in 1 .. Len(r) : Tie(r[p], r[q]) => (p < q <=> at[p] < at[q])
    BY <1>3, <1>9, <1>12, <1>13
  <2> QED BY <1>3, <2>1, <2>2, <2>3, SelectionIsEquivalent
<1> QED BY <1>3, <1>10, <1>14 DEF Normal, r

\* The arrangement of a set of indices is increasing.
LEMMA AscendingFacts ==
  ASSUME NEW n \in Nat, NEW S \in SUBSET (1 .. n)
  PROVE  /\ Cardinality(S) \in Nat /\ Ascending(S) \in [1 .. Cardinality(S) -> S]
         /\ \A i \in S : \E p \in 1 .. Cardinality(S) : Ascending(S)[p] = i
         /\ \A p, q \in 1 .. Cardinality(S) : p < q <=> Ascending(S)[p] < Ascending(S)[q]
<1> DEFINE R == {pair \in S \X S : pair[1] < pair[2]}
           m == Cardinality(S)
           at == Ascending(S)
<1>1. IsFiniteSet(S)
  BY CountUpTo, FS_Subset
<1>2. m \in Nat
  BY <1>1, FS_CardinalityType
<1>3. \A i, j \in S : <<i, j>> \in R <=> i < j
  OBVIOUS
<1>4. S \subseteq Nat
  OBVIOUS
<1> HIDE DEF R
<1>5. Orders(R, S)
  BY <1>3, <1>4 DEF Orders
<1>6. Arranged(at, S, R)
  BY <1>1, <1>5, ArrangeFacts DEF Ascending, R
<1> HIDE DEF at, m
<1>7. /\ at \in [1 .. m -> S]
      /\ \A i \in S : \E p \in 1 .. m : at[p] = i
      /\ \A p, q \in 1 .. m : p < q => at[p] < at[q]
  BY <1>3, <1>6 DEF Arranged, m
<1>8. ASSUME NEW p \in 1 .. m, NEW q \in 1 .. m, at[p] < at[q]
      PROVE  p < q
  <2>1. at[p] \in Nat /\ at[q] \in Nat
    BY <1>4, <1>7
  <2>2. ~(q < p) /\ p # q
    BY <1>7, <1>8, <2>1
  <2> QED BY <1>2, <2>2
<1>9. \A p, q \in 1 .. m : p < q <=> at[p] < at[q]
  BY <1>7, <1>8
<1> QED BY <1>2, <1>7, <1>9 DEF at, m

LEMMA DedupFacts ==
  ASSUME NEW s \in Seq(Events)
  PROVE  /\ Dedup("raw", s) \in Seq(Events)
         /\ Distinct(Dedup("raw", s)) /\ Equivalent(s, Dedup("raw", s))
<1> DEFINE n == Len(s)
           Same(i) == {j \in DOMAIN s : s[j].uid = s[i].uid}
           F == {i \in DOMAIN s : i = Min(Same(i))}
           m == Cardinality(F)
           at == Ascending(F)
           r == Dedup("raw", s)
<1>1. n \in Nat /\ DOMAIN s = 1 .. n /\ \A i \in 1 .. n : s[i] \in Events
  BY SeqFacts
<1>2. \A i \in 1 .. n : Min(Same(i)) = Place(s, s[i].uid)
  BY DEF Place
<1> HIDE DEF Same
<1>3. /\ F \in SUBSET (1 .. n)
      /\ \A i \in 1 .. n : i \in F <=> i = Place(s, s[i].uid)
  BY <1>1, <1>2
<1>4. /\ m \in Nat /\ at \in [1 .. m -> F]
      /\ \A i \in F : \E p \in 1 .. m : at[p] = i
      /\ \A p, q \in 1 .. m : p < q <=> at[p] < at[q]
  BY <1>1, <1>3, AscendingFacts
<1>5. r = [p \in DOMAIN at |-> s[at[p]]]
  BY DEF Dedup, Same
<1> HIDE DEF F, at, r, n, m
<1>6. r \in [1 .. m -> Events] /\ \A p \in 1 .. m : r[p] = s[at[p]]
  BY <1>1, <1>3, <1>4, <1>5
<1>7. r \in Seq(Events) /\ Len(r) = m
  BY <1>4, <1>6, FunctionIsSeq
<1>8. at \in [1 .. Len(r) -> 1 .. Len(s)]
  BY <1>3, <1>4, <1>7 DEF n
<1>9. \A p \in 1 .. Len(r) : r[p] = s[at[p]] /\ at[p] = Place(s, s[at[p]].uid)
  BY <1>3, <1>4, <1>6, <1>7
<1>10. \A p, q \in 1 .. Len(r) : at[p] = at[q] => p = q
  <2> SUFFICES ASSUME NEW p \in 1 .. m, NEW q \in 1 .. m, at[p] = at[q] PROVE p = q
    BY <1>7
  <2>1. at[p] \in 1 .. n /\ at[q] \in 1 .. n
    BY <1>3, <1>4
  <2>2. ~(p < q) /\ ~(q < p)
    BY <1>1, <1>4, <2>1
  <2> QED BY <1>4, <2>2
<1>11. \A u \in UidsOf(s) : \E p \in 1 .. Len(r) : at[p] = Place(s, u)
  <2> SUFFICES ASSUME NEW u \in UidsOf(s) PROVE \E p \in 1 .. m : at[p] = Place(s, u)
    BY <1>7
  <2>1. Place(s, u) \in 1 .. n /\ s[Place(s, u)].uid = u
    BY PlaceFacts DEF n
  <2>2. Place(s, u) \in F
    BY <1>3, <2>1
  <2> QED BY <1>4, <2>2
<1>12. \A p, q \in 1 .. Len(r) : Tie(r[p], r[q]) => (p < q <=> at[p] < at[q])
  BY <1>4, <1>7
<1>13. Distinct(r) /\ Equivalent(s, r)
  BY <1>7, <1>8, <1>9, <1>10, <1>11, <1>12, SelectionIsEquivalent
<1> QED BY <1>7, <1>13 DEF r

LEMMA CanonicalFacts ==
  ASSUME NEW s \in Seq(Events)
  PROVE  /\ Canonical("raw", s) \in Seq(Events)
         /\ Normal(Canonical("raw", s)) /\ Equivalent(s, Canonical("raw", s))
<1> DEFINE d == Dedup("raw", s)
<1>1. d \in Seq(Events) /\ Distinct(d) /\ Equivalent(s, d)
  BY DedupFacts
<1> HIDE DEF d
<1>2. /\ StableSort("raw", d) \in Seq(Events)
      /\ Normal(StableSort("raw", d)) /\ Equivalent(d, StableSort("raw", d))
  BY <1>1, SortFacts
<1>3. Equivalent(s, StableSort("raw", d))
  BY <1>1, <1>2, EquivalentTrans
<1> QED BY <1>2, <1>3 DEF Canonical, d

\* One canonical form for each class.
LEMMA CanonicalSame ==
  ASSUME NEW s \in Seq(Events), NEW t \in Seq(Events), Equivalent(s, t)
  PROVE  Canonical("raw", s) = Canonical("raw", t)
<1>1. /\ Canonical("raw", s) \in Seq(Events) /\ Normal(Canonical("raw", s))
      /\ Canonical("raw", t) \in Seq(Events) /\ Normal(Canonical("raw", t))
      /\ Equivalent(s, Canonical("raw", s)) /\ Equivalent(t, Canonical("raw", t))
  BY CanonicalFacts
<1>2. Equivalent(Canonical("raw", s), Canonical("raw", t))
  BY <1>1, EquivalentSym, EquivalentTrans
<1> QED BY <1>1, <1>2, NormalUnique

\* Inserting into a sorted list is appending and sorting again.
LEMMA InsertFacts ==
  ASSUME NEW k \in Seq(Events), Normal(k), NEW e \in Events
  PROVE  /\ Insert("raw", k, e) \in Seq(Events)
         /\ Normal(Insert("raw", k, e)) /\ Equivalent(k \o <<e>>, Insert("raw", k, e))
<1> DEFINE n == Len(k)
           same == {i \in DOMAIN k : k[i].uid = e.uid}
           after == {i \in DOMAIN k : Less("raw", e, k[i])}
           a == IF after = {} THEN n + 1 ELSE Min(after)
           r == InsertBefore(a, k, e)
           s == k \o <<e>>
<1>1. n \in Nat /\ DOMAIN k = 1 .. n /\ \A i \in 1 .. n : k[i] \in Events
  BY SeqFacts
<1>2. /\ <<e>> \in Seq(Events) /\ Len(<<e>>) = 1 /\ <<e>>[1] = e
      /\ UidsOf(<<e>>) = {e.uid}
  BY DEF UidsOf
<1>3. CASE same # {}
  <2>1. Insert("raw", k, e) = k
    BY <1>3 DEF Insert
  <2>2. UidsOf(<<e>>) \subseteq UidsOf(k)
    BY <1>2, <1>3 DEF UidsOf
  <2>3. Equivalent(k \o <<e>>, k)
    BY <1>2, <2>2, EquivalentAbsorb
  <2> QED BY <2>1, <2>3
<1>4. CASE same = {}
  <2>1. Insert("raw", k, e) = r
    BY <1>4 DEF Insert
  <2>2. \A i \in 1 .. n : k[i].uid # e.uid
    BY <1>1, <1>4
  <2>3. \A i \in 1 .. n : i \in after <=> Lt(e, k[i])
    BY <1>1 DEF Lt
  <2>4. /\ a \in 1 .. n + 1
        /\ \A i \in 1 .. n : i < a => ~Lt(e, k[i])
        /\ \A i \in 1 .. n : ~(i < a) => Lt(e, k[i])
    <3>1. CASE after = {}
      BY <1>1, <2>3, <3>1
    <3>2. CASE after # {}
      <4>1. after \in SUBSET Nat /\ after \subseteq 1 .. n
        BY <1>1
      <4>2. a \in after /\ \A j \in after : a <= j
        BY <3>2, <4>1, MinFacts
      <4> HIDE DEF a, after
      <4>3. a \in 1 .. n
        BY <4>1, <4>2
      <4>4. ASSUME NEW i \in 1 .. n, i < a PROVE ~Lt(e, k[i])
        BY <1>1, <2>3, <4>2, <4>3, <4>4
      <4>5. ASSUME NEW i \in 1 .. n, ~(i < a) PROVE Lt(e, k[i])
        <5>1. Lt(e, k[a])
          BY <2>3, <4>2, <4>3
        <5>2. CASE i = a
          BY <5>1, <5>2
        <5>3. CASE a < i
          <6>1. ~Lt(k[i], k[a])
            BY <1>1, <4>3, <5>3 DEF Normal, Sorted
          <6> QED BY <1>1, <4>3, <5>1, <6>1, LtOrders
        <5> QED BY <1>1, <4>3, <4>5, <5>2, <5>3
      <4> QED BY <1>1, <4>3, <4>4, <4>5
    <3> QED BY <3>1, <3>2
  <2> DEFINE at == [i \in 1 .. n + 1 |-> IF i < a THEN i ELSE IF i = a THEN n + 1 ELSE i - 1]
  <2> HIDE DEF a, after, same
  <2>5. /\ s \in Seq(Events) /\ Len(s) = n + 1 /\ s[n + 1] = e
        /\ \A i \in 1 .. n : s[i] = k[i]
    BY <1>1, <1>2, ConcatProperties
  <2> HIDE DEF s
  <2>6. /\ at \in [1 .. n + 1 -> 1 .. n + 1]
        /\ \A p \in 1 .. n + 1 : p < a => at[p] = p /\ p \in 1 .. n
        /\ \A p \in 1 .. n + 1 : p > a => at[p] = p - 1 /\ p - 1 \in 1 .. n /\ ~(p - 1 < a)
        /\ at[a] = n + 1
    BY <1>1, <2>4
  <2> HIDE DEF at
  <2>7. \A p \in 1 .. n + 1 : r[p] = s[at[p]]
    <3>1. r = [i \in 1 .. n + 1 |-> IF i < a THEN k[i] ELSE IF i = a THEN e ELSE k[i - 1]]
      BY DEF InsertBefore
    <3> SUFFICES ASSUME NEW p \in 1 .. n + 1 PROVE r[p] = s[at[p]]
      OBVIOUS
    <3>2. r[p] = IF p < a THEN k[p] ELSE IF p = a THEN e ELSE k[p - 1]
      BY <3>1
    <3> HIDE DEF r
    <3>3. p < a \/ p = a \/ p > a
      BY <1>1, <2>4
    <3>4. p > a => ~(p < a) /\ p # a
      BY <1>1, <2>4
    <3> QED BY <1>1, <2>4, <2>5, <2>6, <3>2, <3>3, <3>4
  <2>8. r \in [1 .. n + 1 -> Events]
    <3>1. r = [i \in 1 .. n + 1 |-> r[i]]
      BY DEF InsertBefore
    <3>2. \A p \in 1 .. n + 1 : s[at[p]] \in Events
      BY <2>5, <2>6, SeqFacts
    <3> HIDE DEF r
    <3> QED BY <2>7, <3>1, <3>2
  <2>9. r \in Seq(Events) /\ Len(r) = n + 1 /\ DOMAIN r = 1 .. n + 1
    BY <1>1, <2>8, FunctionIsSeq, SeqFacts
  <2> HIDE DEF r
  <2>10. \A p \in 1 .. n + 1 : at[p] = Place(s, s[at[p]].uid)
    <3>1. ASSUME NEW i \in 1 .. n + 1, NEW j \in 1 .. n + 1, s[i].uid = s[j].uid PROVE i = j
      <4>1. \A l \in 1 .. n + 1 : l \in 1 .. n \/ l = n + 1
        BY <1>1
      <4> QED BY <1>1, <2>2, <2>5, <3>1, <4>1 DEF Normal, Distinct
    <3>2. Distinct(s)
      BY <2>5, <3>1, SeqFacts DEF Distinct
    <3> QED BY <2>5, <2>6, <3>2, DistinctPlaces
  <2>11. \A p, q \in 1 .. n + 1 : at[p] = at[q] => p = q
    <3> SUFFICES ASSUME NEW p \in 1 .. n + 1, NEW q \in 1 .. n + 1, at[p] = at[q]
                 PROVE  p = q
      OBVIOUS
    <3>1. (p < a \/ p = a \/ p > a) /\ (q < a \/ q = a \/ q > a)
      BY <1>1, <2>4
    <3> QED BY <1>1, <2>4, <2>6, <3>1
  <2>12. ASSUME NEW i \in 1 .. n + 1 PROVE \E p \in 1 .. n + 1 : at[p] = i
    <3>1. CASE i = n + 1
      BY <2>4, <2>6, <3>1
    <3>2. CASE i < n + 1 /\ i < a
      BY <2>6, <3>2
    <3>3. CASE i < n + 1 /\ ~(i < a)
      <4>1. i + 1 \in 1 .. n + 1 /\ i + 1 > a /\ (i + 1) - 1 = i
        BY <1>1, <2>4, <3>3
      <4> QED BY <2>6, <4>1
    <3> QED BY <1>1, <3>1, <3>2, <3>3
  <2>13. \A u \in UidsOf(s) : \E p \in 1 .. n + 1 : at[p] = Place(s, u)
    BY <2>5, <2>12, PlaceFacts
  <2>14. /\ r[a] = e
         /\ \A p \in 1 .. n + 1 : p < a => r[p] = k[p] /\ p \in 1 .. n /\ ~Lt(e, r[p])
         /\ \A p \in 1 .. n + 1 : p > a => r[p] = k[p - 1] /\ p - 1 \in 1 .. n /\ Lt(e, r[p])
    <3>1. r[a] = e
      BY <2>4, <2>5, <2>6, <2>7
    <3>2. ASSUME NEW p \in 1 .. n + 1, p < a
          PROVE  r[p] = k[p] /\ p \in 1 .. n /\ ~Lt(e, r[p])
      <4>1. p \in 1 .. n /\ r[p] = k[p]
        BY <2>5, <2>6, <2>7, <3>2
      <4> QED BY <2>4, <3>2, <4>1
    <3>3. ASSUME NEW p \in 1 .. n + 1, p > a
          PROVE  r[p] = k[p - 1] /\ p - 1 \in 1 .. n /\ Lt(e, r[p])
      <4> DEFINE i == p - 1
      <4>1. i \in 1 .. n /\ ~(i < a) /\ at[p] = i
        BY <2>6, <3>3
      <4> HIDE DEF i
      <4>2. r[p] = k[i] /\ Lt(e, k[i])
        BY <2>4, <2>5, <2>7, <4>1
      <4> QED BY <4>1, <4>2 DEF i
    <3> QED BY <3>1, <3>2, <3>3
  <2>15. ASSUME NEW p \in 1 .. n + 1, NEW q \in 1 .. n + 1, Tie(r[p], r[q])
         PROVE  p < q <=> at[p] < at[q]
    <3>1. (p < a \/ p = a \/ p > a) /\ (q < a \/ q = a \/ q > a)
      BY <1>1, <2>4
    <3>2. /\ p > a => r[p] = k[p - 1] /\ Lt(e, r[p])
          /\ q > a => r[q] = k[q - 1] /\ Lt(e, r[q])
          /\ r[a] = e
      BY <2>14
    <3>3. ~(p = a /\ q > a) /\ ~(q = a /\ p > a)
      BY <2>15, <3>2 DEF Tie
    <3> QED BY <1>1, <2>4, <2>6, <3>1, <3>3
  <2>16. ASSUME NEW p \in 1 .. n + 1, NEW q \in 1 .. n + 1, p < q
         PROVE  ~Lt(r[q], r[p])
    <3>1. (p < a \/ p = a \/ p > a) /\ (q < a \/ q = a \/ q > a)
      BY <1>1, <2>4
    <3>2. /\ p < a => r[p] = k[p] /\ p \in 1 .. n /\ ~Lt(e, r[p])
          /\ p > a => r[p] = k[p - 1] /\ p - 1 \in 1 .. n
          /\ q < a => r[q] = k[q] /\ q \in 1 .. n
          /\ q > a => r[q] = k[q - 1] /\ q - 1 \in 1 .. n /\ Lt(e, r[q])
          /\ r[a] = e
      BY <2>14
    <3>3. CASE q < a
      <4>1. p < a
        BY <1>1, <2>4, <2>16, <3>3
      <4> QED BY <1>1, <2>16, <3>2, <3>3, <4>1 DEF Normal, Sorted
    <3>4. CASE q = a
      <4>1. p < a
        BY <2>16, <3>4
      <4> QED BY <3>2, <3>4, <4>1
    <3>5. CASE q > a /\ p = a
      BY <1>1, <3>2, <3>5, LtOrders
    <3>6. CASE q > a /\ p < a
      <4>1. p < q - 1 \/ p = q - 1
        BY <1>1, <2>4, <3>6
      <4> QED BY <1>1, <3>2, <3>6, <4>1, LtOrders DEF Normal, Sorted
    <3>7. CASE q > a /\ p > a
      <4>1. p - 1 < q - 1
        BY <1>1, <2>16
      <4> QED BY <1>1, <3>2, <3>7, <4>1 DEF Normal, Sorted
    <3> QED BY <3>1, <3>3, <3>4, <3>5, <3>6, <3>7
  <2>17. Sorted(r)
    BY <2>9, <2>16 DEF Sorted
  <2>18. Distinct(r) /\ Equivalent(s, r)
    <3>1. at \in [1 .. Len(r) -> 1 .. Len(s)]
      BY <2>5, <2>6, <2>9
    <3>2. \A p \in 1 .. Len(r) : r[p] = s[at[p]] /\ at[p] = Place(s, s[at[p]].uid)
      BY <2>7, <2>9, <2>10
    <3>3. /\ \A p, q \in 1 .. Len(r) : at[p] = at[q] => p = q
          /\ \A u \in UidsOf(s) : \E p \in 1 .. Len(r) : at[p] = Place(s, u)
          /\ \A p, q \in 1 .. Len(r) : Tie(r[p], r[q]) => (p < q <=> at[p] < at[q])
      BY <2>9, <2>11, <2>13, <2>15
    <3> QED BY <2>5, <2>9, <3>1, <3>2, <3>3, SelectionIsEquivalent
  <2> QED BY <2>1, <2>9, <2>17, <2>18 DEF Normal, s
<1> QED BY <1>3, <1>4

-----------------------------------------------------------------------------
(***************************************************************************)
(* The types of what is merged and derived.                                *)
(***************************************************************************)

\* Among finitely many events of a sequence one has the most ticks.
LEMMA SomeHasMost ==
  ASSUME NEW s \in Seq(Events), NEW S \in SUBSET (1 .. Len(s)), S # {}
  PROVE  \E j \in S : \A l \in S : s[l].ticks <= s[j].ticks
<1> DEFINE R == {pair \in S \X S :
                   \/ s[pair[1]].ticks < s[pair[2]].ticks
                   \/ s[pair[1]].ticks = s[pair[2]].ticks /\ pair[1] < pair[2]}
           n == Cardinality(S)
           at == Arrange(S, R)
<1>1. Len(s) \in Nat /\ \A i \in S : i \in Nat /\ s[i].ticks \in Nat
  <2>1. \A e \in Events : e.ticks \in Nat
    BY DEF Events
  <2>2. Len(s) \in Nat /\ \A i \in S : i \in 1 .. Len(s) /\ s[i] \in Events
    BY SeqFacts
  <2> QED BY <2>1, <2>2
<1>2. IsFiniteSet(S)
  BY <1>1, CountUpTo, FS_Subset
<1>3. n \in Nat /\ n # 0
  BY <1>2, FS_CardinalityType, FS_EmptySet
<1>4. \A i, j \in S : <<i, j>> \in R <=>
        \/ s[i].ticks < s[j].ticks
        \/ s[i].ticks = s[j].ticks /\ i < j
  OBVIOUS
<1> HIDE DEF R
<1>5. Orders(R, S)
  <2>1. \A i \in S : <<i, i>> \notin R
    BY <1>1, <1>4
  <2>2. ASSUME NEW i \in S, NEW j \in S, NEW k \in S, <<i, j>> \in R, <<j, k>> \in R
        PROVE  <<i, k>> \in R
    <3>1. /\ i \in Nat /\ j \in Nat /\ k \in Nat
          /\ s[i].ticks \in Nat /\ s[j].ticks \in Nat /\ s[k].ticks \in Nat
      BY <1>1
    <3>2. s[i].ticks < s[j].ticks \/ (s[i].ticks = s[j].ticks /\ i < j)
      BY <1>4, <2>2
    <3>3. s[j].ticks < s[k].ticks \/ (s[j].ticks = s[k].ticks /\ j < k)
      BY <1>4, <2>2
    <3>4. s[i].ticks < s[k].ticks \/ (s[i].ticks = s[k].ticks /\ i < k)
      BY <3>1, <3>2, <3>3
    <3> QED BY <1>4, <3>4
  <2>3. ASSUME NEW i \in S, NEW j \in S, i # j PROVE <<i, j>> \in R \/ <<j, i>> \in R
    <3>1. i \in Nat /\ j \in Nat /\ s[i].ticks \in Nat /\ s[j].ticks \in Nat
      BY <1>1
    <3>2. \/ s[i].ticks < s[j].ticks \/ (s[i].ticks = s[j].ticks /\ i < j)
          \/ s[j].ticks < s[i].ticks \/ (s[j].ticks = s[i].ticks /\ j < i)
      BY <2>3, <3>1
    <3> QED BY <1>4, <3>2
  <2> QED BY <2>1, <2>2, <2>3 DEF Orders
<1>6. Arranged(at, S, R)
  BY <1>2, <1>5, ArrangeFacts
<1> HIDE DEF at, n
<1>7. /\ at[n] \in S
      /\ \A l \in S : \E p \in 1 .. n : at[p] = l /\ (p < n => <<l, at[n]>> \in R)
  BY <1>3, <1>6 DEF Arranged, n
<1>8. ASSUME NEW l \in S PROVE s[l].ticks <= s[at[n]].ticks
  <2>1. PICK p \in 1 .. n : at[p] = l /\ (p < n => <<l, at[n]>> \in R)
    BY <1>7
  <2>2. CASE p = n
    BY <1>1, <2>1, <2>2
  <2>3. CASE p < n
    <3>1. <<l, at[n]>> \in R /\ at[n] \in S
      BY <1>7, <2>1, <2>3
    <3>2. s[l].ticks < s[at[n]].ticks \/ s[l].ticks = s[at[n]].ticks
      BY <1>4, <3>1
    <3>3. s[l].ticks \in Nat /\ s[at[n]].ticks \in Nat
      BY <1>1, <3>1
    <3> QED BY <3>2, <3>3
  <2> QED BY <1>3, <2>1, <2>2, <2>3
<1> QED BY <1>7, <1>8

LEMMA DedupType ==
  ASSUME NEW stream, NEW s \in Seq(Events)
  PROVE  Dedup(stream, s) \in Seq(Events)
<1> DEFINE n == Len(s)
           Same(i) == {j \in DOMAIN s : s[j].uid = s[i].uid}
           Most(i) == {j \in Same(i) : \A l \in Same(i) : s[l].ticks <= s[j].ticks}
           F == {i \in DOMAIN s : i = Min(Same(i))}
           m == Cardinality(F)
           at == Ascending(F)
           pick(p) == IF stream = "aggregated" THEN Min(Most(at[p])) ELSE at[p]
           r == Dedup(stream, s)
<1>1. n \in Nat /\ DOMAIN s = 1 .. n /\ \A i \in 1 .. n : s[i] \in Events
  BY SeqFacts
<1>2. F \in SUBSET (1 .. n)
  BY <1>1
<1>3. m \in Nat /\ at \in [1 .. m -> F]
  BY <1>1, <1>2, AscendingFacts
<1>4. r = [p \in DOMAIN at |-> s[pick(p)]]
  BY DEF Dedup
<1>5. ASSUME NEW i \in 1 .. n PROVE Min(Most(i)) \in 1 .. n
  <2>1. Same(i) \in SUBSET (1 .. n) /\ Same(i) # {}
    BY <1>1
  <2> HIDE DEF Same
  <2>2. Most(i) # {}
    BY <2>1, SomeHasMost
  <2>3. Most(i) \in SUBSET (1 .. n)
    BY <2>1
  <2> HIDE DEF Most
  <2>4. Most(i) \in SUBSET Nat
    BY <1>1, <2>3
  <2>5. Min(Most(i)) \in Most(i)
    BY <2>2, <2>4, MinFacts
  <2> QED BY <2>3, <2>5
<1> HIDE DEF F, m, at, Same, Most, r
<1>6. \A p \in 1 .. m : pick(p) \in 1 .. n
  BY <1>2, <1>3, <1>5
<1> HIDE DEF pick
<1>7. r \in [1 .. m -> Events]
  BY <1>1, <1>3, <1>4, <1>6
<1> QED BY <1>3, <1>7, FunctionIsSeq DEF r

LEMMA CanonicalType ==
  ASSUME NEW stream, NEW s \in Seq(Events)
  PROVE  Canonical(stream, s) \in Seq(Events)
BY DedupType, SortType DEF Canonical

LEMMA MergeType ==
  ASSUME NEW stream, NEW s \in Seq(Events), NEW t \in Seq(Events)
  PROVE  Merge(stream, s, t) \in Seq(Events)
BY ConcatProperties, CanonicalType DEF Merge

LEMMA InsertType ==
  ASSUME NEW stream, NEW k \in Seq(Events), NEW e \in Events
  PROVE  Insert(stream, k, e) \in Seq(Events)
<1> DEFINE n == Len(k)
           same == {i \in DOMAIN k : k[i].uid = e.uid}
           after == {i \in DOMAIN k : Less(stream, e, k[i])}
           a == IF after = {} THEN n + 1 ELSE Min(after)
           r == InsertBefore(a, k, e)
           t == [k EXCEPT ![Min(same)] = e]
<1>1. n \in Nat /\ DOMAIN k = 1 .. n /\ \A i \in 1 .. n : k[i] \in Events
  BY SeqFacts
<1>2. \/ Insert(stream, k, e) = r
      \/ same # {} /\ Insert(stream, k, e) = StableSort(stream, t)
      \/ Insert(stream, k, e) = k
  BY DEF Insert
<1>3. r \in Seq(Events)
  <2>1. r = [i \in 1 .. n + 1 |-> IF i < a THEN k[i] ELSE IF i = a THEN e ELSE k[i - 1]]
    BY DEF InsertBefore
  <2>2. a \in 1 .. n + 1
    <3> after \in SUBSET Nat
      BY <1>1
    <3>1. after # {} => Min(after) \in after
      BY MinFacts
    <3> QED BY <1>1, <3>1
  <2> HIDE DEF a
  <2>3. r \in [1 .. n + 1 -> Events]
    <3>1. ASSUME NEW i \in 1 .. n + 1
          PROVE  (IF i < a THEN k[i] ELSE IF i = a THEN e ELSE k[i - 1]) \in Events
      <4>1. (i < a => i \in 1 .. n) /\ (~(i < a) /\ i # a => i - 1 \in 1 .. n)
        BY <1>1, <2>2
      <4> QED BY <1>1, <4>1
    <3> HIDE DEF r
    <3> QED BY <2>1, <3>1
  <2> HIDE DEF r
  <2> QED BY <1>1, <2>3, FunctionIsSeq
<1>4. same # {} => StableSort(stream, t) \in Seq(Events)
  <2> HAVE same # {}
  <2> same \in SUBSET Nat
    BY <1>1
  <2>1. Min(same) \in same
    BY MinFacts
  <2>2. t \in Seq(Events)
    BY <1>1, <2>1, ExceptSeq
  <2> QED BY <2>2, SortType
<1> QED BY <1>2, <1>3, <1>4

\* A total is a natural.
LEMMA TotalType ==
  ASSUME NEW S, IsFiniteSet(S), NEW f \in [S -> Nat]
  PROVE  Total(f) \in Nat
<1> DEFINE units(i) == {i} \X (1 .. f[i])
           family == {units(i) : i \in S}
<1>1. ASSUME NEW i \in S PROVE IsFiniteSet(units(i))
  <2>1. f[i] \in Nat
    OBVIOUS
  <2>2. IsFiniteSet({i}) /\ IsFiniteSet(1 .. f[i])
    BY <2>1, FS_Singleton, CountUpTo
  <2> QED BY <2>2, FS_Product
<1>2. IsFiniteSet(family)
  <2> DEFINE g == [i \in S |-> units(i)]
  <2>1. g \in Surjection(S, family)
    BY DEF Surjection
  <2> HIDE DEF g
  <2> QED BY <2>1, FS_Surjection
<1>3. IsFiniteSet(UNION family)
  <2>1. \A T \in family : IsFiniteSet(T)
    BY <1>1
  <2> HIDE DEF family
  <2> QED BY <1>2, <2>1, FS_UNION
<1>4. Total(f) = Cardinality(UNION family)
  BY DEF Total
<1> HIDE DEF family
<1> QED BY <1>3, <1>4, FS_CardinalityType

LEMMA AggregateTradesType ==
  ASSUME NEW s \in Seq(Events), s # << >>
  PROVE  AggregateTrades(s) \in Events
<1> DEFINE n == Len(s)
           f == [i \in DOMAIN s |-> s[i].volume]
           g == [i \in DOMAIN s |-> s[i].ticks]
           P == UNION {s[i].parts : i \in DOMAIN s}
<1>1. /\ n \in Nat /\ n # 0 /\ DOMAIN s = 1 .. n
      /\ \A i \in 1 .. n : s[i] \in Events
  BY SeqFacts, EmptySeq
<1>2. /\ s[1] \in Events /\ s[n] \in Events /\ \A i \in 1 .. n :
           s[i].uid \in Nat /\ s[i].volume \in Nat /\ s[i].ticks \in Nat
             /\ s[i].parts \in SUBSET Nat
  <2>1. \A e \in Events : /\ e.uid \in Nat /\ e.volume \in Nat /\ e.ticks \in Nat
                         /\ e.parts \in SUBSET Nat
    BY DEF Events
  <2>2. 1 \in 1 .. n /\ n \in 1 .. n
    BY <1>1
  <2> HIDE DEF n
  <2> QED BY <1>1, <2>1, <2>2
<1>3. f \in [1 .. n -> Nat] /\ g \in [1 .. n -> Nat]
  BY <1>1, <1>2
<1>4. Volume(s) \in Nat /\ Ticks(s) \in Nat
  <2>1. Volume(s) = Total(f) /\ Ticks(s) = Total(g)
    BY DEF Volume, Ticks
  <2> HIDE DEF f, g
  <2> QED BY <1>1, <1>3, <2>1, CountUpTo, TotalType
<1>5. P \in SUBSET Nat
  BY <1>1, <1>2
<1>6. s[1].uid \in Nat
  BY <1>1, <1>2
<1>7. AggregateTrades(s) = [s[n] EXCEPT !.uid = s[1].uid, !.volume = Volume(s),
                                        !.ticks = Ticks(s), !.parts = P]
  BY DEF AggregateTrades
<1> HIDE DEF P
<1> QED BY <1>2, <1>4, <1>5, <1>6, <1>7 DEF Events

\* The segments of a sequence: each is the events from one index to another.
Segmented(s, ends, n, from, to) ==
  /\ n \in Nat /\ from \in [1 .. n -> 1 .. Len(s)] /\ to \in [1 .. n -> ends]
  /\ Segments(s, ends) = [p \in 1 .. n |-> SubSeq(s, from[p], to[p])]
  /\ \A p \in 1 .. n : from[p] <= to[p] /\ from[p] = IF p = 1 THEN 1 ELSE to[p - 1] + 1
  /\ \A e \in ends : \E p \in 1 .. n : to[p] = e
  /\ \A p, q \in 1 .. n : p < q <=> to[p] < to[q]

LEMMA SegmentsFacts ==
  ASSUME NEW S, NEW s \in Seq(S), NEW ends \in SUBSET (1 .. Len(s))
  PROVE  \E n, from, to : Segmented(s, ends, n, from, to)
<1> DEFINE n == Cardinality(ends)
           at == Ascending(ends)
           from == [p \in 1 .. n |-> IF p = 1 THEN 1 ELSE at[p - 1] + 1]
<1>1. Len(s) \in Nat
  BY LenProperties
<1>2. /\ n \in Nat /\ at \in [1 .. n -> ends]
      /\ \A e \in ends : \E p \in 1 .. n : at[p] = e
      /\ \A p, q \in 1 .. n : p < q <=> at[p] < at[q]
  BY <1>1, AscendingFacts
<1>3. Segments(s, ends) = [p \in DOMAIN at |-> SubSeq(s, IF p = 1 THEN 1 ELSE at[p - 1] + 1, at[p])]
  BY DEF Segments
<1> HIDE DEF at, n
<1>4. ASSUME NEW p \in 1 .. n
      PROVE  /\ from[p] \in 1 .. Len(s) /\ from[p] <= at[p]
             /\ from[p] = IF p = 1 THEN 1 ELSE at[p - 1] + 1
  <2>1. at[p] \in 1 .. Len(s)
    BY <1>2
  <2>2. CASE p = 1
    BY <1>1, <2>1, <2>2
  <2>3. CASE p # 1
    <3>1. p - 1 \in 1 .. n /\ p - 1 < p
      BY <1>2, <2>3
    <3>2. at[p - 1] < at[p] /\ at[p - 1] \in 1 .. Len(s)
      BY <1>2, <3>1
    <3> QED BY <1>1, <2>1, <2>3, <3>2
  <2> QED BY <2>2, <2>3
<1>5. from \in [1 .. n -> 1 .. Len(s)]
  <2>1. from = [p \in 1 .. n |-> from[p]]
    OBVIOUS
  <2> HIDE DEF from
  <2> QED BY <1>4, <2>1
<1>6. Segments(s, ends) = [p \in 1 .. n |-> SubSeq(s, from[p], at[p])]
  BY <1>2, <1>3
<1> HIDE DEF from
<1>7. Segmented(s, ends, n, from, at)
  BY <1>2, <1>4, <1>5, <1>6 DEF Segmented
<1> QED BY <1>7

LEMMA AggregateEventsType ==
  ASSUME NEW s \in Seq(Events)
  PROVE  AggregateTradeEvents(s) \in Seq(Events)
<1> DEFINE ends == {i \in DOMAIN s : i = Len(s) \/ ~SameSample(s[i], s[i + 1])}
           runs == Segments(s, ends)
<1>1. Len(s) \in Nat /\ DOMAIN s = 1 .. Len(s)
  BY SeqFacts
<1>2. ends \in SUBSET (1 .. Len(s))
  BY <1>1
<1> HIDE DEF ends
<1>3. PICK n, from, to : Segmented(s, ends, n, from, to)
  BY <1>2, SegmentsFacts
<1>4. ASSUME NEW p \in 1 .. n PROVE AggregateTrades(runs[p]) \in Events
  <2>1. /\ from[p] \in 1 .. Len(s) /\ to[p] \in 1 .. Len(s) /\ from[p] <= to[p]
        /\ runs[p] = SubSeq(s, from[p], to[p])
    BY <1>2, <1>3 DEF Segmented
  <2>2. \A i \in from[p] .. to[p] : s[i] \in Events
    BY <1>1, <2>1, SeqFacts
  <2>3. runs[p] \in Seq(Events) /\ Len(runs[p]) = to[p] - from[p] + 1
    BY <1>1, <2>1, <2>2, SubSeqProperties
  <2> HIDE DEF runs
  <2>4. runs[p] # << >>
    <3>1. Len(runs[p]) # 0
      BY <1>1, <2>1, <2>3
    <3> QED BY <3>1, EmptySeq
  <2> QED BY <2>3, <2>4, AggregateTradesType
<1>5. AggregateTradeEvents(s) = [p \in DOMAIN runs |-> AggregateTrades(runs[p])]
  BY DEF AggregateTradeEvents, ends
<1>6. DOMAIN runs = 1 .. n /\ n \in Nat
  BY <1>3 DEF Segmented
<1> HIDE DEF runs
<1>7. AggregateTradeEvents(s) \in [1 .. n -> Events]
  BY <1>4, <1>5, <1>6
<1> QED BY <1>6, <1>7, FunctionIsSeq

\* What is derived from a bucket: raw trades in canonical form, and events.
LEMMA DeriveFacts ==
  ASSUME NEW bucket, bucket.raw \in Seq(Events), bucket.aggregated \in Seq(Events), NEW threshold
  PROVE  /\ Derive(bucket, threshold).raw = Canonical("raw", bucket.raw)
         /\ Derive(bucket, threshold).aggregated \in Seq(Events)
<1> DEFINE raw == Canonical("raw", bucket.raw)
           source == IF Venue = "bitfinex" /\ raw # << >> THEN raw
                     ELSE Canonical("aggregated", bucket.aggregated)
           aggregated == AggregateTradeEvents(source)
<1>1. source \in Seq(Events)
  BY CanonicalType
<1> HIDE DEF source
<1>2. aggregated \in Seq(Events)
  BY <1>1, AggregateEventsType
<1>3. Derive(bucket, threshold) = [raw |-> raw, aggregated |-> aggregated,
                                   filtered |-> FilterTrades(aggregated, threshold)]
  BY DEF Derive, source
<1> HIDE DEF aggregated, raw
<1> QED BY <1>2, <1>3 DEF raw

-----------------------------------------------------------------------------
(***************************************************************************)
(* The inductive invariant.                                                *)
(***************************************************************************)
Typed ==
  /\ TypeOK /\ clock \in Nat
  /\ \A m \in Minutes : existing[m].raw \in Seq(Events) /\ existing[m].aggregated \in Seq(Events)

\* Only a flush under way has a batch.
BatchIsHeld == step = "idle" => batch = NoBuckets

\* A bucket in memory is sorted and has no duplicates, so that an insertion
\* finds its place.
BucketsNormal == \A m \in Minutes : Normal(buckets[m].raw)

\* The rows a transaction has read are still those of the database: nobody
\* writes them in between.
ReadIsCurrent ==
  step = "read" =>
    \A m \in Minutes : batch[m] # EmptyBucket => existing[m].raw = rows[m].raw

\* Row, batch and bucket, in this order, are equivalent to what was published.
Whole(m) == rows[m].raw \o (batch[m].raw \o buckets[m].raw)
WholeIsAccepted ==
  \A m \in Minutes : ~IsExpired(m) => Equivalent(Whole(m), accepted[m].raw)

IInv == Typed /\ BatchIsHeld /\ BucketsNormal /\ ReadIsCurrent /\ WholeIsAccepted

-----------------------------------------------------------------------------
(***************************************************************************)
(* The steps.                                                              *)
(***************************************************************************)
LEMMA EmptyBucketFacts ==
  /\ EmptyBucket.raw = << >> /\ EmptyBucket.aggregated = << >>
  /\ EmptyBucket \in [raw : Seq(Events), aggregated : Seq(Events)]
  /\ DOMAIN EmptyBucket = {"raw", "aggregated"}
  /\ EmptyRow.raw = << >> /\ EmptyRow.aggregated = << >>
  /\ << >> \in Seq(Events) /\ Normal(<< >>)
BY DEF EmptyBucket, EmptyRow, Normal, Distinct, Sorted

\* A bucket made of its two streams.
LEMMA BucketType ==
  ASSUME NEW f, f = [s \in DOMAIN EmptyBucket |-> f[s]],
         f.raw \in Seq(Events), f.aggregated \in Seq(Events)
  PROVE  f \in [raw : Seq(Events), aggregated : Seq(Events)]
<1>1. DOMAIN EmptyBucket = {"raw", "aggregated"}
  BY EmptyBucketFacts
<1>2. DOMAIN f = {"raw", "aggregated"}
  BY <1>1
<1>3. f = [s \in {"raw", "aggregated"} |-> f[s]]
  BY <1>1
<1> QED BY <1>2, <1>3

LEMMA MergeFacts ==
  ASSUME NEW s \in Seq(Events), NEW t \in Seq(Events)
  PROVE  /\ Merge("raw", s, t) \in Seq(Events) /\ Normal(Merge("raw", s, t))
         /\ Equivalent(s \o t, Merge("raw", s, t))
BY ConcatProperties, CanonicalFacts DEF Merge

\* The row written for a bucket is equivalent to the row read and the bucket.
LEMMA MergedRowFacts ==
  ASSUME NEW row, row.raw \in Seq(Events), row.aggregated \in Seq(Events),
         NEW bucket, bucket.raw \in Seq(Events), bucket.aggregated \in Seq(Events)
  PROVE  /\ MergedRow(row, bucket).raw \in Seq(Events)
         /\ MergedRow(row, bucket).aggregated \in Seq(Events)
         /\ Equivalent(row.raw \o bucket.raw, MergedRow(row, bucket).raw)
<1> DEFINE raw == Merge("raw", row.raw, bucket.raw)
           aggregated == Merge("aggregated", row.aggregated, bucket.aggregated)
           merged == [raw |-> raw, aggregated |-> aggregated]
<1>1. /\ raw \in Seq(Events) /\ Equivalent(row.raw \o bucket.raw, raw)
      /\ aggregated \in Seq(Events)
  BY MergeFacts, MergeType
<1> HIDE DEF raw, aggregated
<1>2. merged.raw = raw /\ merged.aggregated = aggregated
  OBVIOUS
<1> HIDE DEF merged
<1>3. /\ Derive(merged, Threshold).raw = Canonical("raw", raw)
      /\ Derive(merged, Threshold).aggregated \in Seq(Events)
  BY <1>1, <1>2, DeriveFacts
<1>4. /\ Canonical("raw", raw) \in Seq(Events)
      /\ Equivalent(row.raw \o bucket.raw, Canonical("raw", raw))
  BY <1>1, CanonicalFacts, EquivalentTrans
<1>5. MergedRow(row, bucket) = Derive(merged, Threshold)
  BY DEF MergedRow, merged, raw, aggregated
<1> QED BY <1>3, <1>4, <1>5

Associates(q, t, v) == (q \o t) \o v = q \o (t \o v)

LEMMA EventsAssociate ==
  ASSUME NEW q \in Seq(Events), NEW t \in Seq(Events), NEW v \in Seq(Events)
  PROVE  Associates(q, t, v)
BY ConcatAssociative DEF Associates

LEMMA EventsConcat ==
  ASSUME NEW q \in Seq(Events), NEW t \in Seq(Events)
  PROVE  /\ q \o t \in Seq(Events) /\ Len(q \o t) = Len(q) + Len(t)
         /\ \A i \in 1 .. Len(q) + Len(t) :
              (q \o t)[i] = IF i <= Len(q) THEN q[i] ELSE t[i - Len(q)]
BY ConcatProperties

\* What each step does to a minute whose row, batch and bucket are r, b and k,
\* and of which a has been accepted.
LEMMA WholeAfterPublish ==
  ASSUME NEW r \in Seq(Events), NEW b \in Seq(Events), NEW k \in Seq(Events),
         NEW a \in Seq(Events), Equivalent(r \o (b \o k), a),
         NEW e \in Events, NEW k2 \in Seq(Events), Equivalent(k \o <<e>>, k2)
  PROVE  Equivalent(r \o (b \o k2), Append(a, e))
<1> DEFINE x == <<e>>
<1>1. x \in Seq(Events) /\ Append(a, e) = a \o x
  BY AppendIsConcat
<1>x. x \in Seq(Events)
  BY <1>1
<1> HIDE DEF x
<1>2. /\ b \o k \in Seq(Events) /\ k \o x \in Seq(Events) /\ b \o (k \o x) \in Seq(Events)
      /\ b \o k2 \in Seq(Events) /\ r \o (b \o k) \in Seq(Events)
  BY <1>1, ConcatProperties
<1>3. Equivalent(b \o k2, b \o (k \o x))
  BY <1>1, <1>2, EquivalentConcat, EquivalentRefl, EquivalentSym DEF x
<1>4. Equivalent(r \o (b \o k2), r \o (b \o (k \o x)))
  BY <1>2, <1>3, EquivalentConcat, EquivalentRefl
<1>5. r \o (b \o (k \o x)) = (r \o (b \o k)) \o x
  <2>1. b \o k \in Seq(Events)
    BY <1>2
  <2>2. Associates(b, k, x) /\ Associates(r, b \o k, x)
    BY <1>x, <2>1, EventsAssociate, Zenon
  <2> QED BY <2>2, Zenon DEF Associates
<1>6. Equivalent((r \o (b \o k)) \o x, a \o x)
  BY <1>1, <1>2, EquivalentConcat, EquivalentRefl
<1> QED BY <1>1, <1>4, <1>5, <1>6, EquivalentTrans

LEMMA WholeAfterDetach ==
  ASSUME NEW r \in Seq(Events), NEW k \in Seq(Events)
  PROVE  r \o (k \o << >>) = r \o (<< >> \o k)
BY ConcatEmptySeq

LEMMA WholeAfterCommit ==
  ASSUME NEW r \in Seq(Events), NEW b \in Seq(Events), NEW k \in Seq(Events),
         NEW a, Equivalent(r \o (b \o k), a),
         NEW r2 \in Seq(Events), Equivalent(r \o b, r2)
  PROVE  /\ Equivalent(r2 \o (<< >> \o k), a)
         /\ Equivalent(r2 \o (b \o k), a)
<1>1. /\ << >> \o k = k /\ r \o b \in Seq(Events) /\ b \o k \in Seq(Events)
      /\ r2 \o b \in Seq(Events) /\ (r \o b) \o b \in Seq(Events)
  BY ConcatEmptySeq, ConcatProperties
<1>2. /\ (r \o b) \o k = r \o (b \o k) /\ r2 \o (b \o k) = (r2 \o b) \o k
  <2>1. Associates(r, b, k) /\ Associates(r2, b, k)
    BY EventsAssociate, Zenon
  <2> QED BY <2>1, Zenon DEF Associates
<1>3. Equivalent(r2 \o k, (r \o b) \o k)
  BY <1>1, EquivalentConcat, EquivalentRefl, EquivalentSym
<1>4. Equivalent(r2 \o k, a)
  BY <1>2, <1>3, EquivalentTrans
<1>5. Equivalent(r2 \o b, (r \o b) \o b)
  BY <1>1, EquivalentConcat, EquivalentRefl, EquivalentSym
<1>6. Equivalent((r \o b) \o b, r \o b)
  <2>1. UidsOf(b) \subseteq UidsOf(r \o b)
    BY PlaceInConcat
  <2> QED BY <1>1, <2>1, EquivalentAbsorb
<1>7. Equivalent(r2 \o b, r2)
  BY <1>5, <1>6, EquivalentTrans
<1>8. Equivalent((r2 \o b) \o k, r2 \o k)
  BY <1>1, <1>7, EquivalentConcat, EquivalentRefl
<1>9. Equivalent(r2 \o (b \o k), a)
  BY <1>2, <1>4, <1>8, EquivalentTrans
<1> QED BY <1>1, <1>4, <1>9

LEMMA WholeAfterRestore ==
  ASSUME NEW r \in Seq(Events), NEW b \in Seq(Events), NEW k \in Seq(Events),
         NEW a, Equivalent(r \o (b \o k), a),
         NEW k2 \in Seq(Events), Equivalent(b \o k, k2)
  PROVE  Equivalent(r \o (<< >> \o k2), a)
<1>1. << >> \o k2 = k2 /\ b \o k \in Seq(Events)
  BY ConcatEmptySeq, ConcatProperties
<1>2. Equivalent(r \o k2, r \o (b \o k))
  BY <1>1, EquivalentConcat, EquivalentRefl, EquivalentSym
<1> QED BY <1>1, <1>2, EquivalentTrans

-----------------------------------------------------------------------------
(***************************************************************************)
(* The invariant holds.                                                    *)
(***************************************************************************)
BucketSet == [raw : Seq(Events), aggregated : Seq(Events)]

LEMMA TypedFacts ==
  ASSUME Typed, NEW m \in Minutes
  PROVE  /\ buckets \in [Minutes -> BucketSet] /\ batch \in [Minutes -> BucketSet]
         /\ accepted \in [Minutes -> BucketSet]
         /\ buckets[m].raw \in Seq(Events) /\ buckets[m].aggregated \in Seq(Events)
         /\ batch[m].raw \in Seq(Events) /\ batch[m].aggregated \in Seq(Events)
         /\ accepted[m].raw \in Seq(Events) /\ accepted[m].aggregated \in Seq(Events)
         /\ rows[m].raw \in Seq(Events) /\ rows[m].aggregated \in Seq(Events)
         /\ existing[m].raw \in Seq(Events) /\ existing[m].aggregated \in Seq(Events)
<1>1. /\ buckets \in [Minutes -> BucketSet] /\ batch \in [Minutes -> BucketSet]
      /\ accepted \in [Minutes -> BucketSet]
      /\ {rows[m].raw, rows[m].aggregated} \subseteq Seq(Events)
      /\ existing[m].raw \in Seq(Events) /\ existing[m].aggregated \in Seq(Events)
  BY DEF Typed, TypeOK, Buckets, BucketSet
<1>2. \A b \in BucketSet : b.raw \in Seq(Events) /\ b.aggregated \in Seq(Events)
  BY DEF BucketSet
<1> QED BY <1>1, <1>2

LEMMA InitIInv == Init => IInv
<1> SUFFICES ASSUME Init PROVE IInv
  OBVIOUS
<1>1. /\ buckets = NoBuckets /\ batch = NoBuckets /\ accepted = NoBuckets /\ replayed = {}
      /\ existing = NoRows /\ rows = NoRows
      /\ flusher = NoFlusher /\ step = "idle" /\ clock = 0
  BY DEF Init
<1>2. \A m \in Minutes : NoBuckets[m] = EmptyBucket /\ NoRows[m] = EmptyRow
  BY DEF NoBuckets, NoRows
<1>3. NoBuckets \in Buckets
  BY EmptyBucketFacts DEF NoBuckets, Buckets
<1>4. Typed
  BY <1>1, <1>2, <1>3, EmptyBucketFacts DEF Typed, TypeOK
<1>5. BucketsNormal
  BY <1>1, <1>2, EmptyBucketFacts DEF BucketsNormal
<1>6. WholeIsAccepted
  <2> SUFFICES ASSUME NEW m \in Minutes PROVE Equivalent(Whole(m), accepted[m].raw)
    BY DEF WholeIsAccepted
  <2>1. << >> \o (<< >> \o << >>) = << >>
    BY EmptyBucketFacts, ConcatEmptySeq
  <2>2. Whole(m) = << >> /\ accepted[m].raw = << >>
    BY <1>1, <1>2, <2>1, EmptyBucketFacts DEF Whole
  <2> QED BY <2>2, EquivalentRefl
<1> QED BY <1>1, <1>4, <1>5, <1>6 DEF IInv, BatchIsHeld, ReadIsCurrent

LEMMA PublishIInv ==
  ASSUME IInv, NEW stream \in Streams, NEW trade \in Trades[stream], Publish(stream, trade)
  PROVE  IInv'
<1> DEFINE m == MinuteOf(trade.time)
           k2 == Insert(stream, buckets[m][stream], trade)
           a2 == Append(accepted[m][stream], trade)
<1>1. m \in Minutes /\ trade \in Events /\ stream \in {"raw", "aggregated"}
  BY BufferAssumption
<1>2. /\ buckets' = [buckets EXCEPT ![m][stream] = k2]
      /\ accepted' = [accepted EXCEPT ![m][stream] = a2]
      /\ UNCHANGED <<batch, existing, flusher, step, rows, clock>>
      /\ replayed' = replayed \/ replayed' = replayed \cup {m}
  BY DEF Publish, flushVars
<1>3. Typed /\ BatchIsHeld /\ BucketsNormal /\ ReadIsCurrent /\ WholeIsAccepted
  BY DEF IInv
<1>4. k2 \in Seq(Events) /\ a2 \in Seq(Events)
  <2>1. buckets[m][stream] \in Seq(Events) /\ accepted[m][stream] \in Seq(Events)
    BY <1>1, <1>3, TypedFacts
  <2> QED BY <1>1, <2>1, InsertType, AppendProperties
<1>5. /\ stream = "raw" => k2 = Insert("raw", buckets[m].raw, trade)
                             /\ a2 = Append(accepted[m].raw, trade)
  OBVIOUS
<1> HIDE DEF m, k2, a2
<1>6. buckets \in [Minutes -> BucketSet] /\ accepted \in [Minutes -> BucketSet]
  BY <1>1, <1>3, TypedFacts
<1>7. /\ buckets' \in [Minutes -> BucketSet] /\ accepted' \in [Minutes -> BucketSet]
  BY <1>1, <1>2, <1>4, <1>6 DEF BucketSet
<1>8. Typed'
  BY <1>1, <1>2, <1>3, <1>7 DEF Typed, TypeOK, Buckets, BucketSet
<1>9. \A n \in Minutes :
        \/ n = m /\ stream = "raw" /\ buckets'[n].raw = k2 /\ accepted'[n].raw = a2
        \/ buckets'[n].raw = buckets[n].raw /\ accepted'[n].raw = accepted[n].raw
  BY <1>1, <1>2, <1>6 DEF BucketSet
<1>10. stream = "raw" =>
         /\ Normal(k2) /\ Equivalent(buckets[m].raw \o <<trade>>, k2)
  <2> HAVE stream = "raw"
  <2>1. buckets[m].raw \in Seq(Events) /\ Normal(buckets[m].raw)
    BY <1>1, <1>3, TypedFacts DEF BucketsNormal
  <2> QED BY <1>1, <1>5, <2>1, InsertFacts
<1>11. BucketsNormal'
  BY <1>3, <1>9, <1>10 DEF BucketsNormal
<1>12. BatchIsHeld' /\ ReadIsCurrent'
  BY <1>2, <1>3 DEF BatchIsHeld, ReadIsCurrent
<1>13. WholeIsAccepted'
  <2> SUFFICES ASSUME NEW n \in Minutes, ~IsExpired(n)
               PROVE  Equivalent(rows[n].raw \o (batch[n].raw \o buckets'[n].raw), accepted'[n].raw)
    BY <1>2 DEF WholeIsAccepted, Whole, IsExpired
  <2>1. Equivalent(rows[n].raw \o (batch[n].raw \o buckets[n].raw), accepted[n].raw)
    BY <1>3 DEF WholeIsAccepted, Whole
  <2>2. CASE buckets'[n].raw = buckets[n].raw /\ accepted'[n].raw = accepted[n].raw
    BY <2>1, <2>2
  <2>3. CASE n = m /\ stream = "raw" /\ buckets'[n].raw = k2 /\ accepted'[n].raw = a2
    <3>1. /\ buckets[n].raw \in Seq(Events) /\ batch[n].raw \in Seq(Events)
          /\ rows[n].raw \in Seq(Events) /\ accepted[n].raw \in Seq(Events)
      BY <1>3, TypedFacts
    <3>2. Equivalent(buckets[n].raw \o <<trade>>, k2) /\ a2 = Append(accepted[n].raw, trade)
      BY <1>5, <1>10, <2>3
    <3> QED BY <1>1, <1>4, <2>1, <2>3, <3>1, <3>2, WholeAfterPublish
  <2> QED BY <1>9, <2>2, <2>3
<1> QED BY <1>8, <1>11, <1>12, <1>13 DEF IInv

LEMMA DetachIInv ==
  ASSUME IInv, NEW f \in Flushers, NEW minutes, Detach(f, minutes)
  PROVE  IInv'
<1>1. /\ flusher = NoFlusher /\ flusher' = f /\ step' = "detached"
      /\ batch' = [m \in Minutes |-> IF m \in minutes THEN buckets[m] ELSE EmptyBucket]
      /\ buckets' = [m \in Minutes |-> IF m \in minutes THEN EmptyBucket ELSE buckets[m]]
      /\ UNCHANGED <<existing, rows, clock, accepted, replayed>>
  BY DEF Detach, ghosts
<1>2. Typed /\ BatchIsHeld /\ BucketsNormal /\ ReadIsCurrent /\ WholeIsAccepted
  BY DEF IInv
<1>3. EmptyBucket \in BucketSet
  BY EmptyBucketFacts DEF BucketSet
<1>4. batch = NoBuckets /\ \A m \in Minutes : batch[m].raw = << >>
  BY <1>1, <1>2, EmptyBucketFacts DEF Typed, TypeOK, BatchIsHeld, NoBuckets
<1>5. batch' \in [Minutes -> BucketSet] /\ buckets' \in [Minutes -> BucketSet]
  <2>1. \A m \in Minutes : buckets[m] \in BucketSet
    BY <1>2, TypedFacts
  <2> QED BY <1>1, <1>3, <2>1
<1>6. Typed'
  <2>1. NoFlusher # f
    BY BufferAssumption
  <2> QED BY <1>1, <1>2, <1>5, <2>1 DEF Typed, TypeOK, Buckets, BucketSet
<1>7. \A m \in Minutes :
        \/ batch'[m].raw = << >> /\ buckets'[m].raw = buckets[m].raw
        \/ batch'[m].raw = buckets[m].raw /\ buckets'[m].raw = << >>
  BY <1>1, EmptyBucketFacts
<1>8. BucketsNormal'
  BY <1>2, <1>7, EmptyBucketFacts DEF BucketsNormal
<1>9. WholeIsAccepted'
  <2> SUFFICES ASSUME NEW m \in Minutes, ~IsExpired(m)
               PROVE  Equivalent(rows[m].raw \o (batch'[m].raw \o buckets'[m].raw), accepted[m].raw)
    BY <1>1 DEF WholeIsAccepted, Whole, IsExpired
  <2>1. Equivalent(rows[m].raw \o (<< >> \o buckets[m].raw), accepted[m].raw)
    BY <1>2, <1>4 DEF WholeIsAccepted, Whole
  <2>2. rows[m].raw \in Seq(Events) /\ buckets[m].raw \in Seq(Events)
    BY <1>2, TypedFacts
  <2> QED BY <1>7, <2>1, <2>2, WholeAfterDetach
<1> QED BY <1>1, <1>6, <1>8, <1>9 DEF IInv, BatchIsHeld, ReadIsCurrent

LEMMA ReadIInv ==
  ASSUME IInv, ReadExisting
  PROVE  IInv'
<1>1. /\ step = "detached" /\ step' = "read"
      /\ existing' = [m \in Minutes |-> IF batch[m] = EmptyBucket THEN EmptyRow ELSE rows[m]]
      /\ UNCHANGED <<buckets, batch, flusher, rows, clock, accepted, replayed>>
  BY DEF ReadExisting, bufferVars, ghosts
<1>2. Typed /\ BatchIsHeld /\ BucketsNormal /\ ReadIsCurrent /\ WholeIsAccepted
  BY DEF IInv
<1>3. \A m \in Minutes :
        existing'[m].raw \in Seq(Events) /\ existing'[m].aggregated \in Seq(Events)
  <2> SUFFICES ASSUME NEW m \in Minutes
               PROVE  existing'[m].raw \in Seq(Events) /\ existing'[m].aggregated \in Seq(Events)
    OBVIOUS
  <2>1. existing'[m] = EmptyRow \/ existing'[m] = rows[m]
    BY <1>1
  <2>2. rows[m].raw \in Seq(Events) /\ rows[m].aggregated \in Seq(Events)
    BY <1>2, TypedFacts
  <2> QED BY <2>1, <2>2, EmptyBucketFacts
<1>4. Typed'
  BY <1>1, <1>2, <1>3 DEF Typed, TypeOK
<1>5. ReadIsCurrent'
  BY <1>1 DEF ReadIsCurrent
<1> QED
  BY <1>1, <1>2, <1>4, <1>5
     DEF IInv, BatchIsHeld, BucketsNormal, WholeIsAccepted, Whole, IsExpired

\* What a commit writes: in the row of a minute that is still kept, what the
\* batch has of it is merged.
LEMMA WrittenFacts ==
  ASSUME IInv, step = "read", NEW m \in Minutes
  PROVE  /\ Written[m].raw \in Seq(Events) /\ Written[m].aggregated \in Seq(Events)
         /\ ~IsExpired(m) => \/ Equivalent(rows[m].raw \o batch[m].raw, Written[m].raw)
                             \/ batch[m] = EmptyBucket /\ Written[m].raw = rows[m].raw
<1>1. Typed /\ (batch[m] # EmptyBucket => existing[m].raw = rows[m].raw)
  BY DEF IInv, ReadIsCurrent
<1>2. /\ batch[m].raw \in Seq(Events) /\ batch[m].aggregated \in Seq(Events)
      /\ rows[m].raw \in Seq(Events) /\ rows[m].aggregated \in Seq(Events)
      /\ existing[m].raw \in Seq(Events) /\ existing[m].aggregated \in Seq(Events)
  BY <1>1, TypedFacts
<1>3. Written[m] = IF IsExpired(m) THEN EmptyRow
                   ELSE IF batch[m] = EmptyBucket THEN rows[m]
                   ELSE MergedRow(existing[m], batch[m])
  BY DEF Written
<1>4. CASE IsExpired(m)
  BY <1>3, <1>4, EmptyBucketFacts
<1>5. CASE ~IsExpired(m) /\ batch[m] = EmptyBucket
  BY <1>2, <1>3, <1>5
<1>6. CASE ~IsExpired(m) /\ batch[m] # EmptyBucket
  <2>1. /\ MergedRow(existing[m], batch[m]).raw \in Seq(Events)
        /\ MergedRow(existing[m], batch[m]).aggregated \in Seq(Events)
        /\ Equivalent(existing[m].raw \o batch[m].raw, MergedRow(existing[m], batch[m]).raw)
    BY <1>2, MergedRowFacts
  <2> QED BY <1>1, <1>3, <1>6, <2>1
<1> QED BY <1>4, <1>5, <1>6

LEMMA UnlockedType ==
  ASSUME IInv, Unlock
  PROVE  /\ step' = "idle" /\ flusher' = NoFlusher /\ batch' = NoBuckets
         /\ batch' \in Buckets /\ \A m \in Minutes : batch'[m].raw = << >>
         /\ \A m \in Minutes :
              existing'[m].raw \in Seq(Events) /\ existing'[m].aggregated \in Seq(Events)
<1>1. \A m \in Minutes : NoBuckets[m] = EmptyBucket /\ NoRows[m] = EmptyRow
  BY DEF NoBuckets, NoRows
<1>2. NoBuckets \in Buckets
  BY EmptyBucketFacts DEF NoBuckets, Buckets
<1> QED BY <1>1, <1>2, EmptyBucketFacts DEF Unlock

LEMMA CommitIInv ==
  ASSUME IInv, step = "read", rows' = Written, UNCHANGED <<buckets, clock, accepted, replayed>>,
         \/ Unlock
         \/ step' = "failed" /\ UNCHANGED <<batch, existing, flusher>>
  PROVE  IInv'
<1>1. Typed /\ BatchIsHeld /\ BucketsNormal /\ ReadIsCurrent /\ WholeIsAccepted
  BY DEF IInv
<1>2. \A m \in Minutes : rows'[m].raw \in Seq(Events) /\ rows'[m].aggregated \in Seq(Events)
  BY WrittenFacts
<1>3. \A m \in Minutes : batch'[m].raw = << >> \/ batch'[m].raw = batch[m].raw
  BY UnlockedType
<1>4. Typed'
  <2>1. CASE Unlock
    BY <1>1, <1>2, <2>1, UnlockedType DEF Typed, TypeOK
  <2>2. CASE step' = "failed" /\ UNCHANGED <<batch, existing, flusher>>
    BY <1>1, <1>2, <2>2 DEF Typed, TypeOK
  <2> QED BY <2>1, <2>2
<1>5. BatchIsHeld' /\ ReadIsCurrent'
  BY UnlockedType DEF BatchIsHeld, ReadIsCurrent
<1>6. BucketsNormal'
  BY <1>1 DEF BucketsNormal
<1>7. WholeIsAccepted'
  <2> SUFFICES ASSUME NEW m \in Minutes, ~IsExpired(m)
               PROVE  Equivalent(rows'[m].raw \o (batch'[m].raw \o buckets[m].raw), accepted[m].raw)
    BY DEF WholeIsAccepted, Whole, IsExpired
  <2>1. Equivalent(rows[m].raw \o (batch[m].raw \o buckets[m].raw), accepted[m].raw)
    BY <1>1 DEF WholeIsAccepted, Whole
  <2>2. /\ buckets[m].raw \in Seq(Events) /\ batch[m].raw \in Seq(Events)
        /\ rows[m].raw \in Seq(Events) /\ rows'[m].raw \in Seq(Events)
    BY <1>1, <1>2, TypedFacts
  <2>3. CASE Equivalent(rows[m].raw \o batch[m].raw, rows'[m].raw)
    BY <1>3, <2>1, <2>2, <2>3, WholeAfterCommit
  <2>4. CASE batch[m] = EmptyBucket /\ rows'[m].raw = rows[m].raw
    <3>1. batch[m].raw = << >> /\ batch'[m].raw = << >>
      BY <1>3, <2>4, EmptyBucketFacts
    <3> QED BY <2>1, <2>4, <3>1
  <2> QED BY <2>3, <2>4, WrittenFacts
<1> QED BY <1>4, <1>5, <1>6, <1>7 DEF IInv

LEMMA FailIInv ==
  ASSUME IInv, Fail
  PROVE  IInv'
<1>1. /\ step \in {"detached", "read"} /\ step' = "failed"
      /\ UNCHANGED <<buckets, batch, existing, flusher, rows, clock, accepted, replayed>>
  BY DEF Fail, bufferVars, ghosts
<1> QED
  BY <1>1 DEF IInv, Typed, TypeOK, BatchIsHeld, BucketsNormal, ReadIsCurrent,
              WholeIsAccepted, Whole, IsExpired

LEMMA RestoreIInv ==
  ASSUME IInv, Restore
  PROVE  IInv'
<1> DEFINE both(m) == [s \in DOMAIN EmptyBucket |-> Merge(s, batch[m][s], buckets[m][s])]
<1>1. /\ step = "failed" /\ Unlock
      /\ buckets' = [m \in Minutes |-> IF batch[m] = EmptyBucket THEN buckets[m] ELSE both(m)]
      /\ UNCHANGED <<rows, clock, accepted, replayed>>
  BY DEF Restore, ghosts
<1>2. Typed /\ BatchIsHeld /\ BucketsNormal /\ ReadIsCurrent /\ WholeIsAccepted
  BY DEF IInv
<1>3. ASSUME NEW m \in Minutes
      PROVE  /\ both(m).raw = Merge("raw", batch[m].raw, buckets[m].raw)
             /\ both(m) \in BucketSet
  <2>1. both(m).raw = Merge("raw", batch[m].raw, buckets[m].raw)
    BY EmptyBucketFacts
  <2>2. both(m).aggregated = Merge("aggregated", batch[m].aggregated, buckets[m].aggregated)
    BY EmptyBucketFacts
  <2>3. both(m).raw \in Seq(Events) /\ both(m).aggregated \in Seq(Events)
    BY <1>2, <2>1, <2>2, TypedFacts, MergeType
  <2>4. both(m) = [s \in DOMAIN EmptyBucket |-> both(m)[s]]
    OBVIOUS
  <2> HIDE DEF both
  <2>5. both(m) \in [raw : Seq(Events), aggregated : Seq(Events)]
    BY <2>3, <2>4, BucketType
  <2> QED BY <2>1, <2>5 DEF BucketSet
<1> HIDE DEF both
<1>4. buckets' \in [Minutes -> BucketSet]
  <2>1. \A m \in Minutes : buckets[m] \in BucketSet
    BY <1>2, TypedFacts
  <2> QED BY <1>1, <1>3, <2>1
<1>5. Typed'
  <2>1. /\ step' = "idle" /\ flusher' = NoFlusher /\ batch' \in Buckets
        /\ \A m \in Minutes :
             existing'[m].raw \in Seq(Events) /\ existing'[m].aggregated \in Seq(Events)
    BY <1>1, UnlockedType
  <2> QED BY <1>1, <1>2, <1>4, <2>1 DEF Typed, TypeOK, Buckets, BucketSet
<1>6. \A m \in Minutes :
        \/ batch[m].raw = << >> /\ buckets'[m].raw = buckets[m].raw
        \/ buckets'[m].raw = Merge("raw", batch[m].raw, buckets[m].raw)
  BY <1>1, <1>3, EmptyBucketFacts
<1>7. \A m \in Minutes :
        Normal(Merge("raw", batch[m].raw, buckets[m].raw))
  BY <1>2, TypedFacts, MergeFacts
<1>8. BucketsNormal'
  BY <1>2, <1>6, <1>7 DEF BucketsNormal
<1>9. WholeIsAccepted'
  <2> SUFFICES ASSUME NEW m \in Minutes, ~IsExpired(m)
               PROVE  Equivalent(rows[m].raw \o (batch'[m].raw \o buckets'[m].raw), accepted[m].raw)
    BY <1>1 DEF WholeIsAccepted, Whole, IsExpired
  <2>1. Equivalent(rows[m].raw \o (batch[m].raw \o buckets[m].raw), accepted[m].raw)
    BY <1>2 DEF WholeIsAccepted, Whole
  <2>2. batch'[m].raw = << >>
    BY <1>1, UnlockedType
  <2>3. /\ buckets[m].raw \in Seq(Events) /\ batch[m].raw \in Seq(Events)
        /\ rows[m].raw \in Seq(Events)
    BY <1>2, TypedFacts
  <2>4. CASE batch[m].raw = << >> /\ buckets'[m].raw = buckets[m].raw
    BY <2>1, <2>2, <2>4
  <2>5. CASE buckets'[m].raw = Merge("raw", batch[m].raw, buckets[m].raw)
    <3>1. /\ buckets'[m].raw \in Seq(Events)
          /\ Equivalent(batch[m].raw \o buckets[m].raw, buckets'[m].raw)
      BY <2>3, <2>5, MergeFacts
    <3> QED BY <2>1, <2>2, <2>3, <3>1, WholeAfterRestore
  <2> QED BY <1>6, <2>4, <2>5
<1>10. BatchIsHeld' /\ ReadIsCurrent'
  BY <1>1, UnlockedType DEF BatchIsHeld, ReadIsCurrent
<1> QED BY <1>5, <1>8, <1>9, <1>10 DEF IInv

LEMMA CrashIInv ==
  ASSUME IInv, Crash
  PROVE  IInv'
<1> DEFINE kept(m) == [s \in DOMAIN EmptyBucket |-> rows[m][s]]
<1>1. /\ Unlock /\ buckets' = NoBuckets
      /\ accepted' = [m \in Minutes |-> kept(m)]
      /\ UNCHANGED <<rows, clock, replayed>>
  BY DEF Crash
<1>2. Typed
  BY DEF IInv
<1>3. ASSUME NEW m \in Minutes
      PROVE  kept(m).raw = rows[m].raw /\ kept(m) \in BucketSet
  <2>1. kept(m).raw = rows[m].raw /\ kept(m).aggregated = rows[m].aggregated
    BY EmptyBucketFacts
  <2>2. kept(m).raw \in Seq(Events) /\ kept(m).aggregated \in Seq(Events)
    BY <1>2, <2>1, TypedFacts
  <2>3. kept(m) = [s \in DOMAIN EmptyBucket |-> kept(m)[s]]
    OBVIOUS
  <2> HIDE DEF kept
  <2>4. kept(m) \in [raw : Seq(Events), aggregated : Seq(Events)]
    BY <2>2, <2>3, BucketType
  <2> QED BY <2>1, <2>4 DEF BucketSet
<1> HIDE DEF kept
<1>4. accepted' \in Buckets /\ \A m \in Minutes : accepted'[m].raw = rows[m].raw
  BY <1>1, <1>3 DEF Buckets, BucketSet
<1>5. /\ step' = "idle" /\ flusher' = NoFlusher /\ batch' = NoBuckets /\ batch' \in Buckets
      /\ \A m \in Minutes : batch'[m].raw = << >>
      /\ \A m \in Minutes :
           existing'[m].raw \in Seq(Events) /\ existing'[m].aggregated \in Seq(Events)
  BY <1>1, UnlockedType
<1>6. buckets' \in Buckets /\ \A m \in Minutes : buckets'[m].raw = << >>
  BY <1>1, <1>5
<1>7. Typed'
  BY <1>1, <1>2, <1>4, <1>5, <1>6 DEF Typed, TypeOK
<1>8. BucketsNormal'
  BY <1>6, EmptyBucketFacts DEF BucketsNormal
<1>9. WholeIsAccepted'
  <2> SUFFICES ASSUME NEW m \in Minutes
               PROVE  Equivalent(rows[m].raw \o (batch'[m].raw \o buckets'[m].raw), accepted'[m].raw)
    BY <1>1 DEF WholeIsAccepted, Whole
  <2>1. rows[m].raw \in Seq(Events)
    BY <1>2, TypedFacts
  <2>2. rows[m].raw \o (<< >> \o << >>) = rows[m].raw
    BY <2>1, EmptyBucketFacts, ConcatEmptySeq
  <2> QED BY <1>4, <1>5, <1>6, <2>2, EquivalentRefl
<1> QED BY <1>5, <1>7, <1>8, <1>9 DEF IInv, BatchIsHeld, ReadIsCurrent

LEMMA MinutePassesIInv ==
  ASSUME IInv, MinutePasses
  PROVE  IInv'
<1>1. /\ clock' = clock + 1
      /\ UNCHANGED <<buckets, batch, existing, flusher, step, rows, accepted, replayed>>
  BY DEF MinutePasses, bufferVars, flushVars, ghosts
<1>2. Typed /\ BatchIsHeld /\ BucketsNormal /\ ReadIsCurrent /\ WholeIsAccepted
  BY DEF IInv
<1>3. clock \in Nat
  BY <1>2 DEF Typed
<1>4. Typed'
  BY <1>1, <1>2, <1>3 DEF Typed, TypeOK
<1>5. \A m \in Minutes : IsExpired(m) => IsExpired(m)'
  <2> SUFFICES ASSUME NEW m \in Minutes, m < clock - Retention
               PROVE  m < (clock + 1) - Retention
    BY <1>1 DEF IsExpired
  <2>1. m \in Int /\ Retention \in Int
    BY BufferAssumption DEF Minutes
  <2> QED BY <1>3, <2>1
<1>6. WholeIsAccepted'
  BY <1>1, <1>2, <1>5 DEF WholeIsAccepted, Whole
<1> QED BY <1>1, <1>2, <1>4, <1>6 DEF IInv, BatchIsHeld, BucketsNormal, ReadIsCurrent

LEMMA NextIInv == IInv /\ [Next]_vars => IInv'
<1> SUFFICES ASSUME IInv, [Next]_vars PROVE IInv'
  OBVIOUS
<1>1. ASSUME NEW stream \in Streams, NEW trade \in Trades[stream], Publish(stream, trade)
      PROVE  IInv'
  BY <1>1, PublishIInv
<1>2. ASSUME NEW f \in Flushers, Flush(f) PROVE IInv'
  BY <1>2, DetachIInv DEF Flush
<1>3. ASSUME NEW f \in Flushers, NEW boundary \in Minutes, FlushBefore(f, boundary) PROVE IInv'
  BY <1>3, DetachIInv DEF FlushBefore
<1>4. CASE ReadExisting
  BY <1>4, ReadIInv
<1>5. CASE Commit
  BY <1>5, CommitIInv DEF Commit, ghosts
<1>6. CASE Restore
  BY <1>6, RestoreIInv
<1>7. CASE Fail
  BY <1>7, FailIInv
<1>8. CASE CommitUnacknowledged
  BY <1>8, CommitIInv DEF CommitUnacknowledged, bufferVars, ghosts
<1>9. CASE Crash
  BY <1>9, CrashIInv
<1>10. CASE MinutePasses
  BY <1>10, MinutePassesIInv
<1>11. CASE UNCHANGED vars
  BY <1>11 DEF vars, bufferVars, flushVars, ghosts, IInv, Typed, TypeOK, BatchIsHeld, BucketsNormal,
               ReadIsCurrent, WholeIsAccepted, Whole, IsExpired
<1> QED
  BY <1>1, <1>2, <1>3, <1>4, <1>5, <1>6, <1>7, <1>8, <1>9, <1>10, <1>11 DEF Next, FlushStep

\* The invariant of WebSocketDataBuffer and WebSocketDataStore.
THEOREM Invariance == Spec => []IInv
<1>1. Init => IInv
  BY InitIInv
<1>2. IInv /\ [Next]_vars => IInv'
  BY NextIInv
<1> QED BY <1>1, <1>2, PTL DEF Spec

(***************************************************************************)
(* The properties.                                                         *)
(***************************************************************************)

\* Buckets and rows hold events, on both streams, and flushMu is held exactly
\* while a flush is under way.
THEOREM TypeCorrect == Spec => []TypeOK
<1>1. IInv => TypeOK
  BY DEF IInv, Typed
<1> QED BY <1>1, Invariance, PTL

\* However raw trades were published, flushed, restored and merged, and
\* whatever failed in between, the row that flushing memory would leave is the
\* canonical form of all that was published (insertWebSocketDataTrade, flush,
\* restore, UpsertBuckets).
THEOREM RawIndependence == Spec => []RawIsFlushIndependent
<1>1. IInv => RawIsFlushIndependent
  <2> SUFFICES ASSUME IInv, NEW m \in Minutes, ~IsExpired(m)
               PROVE  Merge("raw", rows[m].raw, Merge("raw", batch[m].raw, buckets[m].raw))
                        = Canonical("raw", accepted[m].raw)
    BY DEF RawIsFlushIndependent
  <2> DEFINE r == rows[m].raw
             k == batch[m].raw \o buckets[m].raw
             c == Merge("raw", batch[m].raw, buckets[m].raw)
             a == accepted[m].raw
  <2>1. Equivalent(r \o k, a) /\ Typed
    BY DEF IInv, WholeIsAccepted, Whole
  <2>2. /\ r \in Seq(Events) /\ a \in Seq(Events)
        /\ batch[m].raw \in Seq(Events) /\ buckets[m].raw \in Seq(Events)
    BY <2>1, TypedFacts
  <2>3. k \in Seq(Events) /\ c \in Seq(Events) /\ Equivalent(k, c)
    BY <2>2, ConcatProperties, MergeFacts
  <2> HIDE DEF r, k, c, a
  <2>4. Equivalent(r \o c, r \o k) /\ r \o c \in Seq(Events)
    BY <2>2, <2>3, EquivalentConcat, EquivalentRefl, EquivalentSym, ConcatProperties
  <2>5. Equivalent(r \o c, a)
    BY <2>1, <2>4, EquivalentTrans
  <2>6. Canonical("raw", r \o c) = Canonical("raw", a)
    BY <2>2, <2>4, <2>5, CanonicalSame
  <2> QED BY <2>6 DEF Merge, r, c, a
<1> QED BY <1>1, Invariance, PTL

\* No raw trade that Publish has accepted is lost while the process lives: it is
\* in memory, in the batch or in its row.
THEOREM RawKept == Spec => []RawIsKept
<1>1. IInv => RawIsKept
  <2> SUFFICES ASSUME IInv, NEW m \in Minutes, ~IsExpired(m)
               PROVE  UidsOf(accepted[m].raw) \subseteq
                        UidsOf(buckets[m].raw) \cup UidsOf(batch[m].raw) \cup UidsOf(rows[m].raw)
    BY DEF RawIsKept
  <2>1. Equivalent(rows[m].raw \o (batch[m].raw \o buckets[m].raw), accepted[m].raw) /\ Typed
    BY DEF IInv, WholeIsAccepted, Whole
  <2>2. /\ rows[m].raw \in Seq(Events) /\ batch[m].raw \in Seq(Events)
        /\ buckets[m].raw \in Seq(Events) /\ batch[m].raw \o buckets[m].raw \in Seq(Events)
    BY <2>1, TypedFacts, ConcatProperties
  <2>3. UidsOf(batch[m].raw \o buckets[m].raw) = UidsOf(batch[m].raw) \cup UidsOf(buckets[m].raw)
    BY <2>2, PlaceInConcat
  <2>4. UidsOf(rows[m].raw \o (batch[m].raw \o buckets[m].raw))
          = UidsOf(rows[m].raw) \cup UidsOf(batch[m].raw \o buckets[m].raw)
    BY <2>2, PlaceInConcat
  <2>5. UidsOf(accepted[m].raw) = UidsOf(rows[m].raw \o (batch[m].raw \o buckets[m].raw))
    BY <2>1 DEF Equivalent
  <2> QED BY <2>3, <2>4, <2>5
<1> QED BY <1>1, Invariance, PTL

\* No step takes a raw trade out of a row that is still kept, neither a merge of
\* rows read before nor a restart.
THEOREM RowsGrow == Spec => RowsOnlyGrow
<1>1. IInv /\ [Next]_vars =>
        [\A m \in Minutes : ~IsExpired(m) => UidsOf(rows[m].raw) \subseteq UidsOf(rows'[m].raw)]_vars
  <2> SUFFICES ASSUME IInv, [Next]_vars, NEW m \in Minutes, ~IsExpired(m)
               PROVE  UidsOf(rows[m].raw) \subseteq UidsOf(rows'[m].raw)
    OBVIOUS
  <2>1. rows' = rows \/ (step = "read" /\ rows' = Written)
    BY DEF Next, FlushStep, Publish, Flush, FlushBefore, Detach, ReadExisting, Commit, Restore,
           Fail, CommitUnacknowledged, Crash, MinutePasses, vars
  <2>2. CASE step = "read" /\ rows' = Written
    <3>1. rows[m].raw \in Seq(Events) /\ batch[m].raw \in Seq(Events)
      BY TypedFacts DEF IInv
    <3>2. UidsOf(rows[m].raw) \subseteq UidsOf(rows[m].raw \o batch[m].raw)
      BY <3>1, PlaceInConcat
    <3>3. CASE Equivalent(rows[m].raw \o batch[m].raw, rows'[m].raw)
      BY <3>2, <3>3 DEF Equivalent
    <3>4. CASE rows'[m].raw = rows[m].raw
      BY <3>4
    <3> QED BY <2>2, <3>3, <3>4, WrittenFacts
  <2> QED BY <2>1, <2>2
<1> QED BY <1>1, Invariance, PTL DEF Spec, RowsOnlyGrow


-----------------------------------------------------------------------------
(***************************************************************************)
(* Counting.                                                               *)
(***************************************************************************)

\* The sum of the sizes of disjoint sets is the size of their union.
LEMMA TotalOfSizes ==
  ASSUME NEW n \in Nat, NEW A, NEW a,
         DOMAIN a = 1 .. n,
         \A i \in 1 .. n : IsFiniteSet(A[i]) /\ a[i] = Cardinality(A[i]),
         \A i, j \in 1 .. n : i # j => A[i] \cap A[j] = {}
  PROVE  /\ IsFiniteSet(UNION {A[i] : i \in 1 .. n})
         /\ Total(a) = Cardinality(UNION {A[i] : i \in 1 .. n})
<1> DEFINE U == UNION {A[i] : i \in 1 .. n}
           W == UNION {{i} \X (1 .. a[i]) : i \in 1 .. n}
           b == [i \in 1 .. n |-> CHOOSE f : f \in Bijection(1 .. a[i], A[i])]
           g == [w \in W |-> b[w[1]][w[2]]]
<1>1. ASSUME NEW i \in 1 .. n
      PROVE  a[i] \in Nat /\ b[i] \in Bijection(1 .. a[i], A[i])
  <2>1. a[i] \in Nat /\ ExistsBijection(1 .. a[i], A[i])
    BY FS_CardinalityType
  <2>2. \E f : f \in Bijection(1 .. a[i], A[i])
    BY <2>1 DEF ExistsBijection
  <2> QED BY <2>1, <2>2
<1> HIDE DEF b
<1>2. \A w : w \in W <=> \E i \in 1 .. n : \E k \in 1 .. a[i] : w = <<i, k>>
  OBVIOUS
<1>3. \A x : x \in U <=> \E i \in 1 .. n : x \in A[i]
  OBVIOUS
<1>4. ASSUME NEW i \in 1 .. n
      PROVE  /\ \A k \in 1 .. a[i] : b[i][k] \in A[i]
             /\ \A k, l \in 1 .. a[i] : b[i][k] = b[i][l] => k = l
             /\ \A x \in A[i] : \E k \in 1 .. a[i] : b[i][k] = x
  <2> DEFINE f == b[i]
             K == 1 .. a[i]
             B == A[i]
  <2>1. f \in Bijection(K, B)
    BY <1>1
  <2> HIDE DEF W, U, f, K, B
  <2>2. f \in [K -> B]
    BY <2>1, Fun_BijectionProperties
  <2>3. \A k, l \in K : f[k] = f[l] => k = l
    BY <2>1, Fun_BijectionProperties
  <2>4. \A x \in B : \E k \in K : f[k] = x
    BY <2>1, Fun_BijectionProperties
  <2>5. \A k \in K : f[k] \in B
    BY <2>2
  <2> QED BY <2>3, <2>4, <2>5 DEF f, K, B
<1>5. \A i \in 1 .. n : \A k \in 1 .. a[i] : <<i, k>> \in W /\ g[<<i, k>>] = b[i][k]
  BY <1>2
<1>6. DOMAIN g = W /\ g = [w \in W |-> g[w]]
  OBVIOUS
<1> HIDE DEF W, U, g
<1>7. g \in Bijection(W, U)
  <2>1. \A w \in W : g[w] \in U
    BY <1>2, <1>3, <1>4, <1>5
  <2>2. g \in [W -> U]
    BY <1>6, <2>1
  <2>3. ASSUME NEW v \in W, NEW w \in W, g[v] = g[w] PROVE v = w
    <3>1. PICK i \in 1 .. n : \E k \in 1 .. a[i] : v = <<i, k>>
      BY <1>2
    <3>2. PICK k \in 1 .. a[i] : v = <<i, k>>
      BY <3>1
    <3>3. PICK j \in 1 .. n : \E l \in 1 .. a[j] : w = <<j, l>>
      BY <1>2
    <3>4. PICK l \in 1 .. a[j] : w = <<j, l>>
      BY <3>3
    <3>5. b[i][k] = b[j][l] /\ b[i][k] \in A[i] /\ b[j][l] \in A[j]
      BY <1>4, <1>5, <2>3, <3>2, <3>4
    <3>6. i = j
      BY <3>5
    <3> QED BY <1>4, <3>2, <3>4, <3>5, <3>6
  <2>4. ASSUME NEW x \in U PROVE \E w \in W : g[w] = x
    <3>1. PICK i \in 1 .. n : x \in A[i]
      BY <1>3
    <3>2. PICK k \in 1 .. a[i] : b[i][k] = x
      BY <1>4, <3>1
    <3> QED BY <1>5, <3>2
  <2> QED BY <2>2, <2>3, <2>4, Fun_IsBij
<1>8. IsFiniteSet(W)
  <2> DEFINE units(i) == {i} \X (1 .. a[i])
             family == {units(i) : i \in 1 .. n}
             h == [i \in 1 .. n |-> units(i)]
  <2>1. ASSUME NEW i \in 1 .. n PROVE IsFiniteSet(units(i))
    <3>1. IsFiniteSet({i}) /\ IsFiniteSet(1 .. a[i])
      BY <1>1, FS_Singleton, CountUpTo
    <3> QED BY <3>1, FS_Product
  <2>2. h \in Surjection(1 .. n, family)
    BY DEF Surjection
  <2>3. IsFiniteSet(1 .. n)
    BY CountUpTo
  <2>4. \A T \in family : IsFiniteSet(T)
    BY <2>1
  <2>5. W = UNION family
    BY DEF W
  <2> HIDE DEF h, family
  <2>6. IsFiniteSet(family)
    BY <2>2, <2>3, FS_Surjection
  <2> QED BY <2>4, <2>5, <2>6, FS_UNION
<1>9. ExistsBijection(W, U)
  BY <1>7 DEF ExistsBijection
<1>10. IsFiniteSet(U) /\ Cardinality(U) = Cardinality(W)
  BY <1>8, <1>9, FS_Bijection
<1>11. Total(a) = Cardinality(W)
  BY DEF Total, W
<1> QED BY <1>10, <1>11 DEF U

-----------------------------------------------------------------------------
(***************************************************************************)
(* Aggregated events: those of a sequence stand for different trades, and  *)
(* each for the number and the volume of its trades.                       *)
(***************************************************************************)
UnitsOf(parts) == UNION {{u} \X (1 .. Volumes[u]) : u \in parts}

Exact(e) ==
  /\ IsFiniteSet(e.parts) /\ e.ticks = Cardinality(e.parts)
  /\ IsFiniteSet(UnitsOf(e.parts)) /\ e.volume = Cardinality(UnitsOf(e.parts))
AllExact(s) == \A i \in DOMAIN s : Exact(s[i])

Apart(s) ==
  /\ \A i \in DOMAIN s : s[i].uid \in s[i].parts
  /\ \A i, j \in DOMAIN s : i # j => s[i].parts \cap s[j].parts = {}

\* What becomes of s when nothing is lost or counted twice.
Keeps(s, r) == Apart(r) /\ PartsOf(r) = PartsOf(s) /\ (AllExact(s) => AllExact(r))

LEMMA KeepsTrans ==
  ASSUME NEW r, NEW s, NEW t, Keeps(r, s), Keeps(s, t) PROVE Keeps(r, t)
BY DEF Keeps

\* A sequence in another order.
Rearranges(at, D, s, r) ==
  /\ D = DOMAIN s /\ D = DOMAIN r /\ at \in [D -> D]
  /\ \A p \in D : r[p] = s[at[p]]
  /\ \A p, q \in D : at[p] = at[q] => p = q
  /\ \A i \in D : \E p \in D : at[p] = i

LEMMA RearrangedKeeps ==
  ASSUME NEW s, NEW r, Apart(s), NEW at, NEW D, Rearranges(at, D, s, r)
  PROVE  Keeps(s, r)
<1> USE DEF Rearranges
<1>1. Apart(r)
  <2>1. \A p \in DOMAIN r : r[p].uid \in r[p].parts
    BY DEF Apart
  <2>2. ASSUME NEW p \in DOMAIN r, NEW q \in DOMAIN r, p # q
        PROVE  r[p].parts \cap r[q].parts = {}
    <3>1. at[p] # at[q] /\ at[p] \in DOMAIN s /\ at[q] \in DOMAIN s
      BY <2>2
    <3>2. s[at[p]].parts \cap s[at[q]].parts = {}
      BY <3>1 DEF Apart
    <3> QED BY <3>2
  <2> QED BY <2>1, <2>2 DEF Apart
<1>2. PartsOf(r) = PartsOf(s)
  <2>1. \A x : x \in PartsOf(r) <=> \E p \in DOMAIN r : x \in r[p].parts
    BY DEF PartsOf
  <2>2. \A x : x \in PartsOf(s) <=> \E i \in DOMAIN s : x \in s[i].parts
    BY DEF PartsOf
  <2>3. \A x : x \in PartsOf(r) => x \in PartsOf(s)
    BY <2>1, <2>2
  <2>4. ASSUME NEW x \in PartsOf(s) PROVE x \in PartsOf(r)
    <3>1. PICK i \in DOMAIN s : x \in s[i].parts
      BY <2>2
    <3>2. PICK p \in DOMAIN r : at[p] = i
      OBVIOUS
    <3> QED BY <2>1, <3>1, <3>2
  <2> QED BY <2>3, <2>4
<1>3. AllExact(s) => AllExact(r)
  BY DEF AllExact
<1> QED BY <1>1, <1>2, <1>3 DEF Keeps

LEMMA SortKeeps ==
  ASSUME NEW stream, NEW d \in Seq(Events), Apart(d)
  PROVE  Keeps(d, StableSort(stream, d))
<1> DEFINE r == StableSort(stream, d)
           n == Len(d)
           R == Ahead(stream, d)
<1>1. n \in Nat /\ DOMAIN d = 1 .. n
  BY SeqFacts
<1>2. PICK at : /\ Arranged(at, 1 .. n, R) /\ at \in [1 .. n -> 1 .. n]
                /\ r = [p \in 1 .. n |-> d[at[p]]]
  BY SortIsArrangement
<1>3. Orders(R, 1 .. n)
  BY AheadOrders
<1>4. Cardinality(1 .. n) = n
  BY <1>1, CountUpTo
<1> HIDE DEF r, n, R
<1>5. /\ \A i \in 1 .. n : \E p \in 1 .. n : at[p] = i
      /\ \A p, q \in 1 .. n : p < q => <<at[p], at[q]>> \in R
  BY <1>2, <1>4 DEF Arranged
<1>6. \A p, q \in 1 .. n : at[p] = at[q] => p = q
  <2> SUFFICES ASSUME NEW p \in 1 .. n, NEW q \in 1 .. n, at[p] = at[q], p # q PROVE FALSE
    OBVIOUS
  <2>1. p < q \/ q < p
    BY <1>1
  <2>2. <<at[p], at[p]>> \in R
    BY <1>5, <2>1
  <2> QED BY <1>2, <1>3, <2>2 DEF Orders
<1>7. DOMAIN r = 1 .. n /\ \A p \in 1 .. n : r[p] = d[at[p]]
  BY <1>2
<1>8. Keeps(d, r)
  <2>1. Rearranges(at, 1 .. n, d, r)
    BY <1>1, <1>2, <1>5, <1>6, <1>7 DEF Rearranges
  <2> QED BY <2>1, RearrangedKeeps
<1> QED BY <1>8 DEF r

\* Of events that are apart none is a duplicate.
LEMMA ApartUids ==
  ASSUME NEW s, Apart(s), NEW i \in DOMAIN s, NEW j \in DOMAIN s, s[i].uid = s[j].uid
  PROVE  i = j
BY DEF Apart

LEMMA DedupKeeps ==
  ASSUME NEW s \in Seq(Events), Apart(s)
  PROVE  Keeps(s, Dedup("aggregated", s))
<1> DEFINE n == Len(s)
           Same(i) == {j \in DOMAIN s : s[j].uid = s[i].uid}
           Most(i) == {j \in Same(i) : \A l \in Same(i) : s[l].ticks <= s[j].ticks}
           F == {i \in DOMAIN s : i = Min(Same(i))}
           at == Ascending(F)
           r == Dedup("aggregated", s)
<1>1. n \in Nat /\ DOMAIN s = 1 .. n /\ \A i \in 1 .. n : s[i] \in Events
  BY SeqFacts
<1>2. ASSUME NEW i \in 1 .. n PROVE Same(i) = {i}
  BY <1>1, ApartUids
<1>3. ASSUME NEW i \in 1 .. n PROVE Min({i}) = i
  <2>1. {i} \in SUBSET Nat /\ i \in {i} /\ \A j \in {i} : i <= j
    BY <1>1
  <2> QED BY <2>1, MinIs
<1>4. ASSUME NEW i \in 1 .. n PROVE Most(i) = {i}
  <2>1. s[i].ticks \in Nat
    BY <1>1 DEF Events
  <2> QED BY <1>2, <2>1
<1>5. F = 1 .. n
  BY <1>1, <1>2, <1>3
<1>6. Cardinality(1 .. n) = n
  BY <1>1, CountUpTo
<1>7. /\ at \in [1 .. n -> 1 .. n]
      /\ \A i \in 1 .. n : \E p \in 1 .. n : at[p] = i
      /\ \A p, q \in 1 .. n : p < q <=> at[p] < at[q]
  <2> F \in SUBSET (1 .. n)
    BY <1>5
  <2> HIDE DEF at, F
  <2> QED BY <1>1, <1>5, <1>6, AscendingFacts DEF at
<1>8. r = [p \in DOMAIN at |-> s[Min(Most(at[p]))]]
  BY DEF Dedup
<1> HIDE DEF at, r, n, Most, Same, F
<1>9. DOMAIN r = 1 .. n /\ \A p \in 1 .. n : r[p] = s[at[p]]
  <2>1. DOMAIN r = 1 .. n /\ \A p \in 1 .. n : r[p] = s[Min(Most(at[p]))] /\ at[p] \in 1 .. n
    BY <1>7, <1>8
  <2>2. ASSUME NEW i \in 1 .. n PROVE Min(Most(i)) = i
    <3>1. Most(i) = {i} /\ Min({i}) = i
      BY <1>3, <1>4
    <3> QED BY <3>1
  <2> QED BY <2>1, <2>2
<1>10. \A p, q \in 1 .. n : at[p] = at[q] => p = q
  <2> SUFFICES ASSUME NEW p \in 1 .. n, NEW q \in 1 .. n, at[p] = at[q] PROVE p = q
    OBVIOUS
  <2>1. at[p] \in Nat /\ at[q] \in Nat
    BY <1>1, <1>7
  <2>2. ~(p < q) /\ ~(q < p)
    BY <1>7, <2>1
  <2> QED BY <1>1, <2>2
<1>11. Keeps(s, r)
  <2>1. Rearranges(at, 1 .. n, s, r)
    BY <1>1, <1>7, <1>9, <1>10 DEF Rearranges
  <2> QED BY <2>1, RearrangedKeeps
<1> QED BY <1>11 DEF r

LEMMA CanonicalKeeps ==
  ASSUME NEW s \in Seq(Events), Apart(s)
  PROVE  Keeps(s, Canonical("aggregated", s))
<1> DEFINE d == Dedup("aggregated", s)
<1>1. d \in Seq(Events) /\ Keeps(s, d)
  BY DedupType, DedupKeeps
<1> HIDE DEF d
<1>2. Keeps(d, StableSort("aggregated", d))
  BY <1>1, SortKeeps DEF Keeps
<1>3. Keeps(s, StableSort("aggregated", d))
  BY <1>1, <1>2, KeepsTrans
<1> QED BY <1>3 DEF Canonical, d

\* Sequences one after the other.
LEMMA ApartConcat ==
  ASSUME NEW s \in Seq(Events), NEW t \in Seq(Events)
  PROVE  /\ PartsOf(s \o t) = PartsOf(s) \cup PartsOf(t)
         /\ AllExact(s) /\ AllExact(t) => AllExact(s \o t)
         /\ Apart(s) /\ Apart(t) /\ PartsOf(s) \cap PartsOf(t) = {} => Apart(s \o t)
<1> DEFINE w == s \o t
           m == Len(s)
           n == Len(t)
<1>1. /\ m \in Nat /\ n \in Nat /\ DOMAIN s = 1 .. m /\ DOMAIN t = 1 .. n
      /\ w \in Seq(Events) /\ Len(w) = m + n /\ DOMAIN w = 1 .. m + n
      /\ \A i \in 1 .. m + n : w[i] = IF i <= m THEN s[i] ELSE t[i - m]
  BY SeqFacts, ConcatProperties
<1> HIDE DEF w
<1>2. \A i \in 1 .. m : w[i] = s[i] /\ i \in 1 .. m + n
  BY <1>1
<1>3. \A i \in 1 .. n : w[m + i] = t[i] /\ m + i \in 1 .. m + n
  <2> SUFFICES ASSUME NEW i \in 1 .. n PROVE w[m + i] = t[i] /\ m + i \in 1 .. m + n
    OBVIOUS
  <2>1. m + i \in 1 .. m + n /\ ~(m + i <= m) /\ (m + i) - m = i
    BY <1>1
  <2> QED BY <1>1, <2>1
<1>4. \A i \in 1 .. m + n : i \in 1 .. m \/ \E j \in 1 .. n : i = m + j
  <2> SUFFICES ASSUME NEW i \in 1 .. m + n, i \notin 1 .. m PROVE \E j \in 1 .. n : i = m + j
    OBVIOUS
  <2>1. i - m \in 1 .. n /\ i = m + (i - m)
    BY <1>1
  <2> QED BY <2>1
<1>5. \A x : x \in PartsOf(s) <=> \E i \in 1 .. m : x \in s[i].parts
  BY <1>1 DEF PartsOf
<1>6. \A x : x \in PartsOf(t) <=> \E i \in 1 .. n : x \in t[i].parts
  BY <1>1 DEF PartsOf
<1>7. \A x : x \in PartsOf(w) <=> \E i \in 1 .. m + n : x \in w[i].parts
  BY <1>1 DEF PartsOf
<1>8. DOMAIN w = 1 .. m + n /\ DOMAIN s = 1 .. m /\ DOMAIN t = 1 .. n
  BY <1>1
<1> HIDE DEF m, n
<1>9. PartsOf(w) = PartsOf(s) \cup PartsOf(t)
  <2>1. \A x \in PartsOf(w) : x \in PartsOf(s) \cup PartsOf(t)
    BY <1>2, <1>3, <1>4, <1>5, <1>6, <1>7
  <2>2. \A x \in PartsOf(s) : x \in PartsOf(w)
    BY <1>2, <1>5, <1>7
  <2>3. \A x \in PartsOf(t) : x \in PartsOf(w)
    BY <1>3, <1>6, <1>7
  <2> QED BY <2>1, <2>2, <2>3
<1>10. ASSUME AllExact(s), AllExact(t) PROVE AllExact(w)
  BY <1>2, <1>3, <1>4, <1>8, <1>10 DEF AllExact
<1>11. ASSUME Apart(s), Apart(t), PartsOf(s) \cap PartsOf(t) = {} PROVE Apart(w)
  <2>1. \A i \in 1 .. m + n : w[i].uid \in w[i].parts
    BY <1>2, <1>3, <1>4, <1>8, <1>11 DEF Apart
  <2>2. ASSUME NEW i \in 1 .. m + n, NEW j \in 1 .. m + n, i # j, NEW x,
               x \in w[i].parts, x \in w[j].parts
        PROVE  FALSE
    <3>1. CASE i \in 1 .. m /\ j \in 1 .. m
      BY <1>2, <1>8, <1>11, <2>2, <3>1 DEF Apart
    <3>2. CASE i \notin 1 .. m /\ j \notin 1 .. m
      BY <1>3, <1>4, <1>8, <1>11, <2>2, <3>2 DEF Apart
    <3>3. CASE (i \in 1 .. m) # (j \in 1 .. m)
      <4>1. x \in PartsOf(s) /\ x \in PartsOf(t)
        BY <1>2, <1>3, <1>4, <1>5, <1>6, <2>2, <3>3
      <4> QED BY <1>11, <4>1
    <3> QED BY <3>1, <3>2, <3>3
  <2> QED BY <1>8, <2>1, <2>2 DEF Apart
<1> QED BY <1>9, <1>10, <1>11 DEF w

LEMMA MergeKeeps ==
  ASSUME NEW s \in Seq(Events), NEW t \in Seq(Events), Apart(s), Apart(t),
         PartsOf(s) \cap PartsOf(t) = {}
  PROVE  /\ Apart(Merge("aggregated", s, t))
         /\ PartsOf(Merge("aggregated", s, t)) = PartsOf(s) \cup PartsOf(t)
         /\ AllExact(s) /\ AllExact(t) => AllExact(Merge("aggregated", s, t))
<1>1. s \o t \in Seq(Events)
  BY ConcatProperties
<1>2. /\ PartsOf(s \o t) = PartsOf(s) \cup PartsOf(t) /\ Apart(s \o t)
      /\ AllExact(s) /\ AllExact(t) => AllExact(s \o t)
  BY ApartConcat
<1>3. Keeps(s \o t, Canonical("aggregated", s \o t))
  BY <1>1, <1>2, CanonicalKeeps
<1> QED BY <1>2, <1>3 DEF Keeps, Merge

LEMMA InsertKeeps ==
  ASSUME NEW k \in Seq(Events), NEW e \in Events, Apart(k), e.uid \in e.parts,
         e.parts \cap PartsOf(k) = {}
  PROVE  /\ Apart(Insert("aggregated", k, e))
         /\ PartsOf(Insert("aggregated", k, e)) = PartsOf(k) \cup e.parts
         /\ AllExact(k) /\ Exact(e) => AllExact(Insert("aggregated", k, e))
<1> DEFINE n == Len(k)
           x == <<e>>
           w == k \o x
           same == {i \in DOMAIN k : k[i].uid = e.uid}
           after == {i \in DOMAIN k : Less("aggregated", e, k[i])}
           a == IF after = {} THEN n + 1 ELSE Min(after)
           r == InsertBefore(a, k, e)
           at == [i \in 1 .. n + 1 |-> IF i < a THEN i ELSE IF i = a THEN n + 1 ELSE i - 1]
<1>1. n \in Nat /\ DOMAIN k = 1 .. n /\ \A i \in 1 .. n : k[i] \in Events
  BY SeqFacts
<1>2. x \in Seq(Events) /\ Len(x) = 1 /\ DOMAIN x = 1 .. 1 /\ x[1] = e
  OBVIOUS
<1>3. Apart(x) /\ PartsOf(x) = e.parts /\ (Exact(e) => AllExact(x))
  <2>1. \A i \in DOMAIN x : x[i] = e /\ i = 1
    BY <1>2
  <2>2. Apart(x)
    BY <2>1 DEF Apart
  <2>3. PartsOf(x) = e.parts
    BY <1>2, <2>1 DEF PartsOf
  <2>4. Exact(e) => AllExact(x)
    BY <2>1 DEF AllExact
  <2> QED BY <2>2, <2>3, <2>4
<1>4. same = {}
  <2>1. ASSUME NEW i \in DOMAIN k, k[i].uid = e.uid PROVE FALSE
    <3>1. k[i].uid \in k[i].parts
      BY DEF Apart
    <3>2. k[i].uid \in PartsOf(k)
      BY <3>1 DEF PartsOf
    <3> QED BY <2>1, <3>2
  <2> QED BY <2>1
<1>5. Insert("aggregated", k, e) = r
  BY <1>4 DEF Insert
<1> HIDE DEF x
<1>6. /\ Apart(w) /\ PartsOf(w) = PartsOf(k) \cup e.parts
      /\ AllExact(k) /\ Exact(e) => AllExact(w)
  BY <1>2, <1>3, ApartConcat
<1>7. /\ DOMAIN w = 1 .. n + 1 /\ w[n + 1] = e /\ \A i \in 1 .. n : w[i] = k[i]
  <2>1. /\ w \in Seq(Events) /\ Len(w) = n + 1
        /\ \A i \in 1 .. n + 1 : w[i] = IF i <= n THEN k[i] ELSE x[i - n]
    <3>1. x \in Seq(Events)
      BY <1>2
    <3>2. /\ w \in Seq(Events) /\ Len(w) = Len(k) + Len(x)
          /\ \A i \in 1 .. Len(k) + Len(x) : w[i] = IF i <= Len(k) THEN k[i] ELSE x[i - Len(k)]
      BY <3>1, EventsConcat, Zenon
    <3> HIDE DEF w
    <3> QED BY <1>2, <3>2
  <2>2. DOMAIN w = 1 .. n + 1
    BY <2>1, SeqFacts
  <2>3. w[n + 1] = e
    <3>1. n + 1 \in 1 .. n + 1 /\ ~(n + 1 <= n) /\ (n + 1) - n = 1
      BY <1>1
    <3> HIDE DEF w
    <3> QED BY <1>2, <2>1, <3>1
  <2>4. \A i \in 1 .. n : w[i] = k[i]
    <3> HIDE DEF w
    <3> QED BY <1>1, <2>1
  <2> QED BY <2>2, <2>3, <2>4
<1>8. a \in 1 .. n + 1
  <2> after \in SUBSET Nat
    BY <1>1
  <2>1. after # {} => Min(after) \in after
    BY MinFacts
  <2> QED BY <1>1, <2>1
<1>9. r = [i \in 1 .. n + 1 |-> IF i < a THEN k[i] ELSE IF i = a THEN e ELSE k[i - 1]]
  BY DEF InsertBefore
<1> HIDE DEF a, w, r
<1>10. at \in [1 .. n + 1 -> 1 .. n + 1]
  BY <1>1, <1>8
<1>11. \A i \in 1 .. n + 1 : r[i] = w[at[i]]
  <2> SUFFICES ASSUME NEW i \in 1 .. n + 1 PROVE r[i] = w[at[i]]
    OBVIOUS
  <2>1. CASE i < a
    <3>1. i \in 1 .. n
      BY <1>1, <1>8, <2>1
    <3> QED BY <1>7, <1>9, <2>1, <3>1
  <2>2. CASE i = a
    BY <1>1, <1>7, <1>8, <1>9, <2>2
  <2>3. CASE ~(i < a) /\ i # a
    <3>1. i - 1 \in 1 .. n
      BY <1>1, <1>8, <2>3
    <3> QED BY <1>7, <1>9, <2>3, <3>1
  <2> QED BY <2>1, <2>2, <2>3
<1>12. \A p, q \in 1 .. n + 1 : at[p] = at[q] => p = q
  BY <1>1, <1>8
<1>13. ASSUME NEW i \in 1 .. n + 1 PROVE \E p \in 1 .. n + 1 : at[p] = i
  <2>1. CASE i < a
    BY <2>1
  <2>2. CASE i = n + 1
    BY <1>8, <2>2
  <2>3. CASE ~(i < a) /\ i # n + 1
    <3>1. i + 1 \in 1 .. n + 1 /\ ~(i + 1 < a) /\ i + 1 # a /\ (i + 1) - 1 = i
      BY <1>1, <1>8, <2>3
    <3>2. at[i + 1] = i
      BY <3>1
    <3> QED BY <3>1, <3>2
  <2> QED BY <2>1, <2>2, <2>3
<1>14. DOMAIN r = 1 .. n + 1
  BY <1>9
<1> HIDE DEF at
<1>15. Keeps(w, r)
  <2>1. Rearranges(at, 1 .. n + 1, w, r)
    BY <1>6, <1>7, <1>10, <1>11, <1>12, <1>13, <1>14 DEF Rearranges
  <2> QED BY <1>6, <2>1, RearrangedKeeps
<1> QED BY <1>5, <1>6, <1>15 DEF Keeps

-----------------------------------------------------------------------------
(***************************************************************************)
(* What deriving a bucket keeps: of the runs that are aggregated, and of   *)
(* the segments that are filtered.                                         *)
(***************************************************************************)

\* Segments whose last one ends with the sequence cover it, one after the other.
LEMMA SegmentsCover ==
  ASSUME NEW S, NEW s \in Seq(S), NEW ends \in SUBSET (1 .. Len(s)),
         Len(s) # 0 => Len(s) \in ends, NEW n, NEW from, NEW to, Segmented(s, ends, n, from, to)
  PROVE  /\ \A i \in 1 .. Len(s) : \E p \in 1 .. n : from[p] <= i /\ i <= to[p]
         /\ \A p, q \in 1 .. n : p < q => to[p] < from[q]
<1>1. Len(s) \in Nat
  BY LenProperties
<1>2. /\ n \in Nat /\ \A p \in 1 .. n : from[p] \in 1 .. Len(s) /\ to[p] \in 1 .. Len(s)
      /\ \A p \in 1 .. n : from[p] <= to[p] /\ from[p] = IF p = 1 THEN 1 ELSE to[p - 1] + 1
      /\ \A e \in ends : \E p \in 1 .. n : to[p] = e
      /\ \A p, q \in 1 .. n : p < q <=> to[p] < to[q]
  BY DEF Segmented
<1>3. ASSUME NEW i \in 1 .. Len(s) PROVE \E p \in 1 .. n : from[p] <= i /\ i <= to[p]
  <2> DEFINE P == {p \in 1 .. n : i <= to[p]}
             p == Min(P)
  <2>1. Len(s) # 0 /\ Len(s) \in ends
    BY <1>1
  <2>2. PICK q \in 1 .. n : to[q] = Len(s)
    BY <1>2, <2>1
  <2>3. q \in P
    BY <1>1, <2>2
  <2> P \in SUBSET Nat
    BY <1>2
  <2>4. p \in P /\ \A j \in P : p <= j
    BY <2>3, MinFacts
  <2> HIDE DEF p
  <2>5. p \in 1 .. n /\ i <= to[p]
    BY <2>4
  <2>6. CASE p = 1
    <3>1. from[p] = 1
      BY <1>2, <2>5, <2>6
    <3>2. 1 <= i
      OBVIOUS
    <3> QED BY <2>5, <3>1, <3>2
  <2>7. CASE p # 1
    <3>1. p - 1 \in 1 .. n /\ ~(p <= p - 1)
      BY <1>2, <2>5, <2>7
    <3>2. ~(i <= to[p - 1])
      BY <2>4, <3>1
    <3>3. from[p] = to[p - 1] + 1 /\ to[p - 1] \in 1 .. Len(s)
      BY <1>2, <2>5, <2>7, <3>1
    <3>4. from[p] <= i
      BY <1>1, <3>2, <3>3
    <3> QED BY <2>5, <3>4
  <2> QED BY <2>6, <2>7
<1>4. ASSUME NEW p \in 1 .. n, NEW q \in 1 .. n, p < q PROVE to[p] < from[q]
  <2>1. q # 1 /\ q - 1 \in 1 .. n /\ q \in Nat /\ p \in Nat
    BY <1>2, <1>4
  <2>2. from[q] = to[q - 1] + 1 /\ to[q - 1] \in Nat /\ to[p] \in Nat
    BY <1>2, <2>1
  <2>3. to[p] <= to[q - 1]
    <3>1. CASE p = q - 1
      BY <2>2, <3>1
    <3>2. CASE p < q - 1
      <4>1. to[p] < to[q - 1]
        BY <1>2, <2>1, <3>2
      <4> QED BY <2>2, <4>1
    <3> QED BY <1>4, <2>1, <3>1, <3>2
  <2> QED BY <2>2, <2>3
<1> QED BY <1>3, <1>4

LEMMA UnitsFacts ==
  ASSUME NEW P
  PROVE  \A w : w \in UnitsOf(P) <=> \E u \in P : w \in {u} \X (1 .. Volumes[u])
BY DEF UnitsOf

\* An aggregate stands for all of the trades of its events, and counts them when
\* these are apart.
LEMMA AggregateParts ==
  ASSUME NEW x \in Seq(Events), x # << >>
  PROVE  AggregateTrades(x).parts = PartsOf(x)
<1>1. x[Len(x)] \in Events
  BY SeqFacts, EmptySeq
<1> QED BY <1>1 DEF AggregateTrades, PartsOf, Events

LEMMA AggregateIsExact ==
  ASSUME NEW x \in Seq(Events), x # << >>, Apart(x)
  PROVE  /\ AggregateTrades(x).uid = x[1].uid /\ AggregateTrades(x).parts = PartsOf(x)
         /\ AggregateTrades(x).uid \in AggregateTrades(x).parts
         /\ AllExact(x) => Exact(AggregateTrades(x))
<1> DEFINE n == Len(x)
           f == [i \in DOMAIN x |-> x[i].volume]
           g == [i \in DOMAIN x |-> x[i].ticks]
           e == AggregateTrades(x)
<1>1. /\ n \in Nat /\ n # 0 /\ DOMAIN x = 1 .. n
      /\ \A i \in 1 .. n : x[i] \in Events
  BY SeqFacts, EmptySeq
<1>2. x[n] \in Events
  BY <1>1
<1>3. AggregateTrades(x) = [x[n] EXCEPT !.uid = x[1].uid, !.volume = Volume(x),
                                        !.ticks = Ticks(x), !.parts = PartsOf(x)]
  BY DEF AggregateTrades, PartsOf
<1>4. e.uid = x[1].uid /\ e.parts = PartsOf(x) /\ e.volume = Total(f) /\ e.ticks = Total(g)
  BY <1>2, <1>3 DEF Events, Volume, Ticks
<1> HIDE DEF e
<1>5. x[1].uid \in PartsOf(x)
  BY <1>1 DEF Apart, PartsOf
<1>6. ASSUME AllExact(x) PROVE Exact(e)
  <2>1. \A i \in 1 .. n : Exact(x[i])
    BY <1>1, <1>6 DEF AllExact
  <2>2. IsFiniteSet(PartsOf(x)) /\ Total(g) = Cardinality(PartsOf(x))
    <3> DEFINE A == [i \in 1 .. n |-> x[i].parts]
    <3>1. DOMAIN g = 1 .. n
      BY <1>1
    <3>2. \A i \in 1 .. n : IsFiniteSet(A[i]) /\ g[i] = Cardinality(A[i])
      BY <1>1, <2>1 DEF Exact
    <3>3. \A i, j \in 1 .. n : i # j => A[i] \cap A[j] = {}
      BY <1>1 DEF Apart
    <3>4. UNION {A[i] : i \in 1 .. n} = PartsOf(x)
      BY <1>1 DEF PartsOf
    <3> HIDE DEF A, g, n
    <3> QED BY <1>1, <3>1, <3>2, <3>3, <3>4, TotalOfSizes
  <2>3. IsFiniteSet(UnitsOf(PartsOf(x))) /\ Total(f) = Cardinality(UnitsOf(PartsOf(x)))
    <3> DEFINE A == [i \in 1 .. n |-> UnitsOf(x[i].parts)]
    <3>1. DOMAIN f = 1 .. n
      BY <1>1
    <3>2. \A i \in 1 .. n : IsFiniteSet(A[i]) /\ f[i] = Cardinality(A[i])
      BY <1>1, <2>1 DEF Exact
    <3>3. ASSUME NEW i \in 1 .. n, NEW j \in 1 .. n, i # j PROVE A[i] \cap A[j] = {}
      <4>1. x[i].parts \cap x[j].parts = {}
        BY <1>1, <3>3 DEF Apart
      <4>2. A[i] = UnitsOf(x[i].parts) /\ A[j] = UnitsOf(x[j].parts)
        OBVIOUS
      <4>3. ASSUME NEW u \in UnitsOf(x[i].parts), u \in UnitsOf(x[j].parts) PROVE FALSE
        <5>1. PICK t \in x[i].parts : u \in {t} \X (1 .. Volumes[t])
          BY UnitsFacts
        <5>2. PICK v \in x[j].parts : u \in {v} \X (1 .. Volumes[v])
          BY <4>3, UnitsFacts
        <5>3. t = v
          BY <5>1, <5>2
        <5> QED BY <4>1, <5>3
      <4> QED BY <4>2, <4>3
    <3>4. UNION {A[i] : i \in 1 .. n} = UnitsOf(PartsOf(x))
      <4>1. \A y : y \in PartsOf(x) <=> \E i \in 1 .. n : y \in x[i].parts
        BY <1>1 DEF PartsOf
      <4>2. \A u : u \in UNION {A[i] : i \in 1 .. n} <=> \E i \in 1 .. n : u \in UnitsOf(x[i].parts)
        OBVIOUS
      <4>3. \A u : (\E i \in 1 .. n : u \in UnitsOf(x[i].parts)) <=> u \in UnitsOf(PartsOf(x))
        <5> HIDE DEF n
        <5> QED BY <4>1, UnitsFacts
      <4> HIDE DEF A
      <4> QED BY <4>2, <4>3
    <3> HIDE DEF A, f, n
    <3> QED BY <1>1, <3>1, <3>2, <3>3, <3>4, TotalOfSizes
  <2> QED BY <1>4, <2>2, <2>3 DEF Exact
<1> QED BY <1>4, <1>5, <1>6 DEF e

\* A part of a sequence.
IsPart(x, s, a, b) ==
  /\ x \in Seq(Events) /\ x # << >>
  /\ x[1] = s[a] /\ x[Len(x)] = s[b]
  /\ \A y : y \in PartsOf(x) <=> \E i \in a .. b : y \in s[i].parts
  /\ Apart(s) => Apart(x)
  /\ AllExact(s) => AllExact(x)

LEMMA PartFacts ==
  ASSUME NEW s \in Seq(Events), NEW a \in 1 .. Len(s), NEW b \in 1 .. Len(s), a <= b
  PROVE  IsPart(SubSeq(s, a, b), s, a, b)
<1> DEFINE x == SubSeq(s, a, b)
           n == b - a + 1
<1>1. Len(s) \in Nat /\ DOMAIN s = 1 .. Len(s)
  BY SeqFacts
<1>2. \A i \in a .. b : s[i] \in Events /\ i \in 1 .. Len(s)
  BY <1>1, SeqFacts
<1>3. x \in Seq(Events) /\ Len(x) = n /\ \A i \in 1 .. n : x[i] = s[a + i - 1]
  BY <1>1, <1>2, SubSeqProperties
<1> HIDE DEF x
<1>4. n \in Nat /\ n # 0 /\ DOMAIN x = 1 .. n
  BY <1>1, <1>3, SeqFacts
<1>5. x # << >>
  BY <1>3, <1>4, EmptySeq
<1>6. x[1] = s[a] /\ x[n] = s[b]
  <2>1. 1 \in 1 .. n /\ n \in 1 .. n /\ a + 1 - 1 = a /\ a + n - 1 = b
    BY <1>1, <1>4
  <2> QED BY <1>3, <2>1
<1>7. \A i \in 1 .. n : x[i] = s[a + i - 1] /\ a + i - 1 \in a .. b /\ a + i - 1 \in DOMAIN s
  BY <1>1, <1>3
<1>8. \A i \in a .. b : i - a + 1 \in 1 .. n /\ x[i - a + 1] = s[i]
  <2> SUFFICES ASSUME NEW i \in a .. b PROVE i - a + 1 \in 1 .. n /\ x[i - a + 1] = s[i]
    OBVIOUS
  <2>1. i - a + 1 \in 1 .. n /\ a + (i - a + 1) - 1 = i
    BY <1>1
  <2> QED BY <1>3, <2>1
<1>9. \A y : y \in PartsOf(x) <=> \E i \in 1 .. n : y \in x[i].parts
  BY <1>4 DEF PartsOf
<1>10. \A y : y \in PartsOf(x) <=> \E i \in a .. b : y \in s[i].parts
  <2> HIDE DEF n
  <2> QED BY <1>7, <1>8, <1>9
<1>11. ASSUME NEW i \in 1 .. n, NEW j \in 1 .. n, i # j PROVE a + i - 1 # a + j - 1
  BY <1>1, <1>4, <1>11
<1>12. ASSUME Apart(s) PROVE Apart(x)
  <2>1. \A i \in DOMAIN x : x[i].uid \in x[i].parts
    BY <1>4, <1>7, <1>12 DEF Apart
  <2>2. ASSUME NEW i \in DOMAIN x, NEW j \in DOMAIN x, i # j
        PROVE  x[i].parts \cap x[j].parts = {}
    <3>1. /\ x[i] = s[a + i - 1] /\ a + i - 1 \in DOMAIN s
          /\ x[j] = s[a + j - 1] /\ a + j - 1 \in DOMAIN s /\ a + i - 1 # a + j - 1
      BY <1>4, <1>7, <1>11, <2>2
    <3>2. s[a + i - 1].parts \cap s[a + j - 1].parts = {}
      BY <1>12, <3>1 DEF Apart
    <3> QED BY <3>1, <3>2
  <2> QED BY <2>1, <2>2 DEF Apart
<1>13. ASSUME AllExact(s) PROVE AllExact(x)
  BY <1>4, <1>7, <1>13 DEF AllExact
<1>14. x[Len(x)] = s[b]
  BY <1>3, <1>6
<1>15. IsPart(x, s, a, b)
  BY <1>3, <1>5, <1>6, <1>10, <1>12, <1>13, <1>14 DEF IsPart
<1> QED BY <1>15 DEF x

\* The events of a run are one sample.
LEMMA RunIsOneSample ==
  ASSUME NEW s \in Seq(Events), NEW a \in 1 .. Len(s), NEW b \in 1 .. Len(s), a <= b,
         \A i \in a .. b - 1 : SameSample(s[i], s[i + 1])
  PROVE  SameSample(s[a], s[b])
<1> DEFINE D == {i \in a .. b : ~SameSample(s[a], s[i])}
<1>1. Len(s) \in Nat /\ \A i \in 1 .. Len(s) : s[i] \in Events
  BY SeqFacts
<1>2. SUFFICES ASSUME D # {} PROVE FALSE
  <2>1. b \in a .. b
    BY <1>1
  <2> QED BY <1>2, <2>1
<1> D \in SUBSET Nat
  BY <1>1
<1> DEFINE d == Min(D)
<1>3. d \in D /\ \A i \in D : d <= i
  BY <1>2, MinFacts
<1>4. d \in a .. b /\ ~SameSample(s[a], s[d])
  BY <1>3
<1>5. d # a
  BY <1>4 DEF SameSample
<1> HIDE DEF d
<1>6. d - 1 \in a .. b - 1 /\ d - 1 \in a .. b /\ (d - 1) + 1 = d /\ ~(d <= d - 1)
  BY <1>1, <1>4, <1>5
<1>7. SameSample(s[d - 1], s[d])
  BY <1>6
<1>8. SameSample(s[a], s[d - 1])
  BY <1>3, <1>6
<1> QED BY <1>4, <1>7, <1>8 DEF SameSample

\* Aggregating the runs of one sample keeps the trades, and no two neighbours
\* are one sample.
Coalesced(r) == \A i \in 1 .. Len(r) - 1 : ~SameSample(r[i], r[i + 1])

LEMMA AggregateEventsKeep ==
  ASSUME NEW s \in Seq(Events)
  PROVE  /\ Coalesced(AggregateTradeEvents(s))
         /\ Apart(s) => Keeps(s, AggregateTradeEvents(s))
<1> DEFINE ends == {i \in DOMAIN s : i = Len(s) \/ ~SameSample(s[i], s[i + 1])}
           runs == Segments(s, ends)
           r == AggregateTradeEvents(s)
<1>1. Len(s) \in Nat /\ DOMAIN s = 1 .. Len(s) /\ \A i \in 1 .. Len(s) : s[i] \in Events
  BY SeqFacts
<1>ends. \A i : i \in ends <=>
           i \in DOMAIN s /\ (i = Len(s) \/ ~SameSample(s[i], s[i + 1]))
  OBVIOUS
<1> HIDE DEF ends
<1>2. ends \in SUBSET (1 .. Len(s)) /\ (Len(s) # 0 => Len(s) \in ends)
  <2>1. Len(s) # 0 => Len(s) \in 1 .. Len(s)
    BY <1>1
  <2> QED BY <1>1, <1>ends, <2>1
<1>3. \A i \in 1 .. Len(s) : i \notin ends => SameSample(s[i], s[i + 1])
  BY <1>1, <1>ends
<1>4. \A i \in ends : i = Len(s) \/ ~SameSample(s[i], s[i + 1])
  BY <1>ends
<1>5. r = [p \in DOMAIN runs |-> AggregateTrades(runs[p])]
  BY DEF AggregateTradeEvents, ends
<1> HIDE DEF ends, r
<1>6. PICK n, from, to : Segmented(s, ends, n, from, to)
  BY <1>2, SegmentsFacts
<1>7. /\ n \in Nat /\ DOMAIN runs = 1 .. n
      /\ \A p \in 1 .. n : /\ runs[p] = SubSeq(s, from[p], to[p])
                           /\ from[p] \in 1 .. Len(s) /\ to[p] \in ends /\ to[p] \in 1 .. Len(s)
                           /\ from[p] <= to[p]
                           /\ from[p] = IF p = 1 THEN 1 ELSE to[p - 1] + 1
      /\ \A p, q \in 1 .. n : p < q <=> to[p] < to[q]
      /\ \A e \in ends : \E p \in 1 .. n : to[p] = e
  BY <1>2, <1>6 DEF Segmented
<1>8. /\ \A i \in 1 .. Len(s) : \E p \in 1 .. n : from[p] <= i /\ i <= to[p]
      /\ \A p, q \in 1 .. n : p < q => to[p] < from[q]
  BY <1>2, <1>6, SegmentsCover
<1> HIDE DEF runs
<1>9. DOMAIN r = 1 .. n /\ \A p \in 1 .. n : r[p] = AggregateTrades(SubSeq(s, from[p], to[p]))
  BY <1>5, <1>7
<1>10. r \in Seq(Events) /\ Len(r) = n
  <2>1. r \in Seq(Events)
    BY AggregateEventsType DEF r
  <2> QED BY <1>7, <1>9, <2>1, SeqFacts
<1>11. ASSUME NEW p \in 1 .. n
       PROVE  /\ Apart(s) => r[p].uid \in r[p].parts
              /\ \A y : y \in r[p].parts <=> \E i \in from[p] .. to[p] : y \in s[i].parts
              /\ Apart(s) /\ AllExact(s) => Exact(r[p])
              /\ r[p].time = s[to[p]].time /\ r[p].rule = s[to[p]].rule
  <2> DEFINE x == SubSeq(s, from[p], to[p])
  <2>1. from[p] \in 1 .. Len(s) /\ to[p] \in 1 .. Len(s) /\ from[p] <= to[p]
    BY <1>7
  <2>2. /\ x \in Seq(Events) /\ x # << >> /\ x[Len(x)] = s[to[p]]
        /\ Apart(s) => Apart(x)
        /\ \A y : y \in PartsOf(x) <=> \E i \in from[p] .. to[p] : y \in s[i].parts
        /\ AllExact(s) => AllExact(x)
    <3>1. IsPart(x, s, from[p], to[p])
      BY <2>1, PartFacts
    <3> HIDE DEF x
    <3> QED BY <3>1 DEF IsPart
  <2>3. r[p] = AggregateTrades(x)
    BY <1>9
  <2> HIDE DEF x
  <2>4. /\ AggregateTrades(x).parts = PartsOf(x)
        /\ Apart(s) => AggregateTrades(x).uid \in AggregateTrades(x).parts
        /\ Apart(s) /\ AllExact(x) => Exact(AggregateTrades(x))
    BY <2>2, AggregateParts, AggregateIsExact
  <2>5. s[to[p]] \in Events
    BY <1>1, <2>1
  <2>6. /\ AggregateTrades(x).time = s[to[p]].time
        /\ AggregateTrades(x).rule = s[to[p]].rule
    BY <2>2, <2>5 DEF AggregateTrades, Events
  <2> QED BY <2>2, <2>3, <2>4, <2>6
<1>12. ASSUME Apart(s) PROVE Apart(r)
  <2>1. ASSUME NEW p \in 1 .. n, NEW q \in 1 .. n, p # q, NEW y \in r[p].parts, y \in r[q].parts
        PROVE  FALSE
    <3>1. PICK i \in from[p] .. to[p] : y \in s[i].parts
      BY <1>11
    <3>2. PICK j \in from[q] .. to[q] : y \in s[j].parts
      BY <1>11, <2>1
    <3>3. p < q \/ q < p
      BY <1>7, <2>1
    <3>4. /\ from[p] \in Nat /\ to[p] \in Nat /\ from[q] \in Nat /\ to[q] \in Nat
          /\ i \in 1 .. Len(s) /\ j \in 1 .. Len(s)
      <4>1. from[p] \in 1 .. Len(s) /\ to[p] \in 1 .. Len(s)
        BY <1>7
      <4>2. from[q] \in 1 .. Len(s) /\ to[q] \in 1 .. Len(s)
        BY <1>7
      <4>3. i \in 1 .. Len(s)
        BY <1>1, <4>1
      <4>4. j \in 1 .. Len(s)
        BY <1>1, <4>2
      <4> QED BY <1>1, <4>1, <4>2, <4>3, <4>4
    <3>5. to[p] < from[q] \/ to[q] < from[p]
      BY <1>8, <3>3
    <3>6. i # j
      BY <3>4, <3>5
    <3>7. s[i].parts \cap s[j].parts = {}
      BY <1>1, <1>12, <3>4, <3>6 DEF Apart
    <3> QED BY <3>1, <3>2, <3>7
  <2>2. \A p, q \in 1 .. n : p # q => r[p].parts \cap r[q].parts = {}
    BY <2>1
  <2> QED BY <1>9, <1>11, <1>12, <2>2 DEF Apart
<1>13. PartsOf(r) = PartsOf(s)
  <2>1. \A y : y \in PartsOf(r) <=> \E p \in 1 .. n : y \in r[p].parts
    BY <1>9 DEF PartsOf
  <2>2. \A y : y \in PartsOf(s) <=> \E i \in 1 .. Len(s) : y \in s[i].parts
    BY <1>1 DEF PartsOf
  <2>3. ASSUME NEW y \in PartsOf(r) PROVE y \in PartsOf(s)
    <3>1. PICK p \in 1 .. n : y \in r[p].parts
      BY <2>1
    <3>2. PICK i \in from[p] .. to[p] : y \in s[i].parts
      BY <1>11, <3>1
    <3>3. i \in 1 .. Len(s)
      BY <1>1, <1>7
    <3> QED BY <2>2, <3>2, <3>3
  <2>4. ASSUME NEW y \in PartsOf(s) PROVE y \in PartsOf(r)
    <3>1. PICK i \in 1 .. Len(s) : y \in s[i].parts
      BY <2>2
    <3>2. PICK p \in 1 .. n : from[p] <= i /\ i <= to[p]
      BY <1>8
    <3>3. i \in from[p] .. to[p]
      BY <1>1, <1>7, <3>2
    <3>4. y \in r[p].parts
      BY <1>11, <3>1, <3>3
    <3> QED BY <2>1, <3>4
  <2> QED BY <2>3, <2>4
<1>14. Apart(s) /\ AllExact(s) => AllExact(r)
  BY <1>9, <1>11 DEF AllExact
<1>15. Coalesced(r)
  <2> SUFFICES ASSUME NEW p \in 1 .. n - 1 PROVE ~SameSample(r[p], r[p + 1])
    BY <1>10 DEF Coalesced
  <2>1. p \in 1 .. n /\ p + 1 \in 1 .. n /\ p + 1 # 1 /\ (p + 1) - 1 = p /\ p < p + 1
    BY <1>7
  <2> DEFINE a == from[p + 1]
             b == to[p + 1]
             c == to[p]
  <2>2. /\ c \in ends /\ c \in 1 .. Len(s) /\ a = c + 1
        /\ a \in 1 .. Len(s) /\ b \in 1 .. Len(s) /\ a <= b
    BY <1>7, <2>1
  <2>3. ~SameSample(s[c], s[a])
    <3>1. c # Len(s)
      BY <1>1, <2>2
    <3> QED BY <1>4, <2>2, <3>1
  <2>4. \A i \in a .. b - 1 : SameSample(s[i], s[i + 1])
    <3> SUFFICES ASSUME NEW i \in a .. b - 1, i \in ends PROVE FALSE
      BY <1>1, <1>3, <2>2
    <3>1. PICK q \in 1 .. n : to[q] = i
      BY <1>7
    <3>2. c < i /\ i < b
      BY <1>1, <2>2
    <3>3. p < q /\ q < p + 1
      BY <1>7, <2>1, <3>1, <3>2
    <3> QED BY <1>7, <2>1, <3>3
  <2> HIDE DEF a, b, c
  <2>5. SameSample(s[a], s[b])
    BY <2>2, <2>4, RunIsOneSample
  <2>6. r[p].time = s[c].time /\ r[p].rule = s[c].rule
    BY <1>11, <2>1 DEF c
  <2>7. r[p + 1].time = s[b].time /\ r[p + 1].rule = s[b].rule
    BY <1>11, <2>1 DEF b
  <2> QED BY <2>3, <2>5, <2>6, <2>7 DEF SameSample
<1> QED BY <1>12, <1>13, <1>14, <1>15 DEF Keeps, r

\* The filtered trades stand for those they are filtered from, and those of
\* events that are apart for different ones.
Covers(filtered, agg) ==
  /\ PartsOf(filtered) = PartsOf(agg)
  /\ \A i \in 1 .. Len(filtered) - 1 : filtered[i].significant
Disjoint(trades) == \A i, j \in DOMAIN trades : i # j => trades[i].parts \cap trades[j].parts = {}

LEMMA FilterCovers ==
  ASSUME NEW s \in Seq(Events), NEW threshold
  PROVE  /\ Covers(FilterTrades(s, threshold), s)
         /\ Apart(s) => Disjoint(FilterTrades(s, threshold))
<1> DEFINE ends == {i \in DOMAIN s : i = Len(s) \/ s[i].volume >= threshold}
           segments == Segments(s, ends)
           r == FilterTrades(s, threshold)
<1>1. Len(s) \in Nat /\ DOMAIN s = 1 .. Len(s) /\ \A i \in 1 .. Len(s) : s[i] \in Events
  BY SeqFacts
<1>2. ends \in SUBSET (1 .. Len(s)) /\ (Len(s) # 0 => Len(s) \in ends)
  BY <1>1
<1>3. \A i \in ends : i = Len(s) \/ s[i].volume >= threshold
  OBVIOUS
<1>4. r = [p \in DOMAIN segments |->
             [uid |-> segments[p][Len(segments[p])].uid,
              significant |-> segments[p][Len(segments[p])].volume >= threshold,
              parts |-> PartsOf(segments[p])]]
  BY DEF FilterTrades, PartsOf
<1> HIDE DEF ends, r
<1>5. PICK n, from, to : Segmented(s, ends, n, from, to)
  BY <1>2, SegmentsFacts
<1>6. /\ n \in Nat /\ DOMAIN segments = 1 .. n
      /\ \A p \in 1 .. n : /\ segments[p] = SubSeq(s, from[p], to[p])
                           /\ from[p] \in 1 .. Len(s) /\ to[p] \in ends /\ to[p] \in 1 .. Len(s)
                           /\ from[p] <= to[p]
      /\ \A p, q \in 1 .. n : p < q <=> to[p] < to[q]
  BY <1>2, <1>5 DEF Segmented
<1>7. /\ \A i \in 1 .. Len(s) : \E p \in 1 .. n : from[p] <= i /\ i <= to[p]
      /\ \A p, q \in 1 .. n : p < q => to[p] < from[q]
  BY <1>2, <1>5, SegmentsCover
<1> HIDE DEF segments
<1>8. ASSUME NEW p \in 1 .. n
      PROVE  /\ \A y : y \in r[p].parts <=> \E i \in from[p] .. to[p] : y \in s[i].parts
             /\ r[p].significant = (s[to[p]].volume >= threshold)
  <2> DEFINE x == SubSeq(s, from[p], to[p])
  <2>1. from[p] \in 1 .. Len(s) /\ to[p] \in 1 .. Len(s) /\ from[p] <= to[p] /\ segments[p] = x
    BY <1>6
  <2>2. /\ x[Len(x)] = s[to[p]]
        /\ \A y : y \in PartsOf(x) <=> \E i \in from[p] .. to[p] : y \in s[i].parts
    <3>1. IsPart(x, s, from[p], to[p])
      BY <2>1, PartFacts
    <3> HIDE DEF x
    <3> QED BY <3>1 DEF IsPart
  <2> HIDE DEF x
  <2>3. r[p] = [uid |-> x[Len(x)].uid, significant |-> x[Len(x)].volume >= threshold,
                parts |-> PartsOf(x)]
    BY <1>4, <1>6, <2>1
  <2> QED BY <2>2, <2>3
<1>9. DOMAIN r = 1 .. n /\ Len(r) = n
  <2> DEFINE V == {r[p] : p \in 1 .. n}
  <2>1. r = [p \in 1 .. n |-> r[p]]
    BY <1>4, <1>6
  <2>2. DOMAIN r = 1 .. n
    BY <2>1
  <2>3. r \in [1 .. n -> V]
    BY <2>1
  <2> HIDE DEF V
  <2>4. Len(r) = n
    BY <1>6, <2>3, FunctionIsSeq
  <2> QED BY <2>2, <2>4
<1>10. ASSUME Apart(s), NEW p \in 1 .. n, NEW q \in 1 .. n, p # q
       PROVE  r[p].parts \cap r[q].parts = {}
  <2> SUFFICES ASSUME NEW y \in r[p].parts, y \in r[q].parts PROVE FALSE
    OBVIOUS
  <2>1. PICK i \in from[p] .. to[p] : y \in s[i].parts
    BY <1>8
  <2>2. PICK j \in from[q] .. to[q] : y \in s[j].parts
    BY <1>8
  <2>3. p < q \/ q < p
    BY <1>6, <1>10
  <2>4. /\ from[p] \in Nat /\ to[p] \in Nat /\ from[q] \in Nat /\ to[q] \in Nat
        /\ i \in 1 .. Len(s) /\ j \in 1 .. Len(s)
    <3>1. from[p] \in 1 .. Len(s) /\ to[p] \in 1 .. Len(s)
      BY <1>6
    <3>2. from[q] \in 1 .. Len(s) /\ to[q] \in 1 .. Len(s)
      BY <1>6
    <3>3. i \in 1 .. Len(s)
      BY <1>1, <3>1
    <3>4. j \in 1 .. Len(s)
      BY <1>1, <3>2
    <3> QED BY <1>1, <3>1, <3>2, <3>3, <3>4
  <2>5. to[p] < from[q] \/ to[q] < from[p]
    BY <1>7, <2>3
  <2>6. i # j
    BY <2>4, <2>5
  <2>7. s[i].parts \cap s[j].parts = {}
    BY <1>1, <1>10, <2>4, <2>6 DEF Apart
  <2> QED BY <2>1, <2>2, <2>7
<1>11. PartsOf(r) = PartsOf(s)
  <2>1. \A y : y \in PartsOf(r) <=> \E p \in 1 .. n : y \in r[p].parts
    BY <1>9 DEF PartsOf
  <2>2. \A y : y \in PartsOf(s) <=> \E i \in 1 .. Len(s) : y \in s[i].parts
    BY <1>1 DEF PartsOf
  <2>3. ASSUME NEW y \in PartsOf(r) PROVE y \in PartsOf(s)
    <3>1. PICK p \in 1 .. n : y \in r[p].parts
      BY <2>1
    <3>2. PICK i \in from[p] .. to[p] : y \in s[i].parts
      BY <1>8, <3>1
    <3>3. i \in 1 .. Len(s)
      BY <1>1, <1>6
    <3> QED BY <2>2, <3>2, <3>3
  <2>4. ASSUME NEW y \in PartsOf(s) PROVE y \in PartsOf(r)
    <3>1. PICK i \in 1 .. Len(s) : y \in s[i].parts
      BY <2>2
    <3>2. PICK p \in 1 .. n : from[p] <= i /\ i <= to[p]
      BY <1>7
    <3>3. i \in from[p] .. to[p]
      BY <1>1, <1>6, <3>2
    <3>4. y \in r[p].parts
      BY <1>8, <3>1, <3>3
    <3> QED BY <2>1, <3>4
  <2> QED BY <2>3, <2>4
<1>12. ASSUME NEW p \in 1 .. n - 1 PROVE r[p].significant
  <2>1. p \in 1 .. n /\ n \in 1 .. n /\ p < n
    BY <1>6
  <2>2. to[p] < to[n] /\ to[p] \in 1 .. Len(s) /\ to[n] \in 1 .. Len(s) /\ to[p] \in ends
    BY <1>6, <2>1
  <2>3. to[p] # Len(s)
    BY <1>1, <2>2
  <2> QED BY <1>3, <1>8, <2>1, <2>2, <2>3
<1> QED BY <1>9, <1>10, <1>11, <1>12 DEF Covers, Disjoint, r

-----------------------------------------------------------------------------
(***************************************************************************)
(* The ledger of a minute: what its row, its batch and its bucket hold of  *)
(* the aggregated stream.  A commit that is applied and reported as failed *)
(* breaks it (the row and the batch then hold the same trades), and so     *)
(* does Bitfinex, whose rows are derived from another stream.              *)
(***************************************************************************)
LedgerHolds == ~AmbiguousCommits /\ Venue # "bitfinex"

Held(r, b, k) == PartsOf(r) \cup PartsOf(b) \cup PartsOf(k)
Ledger(r, b, k) ==
  /\ Apart(r) /\ Apart(b) /\ Apart(k)
  /\ PartsOf(r) \cap PartsOf(b) = {}
  /\ PartsOf(r) \cap PartsOf(k) = {}
  /\ PartsOf(b) \cap PartsOf(k) = {}
  /\ AllExact(r) /\ AllExact(b) /\ AllExact(k)

LEMMA NothingFacts ==
  PartsOf(<< >>) = {} /\ Apart(<< >>) /\ AllExact(<< >>) /\ Coalesced(<< >>)
    /\ Covers(<< >>, << >>) /\ Disjoint(<< >>)
BY DEF PartsOf, Apart, AllExact, Coalesced, Covers, Disjoint

\* An event that is published, a flush that begins, one that is committed and
\* one that fails.
LEMMA LedgerPublish ==
  ASSUME NEW r, NEW b, NEW k \in Seq(Events), Ledger(r, b, k), NEW e \in Events,
         e.uid \in e.parts, e.parts \cap Held(r, b, k) = {}, Exact(e)
  PROVE  /\ Ledger(r, b, Insert("aggregated", k, e))
         /\ Held(r, b, Insert("aggregated", k, e)) = Held(r, b, k) \cup e.parts
<1> DEFINE k2 == Insert("aggregated", k, e)
<1>1. Apart(k) /\ e.parts \cap PartsOf(k) = {}
  BY DEF Ledger, Held
<1>2. /\ Apart(k2) /\ PartsOf(k2) = PartsOf(k) \cup e.parts
      /\ AllExact(k) /\ Exact(e) => AllExact(k2)
  BY <1>1, InsertKeeps
<1> HIDE DEF k2
<1>3. Held(r, b, k2) = Held(r, b, k) \cup e.parts
  BY <1>2 DEF Held
<1>4. Ledger(r, b, k2)
  BY <1>2 DEF Ledger, Held
<1> QED BY <1>3, <1>4 DEF k2

\* One that its bucket recognises changes nothing.
LEMMA InsertRecognised ==
  ASSUME NEW k \in Seq(Events), Apart(k), AllExact(k), NEW e \in Events, Exact(e),
         NEW i \in DOMAIN k, k[i].uid = e.uid, e.parts \subseteq k[i].parts
  PROVE  Insert("aggregated", k, e) = k
<1> DEFINE same == {j \in DOMAIN k : k[j].uid = e.uid}
<1>1. DOMAIN k = 1 .. Len(k) /\ Len(k) \in Nat /\ i \in Nat
  BY SeqFacts
<1>2. same = {i}
  BY ApartUids
<1>3. Min({i}) = i
  <2>1. {i} \in SUBSET Nat /\ i \in {i} /\ \A j \in {i} : i <= j
    BY <1>1
  <2> QED BY <2>1, MinIs
<1>4. ~(e.ticks > k[i].ticks)
  <2>1. /\ IsFiniteSet(k[i].parts) /\ k[i].ticks = Cardinality(k[i].parts)
        /\ e.ticks = Cardinality(e.parts)
    BY DEF AllExact, Exact
  <2>2. IsFiniteSet(e.parts) /\ Cardinality(e.parts) <= Cardinality(k[i].parts)
    BY <2>1, FS_Subset
  <2>3. Cardinality(e.parts) \in Nat /\ Cardinality(k[i].parts) \in Nat
    BY <2>1, <2>2, FS_CardinalityType
  <2> QED BY <2>1, <2>2, <2>3
<1> QED BY <1>2, <1>3, <1>4 DEF Insert

LEMMA LedgerDetach ==
  ASSUME NEW r, NEW k, Ledger(r, << >>, k)
  PROVE  Ledger(r, k, << >>) /\ Held(r, k, << >>) = Held(r, << >>, k)
BY NothingFacts DEF Ledger, Held

LEMMA LedgerRestore ==
  ASSUME NEW r, NEW b \in Seq(Events), NEW k \in Seq(Events), Ledger(r, b, k)
  PROVE  /\ Ledger(r, << >>, Merge("aggregated", b, k))
         /\ Held(r, << >>, Merge("aggregated", b, k)) = Held(r, b, k)
<1> DEFINE k2 == Merge("aggregated", b, k)
<1>1. Apart(b) /\ Apart(k) /\ PartsOf(b) \cap PartsOf(k) = {}
  BY DEF Ledger
<1>2. /\ Apart(k2) /\ PartsOf(k2) = PartsOf(b) \cup PartsOf(k)
      /\ AllExact(b) /\ AllExact(k) => AllExact(k2)
  BY <1>1, MergeKeeps
<1> HIDE DEF k2
<1>3. Held(r, << >>, k2) = Held(r, b, k)
  BY <1>2, NothingFacts DEF Held
<1>4. Ledger(r, << >>, k2)
  BY <1>2, NothingFacts DEF Ledger
<1> QED BY <1>3, <1>4 DEF k2

LEMMA LedgerCommit ==
  ASSUME NEW r, NEW b, NEW k, Ledger(r, b, k), NEW r2,
         Apart(r2), PartsOf(r2) = PartsOf(r) \cup PartsOf(b),
         AllExact(r) /\ AllExact(b) => AllExact(r2)
  PROVE  Ledger(r2, << >>, k) /\ Held(r2, << >>, k) = Held(r, b, k)
<1>1. Held(r2, << >>, k) = Held(r, b, k)
  BY NothingFacts DEF Held
<1>2. Ledger(r2, << >>, k)
  BY NothingFacts DEF Ledger
<1> QED BY <1>1, <1>2

\* A row: no two neighbours are one sample, and the filtered trades cover it.
Sound(row) == Coalesced(row.aggregated) /\ Covers(row.filtered, row.aggregated)

LEMMA MergedRowIsSound ==
  ASSUME NEW row, row.raw \in Seq(Events), row.aggregated \in Seq(Events),
         NEW bucket, bucket.raw \in Seq(Events), bucket.aggregated \in Seq(Events)
  PROVE  Sound(MergedRow(row, bucket))
<1> DEFINE raw == Canonical("raw", Merge("raw", row.raw, bucket.raw))
           merged == Canonical("aggregated",
                               Merge("aggregated", row.aggregated, bucket.aggregated))
           source == IF Venue = "bitfinex" /\ raw # << >> THEN raw ELSE merged
           agg == AggregateTradeEvents(source)
<1>1. source \in Seq(Events)
  <2>1. raw \in Seq(Events)
    BY MergeType, CanonicalType
  <2>2. merged \in Seq(Events)
    BY MergeType, CanonicalType
  <2> HIDE DEF raw, merged
  <2> QED BY <2>1, <2>2
<1>2. MergedRow(row, bucket) =
        [raw |-> raw, aggregated |-> agg, filtered |-> FilterTrades(agg, Threshold)]
  BY DEF MergedRow, Derive
<1> HIDE DEF source, raw
<1>3. agg \in Seq(Events) /\ Coalesced(agg)
  BY <1>1, AggregateEventsType, AggregateEventsKeep
<1> HIDE DEF agg
<1>4. Covers(FilterTrades(agg, Threshold), agg)
  BY <1>3, FilterCovers
<1> QED BY <1>2, <1>3, <1>4 DEF Sound

LEMMA MergedRowKeeps ==
  ASSUME Venue # "bitfinex",
         NEW row, row.raw \in Seq(Events), row.aggregated \in Seq(Events),
         NEW bucket, bucket.raw \in Seq(Events), bucket.aggregated \in Seq(Events),
         Apart(row.aggregated), Apart(bucket.aggregated),
         PartsOf(row.aggregated) \cap PartsOf(bucket.aggregated) = {}
  PROVE  /\ Disjoint(MergedRow(row, bucket).filtered) /\ Apart(MergedRow(row, bucket).aggregated)
         /\ PartsOf(MergedRow(row, bucket).aggregated)
              = PartsOf(row.aggregated) \cup PartsOf(bucket.aggregated)
         /\ AllExact(row.aggregated) /\ AllExact(bucket.aggregated)
              => AllExact(MergedRow(row, bucket).aggregated)
<1> DEFINE raw == Merge("raw", row.raw, bucket.raw)
           merged == Merge("aggregated", row.aggregated, bucket.aggregated)
           source == Canonical("aggregated", merged)
           agg == AggregateTradeEvents(source)
<1>1. /\ merged \in Seq(Events) /\ Apart(merged)
      /\ PartsOf(merged) = PartsOf(row.aggregated) \cup PartsOf(bucket.aggregated)
      /\ AllExact(row.aggregated) /\ AllExact(bucket.aggregated) => AllExact(merged)
  BY MergeType, MergeKeeps
<1>2. MergedRow(row, bucket) =
        [raw |-> Canonical("raw", raw), aggregated |-> agg,
         filtered |-> FilterTrades(agg, Threshold)]
  BY DEF MergedRow, Derive
<1> HIDE DEF merged
<1>3. source \in Seq(Events) /\ Keeps(merged, source)
  BY <1>1, CanonicalType, CanonicalKeeps
<1> HIDE DEF source
<1>4. agg \in Seq(Events) /\ Keeps(source, agg)
  BY <1>3, AggregateEventsType, AggregateEventsKeep DEF Keeps
<1> HIDE DEF agg, raw
<1>5. Disjoint(FilterTrades(agg, Threshold))
  BY <1>4, FilterCovers DEF Keeps
<1>6. Keeps(merged, agg)
  BY <1>3, <1>4, KeepsTrans
<1>7. MergedRow(row, bucket).aggregated = agg
      /\ MergedRow(row, bucket).filtered = FilterTrades(agg, Threshold)
  BY <1>2
<1> QED BY <1>1, <1>5, <1>6, <1>7 DEF Keeps

-----------------------------------------------------------------------------
(***************************************************************************)
(* Every row is sound: it is empty, or what the derivation has made of     *)
(* whatever was read and flushed.                                          *)
(***************************************************************************)
RowsSound == \A m \in Minutes : Sound(rows[m])

LEMMA InitRowsSound == Init => RowsSound
<1> SUFFICES ASSUME Init, NEW m \in Minutes PROVE Sound(rows[m])
  BY DEF RowsSound
<1>1. rows[m] = EmptyRow
  BY DEF Init, NoRows
<1> QED BY <1>1, NothingFacts DEF Sound, EmptyRow

LEMMA NextRowsSound == IInv /\ RowsSound /\ [Next]_vars => RowsSound'
<1> SUFFICES ASSUME IInv, RowsSound, [Next]_vars PROVE RowsSound'
  OBVIOUS
<1>1. rows' = rows \/ rows' = Written
  BY DEF Next, FlushStep, Publish, Flush, FlushBefore, Detach, ReadExisting, Commit, Restore,
         Fail, CommitUnacknowledged, Crash, MinutePasses, vars
<1>2. CASE rows' = Written
  <2> SUFFICES ASSUME NEW m \in Minutes PROVE Sound(Written[m])
    BY <1>2 DEF RowsSound
  <2>1. \/ Written[m] = EmptyRow
        \/ Written[m] = rows[m]
        \/ Written[m] = MergedRow(existing[m], batch[m])
    BY DEF Written
  <2>2. Sound(EmptyRow)
    BY NothingFacts DEF Sound, EmptyRow
  <2>3. Sound(MergedRow(existing[m], batch[m]))
    BY TypedFacts, MergedRowIsSound DEF IInv
  <2> QED BY <2>1, <2>2, <2>3 DEF RowsSound
<1> QED BY <1>1, <1>2 DEF RowsSound

\* On every venue, and whatever is replayed, fails or is committed twice, a row
\* is as if derived at once from all its trades.
THEOREM RowsCoherent == Spec => []RowIsCoherent
<1>1. Init => RowsSound
  BY InitRowsSound
<1>2. IInv /\ RowsSound /\ [Next]_vars => RowsSound'
  BY NextRowsSound
<1>3. RowsSound => RowIsCoherent
  BY DEF RowsSound, Sound, Coalesced, Covers, RowIsCoherent
<1> QED BY <1>1, <1>2, <1>3, Invariance, PTL DEF Spec

-----------------------------------------------------------------------------
(***************************************************************************)
(* The invariant of the aggregated stream: of the minutes that were given  *)
(* no aggregated trade twice.                                              *)
(***************************************************************************)
HeldOf(m) == Held(rows[m].aggregated, batch[m].aggregated, buckets[m].aggregated)
Ledgers ==
  \A m \in Minutes \ replayed :
    Ledger(rows[m].aggregated, batch[m].aggregated, buckets[m].aggregated)
AggregatedIsAccepted ==
  \A m \in Minutes \ replayed :
    /\ HeldOf(m) \subseteq PartsOf(accepted[m].aggregated)
    /\ ~IsExpired(m) => PartsOf(accepted[m].aggregated) \subseteq HeldOf(m)
FilteredDisjoint == \A m \in Minutes \ replayed : Disjoint(rows[m].filtered)
AggregatedReadIsCurrent ==
  step = "read" =>
    \A m \in Minutes : batch[m] # EmptyBucket => existing[m].aggregated = rows[m].aggregated

AInv == Ledgers /\ AggregatedIsAccepted /\ FilteredDisjoint /\ AggregatedReadIsCurrent

LEMMA InitAInv == Init => AInv
<1> SUFFICES ASSUME Init PROVE AInv
  OBVIOUS
<1>1. /\ buckets = NoBuckets /\ batch = NoBuckets /\ accepted = NoBuckets
      /\ existing = NoRows /\ rows = NoRows /\ step = "idle"
  BY DEF Init
<1>2. \A m \in Minutes :
        /\ rows[m].aggregated = << >> /\ rows[m].filtered = << >>
        /\ batch[m].aggregated = << >> /\ buckets[m].aggregated = << >>
        /\ accepted[m].aggregated = << >>
  BY <1>1 DEF NoBuckets, NoRows, EmptyBucket, EmptyRow
<1>3. Ledgers
  BY <1>2, NothingFacts DEF Ledgers, Ledger
<1>4. AggregatedIsAccepted
  BY <1>2, NothingFacts DEF AggregatedIsAccepted, HeldOf, Held
<1>5. FilteredDisjoint
  BY <1>2, NothingFacts DEF FilteredDisjoint
<1> QED BY <1>1, <1>3, <1>4, <1>5 DEF AInv, AggregatedReadIsCurrent

LEMMA PartVolumeUnits == \A P : PartVolume(P) = Cardinality(UnitsOf(P))
<1> SUFFICES ASSUME NEW P PROVE PartVolume(P) = Cardinality(UnitsOf(P))
  OBVIOUS
<1> DEFINE f == [u \in P |-> Volumes[u]]
<1>1. PartVolume(P) = Cardinality(UNION {{u} \X (1 .. f[u]) : u \in P})
  BY DEF PartVolume, Total
<1>2. {{u} \X (1 .. f[u]) : u \in P} = {{u} \X (1 .. Volumes[u]) : u \in P}
  OBVIOUS
<1> QED BY <1>1, <1>2 DEF UnitsOf

\* The units of a finite set of trades are as many as its volume.
LEMMA UnitsCount ==
  ASSUME NEW P, IsFiniteSet(P), P \subseteq DOMAIN Volumes
  PROVE  IsFiniteSet(UnitsOf(P)) /\ PartVolume(P) = Cardinality(UnitsOf(P))
<1> DEFINE units(u) == {u} \X (1 .. Volumes[u])
           family == {units(u) : u \in P}
           h == [u \in P |-> units(u)]
<1>1. ASSUME NEW u \in P PROVE IsFiniteSet(units(u))
  <2>1. Volumes[u] \in Nat
    BY BufferAssumption
  <2>2. IsFiniteSet({u}) /\ IsFiniteSet(1 .. Volumes[u])
    BY <2>1, FS_Singleton, CountUpTo
  <2> QED BY <2>2, FS_Product
<1>2. h \in Surjection(P, family)
  BY DEF Surjection
<1>3. \A T \in family : IsFiniteSet(T)
  BY <1>1
<1>4. UnitsOf(P) = UNION family
  BY DEF UnitsOf
<1>5. PartVolume(P) = Cardinality(UnitsOf(P))
  BY PartVolumeUnits
<1> HIDE DEF h, family
<1>6. IsFiniteSet(family)
  BY <1>2, FS_Surjection
<1> QED BY <1>3, <1>4, <1>5, <1>6, FS_UNION

\* An event that may be published is exact.
LEMMA PublishedIsExact ==
  ASSUME NEW t \in Trades.aggregated, "aggregated" \in Streams
  PROVE  /\ t \in Events /\ t.uid \in t.parts /\ Exact(t)
<1>1. /\ t \in Events /\ t.uid \in t.parts
      /\ IsFiniteSet(t.parts) /\ t.parts \subseteq DOMAIN Volumes
      /\ t.ticks = Cardinality(t.parts) /\ t.volume = PartVolume(t.parts)
  BY BufferAssumption
<1> QED BY <1>1, UnitsCount DEF Exact

LEMMA PublishAInv ==
  ASSUME IInv, AInv, NEW stream \in Streams, NEW trade \in Trades[stream], Publish(stream, trade)
  PROVE  AInv'
<1> DEFINE m == MinuteOf(trade.time)
           k == buckets[m].aggregated
           k2 == Insert("aggregated", k, trade)
           a == accepted[m].aggregated
           a2 == Append(a, trade)
<1>1. m \in Minutes /\ trade \in Events /\ stream \in {"raw", "aggregated"}
  BY BufferAssumption
<1>2. /\ buckets' = [buckets EXCEPT ![m][stream] = Insert(stream, buckets[m][stream], trade)]
      /\ accepted' = [accepted EXCEPT ![m][stream] = Append(accepted[m][stream], trade)]
      /\ replayed \subseteq replayed'
      /\ stream = "aggregated" /\ m \notin replayed' => ~IsReplay(m, trade)
      /\ UNCHANGED <<batch, existing, step, rows, clock>>
  BY DEF Publish, flushVars
<1>3. Typed /\ Ledgers /\ AggregatedIsAccepted /\ FilteredDisjoint /\ AggregatedReadIsCurrent
  BY DEF IInv, AInv
<1>4. buckets \in [Minutes -> BucketSet] /\ accepted \in [Minutes -> BucketSet]
      /\ k \in Seq(Events) /\ a \in Seq(Events)
  BY <1>1, <1>3, TypedFacts
<1>5. \A n \in Minutes :
        \/ /\ n = m /\ stream = "aggregated"
           /\ buckets'[n].aggregated = k2 /\ accepted'[n].aggregated = a2
        \/ /\ buckets'[n].aggregated = buckets[n].aggregated
           /\ accepted'[n].aggregated = accepted[n].aggregated
  <2>1. CASE stream = "raw"
    BY <1>1, <1>2, <1>4, <2>1 DEF BucketSet
  <2>2. CASE stream = "aggregated"
    BY <1>1, <1>2, <1>4, <2>2 DEF BucketSet
  <2> QED BY <1>1, <2>1, <2>2
<1> HIDE DEF k2, a2
<1>6. ASSUME stream = "aggregated", m \notin replayed'
      PROVE  /\ Ledger(rows[m].aggregated, batch[m].aggregated, k2)
             /\ Held(rows[m].aggregated, batch[m].aggregated, k2) = HeldOf(m) \cup trade.parts
             /\ PartsOf(a2) = PartsOf(a) \cup trade.parts
  <2>1. trade.uid \in trade.parts /\ Exact(trade)
    BY <1>6, PublishedIsExact
  <2>2. m \notin replayed
    BY <1>2, <1>6
  <2>3. Ledger(rows[m].aggregated, batch[m].aggregated, k)
    BY <1>1, <1>3, <2>2 DEF Ledgers
  <2>4. /\ Ledger(rows[m].aggregated, batch[m].aggregated, k2)
        /\ Held(rows[m].aggregated, batch[m].aggregated, k2) = HeldOf(m) \cup trade.parts
    <3>1. CASE trade.parts \cap PartsOf(a) = {}
      <4>1. trade.parts \cap HeldOf(m) = {}
        BY <1>1, <1>3, <2>2, <3>1 DEF AggregatedIsAccepted
      <4> QED BY <1>1, <1>4, <2>1, <2>3, <4>1, LedgerPublish DEF k2, HeldOf
    <3>2. CASE Recognised(m, trade)
      <4>1. PICK i \in DOMAIN k : k[i].uid = trade.uid /\ trade.parts \subseteq k[i].parts
        BY <3>2 DEF Recognised
      <4>2. Apart(k) /\ AllExact(k)
        BY <2>3 DEF Ledger
      <4>3. k2 = k
        BY <1>1, <1>4, <2>1, <4>1, <4>2, InsertRecognised DEF k2
      <4>4. trade.parts \subseteq PartsOf(k)
        BY <4>1 DEF PartsOf
      <4> QED BY <2>3, <4>3, <4>4 DEF Held, HeldOf
    <3> QED BY <1>2, <1>6, <3>1, <3>2 DEF IsReplay
  <2>5. PartsOf(a2) = PartsOf(a) \cup trade.parts
    <3>1. a2 = a \o <<trade>> /\ <<trade>> \in Seq(Events)
      BY <1>1, <1>4, AppendIsConcat DEF a2
    <3>2. PartsOf(<<trade>>) = trade.parts
      BY DEF PartsOf
    <3> HIDE DEF a, m
    <3>3. PartsOf(a \o <<trade>>) = PartsOf(a) \cup PartsOf(<<trade>>)
      BY <1>4, <3>1, ApartConcat
    <3> QED BY <3>1, <3>2, <3>3
  <2> QED BY <2>4, <2>5
<1> HIDE DEF m
<1>7. Ledgers'
  <2> SUFFICES ASSUME NEW n \in Minutes \ replayed'
               PROVE  Ledger(rows[n].aggregated, batch[n].aggregated, buckets'[n].aggregated)
    BY <1>2 DEF Ledgers
  <2>1. Ledger(rows[n].aggregated, batch[n].aggregated, buckets[n].aggregated)
    BY <1>2, <1>3 DEF Ledgers
  <2> QED BY <1>5, <1>6, <2>1
<1>8. AggregatedIsAccepted'
  <2> SUFFICES ASSUME NEW n \in Minutes \ replayed'
               PROVE  LET h == Held(rows[n].aggregated, batch[n].aggregated, buckets'[n].aggregated)
                      IN  /\ h \subseteq PartsOf(accepted'[n].aggregated)
                          /\ ~IsExpired(n) => PartsOf(accepted'[n].aggregated) \subseteq h
    BY <1>2 DEF AggregatedIsAccepted, HeldOf, IsExpired
  <2>1. /\ HeldOf(n) \subseteq PartsOf(accepted[n].aggregated)
        /\ ~IsExpired(n) => PartsOf(accepted[n].aggregated) \subseteq HeldOf(n)
    BY <1>2, <1>3 DEF AggregatedIsAccepted
  <2>2. CASE /\ buckets'[n].aggregated = buckets[n].aggregated
             /\ accepted'[n].aggregated = accepted[n].aggregated
    BY <2>1, <2>2 DEF HeldOf
  <2>3. CASE /\ n = m /\ stream = "aggregated"
             /\ buckets'[n].aggregated = k2 /\ accepted'[n].aggregated = a2
    <3>1. /\ Held(rows[n].aggregated, batch[n].aggregated, k2) = HeldOf(n) \cup trade.parts
          /\ PartsOf(a2) = PartsOf(accepted[n].aggregated) \cup trade.parts
      BY <1>6, <2>3
    <3> QED BY <2>1, <2>3, <3>1
  <2> QED BY <1>5, <2>2, <2>3
<1>9. FilteredDisjoint' /\ AggregatedReadIsCurrent'
  BY <1>2, <1>3 DEF FilteredDisjoint, AggregatedReadIsCurrent
<1> QED BY <1>7, <1>8, <1>9 DEF AInv

LEMMA DetachAInv ==
  ASSUME IInv, AInv, NEW f \in Flushers, NEW minutes, Detach(f, minutes)
  PROVE  AInv'
<1>1. /\ flusher = NoFlusher /\ step' = "detached"
      /\ batch' = [m \in Minutes |-> IF m \in minutes THEN buckets[m] ELSE EmptyBucket]
      /\ buckets' = [m \in Minutes |-> IF m \in minutes THEN EmptyBucket ELSE buckets[m]]
      /\ UNCHANGED <<existing, rows, clock, accepted, replayed>>
  BY DEF Detach, ghosts
<1>2. Typed /\ BatchIsHeld /\ Ledgers /\ AggregatedIsAccepted /\ FilteredDisjoint
  BY DEF IInv, AInv
<1>3. \A m \in Minutes : batch[m].aggregated = << >>
  BY <1>1, <1>2, EmptyBucketFacts DEF Typed, TypeOK, BatchIsHeld, NoBuckets
<1>4. ASSUME NEW m \in Minutes \ replayed
      PROVE  /\ Ledger(rows[m].aggregated, batch'[m].aggregated, buckets'[m].aggregated)
             /\ Held(rows[m].aggregated, batch'[m].aggregated, buckets'[m].aggregated) = HeldOf(m)
  <2>1. Ledger(rows[m].aggregated, << >>, buckets[m].aggregated)
    BY <1>2, <1>3 DEF Ledgers
  <2>2. HeldOf(m) = Held(rows[m].aggregated, << >>, buckets[m].aggregated)
    BY <1>3 DEF HeldOf
  <2>3. CASE m \in minutes
    <3>1. batch'[m].aggregated = buckets[m].aggregated /\ buckets'[m].aggregated = << >>
      BY <1>1, <2>3, EmptyBucketFacts
    <3> QED BY <2>1, <2>2, <3>1, LedgerDetach
  <2>4. CASE m \notin minutes
    <3>1. batch'[m].aggregated = << >> /\ buckets'[m].aggregated = buckets[m].aggregated
      BY <1>1, <2>4, EmptyBucketFacts
    <3> QED BY <2>1, <2>2, <3>1
  <2> QED BY <2>3, <2>4
<1>5. Ledgers'
  BY <1>1, <1>4 DEF Ledgers
<1>6. AggregatedIsAccepted'
  <2>1. \A m \in Minutes \ replayed : HeldOf(m)' = HeldOf(m)
    BY <1>1, <1>4 DEF HeldOf
  <2> QED BY <1>1, <1>2, <2>1 DEF AggregatedIsAccepted, IsExpired
<1>7. FilteredDisjoint' /\ AggregatedReadIsCurrent'
  BY <1>1, <1>2 DEF FilteredDisjoint, AggregatedReadIsCurrent
<1> QED BY <1>5, <1>6, <1>7 DEF AInv

LEMMA ReadAInv ==
  ASSUME AInv, ReadExisting
  PROVE  AInv'
<1>1. /\ existing' = [m \in Minutes |-> IF batch[m] = EmptyBucket THEN EmptyRow ELSE rows[m]]
      /\ UNCHANGED <<buckets, batch, rows, clock, accepted, replayed>>
  BY DEF ReadExisting, bufferVars, ghosts
<1>2. Ledgers' /\ AggregatedIsAccepted' /\ FilteredDisjoint'
  BY <1>1 DEF AInv, Ledgers, AggregatedIsAccepted, HeldOf, IsExpired, FilteredDisjoint
<1>3. AggregatedReadIsCurrent'
  BY <1>1 DEF AggregatedReadIsCurrent
<1> QED BY <1>2, <1>3 DEF AInv

LEMMA UnlockedAggregated ==
  ASSUME Unlock
  PROVE  step' = "idle" /\ \A m \in Minutes : batch'[m].aggregated = << >>
BY EmptyBucketFacts DEF Unlock, NoBuckets

LEMMA CommitAInv ==
  ASSUME LedgerHolds, IInv, AInv, Commit
  PROVE  AInv'
<1>1. step = "read" /\ rows' = Written /\ Unlock /\ UNCHANGED <<buckets, clock, accepted, replayed>>
  BY DEF Commit, ghosts
<1>2. Typed /\ Ledgers /\ AggregatedIsAccepted /\ FilteredDisjoint /\ AggregatedReadIsCurrent
  BY DEF IInv, AInv
<1>3. step' = "idle" /\ \A m \in Minutes : batch'[m].aggregated = << >>
  BY <1>1, UnlockedAggregated
<1>4. ASSUME NEW m \in Minutes \ replayed
      PROVE  /\ Ledger(Written[m].aggregated, << >>, buckets[m].aggregated)
             /\ Held(Written[m].aggregated, << >>, buckets[m].aggregated) \subseteq HeldOf(m)
             /\ ~IsExpired(m) =>
                  HeldOf(m) \subseteq Held(Written[m].aggregated, << >>, buckets[m].aggregated)
             /\ Disjoint(Written[m].filtered)
  <2> DEFINE r == rows[m].aggregated
             b == batch[m].aggregated
             k == buckets[m].aggregated
  <2>1. Ledger(r, b, k) /\ HeldOf(m) = Held(r, b, k)
    BY <1>2 DEF Ledgers, HeldOf
  <2>2. Written[m] = IF IsExpired(m) THEN EmptyRow
                     ELSE IF batch[m] = EmptyBucket THEN rows[m]
                     ELSE MergedRow(existing[m], batch[m])
    BY DEF Written
  <2>3. CASE IsExpired(m)
    <3>1. Written[m] = EmptyRow /\ Written[m].aggregated = << >>
      BY <2>2, <2>3, EmptyBucketFacts
    <3>2. EmptyRow.aggregated = << >> /\ EmptyRow.filtered = << >>
      BY DEF EmptyRow
    <3>3. Disjoint(EmptyRow.filtered)
      BY <3>2, NothingFacts
    <3>4. Ledger(<< >>, << >>, k) /\ Held(<< >>, << >>, k) \subseteq Held(r, b, k)
      BY <2>1, NothingFacts DEF Ledger, Held
    <3> QED BY <2>1, <2>3, <3>1, <3>3, <3>4
  <2>4. CASE ~IsExpired(m) /\ batch[m] = EmptyBucket
    <3>1. Written[m] = rows[m] /\ b = << >>
      BY <2>2, <2>4, EmptyBucketFacts
    <3>2. Disjoint(rows[m].filtered)
      BY <1>2 DEF FilteredDisjoint
    <3> QED BY <2>1, <3>1, <3>2
  <2>5. CASE ~IsExpired(m) /\ batch[m] # EmptyBucket
    <3> DEFINE w == MergedRow(existing[m], batch[m])
    <3>1. Written[m] = w /\ existing[m].aggregated = r
      BY <1>1, <1>2, <2>2, <2>5 DEF AggregatedReadIsCurrent
    <3>2. /\ batch[m].raw \in Seq(Events) /\ batch[m].aggregated \in Seq(Events)
          /\ existing[m].raw \in Seq(Events) /\ existing[m].aggregated \in Seq(Events)
      BY <1>2, TypedFacts
    <3>3. Apart(existing[m].aggregated) /\ Apart(b) /\ PartsOf(existing[m].aggregated) \cap PartsOf(b) = {}
      BY <2>1, <3>1 DEF Ledger
    <3>4. /\ Disjoint(w.filtered) /\ Apart(w.aggregated)
          /\ PartsOf(w.aggregated) = PartsOf(existing[m].aggregated) \cup PartsOf(b)
          /\ AllExact(existing[m].aggregated) /\ AllExact(b) => AllExact(w.aggregated)
      BY <3>2, <3>3, MergedRowKeeps DEF LedgerHolds
    <3> HIDE DEF w, r, b, k
    <3>5. Ledger(w.aggregated, << >>, k) /\ Held(w.aggregated, << >>, k) = Held(r, b, k)
      BY <2>1, <3>1, <3>4, LedgerCommit
    <3> QED BY <2>1, <3>1, <3>4, <3>5 DEF k
  <2> QED BY <2>3, <2>4, <2>5
<1>5. Ledgers'
  BY <1>1, <1>3, <1>4 DEF Ledgers
<1>6. AggregatedIsAccepted'
  <2>1. ASSUME NEW m \in Minutes
        PROVE  HeldOf(m)' = Held(Written[m].aggregated, << >>, buckets[m].aggregated)
    BY <1>1, <1>3 DEF HeldOf
  <2> QED BY <1>1, <1>2, <1>4, <2>1 DEF AggregatedIsAccepted, IsExpired
<1>7. FilteredDisjoint'
  BY <1>1, <1>4 DEF FilteredDisjoint
<1>8. AggregatedReadIsCurrent'
  BY <1>3 DEF AggregatedReadIsCurrent
<1> QED BY <1>5, <1>6, <1>7, <1>8 DEF AInv

LEMMA RestoreAInv ==
  ASSUME IInv, AInv, Restore
  PROVE  AInv'
<1> DEFINE both(m) == [s \in DOMAIN EmptyBucket |-> Merge(s, batch[m][s], buckets[m][s])]
<1>1. /\ Unlock
      /\ buckets' = [m \in Minutes |-> IF batch[m] = EmptyBucket THEN buckets[m] ELSE both(m)]
      /\ UNCHANGED <<rows, clock, accepted, replayed>>
  BY DEF Restore, ghosts
<1>2. Typed /\ Ledgers /\ AggregatedIsAccepted /\ FilteredDisjoint
  BY DEF IInv, AInv
<1>3. step' = "idle" /\ \A m \in Minutes : batch'[m].aggregated = << >>
  BY <1>1, UnlockedAggregated
<1>4. \A m \in Minutes :
        both(m).aggregated = Merge("aggregated", batch[m].aggregated, buckets[m].aggregated)
  BY EmptyBucketFacts
<1> HIDE DEF both
<1>5. ASSUME NEW m \in Minutes \ replayed
      PROVE  /\ Ledger(rows[m].aggregated, << >>, buckets'[m].aggregated)
             /\ Held(rows[m].aggregated, << >>, buckets'[m].aggregated) = HeldOf(m)
  <2>1. /\ Ledger(rows[m].aggregated, batch[m].aggregated, buckets[m].aggregated)
        /\ HeldOf(m) = Held(rows[m].aggregated, batch[m].aggregated, buckets[m].aggregated)
    BY <1>2 DEF Ledgers, HeldOf
  <2>2. batch[m].aggregated \in Seq(Events) /\ buckets[m].aggregated \in Seq(Events)
    BY <1>2, TypedFacts
  <2>3. CASE batch[m] = EmptyBucket
    <3>1. batch[m].aggregated = << >> /\ buckets'[m] = buckets[m]
      BY <1>1, <2>3, EmptyBucketFacts
    <3> QED BY <2>1, <3>1
  <2>4. CASE batch[m] # EmptyBucket
    <3>1. buckets'[m].aggregated = Merge("aggregated", batch[m].aggregated, buckets[m].aggregated)
      BY <1>1, <1>4, <2>4
    <3> QED BY <2>1, <2>2, <3>1, LedgerRestore
  <2> QED BY <2>3, <2>4
<1>6. Ledgers'
  BY <1>1, <1>3, <1>5 DEF Ledgers
<1>7. AggregatedIsAccepted'
  <2>1. ASSUME NEW m \in Minutes \ replayed PROVE HeldOf(m)' = HeldOf(m)
    BY <1>1, <1>3, <1>5 DEF HeldOf
  <2> QED BY <1>1, <1>2, <2>1 DEF AggregatedIsAccepted, IsExpired
<1>8. FilteredDisjoint' /\ AggregatedReadIsCurrent'
  BY <1>1, <1>2, <1>3 DEF FilteredDisjoint, AggregatedReadIsCurrent
<1> QED BY <1>6, <1>7, <1>8 DEF AInv

LEMMA CrashAInv ==
  ASSUME AInv, Crash
  PROVE  AInv'
<1> DEFINE kept(m) == [s \in DOMAIN EmptyBucket |-> rows[m][s]]
<1>1. /\ Unlock /\ buckets' = NoBuckets
      /\ accepted' = [m \in Minutes |-> kept(m)]
      /\ UNCHANGED <<rows, clock, replayed>>
  BY DEF Crash
<1>2. Ledgers /\ FilteredDisjoint
  BY DEF AInv
<1>3. step' = "idle" /\ \A m \in Minutes : batch'[m].aggregated = << >>
  BY <1>1, UnlockedAggregated
<1>4. \A m \in Minutes : kept(m).aggregated = rows[m].aggregated
  BY EmptyBucketFacts
<1> HIDE DEF kept
<1>5. \A m \in Minutes : /\ accepted'[m].aggregated = rows[m].aggregated
                         /\ buckets'[m].aggregated = << >>
  BY <1>1, <1>4, EmptyBucketFacts DEF NoBuckets
<1>6. ASSUME NEW m \in Minutes \ replayed
      PROVE  /\ Ledger(rows[m].aggregated, << >>, << >>)
             /\ Held(rows[m].aggregated, << >>, << >>) = PartsOf(rows[m].aggregated)
  <2>1. Ledger(rows[m].aggregated, batch[m].aggregated, buckets[m].aggregated)
    BY <1>2 DEF Ledgers
  <2> QED BY <2>1, NothingFacts DEF Ledger, Held
<1>7. Ledgers'
  BY <1>1, <1>3, <1>5, <1>6 DEF Ledgers
<1>8. AggregatedIsAccepted'
  <2>1. ASSUME NEW m \in Minutes \ replayed PROVE HeldOf(m)' = PartsOf(rows[m].aggregated)
    BY <1>1, <1>3, <1>5, <1>6 DEF HeldOf
  <2> QED BY <1>1, <1>5, <2>1 DEF AggregatedIsAccepted
<1>9. FilteredDisjoint' /\ AggregatedReadIsCurrent'
  BY <1>1, <1>2, <1>3 DEF FilteredDisjoint, AggregatedReadIsCurrent
<1> QED BY <1>7, <1>8, <1>9 DEF AInv

LEMMA MinutePassesAInv ==
  ASSUME IInv, AInv, MinutePasses
  PROVE  AInv'
<1>1. /\ clock' = clock + 1
      /\ UNCHANGED <<buckets, batch, existing, step, rows, accepted, replayed>>
  BY DEF MinutePasses, bufferVars, flushVars, ghosts
<1>2. Typed /\ Ledgers /\ AggregatedIsAccepted /\ FilteredDisjoint /\ AggregatedReadIsCurrent
  BY DEF IInv, AInv
<1>3. \A m \in Minutes : IsExpired(m) => IsExpired(m)'
  <2> SUFFICES ASSUME NEW m \in Minutes, m < clock - Retention
               PROVE  m < (clock + 1) - Retention
    BY <1>1 DEF IsExpired
  <2>1. m \in Int /\ Retention \in Int /\ clock \in Nat
    BY <1>2, BufferAssumption DEF Minutes, Typed
  <2> QED BY <2>1
<1>4. AggregatedIsAccepted'
  <2>1. \A m \in Minutes : HeldOf(m)' = HeldOf(m)
    BY <1>1 DEF HeldOf
  <2> QED BY <1>1, <1>2, <1>3, <2>1 DEF AggregatedIsAccepted
<1> QED BY <1>1, <1>2, <1>4 DEF AInv, Ledgers, FilteredDisjoint, AggregatedReadIsCurrent

LEMMA NextAInv ==
  ASSUME LedgerHolds
  PROVE  IInv /\ AInv /\ [Next]_vars => AInv'
<1> SUFFICES ASSUME IInv, AInv, [Next]_vars PROVE AInv'
  OBVIOUS
<1>1. ASSUME NEW stream \in Streams, NEW trade \in Trades[stream], Publish(stream, trade)
      PROVE  AInv'
  BY <1>1, PublishAInv
<1>2. ASSUME NEW f \in Flushers, Flush(f) PROVE AInv'
  BY <1>2, DetachAInv DEF Flush
<1>3. ASSUME NEW f \in Flushers, NEW boundary \in Minutes, FlushBefore(f, boundary) PROVE AInv'
  BY <1>3, DetachAInv DEF FlushBefore
<1>4. CASE ReadExisting
  BY <1>4, ReadAInv
<1>5. CASE Commit
  BY <1>5, CommitAInv
<1>6. CASE Restore
  BY <1>6, RestoreAInv
<1>7. ASSUME UNCHANGED <<rows, batch, buckets, accepted, replayed, existing, clock>>,
             step' = step \/ step' = "failed"
      PROVE  AInv'
  BY <1>7 DEF AInv, Ledgers, AggregatedIsAccepted, HeldOf, IsExpired, FilteredDisjoint,
              AggregatedReadIsCurrent
<1>8. CASE Fail
  BY <1>7, <1>8 DEF Fail, bufferVars, ghosts
<1>9. CASE CommitUnacknowledged
  BY <1>9 DEF CommitUnacknowledged, LedgerHolds
<1>10. CASE Crash
  BY <1>10, CrashAInv
<1>11. CASE MinutePasses
  BY <1>11, MinutePassesAInv
<1>12. CASE UNCHANGED vars
  BY <1>7, <1>12 DEF vars, bufferVars, flushVars, ghosts
<1> QED
  BY <1>1, <1>2, <1>3, <1>4, <1>5, <1>6, <1>8, <1>9, <1>10, <1>11, <1>12 DEF Next, FlushStep

\* The invariant of the aggregated stream, where no commit is both applied and
\* reported as failed, and on venues other than Bitfinex.
THEOREM AggregatedInvariance ==
  ASSUME LedgerHolds
  PROVE  Spec => []AInv
<1>1. Init => AInv
  BY InitAInv
<1>2. IInv /\ AInv /\ [Next]_vars => AInv'
  BY NextAInv
<1> QED BY <1>1, <1>2, Invariance, PTL DEF Spec

\* Where no commit is applied and reported as failed, and on venues other than
\* Bitfinex, no trade that was accepted on either stream is lost, whatever is
\* published, flushed, restored and coalesced at the same time (of the
\* aggregated ones, in a minute that was given none twice).
THEOREM NoTradeIsLost ==
  ASSUME LedgerHolds
  PROVE  Spec => []NothingIsLost
<1>1. AInv => AggregatedIsKept
  BY DEF AInv, AggregatedIsAccepted, AggregatedIsKept, HeldOf, Held
<1> QED BY <1>1, AggregatedInvariance, RawKept, PTL DEF NothingIsLost

\* There, a row of a minute that was given no aggregated trade twice counts the
\* ticks and the volume of each trade once (aggregateTrades, mergeWebSocketDataTrades,
\* restore).
THEOREM TicksCount ==
  ASSUME LedgerHolds
  PROVE  Spec => []TicksCountTrades
<1>1. AInv => TicksCountTrades
  <2> SUFFICES ASSUME AInv, NEW m \in Minutes \ replayed PROVE CountsTradesOnce(rows[m])
    BY DEF TicksCountTrades
  <2>1. Apart(rows[m].aggregated) /\ AllExact(rows[m].aggregated) /\ Disjoint(rows[m].filtered)
    BY DEF AInv, Ledgers, Ledger, FilteredDisjoint
  <2> QED BY <2>1, PartVolumeUnits DEF Apart, AllExact, Exact, Disjoint, CountsTradesOnce
<1> QED BY <1>1, AggregatedInvariance, PTL

=============================================================================
