-------------------------- MODULE SessionsFeedProofs --------------------------
(***************************************************************************)
(* On the venues that number their trades, for any symbols, buffers, pages *)
(* and bounds: of a symbol whose feed is undisturbed and whose recovery    *)
(* has not given up, no trade is skipped.                                  *)
(*                                                                         *)
(* The argument is about the trades that the exchange feeds: once a trade  *)
(* of the symbol is pending (buffered, queued or on the wire), those after *)
(* it are, as long as the connection lasts.  A recovery, which begins      *)
(* while the feed is on, fetches what is between the last trade emitted    *)
(* and the first pending one; so that the least of what is recovered or    *)
(* pending is the next to be emitted.                                      *)
(***************************************************************************)
EXTENDS SessionsProofs

-----------------------------------------------------------------------------
(***************************************************************************)
(* The trades of a set in a channel.                                       *)
(***************************************************************************)
InChannel(c, A) == {i \in A : \E n \in DOMAIN c : c[n] = i}
Ascends(c, A) == \A m, n \in DOMAIN c : m < n /\ c[m] \in A /\ c[n] \in A => c[m] < c[n]
Before(S, T) == \A i \in S, j \in T : i < j

LEMMA EmptyChannel ==
  ASSUME NEW A
  PROVE  InChannel(<< >>, A) = {} /\ Ascends(<< >>, A)
BY DEF InChannel, Ascends

\* A message is added at the end.
LEMMA AddedToChannel ==
  ASSUME NEW M, NEW c \in Seq(M), NEW m \in M, NEW A, m \in A => Before(InChannel(c, A), {m}),
         Ascends(c, A)
  PROVE  /\ InChannel(Append(c, m), A) = InChannel(c, A) \cup ({m} \cap A)
         /\ Ascends(Append(c, m), A)
<1> DEFINE d == Append(c, m)
           k == Len(c)
<1>1. /\ k \in Nat /\ DOMAIN c = 1 .. k /\ DOMAIN d = 1 .. k + 1
      /\ d[k + 1] = m /\ \A n \in 1 .. k : d[n] = c[n]
  BY AppendProperties
<1>2. /\ \A n \in 1 .. k : n \in 1 .. k + 1 /\ n # k + 1 /\ n < k + 1
      /\ \A n \in 1 .. k + 1 : n \in 1 .. k \/ n = k + 1
      /\ k + 1 \in 1 .. k + 1 /\ \A n \in 1 .. k : ~(k + 1 < n)
  BY <1>1
<1> HIDE DEF d, k
<1>3. InChannel(d, A) = InChannel(c, A) \cup ({m} \cap A)
  BY <1>1, <1>2 DEF InChannel
<1>4. ASSUME NEW p \in DOMAIN d, NEW q \in DOMAIN d, p < q, d[p] \in A, d[q] \in A
      PROVE  d[p] < d[q]
  <2>1. p \in 1 .. k
    BY <1>1, <1>2, <1>4
  <2>2. CASE q \in 1 .. k
    BY <1>1, <1>4, <2>1, <2>2 DEF Ascends
  <2>3. CASE q = k + 1
    BY <1>1, <1>4, <2>1, <2>3 DEF InChannel, Before
  <2> QED BY <1>1, <1>2, <2>2, <2>3
<1> QED BY <1>3, <1>4 DEF d, Ascends

\* The first message is taken.
LEMMA TakenFromChannel ==
  ASSUME NEW M, NEW c \in Seq(M), c # << >>, NEW A, Ascends(c, A)
  PROVE  /\ InChannel(c, A) = InChannel(Tail(c), A) \cup ({Head(c)} \cap A)
         /\ Ascends(Tail(c), A)
         /\ Head(c) \in A => Before({Head(c)}, InChannel(Tail(c), A))
<1> DEFINE d == Tail(c)
           k == Len(c)
<1>1. /\ k \in Nat /\ DOMAIN c = 1 .. k /\ k >= 1 /\ DOMAIN d = 1 .. k - 1
      /\ Head(c) = c[1] /\ \A n \in 1 .. k - 1 : d[n] = c[n + 1]
  BY HeadTailProperties
<1>2. /\ \A n \in 1 .. k - 1 : n + 1 \in 1 .. k /\ 1 < n + 1
      /\ \A n \in 1 .. k : n = 1 \/ (n - 1 \in 1 .. k - 1 /\ (n - 1) + 1 = n)
      /\ 1 \in 1 .. k /\ \A p, q \in 1 .. k - 1 : p < q => p + 1 < q + 1
  BY <1>1
<1> HIDE DEF d, k
<1>3. ASSUME NEW i
      PROVE  (\E n \in 1 .. k : c[n] = i) <=> (i = c[1] \/ \E n \in 1 .. k - 1 : d[n] = i)
  <2>1. ASSUME NEW n \in 1 .. k, c[n] = i PROVE i = c[1] \/ \E p \in 1 .. k - 1 : d[p] = i
    <3>1. CASE n # 1
      <4>1. n - 1 \in 1 .. k - 1 /\ (n - 1) + 1 = n
        BY <1>2, <3>1
      <4>2. d[n - 1] = c[n]
        BY <1>1, <4>1
      <4> QED BY <2>1, <4>1, <4>2
    <3> QED BY <2>1, <3>1
  <2>2. ASSUME NEW n \in 1 .. k - 1, d[n] = i PROVE \E p \in 1 .. k : c[p] = i
    BY <1>1, <1>2, <2>2
  <2> QED BY <1>2, <2>1, <2>2
<1>4. InChannel(c, A) = InChannel(d, A) \cup ({Head(c)} \cap A)
  BY <1>1, <1>3 DEF InChannel
<1>5. Ascends(d, A)
  <2> SUFFICES ASSUME NEW p \in 1 .. k - 1, NEW q \in 1 .. k - 1, p < q, d[p] \in A, d[q] \in A
               PROVE  d[p] < d[q]
    BY <1>1 DEF Ascends
  <2>1. p + 1 \in 1 .. k /\ q + 1 \in 1 .. k /\ p + 1 < q + 1
    BY <1>2
  <2>2. d[p] = c[p + 1] /\ d[q] = c[q + 1]
    BY <1>1
  <2> QED BY <1>1, <2>1, <2>2 DEF Ascends
<1>6. ASSUME Head(c) \in A PROVE Before({Head(c)}, InChannel(d, A))
  <2> SUFFICES ASSUME NEW p \in 1 .. k - 1, d[p] \in A PROVE c[1] < d[p]
    BY <1>1 DEF Before, InChannel
  <2>1. p + 1 \in 1 .. k /\ 1 \in 1 .. k /\ 1 < p + 1 /\ d[p] = c[p + 1]
    BY <1>1, <1>2
  <2> QED BY <1>1, <1>6, <2>1 DEF Ascends
<1> QED BY <1>4, <1>5, <1>6 DEF d

\* What comes last is cut off.
LEMMA CutChannel ==
  ASSUME NEW M, NEW c \in Seq(M), NEW k \in 0 .. Len(c), NEW A, Ascends(c, A)
  PROVE  /\ InChannel(SubSeq(c, 1, k), A) \subseteq InChannel(c, A)
         /\ Ascends(SubSeq(c, 1, k), A)
         /\ Before(InChannel(SubSeq(c, 1, k), A), InChannel(c, A) \ InChannel(SubSeq(c, 1, k), A))
<1> DEFINE d == SubSeq(c, 1, k)
<1>1. Len(c) \in Nat /\ DOMAIN c = 1 .. Len(c) /\ k \in Nat /\ k <= Len(c)
  OBVIOUS
<1>2. DOMAIN d = 1 .. k /\ \A n \in 1 .. k : d[n] = c[n]
  OBVIOUS
<1>3. \A n \in 1 .. k : n \in DOMAIN c
  BY <1>1
<1>4. \A n \in 1 .. k : \A p \in DOMAIN c : p \in 1 .. k \/ n < p
  BY <1>1
<1> HIDE DEF d
<1>5. InChannel(d, A) \subseteq InChannel(c, A)
  BY <1>2, <1>3 DEF InChannel
<1>6. Ascends(d, A)
  BY <1>2, <1>3 DEF Ascends
<1>7. Before(InChannel(d, A), InChannel(c, A) \ InChannel(d, A))
  <2> SUFFICES ASSUME NEW i \in InChannel(d, A), NEW j \in InChannel(c, A) \ InChannel(d, A)
               PROVE  i < j
    BY DEF Before
  <2>1. PICK n \in 1 .. k : d[n] = i
    BY <1>2 DEF InChannel
  <2>2. PICK p \in DOMAIN c : c[p] = j
    BY DEF InChannel
  <2>3. p \notin 1 .. k /\ i \in A /\ j \in A
    BY <1>2, <2>2 DEF InChannel
  <2> QED BY <1>2, <1>3, <1>4, <2>1, <2>2, <2>3 DEF Ascends
<1> QED BY <1>5, <1>6, <1>7 DEF d

\* Another symbol's message may overtake the last one.
LEMMA OvertakenChannel ==
  ASSUME NEW M, wire \in Seq(M), wire # << >>, NEW m \in M, NEW A, m \notin A, Ascends(wire, A)
  PROVE  /\ InChannel(Overtaken(m), A) = InChannel(wire, A)
         /\ Ascends(Overtaken(m), A)
<1> DEFINE d == Overtaken(m)
           k == Len(wire) - 1
<1>1. /\ k \in Nat /\ DOMAIN wire = 1 .. k + 1 /\ DOMAIN d = 1 .. k + 2
      /\ \A n \in 1 .. k : d[n] = wire[n]
      /\ d[k + 1] = m /\ d[k + 2] = wire[k + 1]
  <2>1. k \in Nat /\ Len(wire) = k + 1 /\ k + 1 + 1 = k + 2 /\ DOMAIN wire = 1 .. Len(wire)
    OBVIOUS
  <2>2. /\ d \in Seq(M) /\ Len(d) = Len(wire) + 1
        /\ \A n \in 1 .. Len(wire) - 1 : d[n] = wire[n]
        /\ d[Len(wire)] = m /\ d[Len(wire) + 1] = wire[Len(wire)]
    BY OvertakenFacts
  <2> HIDE DEF d
  <2>3. DOMAIN d = 1 .. Len(d)
    BY <2>2
  <2> HIDE DEF k
  <2> QED BY <2>1, <2>2, <2>3 DEF k
<1>2. /\ \A n \in 1 .. k : n \in 1 .. k + 1 /\ n \in 1 .. k + 2
      /\ k + 1 \in 1 .. k + 1 /\ k + 2 \in 1 .. k + 2
      /\ \A n \in 1 .. k + 1 : n \in 1 .. k \/ n = k + 1
      /\ \A n \in 1 .. k + 2 : n \in 1 .. k \/ n = k + 1 \/ n = k + 2
      /\ \A n \in 1 .. k : n < k + 1
      /\ \A n \in 1 .. k + 2 : ~(k + 2 < n)
  <2>1. k \in Nat
    BY <1>1
  <2> HIDE DEF k
  <2> QED BY <2>1
<1> HIDE DEF d, k
<1>3. InChannel(d, A) = InChannel(wire, A)
  BY <1>1, <1>2 DEF InChannel
<1>4. ASSUME NEW p \in DOMAIN d, NEW q \in DOMAIN d, p < q, d[p] \in A, d[q] \in A
      PROVE  d[p] < d[q]
  <2>1. p # k + 1 /\ q # k + 1
    BY <1>1, <1>4
  <2>2. p \in 1 .. k
    BY <1>1, <1>2, <1>4, <2>1
  <2>3. CASE q \in 1 .. k
    BY <1>1, <1>2, <1>4, <2>2, <2>3 DEF Ascends
  <2>4. CASE q = k + 2
    BY <1>1, <1>2, <1>4, <2>2, <2>4 DEF Ascends
  <2> QED BY <1>1, <1>2, <2>1, <2>3, <2>4
<1> QED BY <1>3, <1>4 DEF d, Ascends
-----------------------------------------------------------------------------
(***************************************************************************)
(* The invariant of a symbol whose feed is undisturbed and whose recovery  *)
(* has not given up.                                                       *)
(***************************************************************************)
Linked == link \in {"subscribed", "acknowledged"}
InSession == phase \in {"recovering", "emitting"}

\* What the adapter holds or has on the wire; what of the symbol's trades the
\* exchange has fed, as far as the adapter may know; what was not emitted; and
\* what is recovered and due.
Pending(s) ==
  InChannel(buffered, AllOf(s)) \cup InChannel(stream, AllOf(s)) \cup InChannel(wire, AllOf(s))
Fed(s) == {k \in AllOf(s) : Linked \/ \E j \in Pending(s) : k < j}
Later(s) == {k \in AllOf(s) : Id(k) > lastIDs[s]}
Due(s) == recovered \cap AllOf(s)

InOrder(s) ==
  /\ Ascends(buffered, AllOf(s)) /\ Ascends(stream, AllOf(s)) /\ Ascends(wire, AllOf(s))
  /\ Before(InChannel(buffered, AllOf(s)), InChannel(stream, AllOf(s)))
  /\ Before(InChannel(buffered, AllOf(s)), InChannel(wire, AllOf(s)))
  /\ Before(InChannel(stream, AllOf(s)), InChannel(wire, AllOf(s)))

\* Once a trade is pending, those fed after it are.
Unbroken(s) == \A i \in Pending(s), k \in Fed(s) : i < k => k \in Pending(s)

\* What is recovered follows what was emitted.
Recovers(s) ==
  /\ Due(s) \subseteq Later(s) /\ (lastIDs[s] = 0 => Due(s) = {})
  /\ \A i \in Due(s), k \in Later(s) : k < i => k \in Due(s)

\* After its recovery, nothing is missing.
Joined(s) ==
  InSession /\ s \notin todo /\ lastIDs[s] # 0 => Fed(s) \cap Later(s) \subseteq Due(s) \cup Pending(s)

\* During a recovery that pages backwards, nothing is missing behind the page.
Backwards(s) ==
  Recovering(s) /\ after # 0 =>
    {k \in Fed(s) \cap Later(s) : Id(k) >= after} \subseteq rows \cup Pending(s)

LastOf(s) ==
  /\ lastIDs[s] # 0 => \E e \in EmittedOf(s) : Id(e) = lastIDs[s]
  /\ \A e \in EmittedOf(s) : Id(e) <= lastIDs[s]

\* Nothing is pending from before the first trade emitted.
Begun(s) == lastIDs[s] # 0 => \A i \in Pending(s) : \E e \in EmittedOf(s) : e <= i

Contiguous(s) == \A i, j \in EmittedOf(s) : (i .. j) \cap AllOf(s) \subseteq EmittedOf(s)

FeedInv(s) ==
  /\ InOrder(s) /\ Unbroken(s) /\ Recovers(s) /\ Joined(s) /\ Backwards(s)
  /\ LastOf(s) /\ Begun(s) /\ Contiguous(s)

-----------------------------------------------------------------------------
(***************************************************************************)
(* The steps that neither recover nor emit.                                *)
(***************************************************************************)

\* What such a step makes of the symbol's trades.
Flows(s) ==
  /\ InOrder(s)' /\ Unbroken(s)'
  /\ \A i \in Pending(s)' : i \in Pending(s) \/ \A e \in AllOf(s) : e <= i
  /\ InSession' => Fed(s)' \subseteq Pending(s)' \cup (Fed(s) \ Pending(s))

\* It may begin the session, but not the recovery of a symbol.
Resumes(s) ==
  /\ UNCHANGED <<lastIDs, emitted, recovered>>
  /\ InSession' /\ s \notin todo' /\ lastIDs[s] # 0 => InSession /\ s \notin todo
  /\ Recovering(s)' /\ after' # 0 => Recovering(s) /\ UNCHANGED <<rows, after>>

LEMMA FlowsKeep ==
  ASSUME MarketTyped, Grows, EmittedTyped, recovered \subseteq Trades, NEW s \in Symbols,
         FeedInv(s), Flows(s), Resumes(s)
  PROVE  FeedInv(s)'
<1> DEFINE A == AllOf(s)
           B == AllOf(s)'
           E == EmittedOf(s)
           L == lastIDs[s]
<1>1. /\ A \subseteq B /\ A \subseteq Nat /\ B \subseteq Nat
      /\ \A k \in B \ A : \A i \in A : i < k
      /\ \A k \in A : Id(k)' = Id(k) /\ Id(k) \in Nat
      /\ A = B \cap DOMAIN market
  <2>1. A \subseteq DOMAIN market
    BY DEF AllOf
  <2>2. MarketTyped' /\ B \subseteq Nat /\ A \subseteq Nat
    <3>1. MarketTyped'
      BY MarketGrows
    <3>2. market' \in Seq(Symbols \cup {Tick})
      BY <3>1 DEF MarketTyped
    <3>3. B \subseteq DOMAIN market'
      BY DEF AllOf
    <3> QED BY <2>1, <3>1, <3>2, <3>3 DEF MarketTyped
  <2>3. \A k \in A : Id(k) \in Nat
    BY IdFacts
  <2> QED BY <2>1, <2>2, <2>3, MarketGrows
<1>2. lastIDs' = lastIDs /\ emitted' = emitted /\ recovered' = recovered
  BY DEF Resumes
<1>3. \A n \in DOMAIN emitted : emitted[n].trade \in DOMAIN market
  BY EmittedFacts DEF Trades
<1>4. E' = E
  BY <1>1, <1>2, <1>3 DEF EmittedOf
<1>5. Due(s)' = Due(s)
  BY <1>1, <1>2 DEF Due, Trades
<1>6. E \subseteq A /\ Due(s) \subseteq A
  BY DEF EmittedOf, Due
<1>7. Later(s)' \cap A = Later(s)
  BY <1>1, <1>2 DEF Later
<1> HIDE DEF A, B, E
<1>8. Later(s)' \subseteq B
  BY DEF Later, B
<1>9. \A k \in Later(s)', i \in A : k < i => k \in Later(s)
  <2> SUFFICES ASSUME NEW k \in Later(s)', NEW i \in A, k < i PROVE k \in A
    BY <1>7
  <2>1. k \in B /\ k \in Nat /\ i \in Nat
    BY <1>1, <1>8
  <2>2. ~(i < k)
    BY <2>1
  <2> QED BY <1>1, <2>1, <2>2
<1>10. Recovers(s)'
  BY <1>2, <1>5, <1>6, <1>7, <1>9 DEF Recovers, FeedInv
<1>11. LastOf(s)'
  BY <1>1, <1>2, <1>4, <1>6 DEF LastOf, FeedInv, E
<1>12. Contiguous(s)'
  <2> SUFFICES ASSUME NEW i \in E, NEW j \in E, NEW k \in B, k \in i .. j PROVE k \in E
    BY <1>4 DEF Contiguous, E, B
  <2>1. i \in A /\ j \in A /\ k \in Nat /\ i \in Nat /\ j \in Nat /\ k <= j
    BY <1>1, <1>6
  <2>2. k \in A
    <3>1. ~(j < k)
      BY <2>1
    <3> QED BY <1>1, <2>1, <3>1
  <2> QED BY <2>2 DEF FeedInv, Contiguous, E, A
<1>13. Begun(s)'
  <2> SUFFICES ASSUME L # 0, NEW i \in Pending(s)' PROVE \E e \in E : e <= i
    BY <1>2, <1>4 DEF Begun, E
  <2>1. CASE i \in Pending(s)
    BY <2>1 DEF FeedInv, Begun, E
  <2>2. CASE \A e \in A : e <= i
    <3>1. PICK e \in E : TRUE
      BY DEF FeedInv, LastOf, E
    <3> QED BY <1>6, <2>2, <3>1
  <2> QED BY <2>1, <2>2 DEF Flows, A
<1>14. InSession' => \A k \in Fed(s)' : k \in Pending(s)' \/ (k \in Fed(s) /\ k \notin Pending(s))
  BY DEF Flows
<1>15. \A k \in Fed(s) : k \in A
  BY DEF Fed, A
<1>16. Joined(s)'
  <2> SUFFICES ASSUME InSession', s \notin todo', L # 0,
                      NEW k \in Fed(s)', k \in Later(s)', k \notin Pending(s)'
               PROVE  k \in Due(s)
    BY <1>2, <1>5 DEF Joined
  <2>1. k \in Fed(s) /\ k \notin Pending(s)
    BY <1>14
  <2>2. k \in Later(s)
    BY <1>7, <1>15, <2>1
  <2>3. InSession /\ s \notin todo
    BY DEF Resumes
  <2> QED BY <2>1, <2>2, <2>3 DEF Joined, FeedInv
<1>17. Backwards(s)'
  <2> SUFFICES ASSUME Recovering(s)', after' # 0,
                      NEW k \in Fed(s)', k \in Later(s)', Id(k)' >= after', k \notin Pending(s)'
               PROVE  k \in rows'
    BY DEF Backwards
  <2>1. InSession'
    BY DEF Recovering, InSession
  <2>2. k \in Fed(s) /\ k \notin Pending(s)
    BY <1>14, <2>1
  <2>3. k \in Later(s) /\ Id(k)' = Id(k)
    BY <1>1, <1>7, <1>15, <2>2
  <2>4. Recovering(s) /\ rows' = rows /\ after' = after
    BY DEF Resumes
  <2> QED BY <2>2, <2>3, <2>4 DEF Backwards, FeedInv
<1>18. InOrder(s)' /\ Unbroken(s)'
  BY DEF Flows
<1> QED BY <1>10, <1>11, <1>12, <1>13, <1>16, <1>17, <1>18 DEF FeedInv

\* Nothing is fed to the adapter.
LEMMA QuietFlow ==
  ASSUME MarketTyped, Grows, NEW s \in Symbols, Unbroken(s), InOrder(s)',
         Pending(s)' = Pending(s), Linked' => Linked /\ AllOf(s)' = AllOf(s)
  PROVE  Flows(s)
<1> DEFINE A == AllOf(s)
           P == Pending(s)
<1>1. P \subseteq A
  BY DEF Pending, InChannel
<1>2. \A k \in AllOf(s)' \ A : \A i \in A : i < k
  BY MarketGrows DEF AllOf
<1>3. A \subseteq Nat /\ AllOf(s)' \subseteq Nat
  <2>1. MarketTyped'
    BY MarketGrows
  <2>2. \A m : m \in Seq(Symbols \cup {Tick}) => {i \in DOMAIN m : m[i] = s} \subseteq Nat
    OBVIOUS
  <2> QED BY <2>1, <2>2 DEF MarketTyped, AllOf
<1>4. Fed(s)' = {k \in AllOf(s)' : Linked' \/ \E j \in P : k < j}
  BY DEF Fed
<1> HIDE DEF A, P
<1>5. ASSUME NEW k \in Fed(s)' PROVE k \in Fed(s)
  <2>1. CASE Linked'
    BY <1>4, <1>5, <2>1 DEF Fed, A
  <2>2. CASE ~Linked'
    <3>1. PICK j \in P : k < j
      BY <1>4, <1>5, <2>2
    <3>2. k \in AllOf(s)' /\ k \in Nat /\ j \in Nat /\ j \in A
      BY <1>1, <1>3, <1>4, <1>5
    <3>3. k \in A
      <4>1. ~(j < k)
        BY <3>1, <3>2
      <4> QED BY <1>2, <3>2, <4>1
    <3> QED BY <3>1, <3>3 DEF Fed, A, P
  <2> QED BY <2>1, <2>2
<1>6. Unbroken(s)'
  BY <1>5 DEF Unbroken
<1>7. \A k \in Fed(s)' : k \in Pending(s)' \/ k \in Fed(s) \ Pending(s)
  BY <1>5
<1> QED BY <1>6, <1>7 DEF Flows

\* A trade of the symbol is pushed.
LEMMA PushFlow ==
  ASSUME MarketTyped, NEW s \in Symbols, Unbroken(s), InOrder(s)', Linked,
         NEW new, \A i \in AllOf(s) : i < new, new \in Nat,
         AllOf(s)' = AllOf(s) \cup {new}, Pending(s)' = Pending(s) \cup {new}
  PROVE  Flows(s)
<1> DEFINE A == AllOf(s)
           P == Pending(s)
<1>1. P \subseteq A /\ A \subseteq Nat /\ Fed(s) = A
  BY IdFacts DEF Pending, InChannel, Fed
<1>2. Fed(s)' \subseteq A \cup {new}
  BY DEF Fed
<1>3. \A k \in Fed(s)' : k \in Pending(s)' \/ k \in Fed(s) \ Pending(s)
  BY <1>1, <1>2
<1>4. \A i \in Pending(s)' : i \in Pending(s) \/ \A e \in AllOf(s) : e <= i
  <2>1. \A e \in A : e <= new
    BY <1>1
  <2> QED BY <2>1
<1>5. ASSUME NEW i \in Pending(s)', NEW k \in Fed(s)', i < k PROVE k \in Pending(s)'
  <2>1. CASE k = new
    BY <2>1
  <2>2. CASE k # new
    <3>1. k \in A /\ k < new /\ k \in Nat
      BY <1>1, <1>2, <2>2
    <3>2. i # new
      BY <1>5, <3>1
    <3> QED BY <1>1, <1>5, <3>1, <3>2 DEF Unbroken
  <2> QED BY <2>1, <2>2
<1>6. Unbroken(s)'
  BY <1>5 DEF Unbroken
<1> QED BY <1>3, <1>4, <1>6 DEF Flows

\* The connection is over, and what came last is lost.
LEMMA CutFlow ==
  ASSUME MarketTyped, NEW s \in Symbols, Unbroken(s), InOrder(s)', AllOf(s)' = AllOf(s),
         Pending(s)' \subseteq Pending(s), Before(Pending(s)', Pending(s) \ Pending(s)'), ~Linked'
  PROVE  Flows(s)
<1> DEFINE A == AllOf(s)
           P == Pending(s)
           Q == Pending(s)'
<1>1. P \subseteq A /\ A \subseteq Nat
  BY IdFacts DEF Pending, InChannel
<1>2. Fed(s)' = {k \in A : \E j \in Q : k < j}
  BY DEF Fed
<1> HIDE DEF Q
<1>3. ASSUME NEW k \in Fed(s)' PROVE k \in Fed(s) /\ (k \in P => k \in Q)
  <2>1. PICK j \in Q : k < j
    BY <1>2, <1>3
  <2>2. k \in A /\ j \in P /\ k \in Nat /\ j \in Nat
    BY <1>1, <1>2, <1>3 DEF Q
  <2>3. k \in Fed(s)
    BY <2>1, <2>2 DEF Fed
  <2>4. ~(j < k)
    BY <2>1, <2>2
  <2> QED BY <2>3, <2>4 DEF Before, Q
<1>4. Unbroken(s)'
  BY <1>3 DEF Unbroken, Q
<1>5. \A k \in Fed(s)' : k \in Pending(s)' \/ k \in Fed(s) \ Pending(s)
  BY <1>3 DEF Q
<1> QED BY <1>4, <1>5 DEF Flows

\* A subscription begins with nothing, or with the symbol's last trade.
LEMMA FirstFlow ==
  ASSUME MarketTyped, NEW s \in Symbols, InOrder(s)', AllOf(s)' = AllOf(s),
         \A i \in Pending(s)', e \in AllOf(s) : e <= i, ~InSession'
  PROVE  Flows(s)
<1>1. Fed(s)' \subseteq AllOf(s) /\ AllOf(s) \subseteq Nat /\ Pending(s)' \subseteq AllOf(s)
  BY IdFacts DEF Fed, Pending, InChannel
<1>2. Unbroken(s)'
  <2> SUFFICES ASSUME NEW i \in Pending(s)', NEW k \in Fed(s)', i < k PROVE FALSE
    BY DEF Unbroken
  <2>1. k \in Nat /\ i \in Nat /\ k <= i
    BY <1>1
  <2> QED BY <2>1
<1> QED BY <1>2 DEF Flows

\* What is in a channel is not a trade that is still to happen.
LEMMA OldChannel ==
  ASSUME MarketTyped, Grows, NEW s \in Symbols, NEW c \in Seq(Messages \cup {Ack})
  PROVE  /\ InChannel(c, AllOf(s)') = InChannel(c, AllOf(s))
         /\ Ascends(c, AllOf(s)') <=> Ascends(c, AllOf(s))
<1>1. ASSUME NEW x \in Messages \cup {Ack} PROVE x \in AllOf(s)' <=> x \in AllOf(s)
  <2>1. AllOf(s) = AllOf(s)' \cap DOMAIN market
    BY MarketGrows
  <2>2. x \in Trades => x \in DOMAIN market
    BY DEF Trades
  <2>3. x \notin Trades => x \notin AllOf(s)'
    <3>1. \A j \in AllOf(s)' : j \in Nat /\ j >= 1
      <4>1. MarketTyped'
        BY MarketGrows
      <4>2. \A m \in Seq(Symbols \cup {Tick}) : \A j \in DOMAIN m : j \in Nat /\ j >= 1
        OBVIOUS
      <4> QED BY <4>1, <4>2 DEF MarketTyped, AllOf
    <3>2. ~(Ack >= 1)
      BY DEF Ack
    <3>3. \A j \in Trades : j \in Nat /\ ~(-j >= 1)
      BY MarketFacts
    <3> QED BY <3>1, <3>2, <3>3 DEF Messages
  <2> QED BY <2>1, <2>2, <2>3
<1>2. \A n \in DOMAIN c : c[n] \in Messages \cup {Ack}
  OBVIOUS
<1>3. InChannel(c, AllOf(s)') \subseteq InChannel(c, AllOf(s))
  BY <1>1, <1>2 DEF InChannel
<1>4. InChannel(c, AllOf(s)) \subseteq InChannel(c, AllOf(s)')
  BY <1>1, <1>2 DEF InChannel
<1>5. \A n \in DOMAIN c : c[n] \in AllOf(s)' <=> c[n] \in AllOf(s)
  BY <1>1, <1>2
<1>6. Ascends(c, AllOf(s)') <=> Ascends(c, AllOf(s))
  BY <1>5 DEF Ascends
<1> QED BY <1>3, <1>4, <1>6

ChannelsSound == WireSound /\ HeldSound

LEMMA ChannelTypes ==
  ASSUME MarketTyped, ChannelsSound
  PROVE  /\ wire \in Seq(Messages \cup {Ack})
         /\ buffered \in Seq(Messages \cup {Ack}) /\ stream \in Seq(Messages \cup {Ack})
<1>1. Messages \subseteq Messages \cup {Ack}
  OBVIOUS
<1>2. buffered \in Seq(Messages) /\ stream \in Seq(Messages) /\ wire \in Seq(Messages \cup {Ack})
  BY DEF ChannelsSound, HeldSound, WireSound
<1>3. buffered \in Seq(Messages \cup {Ack})
  BY <1>1, <1>2, WiderSeq
<1>4. stream \in Seq(Messages \cup {Ack})
  BY <1>1, <1>2, WiderSeq
<1> QED BY <1>2, <1>3, <1>4

\* What is pushed on the wire is behind all that is pending.
LEMMA WireFlow ==
  ASSUME MarketTyped, ChannelsSound, Grows, NEW s \in Symbols, InOrder(s), UNCHANGED readVars,
         NEW N \in SUBSET AllOf(s)', Before(Pending(s), N),
         InChannel(wire', AllOf(s)') = InChannel(wire, AllOf(s)) \cup N,
         Ascends(wire', AllOf(s)')
  PROVE  InOrder(s)' /\ Pending(s)' = Pending(s) \cup N
<1>1. /\ buffered' = buffered /\ stream' = stream
      /\ buffered \in Seq(Messages \cup {Ack}) /\ stream \in Seq(Messages \cup {Ack})
  BY ChannelTypes DEF readVars
<1>2. /\ InChannel(buffered, AllOf(s)') = InChannel(buffered, AllOf(s))
      /\ Ascends(buffered, AllOf(s)') <=> Ascends(buffered, AllOf(s))
  BY <1>1, OldChannel
<1>3. /\ InChannel(stream, AllOf(s)') = InChannel(stream, AllOf(s))
      /\ Ascends(stream, AllOf(s)') <=> Ascends(stream, AllOf(s))
  BY <1>1, OldChannel
<1>4. Pending(s)' = Pending(s) \cup N
  BY <1>1, <1>2, <1>3 DEF Pending
<1>5. /\ Before(InChannel(buffered, AllOf(s)), InChannel(wire, AllOf(s)) \cup N)
      /\ Before(InChannel(stream, AllOf(s)), InChannel(wire, AllOf(s)) \cup N)
  BY DEF InOrder, Pending, Before
<1>6. InOrder(s)'
  BY <1>1, <1>2, <1>3, <1>5 DEF InOrder
<1> QED BY <1>4, <1>6

\* A trade happens; a disturbed feed is left out.
LEMMA TradeFlows ==
  ASSUME MarketTyped, ChannelsSound, NEW s \in Symbols, NEW t \in Symbols, TradeComes(t),
         s \notin disturbed', InOrder(s), Unbroken(s)
  PROVE  Flows(s)
<1> DEFINE new == Len(market) + 1
           M == Messages' \cup {Ack}
<1>1. /\ Grows /\ market' = Append(market, t) /\ UNCHANGED <<link, readVars, phase>>
      /\ Push(new, Mispushed(new), {t})
  BY DEF TradeComes, Grows
<1>2. /\ new \in Nat /\ DOMAIN market' = 1 .. new /\ market'[new] = t
      /\ DOMAIN market = 1 .. Len(market) /\ Len(market) \in Nat
      /\ \A i \in 1 .. Len(market) : market'[i] = market[i]
  BY <1>1 DEF MarketTyped
<1>3. AllOf(t)' = AllOf(t) \cup {new} /\ (s # t => AllOf(s)' = AllOf(s))
  <2>1. \A i : i \in 1 .. new <=> i \in 1 .. Len(market) \/ i = new
    BY <1>2
  <2> HIDE DEF new
  <2> QED BY <1>2, <2>1 DEF AllOf
<1>4. \A x : \A i \in AllOf(x) : i < new
  BY <1>2 DEF AllOf
<1>5. wire \in Seq(Messages \cup {Ack}) /\ wire \in Seq(M)
  BY <1>1, ChannelTypes, ChannelsTyped DEF ChannelsSound
<1>6. new \in Messages'
  <2>1. t # Tick
    BY SessionAssumption DEF Tick
  <2> QED BY <1>2, <2>1 DEF Messages, Trades
<1>7. /\ InChannel(wire, AllOf(s)') = InChannel(wire, AllOf(s))
      /\ Ascends(wire, AllOf(s)')
  BY <1>1, <1>5, OldChannel DEF InOrder
<1>8. Linked' <=> Linked
  BY <1>1 DEF Linked
<1>9. Pending(s) \subseteq AllOf(s)
  BY DEF Pending, InChannel
<1> HIDE DEF new, M
<1>10. CASE wire' = wire /\ (s = t => ~Linked)
  <2>1. InOrder(s)' /\ Pending(s)' = Pending(s) \cup {}
    <3>1. Before(Pending(s), {}) /\ {} \in SUBSET AllOf(s)'
      BY DEF Before
    <3> QED BY <1>1, <1>7, <1>10, <3>1, WireFlow
  <2>2. Linked' => Linked /\ AllOf(s)' = AllOf(s)
    BY <1>3, <1>8, <1>10
  <2> QED BY <1>1, <2>1, <2>2, QuietFlow
<1>11. CASE s = t /\ Linked /\ wire' = Append(wire, new)
  <2>1. Before(InChannel(wire, AllOf(s)'), {new})
    BY <1>4, <1>7 DEF Before, InChannel
  <2>2. new \in M /\ new \in AllOf(s)'
    BY <1>3, <1>6, <1>11 DEF M
  <2>3. /\ InChannel(Append(wire, new), AllOf(s)') = InChannel(wire, AllOf(s)') \cup ({new} \cap AllOf(s)')
        /\ Ascends(Append(wire, new), AllOf(s)')
    BY <1>5, <1>7, <2>1, <2>2, AddedToChannel
  <2>4. Before(Pending(s), {new})
    BY <1>4, <1>9 DEF Before
  <2>5. InOrder(s)' /\ Pending(s)' = Pending(s) \cup {new}
    BY <1>1, <1>7, <1>11, <2>2, <2>3, <2>4, WireFlow
  <2> QED BY <1>2, <1>3, <1>4, <1>11, <2>5, PushFlow DEF new
<1>12. CASE s # t /\ wire' = Append(wire, new)
  <2>1. new \in M /\ new \notin AllOf(s)'
    BY <1>2, <1>6, <1>12 DEF M, AllOf
  <2>2. /\ InChannel(Append(wire, new), AllOf(s)') = InChannel(wire, AllOf(s)') \cup ({new} \cap AllOf(s)')
        /\ Ascends(Append(wire, new), AllOf(s)')
    BY <1>5, <1>7, <2>1, AddedToChannel
  <2>3. InOrder(s)' /\ Pending(s)' = Pending(s) \cup {}
    <3>1. Before(Pending(s), {}) /\ {} \in SUBSET AllOf(s)'
      BY DEF Before
    <3>2. {new} \cap AllOf(s)' = {}
      BY <2>1
    <3>3. /\ InChannel(wire', AllOf(s)') = InChannel(wire, AllOf(s)) \cup {}
          /\ Ascends(wire', AllOf(s)')
      BY <1>7, <1>12, <2>2, <3>2
    <3> QED BY <1>1, <3>1, <3>3, WireFlow
  <2> QED BY <1>1, <1>3, <1>8, <1>12, <2>3, QuietFlow
<1>13. CASE s # t /\ wire # << >> /\ wire' = Overtaken(new)
  <2>1. new \in M /\ new \notin AllOf(s)'
    BY <1>2, <1>6, <1>13 DEF M, AllOf
  <2>2. /\ InChannel(Overtaken(new), AllOf(s)') = InChannel(wire, AllOf(s)')
        /\ Ascends(Overtaken(new), AllOf(s)')
    BY <1>5, <1>7, <1>13, <2>1, OvertakenChannel
  <2>3. InOrder(s)' /\ Pending(s)' = Pending(s) \cup {}
    <3>1. Before(Pending(s), {}) /\ {} \in SUBSET AllOf(s)'
      BY DEF Before
    <3> QED BY <1>1, <1>7, <1>13, <2>2, <3>1, WireFlow
  <2> QED BY <1>1, <1>3, <1>8, <1>13, <2>3, QuietFlow
<1>14. \/ ~Linked /\ wire' = wire
       \/ Linked /\ wire' = Append(wire, new)
       \/ Linked /\ disturbed' = disturbed \cup {t}
          /\ (wire' = wire \/ (wire # << >> /\ wire' = Overtaken(new)))
  <2>1. ASSUME wire' \in Mispushed(new), wire' # wire
        PROVE  wire # << >> /\ wire' = Overtaken(new)
    <3>1. PICK n \in IF Disordered THEN {Len(wire)} \ {0} ELSE {} :
            wire' = SubSeq(wire, 1, Len(wire) - 1) \o <<new, wire[n]>>
      BY <2>1 DEF Mispushed
    <3>2. n = Len(wire) /\ Len(wire) # 0
      BY <3>1
    <3> QED BY <3>1, <3>2 DEF Overtaken
  <2> QED BY <1>1, <2>1 DEF Push, Linked
<1>15. Linked /\ disturbed' = disturbed \cup {t} => s # t
  OBVIOUS
<1> QED BY <1>10, <1>11, <1>12, <1>13, <1>14, <1>15

\* The other steps of the exchange.
LEMMA ExchangeFlows ==
  ASSUME MarketTyped, ChannelsSound, NEW s \in Symbols, Break \/ Acknowledge,
         InOrder(s), Unbroken(s)
  PROVE  Flows(s)
<1>1. /\ Grows /\ market' = market /\ UNCHANGED readVars
      /\ AllOf(s)' = AllOf(s)
  BY DEF Break, Acknowledge, Grows, AllOf
<1>2. wire \in Seq(Messages \cup {Ack}) /\ Ascends(wire, AllOf(s))
  BY ChannelTypes DEF InOrder
<1>3. Ack \in Messages \cup {Ack} /\ {Ack} \cap AllOf(s) = {}
  <2>1. Ack \notin AllOf(s)
    BY MarketFacts
  <2> QED BY <2>1
<1>4. Before(Pending(s), {}) /\ {} \in SUBSET AllOf(s)'
  BY DEF Before
<1>5. CASE Acknowledge
  <2>1. wire' = Append(wire, Ack) /\ Linked /\ Linked'
    BY <1>5 DEF Acknowledge, Linked
  <2>2. Ack \in AllOf(s) => Before(InChannel(wire, AllOf(s)), {Ack})
    BY <1>3
  <2>3. /\ InChannel(wire', AllOf(s)') = InChannel(wire, AllOf(s)) \cup {}
        /\ Ascends(wire', AllOf(s)')
    <3>1. /\ InChannel(Append(wire, Ack), AllOf(s)) =
               InChannel(wire, AllOf(s)) \cup ({Ack} \cap AllOf(s))
          /\ Ascends(Append(wire, Ack), AllOf(s))
      BY <1>2, <1>3, <2>2, AddedToChannel
    <3> QED BY <1>1, <1>3, <2>1, <3>1
  <2>4. InOrder(s)' /\ Pending(s)' = Pending(s) \cup {}
    BY <1>1, <1>4, <2>3, WireFlow
  <2> QED BY <1>1, <2>1, <2>4, QuietFlow
<1>6. CASE Break
  <2>1. PICK n \in 0 .. Len(wire) : wire' = SubSeq(wire, 1, n)
    BY <1>6 DEF Break
  <2> DEFINE W == InChannel(wire, AllOf(s))
             V == InChannel(SubSeq(wire, 1, n), AllOf(s))
  <2>2. V \subseteq W /\ Ascends(wire', AllOf(s)) /\ Before(V, W \ V)
    BY <1>2, <2>1, CutChannel
  <2>3. buffered' = buffered /\ stream' = stream /\ ~Linked'
    BY <1>1, <1>6 DEF Break, Linked, readVars
  <2>4. InChannel(wire', AllOf(s)') = V
    BY <1>1, <2>1
  <2> HIDE DEF W, V
  <2>5. Pending(s)' = InChannel(buffered, AllOf(s)) \cup InChannel(stream, AllOf(s)) \cup V
    BY <1>1, <2>3, <2>4 DEF Pending
  <2>6. Pending(s) = InChannel(buffered, AllOf(s)) \cup InChannel(stream, AllOf(s)) \cup W
    BY DEF Pending, W
  <2>7. /\ Before(InChannel(buffered, AllOf(s)), W) /\ Before(InChannel(stream, AllOf(s)), W)
    BY DEF InOrder, W
  <2>8. Pending(s)' \subseteq Pending(s) /\ Before(Pending(s)', Pending(s) \ Pending(s)')
    BY <2>2, <2>5, <2>6, <2>7 DEF Before
  <2>9. /\ Before(InChannel(buffered, AllOf(s)), V) /\ Before(InChannel(stream, AllOf(s)), V)
    BY <2>2, <2>7 DEF Before
  <2>10. InOrder(s)'
    BY <1>1, <2>2, <2>3, <2>4, <2>9 DEF InOrder
  <2> QED BY <1>1, <2>3, <2>8, <2>10, CutFlow
<1> QED BY <1>5, <1>6

\* A session that ends or begins.
LEMMA NothingFlows ==
  ASSUME MarketTyped, NEW s \in Symbols, Unbroken(s), market' = market, ~Linked',
         wire' = << >>, buffered' = << >>, stream' = << >>
  PROVE  Flows(s)
<1>1. AllOf(s)' = AllOf(s)
  BY DEF AllOf
<1>2. InChannel(<< >>, AllOf(s)) = {} /\ Ascends(<< >>, AllOf(s))
  BY EmptyChannel
<1>3. Pending(s)' = {}
  BY <1>1, <1>2 DEF Pending
<1>4. InOrder(s)'
  BY <1>1, <1>2 DEF InOrder, Before
<1> QED BY <1>1, <1>3, <1>4, CutFlow DEF Before

LEMMA DialFlows ==
  ASSUME MarketTyped, ChannelsSound, NEW s \in Symbols, Unbroken(s), Dial \/ SessionOver
  PROVE  Flows(s)
<1>1. CASE Dial
  <2>1. wire = << >> /\ buffered = << >> /\ stream = << >>
    BY <1>1 DEF Dial, ChannelsSound, WireSound, HeldSound
  <2>2. /\ market' = market /\ wire' = << >> /\ buffered' = << >> /\ stream' = << >>
        /\ ~Linked'
    BY <1>1, <2>1 DEF Dial, Linked, readVars
  <2> QED BY <2>2, NothingFlows
<1>2. CASE SessionOver
  <2>1. /\ market' = market /\ wire' = << >> /\ buffered' = << >> /\ stream' = << >>
        /\ ~Linked'
    BY <1>2 DEF SessionOver, EndSession, Linked
  <2> QED BY <2>1, NothingFlows
<1> QED BY <1>1, <1>2

\* The first message on the wire is taken.
LEMMA WireTaken ==
  ASSUME MarketTyped, ChannelsSound, wire # << >>, NEW s \in Symbols, InOrder(s)
  PROVE  /\ InChannel(wire, AllOf(s)) = InChannel(Tail(wire), AllOf(s)) \cup ({Head(wire)} \cap AllOf(s))
         /\ Ascends(Tail(wire), AllOf(s)) /\ Head(wire) \in Messages \cup {Ack}
         /\ Head(wire) \in AllOf(s) => Before({Head(wire)}, InChannel(Tail(wire), AllOf(s)))
<1>1. wire \in Seq(Messages \cup {Ack}) /\ Ascends(wire, AllOf(s))
  BY ChannelTypes DEF InOrder
<1>2. Head(wire) \in Messages \cup {Ack}
  BY <1>1
<1> QED BY <1>1, <1>2, TakenFromChannel

\* Trades are buffered until the acknowledgement.
LEMMA AwaitFlows ==
  ASSUME MarketTyped, ChannelsSound, NEW s \in Symbols, InOrder(s), Unbroken(s),
         AwaitTrade \/ AwaitFails \/ AwaitAck
  PROVE  Flows(s)
<1> DEFINE A == AllOf(s)
           B == InChannel(buffered, A)
           S == InChannel(stream, A)
           W == InChannel(Tail(wire), A)
           h == {Head(wire)} \cap A
<1>1. market' = market /\ Grows /\ AllOf(s)' = A
  BY DEF AwaitTrade, AwaitFails, AwaitAck, Grows, AllOf
<1>2. CASE EndSession
  BY <1>1, <1>2, NothingFlows DEF EndSession, Linked
<1>3. ASSUME wire # << >>
      PROVE  /\ Pending(s) = B \cup S \cup W \cup h
             /\ Ascends(buffered, A) /\ Ascends(stream, A) /\ Ascends(Tail(wire), A)
             /\ Before(B, S) /\ Before(B, W) /\ Before(B, h) /\ Before(S, W) /\ Before(S, h)
             /\ Before(h, W) /\ Head(wire) \in Messages \cup {Ack}
  <2>1. InChannel(wire, A) = W \cup h
    BY <1>3, WireTaken
  <2>2. Pending(s) = B \cup S \cup W \cup h
    BY <2>1 DEF Pending
  <2>3. /\ Ascends(buffered, A) /\ Ascends(stream, A)
        /\ Before(B, S) /\ Before(B, W \cup h) /\ Before(S, W \cup h)
    BY <2>1 DEF InOrder
  <2>4. Ascends(Tail(wire), A) /\ Before(h, W) /\ Head(wire) \in Messages \cup {Ack}
    BY <1>3, WireTaken DEF Before
  <2>5. Before(B, W) /\ Before(B, h) /\ Before(S, W) /\ Before(S, h)
    BY <2>3 DEF Before
  <2> QED BY <2>2, <2>3, <2>4, <2>5
<1>4. CASE AwaitTrade /\ ~EndSession
  <2>1. /\ wire # << >> /\ wire' = Tail(wire) /\ buffered' = Append(buffered, Head(wire))
        /\ stream' = stream /\ (Linked' <=> Linked) /\ phase = "awaiting"
    BY <1>4 DEF AwaitTrade, Linked
  <2>2. stream = << >> /\ S = {}
    BY <2>1, EmptyChannel DEF ChannelsSound, HeldSound
  <2>3. buffered \in Seq(Messages \cup {Ack})
    BY ChannelTypes
  <2>4. Head(wire) \in A => Before(B, {Head(wire)})
    BY <1>3, <2>1 DEF Before
  <2>5. InChannel(buffered', A) = B \cup h /\ Ascends(buffered', A)
    <3> DEFINE m == Head(wire)
    <3>1. m \in Messages \cup {Ack} /\ Ascends(buffered, A)
          /\ (m \in A => Before(InChannel(buffered, A), {m}))
      BY <1>3, <2>1, <2>4
    <3> HIDE DEF m, A
    <3>2. /\ InChannel(Append(buffered, m), A) = InChannel(buffered, A) \cup ({m} \cap A)
          /\ Ascends(Append(buffered, m), A)
      BY <2>3, <3>1, AddedToChannel
    <3> QED BY <2>1, <3>2 DEF m
  <2> HIDE DEF B, S, W, h
  <2>6. Pending(s)' = Pending(s)
    <3>1. Pending(s)' = InChannel(buffered', A) \cup InChannel(stream', A) \cup InChannel(wire', A)
      BY <1>1 DEF Pending
    <3> QED BY <1>3, <2>1, <2>5, <3>1 DEF S, W
  <2>7. Before(B \cup h, S) /\ Before(B \cup h, W) /\ Before(S, W)
    BY <1>3, <2>1, <2>2 DEF Before
  <2>8. InOrder(s)'
    BY <1>1, <1>3, <2>1, <2>5, <2>7 DEF InOrder, S, W
  <2> QED BY <1>1, <2>1, <2>6, <2>8, QuietFlow
<1>5. CASE AwaitAck
  <2>1. /\ wire # << >> /\ wire' = Tail(wire) /\ Head(wire) = Ack
        /\ buffered' = buffered /\ stream' = stream /\ (Linked' <=> Linked)
    BY <1>5 DEF AwaitAck, Linked
  <2>2. h = {}
    BY <2>1, MarketFacts
  <2> HIDE DEF B, S, W, h
  <2>3. Pending(s)' = Pending(s)
    <3>1. Pending(s)' = InChannel(buffered', A) \cup InChannel(stream', A) \cup InChannel(wire', A)
      BY <1>1 DEF Pending
    <3> QED BY <1>3, <2>1, <2>2, <3>1 DEF B, S, W
  <2>4. InOrder(s)'
    BY <1>1, <1>3, <2>1 DEF InOrder, B, S, W
  <2> QED BY <1>1, <2>1, <2>3, <2>4, QuietFlow
<1> QED BY <1>2, <1>4, <1>5 DEF AwaitFails

\* The reader queues trades, or ends with what it has read.
LEMMA ReaderFlows ==
  ASSUME MarketTyped, ChannelsSound, NEW s \in Symbols, InOrder(s), Unbroken(s),
         ReadWithBacklog \/ ReadIntoChannel
  PROVE  Flows(s)
<1> DEFINE A == AllOf(s)
           B == InChannel(buffered, A)
           S == InChannel(stream, A)
           W == InChannel(Tail(wire), A)
           h == {Head(wire)} \cap A
<1>1. market' = market /\ Grows /\ AllOf(s)' = A /\ buffered' = buffered
  BY DEF ReadWithBacklog, ReadIntoChannel, ReadFails, exchangeVars, Grows, AllOf
<1>2. CASE ReadFails
  <2>1. /\ wire' = wire /\ stream' = stream /\ (Linked' <=> Linked)
    BY <1>2 DEF ReadFails, exchangeVars, Linked
  <2>2. InOrder(s)' /\ Pending(s)' = Pending(s)
    BY <1>1, <2>1 DEF InOrder, Pending
  <2> QED BY <1>1, <2>1, <2>2, QuietFlow
<1>3. CASE Overflow
  <2>1. wire' = << >> /\ stream' = stream /\ ~Linked'
    BY <1>3 DEF Overflow, Linked
  <2>2. InChannel(wire', A) = {} /\ Ascends(wire', A)
    BY <2>1, EmptyChannel
  <2>3. Pending(s)' = B \cup S
    BY <1>1, <2>1, <2>2 DEF Pending
  <2>4. InOrder(s)'
    BY <1>1, <2>1, <2>2 DEF InOrder, Before
  <2>5. Pending(s)' \subseteq Pending(s) /\ Before(Pending(s)', Pending(s) \ Pending(s)')
    BY <2>3 DEF Pending, InOrder, Before
  <2> QED BY <1>1, <2>1, <2>4, <2>5, CutFlow
<1>4. CASE wire # << >> /\ QueueTrade
  <2>1. /\ wire' = Tail(wire) /\ stream' = Append(stream, Head(wire)) /\ (Linked' <=> Linked)
    BY <1>4 DEF QueueTrade, Linked
  <2>2. InChannel(wire, A) = W \cup h
    BY <1>4, WireTaken
  <2>3. Pending(s) = B \cup S \cup W \cup h
    BY <2>2 DEF Pending
  <2>4. /\ Ascends(buffered, A) /\ Ascends(stream, A)
        /\ Before(B, S) /\ Before(B, W \cup h) /\ Before(S, W \cup h)
    BY <2>2 DEF InOrder
  <2>5. Ascends(Tail(wire), A) /\ Before(h, W) /\ Head(wire) \in Messages \cup {Ack}
    BY <1>4, WireTaken DEF Before
  <2>6. InChannel(stream', A) = S \cup h /\ Ascends(stream', A)
    <3> DEFINE m == Head(wire)
    <3>1. stream \in Seq(Messages \cup {Ack})
      BY ChannelTypes
    <3>2. m \in A => Before(InChannel(stream, A), {m})
      BY <2>4 DEF Before
    <3> HIDE DEF A
    <3>3. /\ InChannel(Append(stream, m), A) = InChannel(stream, A) \cup ({m} \cap A)
          /\ Ascends(Append(stream, m), A)
      <4> HIDE DEF m
      <4> QED BY <2>4, <2>5, <3>1, <3>2, AddedToChannel DEF m
    <3> QED BY <2>1, <3>3
  <2> HIDE DEF B, S, W, h
  <2>7. Pending(s)' = Pending(s)
    <3>1. Pending(s)' = InChannel(buffered', A) \cup InChannel(stream', A) \cup InChannel(wire', A)
      BY <1>1 DEF Pending
    <3> QED BY <1>1, <2>1, <2>3, <2>6, <3>1 DEF B, W
  <2>8. Before(B, S \cup h) /\ Before(B, W) /\ Before(S \cup h, W)
    BY <2>4, <2>5 DEF Before
  <2>9. InOrder(s)'
    BY <1>1, <2>1, <2>4, <2>5, <2>6, <2>8 DEF InOrder, B, W
  <2> QED BY <1>1, <2>1, <2>7, <2>9, QuietFlow
<1> QED
  BY <1>2, <1>3, <1>4 DEF ReadWithBacklog, ReadIntoChannel, CanRead

LEMMA DoneFlows ==
  ASSUME MarketTyped, NEW s \in Symbols, InOrder(s), Unbroken(s),
         RecoveryDone \/ UNCHANGED vars
  PROVE  Flows(s)
<1>1. /\ market' = market /\ wire' = wire /\ stream' = stream /\ buffered' = buffered
      /\ Grows /\ AllOf(s)' = AllOf(s) /\ (Linked' <=> Linked)
  BY DEF RecoveryDone, vars, sessionVars, exchangeVars, readVars, Grows, AllOf, Linked
<1>2. InOrder(s)' /\ Pending(s)' = Pending(s)
  BY <1>1 DEF InOrder, Pending
<1> QED BY <1>1, <1>2, QuietFlow

\* What is replayed to a new subscription.
ReplaySound(replay, s) ==
  /\ Ascends(replay, AllOf(s))
  /\ \A i \in InChannel(replay, AllOf(s)), e \in AllOf(s) : e <= i

LEMMA AcceptFlows ==
  ASSUME MarketTyped, ChannelsSound, NEW s \in Symbols, buffered = << >>,
         NEW replay, Accept(replay), ReplaySound(replay, s)
  PROVE  Flows(s)
<1>1. /\ market' = market /\ wire' = replay /\ stream' = stream /\ buffered' = buffered
      /\ AllOf(s)' = AllOf(s) /\ link = "requested" /\ phase' = phase
  BY DEF Accept, readVars, AllOf
<1>2. phase = "awaiting" /\ stream = << >>
  BY <1>1 DEF ChannelsSound, WireSound, HeldSound
<1>3. InChannel(<< >>, AllOf(s)) = {} /\ Ascends(<< >>, AllOf(s))
  BY EmptyChannel
<1>4. Pending(s)' = InChannel(replay, AllOf(s))
  BY <1>1, <1>2, <1>3 DEF Pending
<1>5. InOrder(s)'
  BY <1>1, <1>2, <1>3 DEF InOrder, Before, ReplaySound
<1>6. ~InSession'
  BY <1>1, <1>2 DEF InSession
<1> QED BY <1>1, <1>4, <1>5, <1>6, FirstFlow DEF ReplaySound

\* The replay on Coinbase has the last trade of each symbol, once.
LEMMA LastMatchesSound ==
  ASSUME MarketTyped, NEW s \in Symbols
  PROVE  ReplaySound(Coinbase!LastMatches, s)
<1> DEFINE last == {Coinbase!Max(Coinbase!AllOf(t)) : t \in {x \in Symbols : Coinbase!AllOf(x) # {}}}
           n == Cardinality(last)
           f(k) == CHOOSE i \in last : Coinbase!Cardinality({j \in last : j <= i}) = k
<1>1. /\ \A S : Coinbase!Cardinality(S) = Cardinality(S)
      /\ (\A t : Coinbase!AllOf(t) = AllOf(t)) /\ (\A S : Coinbase!Max(S) = Max(S))
  BY DEF Coinbase!Cardinality, Cardinality, Coinbase!AllOf, AllOf, Coinbase!Max, Max
<1>2. Coinbase!LastMatches =
        [k \in 1 .. Coinbase!Cardinality(last) |->
           CHOOSE i \in last : Coinbase!Cardinality({j \in last : j <= i}) = k]
  BY DEF Coinbase!LastMatches
<1>3. last = {Max(AllOf(t)) : t \in {x \in Symbols : AllOf(x) # {}}}
  BY <1>1
<1>4. \A t \in {x \in Symbols : AllOf(x) # {}} :
        Max(AllOf(t)) \in AllOf(t) /\ \A e \in AllOf(t) : e <= Max(AllOf(t))
  <2> SUFFICES ASSUME NEW t \in Symbols, AllOf(t) # {}
               PROVE  Max(AllOf(t)) \in AllOf(t) /\ \A e \in AllOf(t) : e <= Max(AllOf(t))
    OBVIOUS
  <2>1. AllOf(t) \in SUBSET Nat /\ IsFiniteSet(AllOf(t))
    BY IdFacts
  <2> QED BY <2>1, MaxFacts
<1> HIDE DEF last
<1>5. last \subseteq DOMAIN market
  BY <1>3, <1>4 DEF AllOf
<1>6. last \in SUBSET Nat /\ IsFiniteSet(last)
  <2>1. DOMAIN market = 1 .. Len(market) /\ Len(market) \in Nat
    BY DEF MarketTyped
  <2>2. IsFiniteSet(1 .. Len(market))
    BY <2>1, FS_Interval
  <2> QED BY <1>5, <2>1, <2>2, FS_Subset
<1>7. \A i \in last \cap AllOf(s), e \in AllOf(s) : e <= i
  <2> SUFFICES ASSUME NEW i \in last, i \in AllOf(s), NEW e \in AllOf(s) PROVE e <= i
    OBVIOUS
  <2>1. PICK t \in Symbols : AllOf(t) # {} /\ i = Max(AllOf(t))
    BY <1>3
  <2>2. i \in AllOf(t)
    BY <1>4, <2>1
  <2>3. t = s
    BY <2>2 DEF AllOf
  <2> QED BY <1>4, <2>1, <2>3
<1>8. ASSUME NEW k \in 1 .. n PROVE f(k) \in last /\ Rank(last, f(k)) = k
  <2>1. \A i : Coinbase!Cardinality({j \in last : j <= i}) = Rank(last, i)
    BY <1>1 DEF Rank
  <2>2. PICK i \in last : Rank(last, i) = k
    BY <1>6, RankFacts
  <2>3. Coinbase!Cardinality({j \in last : j <= i}) = k
    BY <2>1, <2>2
  <2>4. f(k) \in last /\ Coinbase!Cardinality({j \in last : j <= f(k)}) = k
    BY <2>3
  <2> QED BY <2>1, <2>4
<1>9. n \in Nat
  BY <1>6, FS_CardinalityType
<1> HIDE DEF n
<1>10. Coinbase!LastMatches = [k \in 1 .. n |-> f(k)]
  <2>1. Coinbase!Cardinality(last) = n
    BY <1>1 DEF n
  <2> QED BY <1>2, <2>1
<1> HIDE DEF f
<1> DEFINE r == Coinbase!LastMatches
<1>11. DOMAIN r = 1 .. n /\ \A k \in 1 .. n : r[k] \in last /\ Rank(last, r[k]) = k
  BY <1>8, <1>10
<1> HIDE DEF r
<1>12. Ascends(r, AllOf(s))
  <2> SUFFICES ASSUME NEW p \in 1 .. n, NEW q \in 1 .. n, p < q, r[p] \in AllOf(s), r[q] \in AllOf(s)
               PROVE  FALSE
    BY <1>11 DEF Ascends
  <2>1. r[p] \in last /\ r[q] \in last /\ r[p] \in Nat /\ r[q] \in Nat
    BY <1>6, <1>11
  <2>2. r[p] <= r[q] /\ r[q] <= r[p]
    BY <1>7, <2>1
  <2>3. r[p] = r[q]
    BY <2>1, <2>2
  <2>4. p = q
    BY <1>11, <2>3
  <2> QED BY <1>9, <2>4
<1>13. \A i \in InChannel(r, AllOf(s)), e \in AllOf(s) : e <= i
  BY <1>7, <1>11 DEF InChannel
<1> QED BY <1>12, <1>13 DEF ReplaySound, r

-----------------------------------------------------------------------------
(***************************************************************************)
(* The steps of a recovery.                                                *)
(***************************************************************************)

\* Nothing but the recovery of t changes.
RecoveryOf(t) ==
  /\ Recovering(t)
  /\ UNCHANGED <<market, link, wire, phase, readVars, lastIDs, emitted>>

LEMMA AsideFacts ==
  ASSUME NEW s, UNCHANGED <<market, link, wire, readVars, lastIDs, emitted>>
  PROVE  /\ AllOf(s)' = AllOf(s) /\ Pending(s)' = Pending(s) /\ Fed(s)' = Fed(s)
         /\ Later(s)' = Later(s) /\ EmittedOf(s)' = EmittedOf(s)
         /\ (InOrder(s)' <=> InOrder(s)) /\ (Unbroken(s)' <=> Unbroken(s))
         /\ (LastOf(s)' <=> LastOf(s)) /\ (Begun(s)' <=> Begun(s))
         /\ (Contiguous(s)' <=> Contiguous(s)) /\ \A i : Id(i)' = Id(i)
<1>1. /\ market' = market /\ link' = link /\ wire' = wire /\ buffered' = buffered
      /\ stream' = stream /\ lastIDs' = lastIDs /\ emitted' = emitted
  BY DEF readVars
<1>2. AllOf(s)' = AllOf(s) /\ \A i : Id(i)' = Id(i)
  BY <1>1 DEF AllOf, Id
<1>3. Pending(s)' = Pending(s) /\ (InOrder(s)' <=> InOrder(s))
  BY <1>1, <1>2 DEF Pending, InOrder
<1>4. Fed(s)' = Fed(s)
  BY <1>1, <1>2, <1>3 DEF Fed, Linked
<1>5. Later(s)' = Later(s)
  BY <1>1, <1>2 DEF Later
<1>6. EmittedOf(s)' = EmittedOf(s)
  BY <1>1, <1>2 DEF EmittedOf
<1>7. (Unbroken(s)' <=> Unbroken(s)) /\ (Begun(s)' <=> Begun(s))
  BY <1>1, <1>3, <1>4, <1>6 DEF Unbroken, Begun
<1>8. (LastOf(s)' <=> LastOf(s)) /\ (Contiguous(s)' <=> Contiguous(s))
  BY <1>1, <1>2, <1>6 DEF LastOf, Contiguous
<1> QED BY <1>2, <1>3, <1>4, <1>5, <1>6, <1>7, <1>8

\* The recovery of another symbol.
LEMMA OtherRecovers ==
  ASSUME NEW s \in Symbols, NEW t \in Symbols, s # t, FeedInv(s), RecoveryOf(t),
         NEW found \in SUBSET AllOf(t),
         \/ NextSymbol(t) /\ recovered' = recovered \cup found
         \/ UNCHANGED <<todo, recovered>>
  PROVE  FeedInv(s)'
<1>1. UNCHANGED <<market, link, wire, phase, readVars, lastIDs, emitted>>
  BY DEF RecoveryOf
<1>2. /\ InOrder(s)' /\ Unbroken(s)' /\ LastOf(s)' /\ Begun(s)' /\ Contiguous(s)'
      /\ Pending(s)' = Pending(s) /\ Fed(s)' = Fed(s) /\ Later(s)' = Later(s)
      /\ AllOf(s)' = AllOf(s) /\ \A i : Id(i)' = Id(i)
  BY <1>1, AsideFacts DEF FeedInv
<1>3. AllOf(s) \cap AllOf(t) = {}
  BY DEF AllOf
<1>4. Due(s)' = Due(s)
  BY <1>2, <1>3 DEF Due
<1>5. Recovers(s)'
  BY <1>1, <1>2, <1>4 DEF Recovers, FeedInv
<1>6. Joined(s)'
  <2>1. s \notin todo' => s \notin todo
    BY DEF NextSymbol
  <2> QED BY <1>1, <1>2, <1>4, <2>1 DEF Joined, InSession, FeedInv
<1>7. Backwards(s)'
  <2>1. after' # 0 => ~Recovering(s)'
    <3>1. CASE NextSymbol(t)
      BY <3>1 DEF NextSymbol
    <3>2. ASSUME UNCHANGED todo, Recovering(s)' PROVE FALSE
      <4>1. s <= t /\ t <= s
        BY <3>2 DEF RecoveryOf, Recovering
      <4> QED BY <4>1, SessionAssumption
    <3> QED BY <3>1, <3>2
  <2> QED BY <2>1 DEF Backwards
<1> QED BY <1>2, <1>5, <1>6, <1>7 DEF FeedInv

\* The recovery of the symbol comes to an end without an error, or to another page.
Completes(s, found) ==
  /\ FollowsCursor(s, found)
  /\ Fed(s) \cap Later(s) \subseteq found \cup Pending(s)
Continues(s, found, oldest) ==
  oldest # 0 => {k \in Fed(s) \cap Later(s) : Id(k) >= oldest} \subseteq found \cup Pending(s)

LEMMA SymbolRecovers ==
  ASSUME MarketTyped, NEW s \in Symbols, lastIDs[s] \in Nat, lastIDs[s] # 0,
         recovered \cap AllOf(s) = {}, FeedInv(s), RecoveryOf(s),
         NEW found \in SUBSET AllOf(s), NEW oldest,
         \/ SymbolRecovered(s, found) /\ Completes(s, found)
         \/ /\ rows' = found /\ after' = oldest /\ UNCHANGED <<todo, recovered>>
            /\ Continues(s, found, oldest)
  PROVE  FeedInv(s)'
<1>1. UNCHANGED <<market, link, wire, phase, readVars, lastIDs, emitted>>
  BY DEF RecoveryOf
<1>2. /\ InOrder(s)' /\ Unbroken(s)' /\ LastOf(s)' /\ Begun(s)' /\ Contiguous(s)'
      /\ Pending(s)' = Pending(s) /\ Fed(s)' = Fed(s) /\ Later(s)' = Later(s)
      /\ AllOf(s)' = AllOf(s) /\ \A i : Id(i)' = Id(i)
  BY <1>1, AsideFacts DEF FeedInv
<1>3. /\ \A i \in AllOf(s) : Id(i) \in Nat
      /\ \A i, j \in AllOf(s) : i < j => Id(i) < Id(j)
      /\ \A i, j \in AllOf(s) : Id(i) = Id(j) => i = j
  BY IdFacts
<1>4. CASE SymbolRecovered(s, found) /\ Completes(s, found)
  <2>1. Due(s)' = found /\ todo' = todo \ {s} /\ after' = 0
    BY <1>2, <1>4 DEF SymbolRecovered, NextSymbol, Due
  <2> DEFINE n == Cardinality(found)
             L == lastIDs[s]
  <2>2. {Id(i) : i \in found} = L + 1 .. L + n
    BY <1>4 DEF Completes, FollowsCursor
  <2>3. Recovers(s)'
    <3>1. n \in Nat
      <4>1. IsFiniteSet(found)
        BY IdFacts, FS_Subset
      <4> QED BY <4>1, FS_CardinalityType
    <3> HIDE DEF n
    <3>2. found \subseteq Later(s)
      <4> SUFFICES ASSUME NEW i \in found PROVE Id(i) > lastIDs[s]
        BY DEF Later
      <4>1. Id(i) \in L + 1 .. L + n
        BY <2>2
      <4> QED BY <3>1, <4>1
    <3>3. ASSUME NEW i \in found, NEW k \in Later(s), k < i PROVE k \in found
      <4>1. Id(i) \in L + 1 .. L + n
        BY <2>2
      <4>2. Id(k) < Id(i) /\ Id(k) > L /\ Id(k) \in Nat /\ Id(i) \in Nat /\ k \in AllOf(s)
        BY <1>3, <3>3 DEF Later
      <4>3. Id(k) \in L + 1 .. L + n
        BY <3>1, <4>1, <4>2
      <4>4. PICK j \in found : Id(j) = Id(k)
        BY <2>2, <4>3
      <4> QED BY <1>3, <4>2, <4>4
    <3> QED BY <1>1, <1>2, <2>1, <3>2, <3>3 DEF Recovers
  <2>4. Joined(s)'
    BY <1>2, <1>4, <2>1 DEF Joined, Completes
  <2>5. Backwards(s)'
    BY <2>1 DEF Backwards
  <2> QED BY <1>2, <2>3, <2>4, <2>5 DEF FeedInv
<1>5. CASE /\ rows' = found /\ after' = oldest /\ UNCHANGED <<todo, recovered>>
           /\ Continues(s, found, oldest)
  <2>1. Due(s)' = Due(s)
    BY <1>2, <1>5 DEF Due
  <2>2. Recovers(s)'
    BY <1>1, <1>2, <2>1 DEF Recovers, FeedInv
  <2>3. Joined(s)'
    BY <1>5 DEF Joined, RecoveryOf, Recovering
  <2>4. Backwards(s)'
    BY <1>2, <1>5 DEF Backwards, Continues
  <2> QED BY <1>2, <2>2, <2>3, <2>4 DEF FeedInv
<1> QED BY <1>4, <1>5

-----------------------------------------------------------------------------
(***************************************************************************)
(* The pages of a complete answer.                                         *)
(***************************************************************************)

\* Where pages go forward, nothing is left behind the last one.
LEMMA NothingBehind ==
  ASSUME MarketTyped, NEW s, FollowsCursor(s, rows), rows \subseteq AllOf(s), lastIDs[s] \in Nat
  PROVE  Later(s) \subseteq rows \cup NotOlder(s, AllOf(s))
<1> DEFINE n == Cardinality(rows)
           L == lastIDs[s]
<1>1. n \in Nat
  <2>1. IsFiniteSet(rows)
    BY IdFacts, FS_Subset
  <2> QED BY <2>1, FS_CardinalityType
<1>2. {Id(i) : i \in rows} = L + 1 .. L + n /\ Expected(s) = L + 1 + n
  BY DEF FollowsCursor, Expected
<1> HIDE DEF n
<1> SUFFICES ASSUME NEW k \in Later(s), k \notin NotOlder(s, AllOf(s)) PROVE k \in rows
  OBVIOUS
<1>3. k \in AllOf(s) /\ Id(k) \in Nat /\ Id(k) > L
  BY IdFacts DEF Later
<1>4. Id(k) < L + 1 + n
  BY <1>1, <1>2, <1>3 DEF NotOlder
<1>5. Id(k) \in L + 1 .. L + n
  BY <1>1, <1>3, <1>4
<1>6. PICK j \in rows : Id(j) = Id(k)
  BY <1>2, <1>5
<1> QED BY <1>3, <1>6, IdFacts

\* A page that is not full has all there are.
LEMMA PageNotFull ==
  ASSUME MarketTyped, NEW s,
         Cardinality(ForwardPage(s, AllOf(s))) < PageLimit
  PROVE  ForwardPage(s, AllOf(s)) = NotOlder(s, AllOf(s))
<1> DEFINE N == NotOlder(s, AllOf(s))
           P == ForwardPage(s, AllOf(s))
           below(i) == {j \in N : j < i}
<1>1. N \subseteq AllOf(s) /\ P \subseteq N /\ P = {i \in N : Cardinality(below(i)) < PageLimit}
  BY DEF NotOlder, ForwardPage
<1>2. /\ N \in SUBSET Nat /\ N \ P \in SUBSET Nat
      /\ IsFiniteSet(N) /\ IsFiniteSet(P) /\ IsFiniteSet(N \ P)
  BY <1>1, IdFacts, FS_Subset
<1>3. PageLimit \in Nat /\ Cardinality(P) \in Nat
  BY <1>2, FS_CardinalityType, SessionAssumption
<1> HIDE DEF N, P
<1>4. ASSUME N \ P # {} PROVE FALSE
  <2> DEFINE m == Min(N \ P)
  <2>1. m \in N \ P /\ \A j \in N \ P : m <= j
    BY <1>2, <1>4, MinFacts
  <2> HIDE DEF m
  <2>2. below(m) \subseteq P
    <3> SUFFICES ASSUME NEW j \in N, j < m, j \notin P PROVE FALSE
      OBVIOUS
    <3>1. m <= j /\ j \in Nat /\ m \in Nat
      BY <1>2, <2>1
    <3> QED BY <3>1
  <2>3. ~(Cardinality(below(m)) < PageLimit)
    BY <1>1, <2>1
  <2>4. Cardinality(below(m)) <= Cardinality(P) /\ IsFiniteSet(below(m))
    BY <1>2, <2>2, FS_Subset
  <2>5. Cardinality(below(m)) \in Nat
    BY <2>4, FS_CardinalityType
  <2>6. Cardinality(P) < PageLimit
    BY DEF P
  <2> QED BY <1>3, <2>3, <2>4, <2>5, <2>6
<1>5. P = N
  BY <1>1, <1>4
<1> QED BY <1>5 DEF P, N

LEMMA ForwardCompletes ==
  ASSUME MarketTyped, NEW s, FollowsCursor(s, rows), rows \subseteq AllOf(s), lastIDs[s] \in Nat,
         ForwardPage(s, AllOf(s)) = NotOlder(s, AllOf(s)),
         AsExpected(s, ForwardPage(s, AllOf(s))) = ForwardPage(s, AllOf(s))
  PROVE  /\ rows \cup ForwardPage(s, AllOf(s)) \subseteq AllOf(s)
         /\ Completes(s, rows \cup ForwardPage(s, AllOf(s)))
<1> DEFINE P == ForwardPage(s, AllOf(s))
<1>1. P \in SUBSET AllOf(s) /\ \A i \in P : Id(i) >= Expected(s)
  BY DEF ForwardPage, NotOlder
<1>2. AsExpected(s, P) = P /\ Later(s) \subseteq rows \cup P
  BY NothingBehind
<1> HIDE DEF P
<1>3. FollowsCursor(s, rows \cup AsExpected(s, P))
  BY <1>1, ExpectedFollows
<1>4. FollowsCursor(s, rows \cup P)
  BY <1>2, <1>3
<1>5. rows \cup P \subseteq AllOf(s) /\ Completes(s, rows \cup P)
  BY <1>1, <1>2, <1>4 DEF Completes
<1> QED BY <1>5 DEF P

\* Where pages go backwards, one is all that is newer than its oldest trade.
BackwardPage(s) == Newest({i \in AllOf(s) : after = 0 \/ Id(i) < after})

LEMMA BackwardPageFacts ==
  ASSUME MarketTyped, NEW s, after \in Nat
  PROVE  /\ BackwardPage(s) \subseteq AllOf(s) /\ IsFiniteSet(BackwardPage(s))
         /\ \A i \in BackwardPage(s), k \in AllOf(s) :
              i <= k /\ (after = 0 \/ Id(k) < after) => k \in BackwardPage(s)
<1> DEFINE A == {i \in AllOf(s) : after = 0 \/ Id(i) < after}
           above(i) == {j \in A : j > i}
           P == BackwardPage(s)
<1>1. P = {i \in A : Cardinality(above(i)) < PageLimit} /\ P \subseteq AllOf(s)
  BY DEF BackwardPage, Newest
<1>2. A \subseteq AllOf(s) /\ A \subseteq Nat /\ IsFiniteSet(A) /\ IsFiniteSet(P)
  BY <1>1, IdFacts, FS_Subset
<1>3. ASSUME NEW i \in P, NEW k \in AllOf(s), i <= k, after = 0 \/ Id(k) < after
      PROVE  k \in P
  <2>1. k \in A /\ i \in A /\ Cardinality(above(i)) < PageLimit
    BY <1>1, <1>3
  <2> HIDE DEF A, P
  <2>2. above(k) \subseteq above(i) /\ above(k) \subseteq A /\ above(i) \subseteq A
    <3> SUFFICES ASSUME NEW j \in A, j > k PROVE j > i
      OBVIOUS
    <3>1. i \in Nat /\ j \in Nat /\ k \in Nat
      BY <1>2, <2>1
    <3> QED BY <1>3, <3>1
  <2>3. IsFiniteSet(above(i)) /\ IsFiniteSet(above(k)) /\ Cardinality(above(k)) <= Cardinality(above(i))
    BY <1>2, <2>2, FS_Subset
  <2>4. Cardinality(above(i)) \in Nat /\ Cardinality(above(k)) \in Nat
    BY <2>3, FS_CardinalityType
  <2>5. Cardinality(above(k)) < PageLimit
    BY <2>1, <2>3, <2>4, SessionAssumption
  <2> QED BY <1>1, <2>1, <2>5
<1> QED BY <1>1, <1>2, <1>3 DEF P

LEMMA BackwardFinds ==
  ASSUME MarketTyped, NEW s, rows \subseteq AllOf(s), lastIDs[s] \in Nat, after \in Nat,
         Recovering(s), Backwards(s), BackwardPage(s) # {}
  PROVE  LET found == rows \cup {i \in BackwardPage(s) : Id(i) > lastIDs[s]}
         IN  /\ found \subseteq AllOf(s)
             /\ (\E i \in BackwardPage(s) : Id(i) = lastIDs[s]) =>
                  Fed(s) \cap Later(s) \subseteq found \cup Pending(s)
             /\ Continues(s, found, Id(Min(BackwardPage(s))))
<1> DEFINE P == BackwardPage(s)
           L == lastIDs[s]
           found == rows \cup {i \in P : Id(i) > L}
           m == Min(P)
<1>1. P \subseteq AllOf(s) /\ IsFiniteSet(P) /\ found \subseteq AllOf(s)
  BY BackwardPageFacts
<1>2. \A i \in P, k \in AllOf(s) : i <= k /\ (after = 0 \/ Id(k) < after) => k \in P
  BY BackwardPageFacts
<1>3. /\ \A i \in AllOf(s) : Id(i) \in Nat
      /\ \A i, j \in AllOf(s) : Id(i) <= Id(j) => i <= j
  BY IdFacts
<1>4. m \in P
  <2>1. P \in SUBSET Nat
    BY <1>1, IdFacts
  <2> QED BY <1>1, <2>1, MinFacts
<1> HIDE DEF P, m
\* What the page does not ask for was found before or is pending.
<1>5. ASSUME NEW i \in P, NEW k \in Fed(s) \cap Later(s), Id(k) >= Id(i)
      PROVE  k \in found \cup Pending(s)
  <2>1. k \in AllOf(s) /\ Id(k) > L /\ Id(k) \in Nat /\ Id(i) \in Nat /\ i \in AllOf(s)
    BY <1>1, <1>3 DEF Later
  <2>2. i <= k
    BY <1>3, <1>5, <2>1
  <2>3. CASE after = 0 \/ Id(k) < after
    BY <1>2, <2>1, <2>2, <2>3
  <2>4. CASE ~(after = 0 \/ Id(k) < after)
    <3>1. after # 0 /\ Id(k) >= after
      BY <2>1, <2>4
    <3> QED BY <1>5, <3>1 DEF Backwards
  <2> QED BY <2>3, <2>4
<1>6. ASSUME NEW i \in P, Id(i) = L PROVE Fed(s) \cap Later(s) \subseteq found \cup Pending(s)
  <2> SUFFICES ASSUME NEW k \in Fed(s) \cap Later(s) PROVE k \in found \cup Pending(s)
    OBVIOUS
  <2>1. Id(k) > L /\ Id(k) \in Nat
    BY <1>3 DEF Later
  <2>2. Id(k) >= Id(i)
    BY <1>6, <2>1
  <2> QED BY <1>5, <2>2
<1>7. Continues(s, found, Id(m))
  BY <1>4, <1>5 DEF Continues
<1> QED BY <1>1, <1>6, <1>7 DEF P, m

\* A page, when the symbol's recovery does not give up.
Finds(s) ==
  \E found \in SUBSET AllOf(s), oldest \in Nat :
    \/ SymbolRecovered(s, found) /\ Completes(s, found)
    \/ /\ rows' = found /\ after' = oldest /\ UNCHANGED <<todo, recovered>>
       /\ Continues(s, found, oldest)

LEMMA DeribitFinds ==
  ASSUME MarketTyped, venue = "deribit", NEW s, s \notin givenUp', FoundSound(s),
         Deribit!RecoverPage(s, AllOf(s))
  PROVE  Finds(s)
<1> DEFINE page == ForwardPage(s, AllOf(s))
<1>1. rows \subseteq AllOf(s) /\ lastIDs[s] \in Nat /\ FollowsCursor(s, rows)
  BY DEF FoundSound
<1>2. \A S : Deribit!Cardinality(S) = Cardinality(S)
  BY DEF Deribit!Cardinality, Cardinality
<1>3. \A i : Deribit!Id(i) = Id(i)
  BY <1>2 DEF Deribit!Id, Id, Deribit!AllOf, AllOf
<1>4. Deribit!Expected(s) = Expected(s)
  BY <1>2 DEF Deribit!Expected, Expected
<1>5. Deribit!NotOlder(s, AllOf(s)) = NotOlder(s, AllOf(s))
  BY <1>3, <1>4 DEF Deribit!NotOlder, NotOlder
<1>6. Deribit!ForwardPage(s, AllOf(s)) = page
  BY <1>2, <1>5 DEF Deribit!ForwardPage, ForwardPage
<1>7. Deribit!AsExpected(s, page) = AsExpected(s, page)
  BY <1>2, <1>3, <1>4 DEF Deribit!AsExpected, AsExpected
<1>8. /\ \A kept : ~Deribit!SymbolFailed(s, kept)
      /\ \A found : Deribit!SymbolRecovered(s, found) <=> SymbolRecovered(s, found)
      /\ \A found, kept : Deribit!NextPage(s, found, 0, kept) =>
           rows' = found /\ after' = 0 /\ UNCHANGED <<todo, recovered>>
  BY DEF Deribit!SymbolFailed, Deribit!SymbolRecovered, SymbolRecovered,
         Deribit!NextPage, Deribit!NextSymbol, NextSymbol
<1>9. /\ AsExpected(s, page) = page
      /\ \/ SymbolRecovered(s, rows \cup page) /\ page = NotOlder(s, AllOf(s))
         \/ rows' = rows \cup page /\ after' = 0 /\ UNCHANGED <<todo, recovered>>
  BY <1>2, <1>5, <1>6, <1>7, <1>8 DEF Deribit!RecoverPage
<1>10. rows \cup page \in SUBSET AllOf(s)
  BY <1>1 DEF ForwardPage, NotOlder
<1>11. page = NotOlder(s, AllOf(s)) => Completes(s, rows \cup page)
  BY <1>1, <1>9, ForwardCompletes
<1>12. Continues(s, rows \cup page, 0)
  BY DEF Continues
<1> HIDE DEF page
<1> QED BY <1>9, <1>10, <1>11, <1>12 DEF Finds

LEMMA BinanceFinds ==
  ASSUME MarketTyped, venue = "binance", NEW s, s \notin givenUp', FoundSound(s),
         Binance!RecoverPage(s, AllOf(s))
  PROVE  Finds(s)
<1> DEFINE page == ForwardPage(s, AllOf(s))
<1>1. rows \subseteq AllOf(s) /\ lastIDs[s] \in Nat /\ FollowsCursor(s, rows)
  BY DEF FoundSound
<1>2. \A S : Binance!Cardinality(S) = Cardinality(S)
  BY DEF Binance!Cardinality, Cardinality
<1>3. \A i : Binance!Id(i) = Id(i)
  BY <1>2 DEF Binance!Id, Id, Binance!AllOf, AllOf
<1>4. Binance!Expected(s) = Expected(s)
  BY <1>2 DEF Binance!Expected, Expected
<1>5. Binance!NotOlder(s, AllOf(s)) = NotOlder(s, AllOf(s))
  BY <1>3, <1>4 DEF Binance!NotOlder, NotOlder
<1>6. Binance!ForwardPage(s, AllOf(s)) = page
  BY <1>2, <1>5 DEF Binance!ForwardPage, ForwardPage
<1>7. Binance!AsExpected(s, page) = AsExpected(s, page)
  BY <1>2, <1>3, <1>4 DEF Binance!AsExpected, AsExpected
<1>8. /\ \A kept : ~Binance!SymbolFailed(s, kept)
      /\ \A found : Binance!SymbolRecovered(s, found) <=> SymbolRecovered(s, found)
      /\ \A found, kept : Binance!NextPage(s, found, 0, kept) =>
           rows' = found /\ after' = 0 /\ UNCHANGED <<todo, recovered>>
  BY DEF Binance!SymbolFailed, Binance!SymbolRecovered, SymbolRecovered,
         Binance!NextPage, Binance!NextSymbol, NextSymbol
<1>9. /\ AsExpected(s, page) = page
      /\ \/ SymbolRecovered(s, rows \cup page) /\ Cardinality(page) < PageLimit
         \/ rows' = rows \cup page /\ after' = 0 /\ UNCHANGED <<todo, recovered>>
  BY <1>2, <1>5, <1>6, <1>7, <1>8 DEF Binance!RecoverPage
<1>10. rows \cup page \in SUBSET AllOf(s)
  BY <1>1 DEF ForwardPage, NotOlder
<1>11. Cardinality(page) < PageLimit => Completes(s, rows \cup page)
  BY <1>1, <1>9, ForwardCompletes, PageNotFull
<1>12. Continues(s, rows \cup page, 0)
  BY DEF Continues
<1> HIDE DEF page
<1> QED BY <1>9, <1>10, <1>11, <1>12 DEF Finds

LEMMA CoinbaseFinds ==
  ASSUME MarketTyped, venue = "coinbase", NEW s, s \notin givenUp', FoundSound(s),
         after \in Nat, Recovering(s), Backwards(s), Coinbase!RecoverPage(s, AllOf(s))
  PROVE  Finds(s)
<1> DEFINE P == BackwardPage(s)
           found == rows \cup {i \in P : Id(i) > lastIDs[s]}
           oldest == Id(Min(P))
<1>1. rows \subseteq AllOf(s) /\ lastIDs[s] \in Nat
  BY DEF FoundSound
<1>2. \A S : Coinbase!Cardinality(S) = Cardinality(S)
  BY DEF Coinbase!Cardinality, Cardinality
<1>3. (\A i : Coinbase!Id(i) = Id(i)) /\ \A S : Coinbase!Min(S) = Min(S)
  BY <1>2 DEF Coinbase!Id, Id, Coinbase!AllOf, AllOf, Coinbase!Min, Min
<1>4. Coinbase!Page(AllOf(s)) = P
  BY <1>2, <1>3 DEF Coinbase!Page, Coinbase!Newest, BackwardPage, Newest
<1>5. Coinbase!FollowsCursor(s, found) <=> FollowsCursor(s, found)
  BY <1>2, <1>3 DEF Coinbase!FollowsCursor, FollowsCursor
<1>6. /\ \A kept : ~Coinbase!SymbolFailed(s, kept)
      /\ \A f : Coinbase!SymbolRecovered(s, f) <=> SymbolRecovered(s, f)
      /\ \A f, o, kept : Coinbase!NextPage(s, f, o, kept) =>
           rows' = f /\ after' = o /\ UNCHANGED <<todo, recovered>>
  BY DEF Coinbase!SymbolFailed, Coinbase!SymbolRecovered, SymbolRecovered,
         Coinbase!NextPage, Coinbase!NextSymbol, NextSymbol
<1>7. /\ P # {}
      /\ \/ /\ \E i \in P : Id(i) = lastIDs[s]
            /\ FollowsCursor(s, found) /\ SymbolRecovered(s, found)
         \/ rows' = found /\ after' = oldest /\ UNCHANGED <<todo, recovered>>
  BY <1>3, <1>4, <1>5, <1>6 DEF Coinbase!RecoverPage
<1>8. /\ found \in SUBSET AllOf(s)
      /\ (\E i \in P : Id(i) = lastIDs[s]) => Fed(s) \cap Later(s) \subseteq found \cup Pending(s)
      /\ Continues(s, found, oldest)
  BY <1>1, <1>7, BackwardFinds
<1>9. oldest \in Nat
  BY MarketFacts
<1> HIDE DEF P, found, oldest
<1> QED BY <1>7, <1>8, <1>9 DEF Finds, Completes

\* The steps of a recovery keep the invariant of a symbol that is not given up.
LEMMA PageKeeps ==
  ASSUME MarketTyped, RecoverySound, venue \in Numbered, after \in Nat,
         \A x \in todo : lastIDs[x] # 0,
         NEW s \in Symbols, FeedInv(s), s \notin givenUp', s \notin disturbed',
         NEW t \in Symbols, NEW answer \in Answers(t),
         Recovering(t), Answered(t, answer),
         UNCHANGED <<exchangeVars, phase, readVars, backlog, emitVars, breaks>>,
         \/ venue = "coinbase" /\ Coinbase!RecoverPage(t, answer)
         \/ venue = "deribit" /\ Deribit!RecoverPage(t, answer)
         \/ venue = "binance" /\ Binance!RecoverPage(t, answer)
  PROVE  FeedInv(s)'
<1>1. RecoveryOf(t) /\ FoundSound(t)
  BY DEF RecoveryOf, exchangeVars, emitVars, RecoverySound
<1>2. t \in todo /\ recovered \cap AllOf(t) = {} /\ lastIDs[t] # 0 /\ lastIDs[t] \in Nat
  BY <1>1 DEF RecoverySound, Recovering, FoundSound
<1>3. CASE s = t
  <2>1. answer = AllOf(s)
    BY <1>3 DEF Answered
  <2>2. Finds(s)
    BY <1>1, <1>3, <2>1, CoinbaseFinds, DeribitFinds, BinanceFinds DEF FeedInv
  <2>3. PICK found \in SUBSET AllOf(s), oldest \in Nat :
          \/ SymbolRecovered(s, found) /\ Completes(s, found)
          \/ /\ rows' = found /\ after' = oldest /\ UNCHANGED <<todo, recovered>>
             /\ Continues(s, found, oldest)
    BY <2>2 DEF Finds
  <2> QED BY <1>1, <1>2, <1>3, <2>3, SymbolRecovers
<1>4. CASE s # t
  <2>1. PageOutcome(t)
    BY <1>1, CoinbasePage, DeribitPage, BinancePage
  <2>2. PICK found \in SUBSET (rows \cup AllOf(t)), kept \in SUBSET (rows \cup AllOf(t)), oldest \in Nat :
          SymbolFailed(t, kept) \/ SymbolRecovered(t, found) \/ NextPage(t, found, oldest, kept)
    BY <2>1 DEF PageOutcome
  <2>3. rows \cup AllOf(t) = AllOf(t)
    BY <1>1 DEF FoundSound
  <2>4. \/ SymbolFailed(t, kept) \/ SymbolRecovered(t, found)
        \/ UNCHANGED <<todo, recovered>>
    BY <2>2 DEF NextPage
  <2>5. \E f \in SUBSET AllOf(t) :
          \/ NextSymbol(t) /\ recovered' = recovered \cup f
          \/ UNCHANGED <<todo, recovered>>
    BY <2>3, <2>4 DEF SymbolFailed, SymbolRecovered
  <2> QED BY <1>1, <1>4, <2>5, OtherRecovers
<1> QED BY <1>3, <1>4

LEMMA FailureKeeps ==
  ASSUME RecoverySound, venue \in Numbered,
         NEW s \in Symbols, FeedInv(s), s \notin givenUp',
         NEW t \in Symbols, NEW kept \in SUBSET rows, RequestFails(t, kept)
  PROVE  FeedInv(s)'
<1>1. RecoveryOf(t) /\ FoundSound(t) /\ SymbolFailed(t, kept)
  BY DEF RequestFails, RecoveryOf, exchangeVars, emitVars, RecoverySound
<1>2. s # t /\ kept \in SUBSET AllOf(t) /\ NextSymbol(t) /\ recovered' = recovered \cup kept
  BY <1>1 DEF SymbolFailed, FoundSound
<1> QED BY <1>1, <1>2, OtherRecovers

-----------------------------------------------------------------------------
(***************************************************************************)
(* Emission.                                                               *)
(***************************************************************************)

\* Trade i of the symbol is taken, the least of those recovered or, when none
\* is, of those pending.
TakenFrom(s, i) ==
  /\ Pending(s)' \subseteq Pending(s) /\ InOrder(s)' /\ Unbroken(s)'
  /\ Fed(s)' \subseteq Fed(s)
  /\ \/ /\ i \in Due(s) /\ (\A j \in Due(s) : i <= j)
        /\ Due(s)' = Due(s) \ {i} /\ Pending(s)' = Pending(s)
     \/ /\ i \in Pending(s) /\ Pending(s)' = Pending(s) \ {i}
        /\ (\A j \in Pending(s)' : i < j)
        /\ Due(s) = {} /\ Due(s)' = {}

\* It is emitted, and the last id is the greatest; or it is none that is missed.
EmittedFrom(s, i) ==
  IF Id(i) > lastIDs[s]
    THEN EmittedOf(s)' = EmittedOf(s) \cup {i} /\ lastIDs'[s] = Id(i)
    ELSE EmittedOf(s)' \in {EmittedOf(s), EmittedOf(s) \cup {i}} /\ lastIDs'[s] = lastIDs[s]

\* What the steps of an emission have in common.
Emitting(s) ==
  /\ phase = "emitting" /\ phase' = phase /\ todo = {} /\ todo' = todo
  /\ market' = market /\ lastIDs[s] \in Nat

\* A trade from before the last one was emitted.
LEMMA OldIsEmitted ==
  ASSUME MarketTyped, NEW s \in Symbols, FeedInv(s), lastIDs[s] \in Nat,
         NEW i \in Pending(s), Id(i) <= lastIDs[s]
  PROVE  i \in EmittedOf(s) /\ lastIDs[s] # 0
<1>1. i \in AllOf(s) /\ i \in Nat /\ Id(i) \in Nat /\ Id(i) >= 1
  BY IdFacts DEF Pending, InChannel
<1>2. lastIDs[s] # 0
  BY <1>1
<1>3. PICK e \in EmittedOf(s) : e <= i
  BY <1>2 DEF FeedInv, Begun
<1>4. PICK g \in EmittedOf(s) : Id(g) = lastIDs[s]
  BY <1>2 DEF FeedInv, LastOf
<1>5. g \in AllOf(s) /\ e \in AllOf(s) /\ g \in Nat /\ e \in Nat
  BY IdFacts DEF EmittedOf
<1>6. i <= g
  BY <1>1, <1>4, <1>5, IdFacts
<1>7. i \in e .. g
  BY <1>1, <1>3, <1>5, <1>6
<1> QED BY <1>1, <1>2, <1>7 DEF FeedInv, Contiguous

\* Nothing that was not emitted is before the trade that is taken.
LEMMA NothingBefore ==
  ASSUME MarketTyped, NEW s \in Symbols, FeedInv(s), NEW i, TakenFrom(s, i), Emitting(s),
         lastIDs[s] # 0, NEW k \in AllOf(s), k < i
  PROVE  Id(k) <= lastIDs[s]
<1>1. /\ i \in AllOf(s) /\ i \in Nat /\ k \in Nat /\ Id(k) \in Nat /\ lastIDs[s] \in Nat
      /\ Due(s) \subseteq AllOf(s) /\ AllOf(s) \subseteq Nat /\ Pending(s) \subseteq AllOf(s)
  BY IdFacts DEF TakenFrom, Pending, InChannel, Due, Emitting
<1> SUFFICES ASSUME k \in Later(s) PROVE FALSE
  BY <1>1 DEF Later
<1>2. ~(i < k)
  BY <1>1
<1>3. CASE i \in Due(s) /\ \A j \in Due(s) : i <= j
  <2>1. k \in Due(s)
    BY <1>3 DEF FeedInv, Recovers
  <2>2. i <= k
    BY <1>3, <2>1
  <2> QED BY <1>1, <2>2
<1>4. CASE /\ i \in Pending(s) /\ Pending(s)' = Pending(s) \ {i}
           /\ (\A j \in Pending(s)' : i < j) /\ Due(s) = {}
  <2>1. k \in Fed(s)
    BY <1>4 DEF Fed
  <2>2. k \in Due(s) \cup Pending(s)
    BY <2>1 DEF FeedInv, Joined, Emitting, InSession
  <2>3. k # i
    BY <1>1
  <2> QED BY <1>2, <1>4, <2>2, <2>3
<1> QED BY <1>3, <1>4 DEF TakenFrom

LEMMA EmissionKeepsFeed ==
  ASSUME MarketTyped, NEW s \in Symbols, FeedInv(s), NEW i, TakenFrom(s, i), Emitting(s),
         EmittedFrom(s, i)
  PROVE  FeedInv(s)'
<1> DEFINE A == AllOf(s)
           E == EmittedOf(s)
           L == lastIDs[s]
           P == Pending(s)
           D == Due(s)
<1>1. /\ A' = A /\ (\A k : Id(k)' = Id(k))
      /\ i \in A /\ P \subseteq A /\ E \subseteq A /\ D \subseteq A /\ A \subseteq Nat /\ L \in Nat
  <2>1. A' = A /\ (\A k : Id(k)' = Id(k))
    BY DEF Emitting, AllOf, Id
  <2>2. A \subseteq Nat /\ L \in Nat
    BY IdFacts DEF Emitting
  <2>3. P \subseteq A /\ E \subseteq A /\ D \subseteq A
    BY DEF Pending, InChannel, EmittedOf, Due
  <2>4. i \in A
    BY <2>3 DEF TakenFrom
  <2> QED BY <2>1, <2>2, <2>3, <2>4
<1>2. /\ \A k \in A : Id(k) \in Nat /\ Id(k) >= 1
      /\ \A k, l \in A : k < l => Id(k) < Id(l)
      /\ \A k, l \in A : Id(k) <= Id(l) => k <= l
  <2>1. \A k \in A : Id(k) \in Nat /\ Id(k) \in 1 .. Cardinality(A)
    BY IdFacts
  <2>2. \A k \in A : Id(k) >= 1
    BY <2>1
  <2> QED BY <2>1, <2>2, IdFacts
<1>3. /\ P' \subseteq P /\ InOrder(s)' /\ Unbroken(s)' /\ Fed(s)' \subseteq Fed(s)
      /\ phase = "emitting" /\ phase' = "emitting" /\ todo = {} /\ todo' = {}
  BY DEF TakenFrom, Emitting
<1>4. /\ D \subseteq Later(s) /\ (L = 0 => D = {})
      /\ (\A j \in D, k \in Later(s) : k < j => k \in D)
      /\ (L # 0 => Fed(s) \cap Later(s) \subseteq D \cup P)
      /\ (L # 0 => \E e \in E : Id(e) = L) /\ (\A e \in E : Id(e) <= L)
      /\ (L # 0 => \A j \in P : \E e \in E : e <= j)
      /\ (\A j, k \in E : (j .. k) \cap A \subseteq E)
  BY <1>3 DEF FeedInv, Recovers, Joined, InSession, LastOf, Begun, Contiguous
<1>5. Later(s)' = {k \in A : Id(k) > lastIDs'[s]}
  BY <1>1 DEF Later
<1>6. Backwards(s)'
  BY <1>3 DEF Backwards, Recovering
<1>7. CASE ~(Id(i) > L)
  <2>1. Id(i) <= L
    BY <1>1, <1>2, <1>7
  <2>2. i \notin D
    BY <1>4, <1>7 DEF Later
  <2>3. i \in P /\ P' = P \ {i} /\ D = {} /\ D' = {}
    BY <2>2 DEF TakenFrom
  <2>4. i \in E /\ L # 0
    BY <1>1, <2>1, <2>3, OldIsEmitted
  <2>5. E' = E /\ lastIDs'[s] = L
    BY <1>7, <2>4 DEF EmittedFrom
  <2>6. Later(s)' = Later(s)
    BY <1>5, <2>5 DEF Later
  <2>7. Recovers(s)'
    BY <2>3 DEF Recovers
  <2>8. Joined(s)'
    <3>1. \A k \in Fed(s)' \cap Later(s)' : k \in P'
      <4> SUFFICES ASSUME NEW k \in Fed(s)', k \in Later(s) PROVE k \in P'
        BY <2>6
      <4>1. k \in P
        BY <1>3, <1>4, <2>3, <2>4
      <4>2. k # i
        BY <1>7 DEF Later
      <4> QED BY <2>3, <4>1, <4>2
    <3> QED BY <3>1 DEF Joined
  <2>9. LastOf(s)' /\ Begun(s)' /\ Contiguous(s)'
    BY <1>1, <1>3, <1>4, <2>5 DEF LastOf, Begun, Contiguous
  <2> QED BY <1>3, <1>6, <2>7, <2>8, <2>9 DEF FeedInv
<1>8. CASE Id(i) > L
  <2>1. E' = E \cup {i} /\ lastIDs'[s] = Id(i) /\ Id(i) \in Nat /\ Id(i) # 0
    BY <1>1, <1>2, <1>8 DEF EmittedFrom
  <2>2. \A k \in Later(s)' : k \in Later(s) /\ k \in A /\ Id(k) > Id(i) /\ k # i
    <3> SUFFICES ASSUME NEW k \in A, Id(k) > Id(i) PROVE Id(k) > L /\ k # i
      BY <1>5, <2>1 DEF Later
    <3>1. Id(k) \in Nat /\ ~(Id(i) > Id(i))
      BY <1>2, <2>1
    <3> QED BY <1>1, <1>8, <2>1, <3>1
  <2>3. \A k \in A : k > i => k \in Later(s)'
    BY <1>1, <1>2, <1>5, <2>1
  <2>4. D' \subseteq D /\ (\A j \in D' : j > i)
    <3>1. CASE i \in D /\ (\A j \in D : i <= j) /\ D' = D \ {i}
      <4>1. \A j \in D : j \in Nat /\ i \in Nat
        BY <1>1
      <4> QED BY <3>1, <4>1
    <3>2. CASE D' = {}
      BY <3>2
    <3> QED BY <3>1, <3>2 DEF TakenFrom
  <2>5. Recovers(s)'
    <3>1. D' \subseteq Later(s)'
      BY <1>1, <2>3, <2>4
    <3>2. ASSUME NEW j \in D', NEW k \in Later(s)', k < j PROVE k \in D'
      <4>1. k \in D
        BY <1>4, <2>2, <2>4, <3>2
      <4>2. D' = D \ {i}
        BY <2>4, <3>2 DEF TakenFrom
      <4> QED BY <2>2, <4>1, <4>2
    <3> QED BY <2>1, <3>1, <3>2 DEF Recovers
  <2>6. LastOf(s)'
    <3>1. \A e \in E : Id(e) <= Id(i)
      <4> SUFFICES ASSUME NEW e \in E PROVE Id(e) <= Id(i)
        OBVIOUS
      <4>1. Id(e) <= L /\ Id(e) \in Nat
        BY <1>1, <1>2, <1>4
      <4> QED BY <1>1, <1>8, <2>1, <4>1
    <3>2. Id(i) <= Id(i)
      BY <2>1
    <3> QED BY <1>1, <2>1, <3>1, <3>2 DEF LastOf
  <2>7. L = 0 => E = {} /\ D = {} /\ i \in P
    <3>1. ASSUME NEW e \in E PROVE L # 0
      <4>1. Id(e) <= L /\ Id(e) \in Nat /\ Id(e) >= 1
        BY <1>1, <1>2, <1>4
      <4> QED BY <1>1, <4>1
    <3>2. L = 0 => D = {}
      BY <1>4
    <3> QED BY <3>1, <3>2 DEF TakenFrom
  <2>8. Begun(s)'
    <3>1. CASE L = 0
      <4>1. \A j \in P' : i < j
        BY <2>7, <3>1 DEF TakenFrom
      <4>2. \A j \in P' : i <= j
        BY <1>1, <1>3, <4>1
      <4> QED BY <2>1, <4>2 DEF Begun
    <3>2. CASE L # 0
      BY <1>3, <1>4, <2>1, <3>2 DEF Begun
    <3> QED BY <3>1, <3>2
  <2>9. Joined(s)'
    <3> SUFFICES ASSUME NEW k \in Fed(s)', k \in Later(s)' PROVE k \in D' \cup P'
      BY DEF Joined
    <3>1. k \in Fed(s) /\ k \in Later(s) /\ k # i /\ k \in A /\ Id(k) > Id(i)
      BY <1>3, <2>2
    <3>2. k \in D \cup P
      <4>1. CASE L = 0
        <5>1. i \in P /\ i <= k
          <6>1. Id(i) <= Id(k)
            BY <1>2, <2>1, <3>1
          <6> QED BY <1>1, <1>2, <2>7, <3>1, <4>1, <6>1
        <5>2. i < k
          BY <1>1, <3>1, <5>1
        <5> QED BY <3>1, <5>1, <5>2 DEF FeedInv, Unbroken
      <4>2. CASE L # 0
        BY <1>4, <3>1, <4>2
      <4> QED BY <4>1, <4>2
    <3> QED BY <3>1, <3>2 DEF TakenFrom
  <2>10. Contiguous(s)'
    <3> SUFFICES ASSUME NEW a \in E \cup {i}, NEW b \in E \cup {i}, NEW k \in A, k \in a .. b,
                        k \notin E
                 PROVE  k = i
      BY <1>1, <2>1 DEF Contiguous
    <3>1. a \in Nat /\ b \in Nat /\ k \in Nat /\ i \in Nat /\ a <= k /\ k <= b /\ b \in A /\ a \in A
      BY <1>1
    <3>2. CASE L = 0
      <4>1. a = i /\ b = i
        BY <2>7, <3>2
      <4> QED BY <3>1, <4>1
    <3>3. CASE L # 0
      <4>1. PICK g \in E : Id(g) = L
        BY <1>4, <3>3
      <4>2. g \in A /\ g \in Nat /\ Id(k) \in Nat
        BY <1>1, <1>2, <4>1
      <4>3. ASSUME NEW c \in E PROVE c < i
        <5>1. Id(c) <= L /\ c \in A /\ Id(c) \in Nat /\ c \in Nat
          BY <1>1, <1>2, <1>4
        <5>2. ~(Id(i) <= Id(c))
          BY <1>1, <1>8, <2>1, <5>1
        <5>3. ~(i <= c)
          <6>1. i < c => Id(i) < Id(c)
            BY <1>1, <1>2, <5>1
          <6>2. i = c => Id(i) <= Id(c)
            BY <5>1
          <6>3. Id(i) < Id(c) => Id(i) <= Id(c)
            BY <2>1, <5>1
          <6> QED BY <3>1, <5>1, <5>2, <6>1, <6>2, <6>3
        <5> QED BY <3>1, <5>1, <5>3
      <4>4. b <= i
        BY <3>1, <4>3
      <4>5. CASE k < i
        <5>1. Id(k) <= Id(g)
          BY <1>1, <3>3, <4>1, <4>5, NothingBefore
        <5>2. k <= g
          BY <1>2, <4>2, <5>1
        <5>3. a \in E
          BY <3>1, <4>5
        <5>4. k \in a .. g
          BY <3>1, <4>2, <5>2
        <5> QED BY <1>4, <4>1, <5>3, <5>4
      <4> QED BY <3>1, <4>4, <4>5
    <3> QED BY <3>2, <3>3
  <2> QED BY <1>3, <1>6, <2>5, <2>6, <2>8, <2>9, <2>10 DEF FeedInv
<1> QED BY <1>7, <1>8

\* What the ring remembers was emitted.
SeenEmitted == \A n \in DOMAIN seen : \E m \in DOMAIN emitted : emitted[m].trade = seen[n]

\* The least of the pending trades is taken.
LEMMA LeastTaken ==
  ASSUME MarketTyped, NEW s, Unbroken(s), InOrder(s)', market' = market, link' = link,
         NEW i \in Pending(s), Pending(s)' = Pending(s) \ {i}, \A j \in Pending(s)' : i < j,
         recovered = {}, recovered' = {}
  PROVE  TakenFrom(s, i)
<1>1. AllOf(s)' = AllOf(s) /\ (Linked' <=> Linked)
  BY DEF AllOf, Linked
<1>2. Fed(s)' \subseteq Fed(s)
  BY <1>1 DEF Fed
<1>3. Fed(s) \subseteq Nat /\ i \in Nat /\ Pending(s)' \subseteq Nat
  BY IdFacts DEF Pending, InChannel, Fed
<1>4. Unbroken(s)'
  <2> SUFFICES ASSUME NEW j \in Pending(s)', NEW k \in Fed(s)', j < k PROVE k \in Pending(s)'
    BY DEF Unbroken
  <2>1. k \in Pending(s)
    BY <1>2 DEF Unbroken
  <2>2. k # i
    <3>1. i < j /\ i \in Nat /\ j \in Nat /\ k \in Nat
      BY <1>2, <1>3
    <3> QED BY <3>1
  <2> QED BY <2>1, <2>2
<1>5. Due(s) = {} /\ Due(s)' = {}
  BY DEF Due
<1> QED BY <1>2, <1>4, <1>5 DEF TakenFrom

\* What is taken is the least of the symbol's trades, or another symbol's.
LEMMA TakesLeast ==
  ASSUME MarketTyped, ChannelsSound, NEW s \in Symbols, recovered \subseteq Trades,
         InOrder(s), Unbroken(s), NEW i \in Trades, Takes(i)
  PROVE  /\ phase = "emitting" /\ phase' = phase /\ todo' = todo /\ market' = market
         /\ after' = after /\ givenUp' = givenUp /\ disturbed' = disturbed /\ link' = link
         /\ i \in AllOf(s) => TakenFrom(s, i)
         /\ i \notin AllOf(s) =>
              /\ Pending(s)' = Pending(s) /\ Fed(s)' = Fed(s) /\ Due(s)' = Due(s)
              /\ InOrder(s)' /\ Unbroken(s)'
<1> DEFINE A == AllOf(s)
           B == InChannel(buffered, A)
           S == InChannel(stream, A)
           W == InChannel(wire, A)
           h == {i} \cap A
<1>1. /\ phase = "emitting" /\ phase' = phase /\ todo' = todo /\ market' = market
      /\ after' = after /\ givenUp' = givenUp /\ disturbed' = disturbed
      /\ link' = link /\ wire' = wire /\ A' = A
  BY DEF Takes, TakeRecovered, TakeBuffered, TakeLive, exchangeVars, recoveryVars, requestVars,
         boundVars, faultVars, AllOf
<1>2. /\ Ascends(buffered, A) /\ Ascends(stream, A) /\ Ascends(wire, A)
      /\ Before(B, S) /\ Before(B, W) /\ Before(S, W) /\ Pending(s) = B \cup S \cup W
  BY DEF InOrder, Pending
<1>3. A \subseteq Nat /\ (Linked' <=> Linked)
  BY <1>1, IdFacts DEF Linked
<1>4. ASSUME Pending(s)' = Pending(s), InOrder(s)'
      PROVE  Fed(s)' = Fed(s) /\ Unbroken(s)'
  <2>1. Fed(s)' = Fed(s)
    BY <1>1, <1>3, <1>4 DEF Fed
  <2> QED BY <1>4, <2>1 DEF Unbroken
<1>5. CASE TakeRecovered(i)
  <2>1. /\ i \in recovered /\ (\A j \in recovered : i <= j) /\ recovered' = recovered \ {i}
        /\ buffered' = buffered /\ stream' = stream
    BY <1>5 DEF TakeRecovered, readVars
  <2>2. Pending(s)' = Pending(s) /\ InOrder(s)'
    BY <1>1, <2>1 DEF Pending, InOrder
  <2>3. Due(s)' = Due(s) \ {i} /\ (i \notin A => Due(s)' = Due(s))
    BY <1>1, <2>1 DEF Due
  <2>4. i \in A => TakenFrom(s, i)
    BY <1>4, <2>1, <2>2, <2>3 DEF TakenFrom, Due
  <2> QED BY <1>1, <1>4, <2>2, <2>3, <2>4
<1>6. CASE TakeBuffered(i)
  <2> DEFINE C == InChannel(Tail(buffered), A)
  <2>1. /\ buffered # << >> /\ i = Head(buffered) /\ buffered' = Tail(buffered) /\ stream' = stream
        /\ recovered = {} /\ recovered' = {}
    BY <1>6 DEF TakeBuffered, recoveryVars
  <2>2. /\ B = C \cup h /\ Ascends(Tail(buffered), A) /\ (i \in A => Before({i}, C))
    <3>1. buffered \in Seq(Messages \cup {Ack})
      BY ChannelTypes
    <3> QED BY <1>2, <2>1, <3>1, TakenFromChannel
  <2>3. Pending(s)' = C \cup S \cup W
    BY <1>1, <2>1 DEF Pending
  <2>4. InOrder(s)'
    <3>1. Before(C, S) /\ Before(C, W)
      BY <1>2, <2>2 DEF Before
    <3> QED BY <1>1, <1>2, <2>1, <2>2, <3>1 DEF InOrder
  <2>5. ASSUME i \in A PROVE TakenFrom(s, i)
    <3>1. \A j \in C \cup S \cup W : i < j
      BY <1>2, <2>2, <2>5 DEF Before
    <3>2. i \notin C \cup S \cup W
      <4>1. ~(i < i)
        BY <1>3, <2>5
      <4> QED BY <3>1, <4>1
    <3>3. i \in Pending(s) /\ Pending(s)' = Pending(s) \ {i}
      <4> HIDE DEF B, C, S, W, A
      <4> QED BY <1>2, <2>2, <2>3, <2>5, <3>2 DEF A
    <3> QED BY <1>1, <2>1, <2>3, <2>4, <3>1, <3>3, LeastTaken
  <2>6. i \notin A => Pending(s)' = Pending(s)
    BY <1>2, <2>2, <2>3
  <2>7. Due(s)' = Due(s)
    BY <2>1 DEF Due
  <2> QED BY <1>1, <1>4, <2>4, <2>5, <2>6, <2>7
<1>7. CASE TakeLive(i)
  <2> DEFINE C == InChannel(Tail(stream), A)
  <2>1. /\ stream # << >> /\ i = Head(stream) /\ stream' = Tail(stream)
        /\ buffered = << >> /\ buffered' = buffered /\ recovered = {} /\ recovered' = {}
    BY <1>7 DEF TakeLive, recoveryVars
  <2>2. /\ S = C \cup h /\ Ascends(Tail(stream), A) /\ (i \in A => Before({i}, C))
    <3>1. stream \in Seq(Messages \cup {Ack})
      BY ChannelTypes
    <3> QED BY <1>2, <2>1, <3>1, TakenFromChannel
  <2>3. B = {}
    BY <2>1, EmptyChannel
  <2>4. Pending(s)' = C \cup W /\ Pending(s) = S \cup W
    BY <1>1, <1>2, <2>1, <2>3 DEF Pending
  <2>5. InOrder(s)'
    <3>1. Before(B, C) /\ Before(C, W)
      BY <1>2, <2>2 DEF Before
    <3> QED BY <1>1, <1>2, <2>1, <2>2, <3>1 DEF InOrder
  <2>6. ASSUME i \in A PROVE TakenFrom(s, i)
    <3>1. \A j \in C \cup W : i < j
      BY <1>2, <2>2, <2>6 DEF Before
    <3>2. i \notin C \cup W
      <4>1. ~(i < i)
        BY <1>3, <2>6
      <4> QED BY <3>1, <4>1
    <3>3. i \in Pending(s) /\ Pending(s)' = Pending(s) \ {i}
      <4> HIDE DEF B, C, S, W, A
      <4> QED BY <2>2, <2>4, <2>6, <3>2 DEF A
    <3> QED BY <1>1, <2>1, <2>4, <2>5, <3>1, <3>3, LeastTaken
  <2>7. i \notin A => Pending(s)' = Pending(s)
    BY <2>2, <2>4
  <2>8. Due(s)' = Due(s)
    BY <2>1 DEF Due
  <2> QED BY <1>1, <1>4, <2>5, <2>6, <2>7, <2>8
<1> QED BY <1>5, <1>6, <1>7 DEF Takes

\* What is emitted, and what the ring remembers.
LEMMA AppendedEmission ==
  ASSUME EmittedTyped, market' = market, NEW s, NEW i, NEW b,
         emitted' = Append(emitted, [trade |-> i, sequential |-> b])
  PROVE  /\ EmittedOf(s)' = EmittedOf(s) \cup ({i} \cap AllOf(s))
         /\ \E m \in DOMAIN emitted' : emitted'[m].trade = i
         /\ \A n \in DOMAIN emitted : n \in DOMAIN emitted' /\ emitted'[n] = emitted[n]
<1> DEFINE e == [trade |-> i, sequential |-> b]
           k == Len(emitted)
<1>1. k \in Nat /\ DOMAIN emitted = 1 .. k
  BY EmittedFacts
<1>2. /\ DOMAIN emitted' = 1 .. k + 1 /\ emitted'[k + 1] = e
      /\ \A n \in 1 .. k : emitted'[n] = emitted[n]
  <2> DEFINE T == [trade : Trades, sequential : BOOLEAN] \cup {e}
  <2>1. emitted \in Seq(T) /\ e \in T
    BY WiderSeq DEF EmittedTyped
  <2>2. emitted' = Append(emitted, e)
    OBVIOUS
  <2> HIDE DEF e, T
  <2> QED BY <2>1, <2>2, AppendProperties
<1>3. e.trade = i
  OBVIOUS
<1>4. k + 1 \in 1 .. k + 1 /\ \A n : n \in 1 .. k + 1 <=> n \in 1 .. k \/ n = k + 1
  BY <1>1
<1>5. AllOf(s)' = AllOf(s)
  BY DEF AllOf
<1> HIDE DEF e, k
<1>6. \A j : (\E n \in DOMAIN emitted' : emitted'[n].trade = j) <=>
             j = i \/ \E n \in DOMAIN emitted : emitted[n].trade = j
  BY <1>1, <1>2, <1>3, <1>4
<1>7. EmittedOf(s)' = EmittedOf(s) \cup ({i} \cap AllOf(s))
  BY <1>5, <1>6 DEF EmittedOf
<1> QED BY <1>1, <1>2, <1>4, <1>6, <1>7

LEMMA RememberedTrades ==
  ASSUME SeenTyped, NEW i \in Trades, Remember(i)
  PROVE  \A n \in DOMAIN seen' : seen'[n] = i \/ \E m \in DOMAIN seen : seen[m] = seen'[n]
<1> DEFINE all == Append(seen, i)
           k == Len(seen)
           o == IF Len(all) > SeenLimit THEN 2 ELSE 1
<1>1. /\ k \in Nat /\ DOMAIN seen = 1 .. k /\ all \in Seq(Trades) /\ Len(all) = k + 1
      /\ all[k + 1] = i /\ \A n \in 1 .. k : all[n] = seen[n]
  BY AppendProperties DEF SeenTyped
<1>2. o \in {1, 2} /\ seen' = SubSeq(all, o, k + 1)
  BY <1>1 DEF Remember
<1> HIDE DEF all, o, k
<1>3. \A n \in DOMAIN seen' : \E m \in 1 .. k + 1 : seen'[n] = all[m]
  <2> SUFFICES ASSUME NEW n \in DOMAIN seen' PROVE \E m \in 1 .. k + 1 : seen'[n] = all[m]
    OBVIOUS
  <2>1. CASE o = 1
    <3>1. DOMAIN seen' = 1 .. k + 1 /\ seen'[n] = all[n]
      BY <1>1, <1>2, <2>1
    <3> QED BY <3>1
  <2>2. CASE o = 2
    <3>1. DOMAIN seen' = 1 .. k /\ seen'[n] = all[n + 1]
      BY <1>1, <1>2, <2>2
    <3>2. n + 1 \in 1 .. k + 1
      BY <1>1, <3>1
    <3> QED BY <3>1, <3>2
  <2> QED BY <1>2, <2>1, <2>2
<1>4. \A m \in 1 .. k + 1 : m \in 1 .. k \/ m = k + 1
  BY <1>1
<1> QED BY <1>1, <1>3, <1>4

\* A trade is emitted unless it is known to have been.
LEMMA EmitsFrom ==
  ASSUME MarketTyped, EmittedTyped, SeenEmitted, lastIDs \in [Symbols -> Nat],
         market' = market, NEW i \in Trades, EmitUnseen(i) \/ EmitParsedTrade(i),
         NEW s \in Symbols, LastOf(s)
  PROVE  /\ i \in AllOf(s) => EmittedFrom(s, i)
         /\ i \notin AllOf(s) => EmittedOf(s)' = EmittedOf(s) /\ lastIDs'[s] = lastIDs[s]
<1> DEFINE t == market[i]
           L == lastIDs[t]
           n == IF Id(i) > L THEN Id(i) ELSE L
           b == L # 0 /\ Id(i) = L + 1
<1>1. /\ t \in Symbols /\ L \in Nat /\ (i \in AllOf(s) <=> s = t)
      /\ i \in AllOf(t) /\ Id(i) \in Nat /\ Id(i) >= 1
  <2>1. t \in Symbols /\ i \in AllOf(t) /\ (i \in AllOf(s) <=> s = t)
    BY MarketFacts DEF AllOf, Trades
  <2>2. Id(i) \in Nat /\ Id(i) \in 1 .. Cardinality(AllOf(t))
    BY <2>1, IdFacts
  <2> QED BY <2>1, <2>2
<1>2. AllOf(s)' = AllOf(s)
  BY DEF AllOf
<1>3. CASE UNCHANGED emitVars /\ (s = t => Id(i) <= L)
  <2>1. EmittedOf(s)' = EmittedOf(s) /\ lastIDs' = lastIDs
    BY <1>2, <1>3 DEF EmittedOf, emitVars
  <2> QED BY <1>1, <1>3, <2>1 DEF EmittedFrom
<1>4. CASE emitted' = Append(emitted, [trade |-> i, sequential |-> b])
           /\ lastIDs' = [lastIDs EXCEPT ![t] = n]
  <2> HIDE DEF b
  <2>1. EmittedOf(s)' = EmittedOf(s) \cup ({i} \cap AllOf(s))
    BY <1>4, AppendedEmission
  <2>2. s # t => lastIDs'[s] = lastIDs[s]
    BY <1>1, <1>4
  <2>3. lastIDs'[t] = n
    BY <1>1, <1>4
  <2>4. i \notin AllOf(s) => EmittedOf(s)' = EmittedOf(s)
    BY <2>1
  <2>5. i \in AllOf(s) => EmittedOf(s)' = EmittedOf(s) \cup {i}
    BY <2>1
  <2> HIDE DEF t
  <2> QED BY <1>1, <2>2, <2>3, <2>4, <2>5 DEF EmittedFrom
<1>5. CASE EmitUnseen(i)
  <2>1. CASE \E k \in DOMAIN seen : seen[k] = i
    <3>1. UNCHANGED emitVars
      BY <1>5, <2>1 DEF EmitUnseen
    <3>2. \E m \in DOMAIN emitted : emitted[m].trade = i
      BY <2>1 DEF SeenEmitted
    <3>3. s = t => i \in EmittedOf(s)
      BY <1>1, <3>2 DEF EmittedOf
    <3>4. s = t => Id(i) <= L
      BY <3>3 DEF LastOf
    <3> QED BY <1>3, <3>1, <3>4
  <2>2. CASE ~\E k \in DOMAIN seen : seen[k] = i
    BY <1>4, <1>5, <2>2 DEF EmitUnseen, Emit
  <2> QED BY <2>1, <2>2
<1>6. CASE EmitParsedTrade(i)
  <2>1. CASE L # 0 /\ Id(i) <= L
    BY <1>3, <1>6, <2>1 DEF EmitParsedTrade
  <2>2. CASE ~(L # 0 /\ Id(i) <= L)
    <3>1. Id(i) > L
      BY <1>1, <2>2
    <3> QED BY <1>4, <1>6, <2>2, <3>1 DEF EmitParsedTrade, Emit
  <2> QED BY <2>1, <2>2
<1> QED BY <1>5, <1>6

\* What else the emission needs and the other steps keep.
Extras ==
  /\ SeenEmitted
  /\ todo = {} => after = 0
  /\ \A s \in todo : lastIDs[s] # 0
  /\ link = "requested" => buffered = << >>

Undisturbed == Symbols \ (givenUp \cup disturbed)
NInv == Extras /\ \A s \in Undisturbed : FeedInv(s)

\* What the lemmas of the other parts provide.
Given ==
  /\ MarketTyped /\ ChannelsSound /\ EmittedTyped /\ SeenTyped
  /\ lastIDs \in [Symbols -> Nat] /\ RecoveryTyped /\ RecoverySound /\ venue \in Numbered

LEMMA EmissionKeepsNInv ==
  ASSUME Given, NInv, NEW i \in Trades, Takes(i), EmitUnseen(i) \/ EmitParsedTrade(i)
  PROVE  NInv'
<1>1. /\ MarketTyped /\ ChannelsSound /\ EmittedTyped /\ SeenTyped /\ SeenEmitted
      /\ lastIDs \in [Symbols -> Nat] /\ recovered \subseteq Trades /\ RecoverySound
      /\ venue \in Numbered
  BY DEF Given, RecoveryTyped, NInv, Extras
<1>2. /\ phase = "emitting" /\ phase' = phase /\ todo' = todo /\ market' = market
      /\ after' = after /\ givenUp' = givenUp /\ disturbed' = disturbed /\ link' = link
  BY DEF Takes, TakeRecovered, TakeBuffered, TakeLive, exchangeVars, recoveryVars, requestVars,
         boundVars, faultVars
<1>3. todo = {}
  BY <1>1, <1>2 DEF RecoverySound
<1>4. link # "requested"
  BY <1>1, <1>2 DEF ChannelsSound, WireSound
<1>5. SeenEmitted'
  <2>1. CASE UNCHANGED emitVars
    BY <1>1, <2>1 DEF SeenEmitted, emitVars
  <2>2. ASSUME NEW b, emitted' = Append(emitted, [trade |-> i, sequential |-> b]),
               seen' = seen \/ Remember(i)
        PROVE  SeenEmitted'
    <3>1. /\ \E m \in DOMAIN emitted' : emitted'[m].trade = i
          /\ \A n \in DOMAIN emitted : n \in DOMAIN emitted' /\ emitted'[n] = emitted[n]
      BY <1>1, <1>2, <2>2, AppendedEmission
    <3>2. \A n \in DOMAIN seen' : seen'[n] = i \/ \E m \in DOMAIN seen : seen[m] = seen'[n]
      BY <1>1, <2>2, RememberedTrades
    <3> QED BY <1>1, <3>1, <3>2 DEF SeenEmitted
  <2>3. \/ UNCHANGED emitVars
        \/ \E b : /\ emitted' = Append(emitted, [trade |-> i, sequential |-> b])
                  /\ seen' = seen \/ Remember(i)
    BY DEF EmitUnseen, EmitParsedTrade, Emit
  <2> QED BY <2>1, <2>2, <2>3
<1>6. Extras'
  BY <1>2, <1>3, <1>4, <1>5 DEF Extras, NInv
<1>7. ASSUME NEW s \in Symbols, FeedInv(s) PROVE FeedInv(s)'
  <2>1. LastOf(s) /\ InOrder(s) /\ Unbroken(s)
    BY <1>7 DEF FeedInv
  <2>2. /\ i \in AllOf(s) => TakenFrom(s, i)
        /\ i \notin AllOf(s) =>
             /\ Pending(s)' = Pending(s) /\ Fed(s)' = Fed(s) /\ Due(s)' = Due(s)
             /\ InOrder(s)' /\ Unbroken(s)'
    BY <1>1, <2>1, TakesLeast
  <2>3. /\ i \in AllOf(s) => EmittedFrom(s, i)
        /\ i \notin AllOf(s) => EmittedOf(s)' = EmittedOf(s) /\ lastIDs'[s] = lastIDs[s]
    BY <1>1, <1>2, <2>1, EmitsFrom
  <2>4. CASE i \in AllOf(s)
    <3>1. Emitting(s)
      BY <1>1, <1>2, <1>3 DEF Emitting
    <3> QED BY <1>1, <1>7, <2>2, <2>3, <2>4, <3>1, EmissionKeepsFeed
  <2>5. CASE i \notin AllOf(s)
    <3>1. AllOf(s)' = AllOf(s) /\ \A k : Id(k)' = Id(k)
      BY <1>2 DEF AllOf, Id
    <3>2. Later(s)' = Later(s)
      BY <2>3, <2>5, <3>1 DEF Later
    <3>3. Recovers(s)'
      BY <1>7, <2>2, <2>3, <2>5, <3>1, <3>2 DEF Recovers, FeedInv
    <3>4. Joined(s)'
      BY <1>2, <1>7, <2>2, <2>3, <2>5, <3>2 DEF Joined, InSession, FeedInv
    <3>5. Backwards(s)'
      BY <1>2 DEF Backwards, Recovering
    <3>6. LastOf(s)' /\ Begun(s)' /\ Contiguous(s)'
      BY <1>7, <2>2, <2>3, <2>5, <3>1 DEF LastOf, Begun, Contiguous, FeedInv
    <3> QED BY <2>2, <2>5, <3>3, <3>4, <3>5, <3>6 DEF FeedInv
  <2> QED BY <2>4, <2>5
<1> QED BY <1>2, <1>6, <1>7 DEF NInv, Undisturbed

-----------------------------------------------------------------------------
(***************************************************************************)
(* The inductive invariant.                                                *)
(***************************************************************************)

\* The steps that neither recover nor emit.
FlowStep ==
  \/ SharedStep \/ Accept(<< >>) \/ Accept(Coinbase!LastMatches)
  \/ AwaitTrade \/ AwaitFails \/ AwaitAck \/ ReadWithBacklog \/ ReadIntoChannel
  \/ RecoveryDone \/ UNCHANGED vars

LEMMA FlowStepFacts ==
  ASSUME Given, Extras, FlowStep
  PROVE  /\ UNCHANGED <<lastIDs, emitted, seen, recovered, rows, after, givenUp>>
         /\ disturbed \subseteq disturbed'
         /\ todo' = todo \/ AwaitAck
<1>1. CASE SharedStep
  BY <1>1 DEF SharedStep, TradeComes, Push, Break, Acknowledge, Dial, SessionOver, recoveryVars,
              requestVars, emitVars, boundVars, faultVars
<1>2. CASE (\E r : Accept(r)) \/ AwaitTrade \/ AwaitFails \/ AwaitAck
  BY <1>2 DEF Accept, AwaitTrade, AwaitFails, AwaitAck, recoveryVars, requestVars, emitVars,
              boundVars, faultVars
<1>3. CASE ReadWithBacklog \/ ReadIntoChannel \/ RecoveryDone
  BY <1>3 DEF ReadWithBacklog, ReadIntoChannel, ReadFails, RecoveryDone, recoveryVars,
              requestVars, emitVars, boundVars, faultVars
<1>4. CASE UNCHANGED vars
  BY <1>4 DEF vars, sessionVars, recoveryVars, requestVars, emitVars, boundVars, faultVars
<1> QED BY <1>1, <1>2, <1>3, <1>4 DEF FlowStep

\* Only the acknowledgement begins a recovery, of what has a last trade.
LEMMA FlowStepResumes ==
  ASSUME Given, Extras, FlowStep, NEW s \in Symbols
  PROVE  Resumes(s)
<1>1. /\ UNCHANGED <<lastIDs, emitted, seen, recovered, rows, after, givenUp>>
      /\ todo' = todo \/ AwaitAck
  BY FlowStepFacts
<1>2. CASE AwaitAck
  <2>1. phase = "awaiting" /\ todo' = {x \in Symbols : lastIDs[x] # 0}
    BY <1>2 DEF AwaitAck
  <2>2. todo = {} /\ after = 0
    BY <2>1 DEF Given, RecoverySound, Extras
  <2> QED BY <1>1, <2>1, <2>2 DEF Resumes
<1>3. CASE ~AwaitAck
  <2>1. phase' = phase \/ phase' \in {"down", "awaiting"} \/ RecoveryDone
    BY <1>3 DEF FlowStep, SharedStep, TradeComes, Break, Acknowledge, Dial, SessionOver, EndSession,
         Accept, AwaitTrade, AwaitFails, ReadWithBacklog, ReadIntoChannel, ReadFails,
         vars, sessionVars
  <2>2. RecoveryDone => phase = "recovering" /\ todo = {} /\ phase' = "emitting"
    BY DEF RecoveryDone
  <2> QED BY <1>1, <1>3, <2>1, <2>2 DEF Resumes, InSession, Recovering
<1> QED BY <1>2, <1>3

LEMMA FlowStepFlows ==
  ASSUME Given, Extras, FlowStep, NEW s \in Symbols, s \notin disturbed', FeedInv(s)
  PROVE  Grows /\ Flows(s)
<1>1. MarketTyped /\ ChannelsSound /\ InOrder(s) /\ Unbroken(s)
  BY DEF Given, FeedInv
<1>2. Grows
  BY <1>1, SharedStepChannels DEF FlowStep, Accept, AwaitTrade, AwaitFails, AwaitAck,
     ReadWithBacklog, ReadIntoChannel, ReadFails, RecoveryDone, vars, sessionVars, exchangeVars, Grows
<1>3. CASE SharedStep
  BY <1>1, <1>2, <1>3, TradeFlows, ExchangeFlows, DialFlows DEF SharedStep
<1>4. CASE Accept(<< >>)
  <2>1. buffered = << >>
    BY <1>4 DEF Accept, Extras
  <2>2. ReplaySound(<< >>, s)
    BY EmptyChannel DEF ReplaySound
  <2> QED BY <1>1, <1>2, <1>4, <2>1, <2>2, AcceptFlows
<1>5. CASE Accept(Coinbase!LastMatches)
  <2>1. buffered = << >>
    BY <1>5 DEF Accept, Extras
  <2>2. ReplaySound(Coinbase!LastMatches, s)
    BY <1>1, LastMatchesSound
  <2> QED BY <1>1, <1>2, <1>5, <2>1, <2>2, AcceptFlows
<1>6. CASE AwaitTrade \/ AwaitFails \/ AwaitAck
  BY <1>1, <1>2, <1>6, AwaitFlows
<1>7. CASE ReadWithBacklog \/ ReadIntoChannel
  BY <1>1, <1>2, <1>7, ReaderFlows
<1>8. CASE RecoveryDone \/ UNCHANGED vars
  BY <1>1, <1>2, <1>8, DoneFlows
<1> QED BY <1>2, <1>3, <1>4, <1>5, <1>6, <1>7, <1>8 DEF FlowStep

LEMMA FlowStepKeeps ==
  ASSUME Given, NInv, FlowStep
  PROVE  NInv'
<1>1. /\ UNCHANGED <<lastIDs, emitted, seen, recovered, rows, after, givenUp>>
      /\ disturbed \subseteq disturbed' /\ (todo' = todo \/ AwaitAck)
  BY FlowStepFacts DEF NInv
<1>2. todo' = {} => after' = 0
  <2>1. AwaitAck => phase = "awaiting" /\ todo = {}
    BY DEF AwaitAck, Given, RecoverySound
  <2> QED BY <1>1, <2>1 DEF NInv, Extras
<1>3. \A x \in todo' : lastIDs'[x] # 0
  <2>1. AwaitAck => todo' = {x \in Symbols : lastIDs[x] # 0}
    BY DEF AwaitAck
  <2> QED BY <1>1, <2>1 DEF NInv, Extras
<1>4. link' = "requested" => buffered' = << >>
  <2>1. /\ phase = "down" => buffered = << >>
        /\ link = "requested" => wire = << >> /\ buffered = << >>
    BY DEF Given, ChannelsSound, WireSound, HeldSound, NInv, Extras
  <2>2. CASE SharedStep
    BY <2>1, <2>2 DEF SharedStep, TradeComes, Break, Acknowledge, Dial, SessionOver, EndSession,
                      readVars
  <2>3. CASE (\E r : Accept(r)) \/ AwaitTrade \/ AwaitFails \/ AwaitAck
    BY <2>1, <2>3 DEF Accept, AwaitTrade, AwaitFails, AwaitAck, EndSession
  <2>4. CASE ReadWithBacklog \/ ReadIntoChannel \/ RecoveryDone
    BY <2>1, <2>4 DEF ReadWithBacklog, ReadIntoChannel, ReadFails, QueueTrade, Overflow, RecoveryDone,
                      exchangeVars, readVars
  <2>5. CASE UNCHANGED vars
    BY <2>1, <2>5 DEF vars, sessionVars, exchangeVars, readVars
  <2> QED BY <2>2, <2>3, <2>4, <2>5 DEF FlowStep
<1>5. Extras'
  BY <1>1, <1>2, <1>3, <1>4 DEF Extras, SeenEmitted, NInv
<1>6. ASSUME NEW s \in Undisturbed' PROVE FeedInv(s)'
  <2>1. s \in Symbols /\ s \notin disturbed' /\ FeedInv(s)
    BY <1>1, <1>6 DEF Undisturbed, NInv
  <2>2. Grows /\ Flows(s) /\ Resumes(s)
    BY <2>1, FlowStepFlows, FlowStepResumes DEF NInv
  <2>3. MarketTyped /\ EmittedTyped /\ recovered \subseteq Trades
    BY DEF Given, RecoveryTyped
  <2> QED BY <2>1, <2>2, <2>3, FlowsKeep
<1> QED BY <1>5, <1>6 DEF NInv

\* A page, and a request that fails.
PageStep ==
  \/ venue = "coinbase" /\ PageTaken(Coinbase!RecoverPage)
  \/ venue = "deribit" /\ PageTaken(Deribit!RecoverPage)
  \/ venue = "binance" /\ PageTaken(Binance!RecoverPage)
FailStep == \E t \in Symbols : \E kept \in {{}, rows} : RequestFails(t, kept)

LEMMA RecoveryKeepsExtras ==
  ASSUME Given, Extras, NEW t \in Symbols, Recovering(t),
         UNCHANGED <<exchangeVars, readVars, emitVars>>,
         NextSymbol(t) \/ UNCHANGED todo
  PROVE  Extras'
<1>1. UNCHANGED <<link, buffered, lastIDs, seen, emitted>> /\ t \in todo
  BY DEF exchangeVars, readVars, emitVars, Recovering
<1>2. (todo' = {} => after' = 0) /\ todo' \subseteq todo
  BY <1>1 DEF NextSymbol
<1> QED BY <1>1, <1>2 DEF Extras, SeenEmitted

LEMMA FailStepKeeps ==
  ASSUME Given, NInv, FailStep
  PROVE  NInv'
<1>1. PICK t \in Symbols, kept \in {{}, rows} : RequestFails(t, kept)
  BY DEF FailStep
<1>2. kept \in SUBSET rows
  BY <1>1
<1>3. /\ Recovering(t) /\ NextSymbol(t) /\ UNCHANGED <<exchangeVars, readVars, emitVars>>
      /\ givenUp \subseteq givenUp' /\ disturbed' = disturbed
  BY <1>1 DEF RequestFails, SymbolFailed
<1>4. Extras'
  BY <1>3, RecoveryKeepsExtras DEF NInv
<1>5. ASSUME NEW s \in Undisturbed' PROVE FeedInv(s)'
  <2>1. s \in Symbols /\ s \notin givenUp' /\ FeedInv(s)
    BY <1>3, <1>5 DEF Undisturbed, NInv
  <2> QED BY <1>1, <1>2, <2>1, FailureKeeps DEF Given
<1> QED BY <1>4, <1>5 DEF NInv

LEMMA PageStepKeeps ==
  ASSUME Given, NInv, PageStep
  PROVE  NInv'
<1>1. PICK t \in Symbols : \E answer \in Answers(t) :
        /\ Recovering(t) /\ Answered(t, answer)
        /\ UNCHANGED <<exchangeVars, phase, readVars, backlog, emitVars, breaks>>
        /\ \/ venue = "coinbase" /\ Coinbase!RecoverPage(t, answer)
           \/ venue = "deribit" /\ Deribit!RecoverPage(t, answer)
           \/ venue = "binance" /\ Binance!RecoverPage(t, answer)
  BY DEF PageStep, PageTaken
<1>2. PICK answer \in Answers(t) :
        /\ Recovering(t) /\ Answered(t, answer)
        /\ UNCHANGED <<exchangeVars, phase, readVars, backlog, emitVars, breaks>>
        /\ \/ venue = "coinbase" /\ Coinbase!RecoverPage(t, answer)
           \/ venue = "deribit" /\ Deribit!RecoverPage(t, answer)
           \/ venue = "binance" /\ Binance!RecoverPage(t, answer)
  BY <1>1
<1>3. /\ MarketTyped /\ RecoverySound /\ venue \in Numbered /\ after \in Nat
      /\ \A x \in todo : lastIDs[x] # 0
  BY DEF Given, RecoveryTyped, NInv, Extras
<1>4. FoundSound(t)
  BY <1>2, <1>3 DEF RecoverySound
<1>5. PageOutcome(t)
  BY <1>2, <1>3, <1>4, CoinbasePage, DeribitPage, BinancePage
<1>6. (NextSymbol(t) \/ UNCHANGED todo) /\ givenUp \subseteq givenUp'
  BY <1>5 DEF PageOutcome, SymbolFailed, SymbolRecovered, NextPage
<1>7. disturbed \subseteq disturbed'
  BY <1>2 DEF Answered, faultVars
<1>8. Extras'
  BY <1>2, <1>6, RecoveryKeepsExtras DEF NInv
<1>9. ASSUME NEW s \in Undisturbed' PROVE FeedInv(s)'
  <2>1. s \in Symbols /\ s \notin givenUp' /\ s \notin disturbed' /\ FeedInv(s)
    BY <1>6, <1>7, <1>9 DEF Undisturbed, NInv
  <2> QED BY <1>2, <1>3, <2>1, PageKeeps
<1> QED BY <1>8, <1>9 DEF NInv

\* Whatever the step of a venue that numbers its trades, it is one of these.
LEMMA NumberedSteps ==
  ASSUME venue \in Numbered, [Next]_vars
  PROVE  \/ FlowStep \/ PageStep \/ FailStep
         \/ \E i \in Trades : Takes(i) /\ (EmitUnseen(i) \/ EmitParsedTrade(i))
<1>1. \/ venue = "coinbase" /\ Coinbase!Next
      \/ venue = "deribit" /\ Deribit!Next
      \/ venue = "binance" /\ Binance!Next
      \/ UNCHANGED vars
  BY DEF Next, Numbered
<1>2. ASSUME AwaitWithBacklog \/ AwaitWithoutBacklog PROVE FlowStep
  BY <1>2 DEF AwaitWithBacklog, AwaitWithoutBacklog, FlowStep
<1>3. ASSUME EmitWithBacklog PROVE \E i \in Trades : Takes(i) /\ EmitUnseen(i)
  BY <1>3 DEF EmitWithBacklog, Takes
<1>4. CASE venue = "coinbase" /\ Coinbase!Next
  BY <1>2, <1>3, <1>4, CoinbaseSteps DEF FlowStep, PageStep, FailStep
<1>5. CASE venue = "deribit" /\ Deribit!Next
  BY <1>2, <1>3, <1>5, DeribitSteps DEF FlowStep, PageStep, FailStep
<1>6. CASE venue = "binance" /\ Binance!Next
  BY <1>2, <1>6, BinanceSteps DEF FlowStep, PageStep, FailStep
<1> QED BY <1>1, <1>4, <1>5, <1>6 DEF FlowStep

LEMMA NextNInv ==
  ASSUME Given, NInv, [Next]_vars
  PROVE  NInv'
BY NumberedSteps, FlowStepKeeps, PageStepKeeps, FailStepKeeps, EmissionKeepsNInv DEF Given

LEMMA InitNInv ==
  ASSUME SessionsInit
  PROVE  NInv
<1>1. /\ buffered = << >> /\ stream = << >> /\ wire = << >> /\ seen = << >> /\ emitted = << >>
      /\ todo = {} /\ after = 0 /\ recovered = {} /\ link = "down" /\ phase = "down"
      /\ \A s \in Symbols : lastIDs[s] = 0
  BY DEF SessionsInit, Init
<1>2. Extras
  BY <1>1 DEF Extras, SeenEmitted
<1>3. ASSUME NEW s \in Symbols PROVE FeedInv(s)
  <2>1. InChannel(<< >>, AllOf(s)) = {} /\ Ascends(<< >>, AllOf(s))
    BY EmptyChannel
  <2>2. Pending(s) = {} /\ Due(s) = {} /\ EmittedOf(s) = {}
    BY <1>1, <2>1 DEF Pending, Due, EmittedOf
  <2>3. InOrder(s)
    BY <1>1, <2>1 DEF InOrder, Before
  <2> QED BY <1>1, <1>3, <2>2, <2>3 DEF FeedInv, Unbroken, Recovers, Joined, InSession, Backwards,
             Recovering, LastOf, Begun, Contiguous
<1> QED BY <1>2, <1>3 DEF NInv, Undisturbed

LEMMA FeedInvariance == Spec => [](SInv /\ (venue \in Numbered => NInv))
<1> DEFINE I == SInv /\ (venue \in Numbered => NInv)
<1>1. SInv /\ venue \in Numbered => Given
  BY DEF SInv, CInv, ChannelInv, ChannelsSound, EInv, RInv, Given
<1>2. SessionsInit => I
  BY InitSInv, InitNInv
<1>3. I /\ [Next]_vars => I'
  <2> SUFFICES ASSUME I, [Next]_vars PROVE I'
    OBVIOUS
  <2>1. SInv'
    BY NextSInv
  <2>2. venue' = venue
    BY DEF Next, OthersUnchanged, vars
  <2>3. venue \in Numbered => NInv'
    BY <1>1, NextNInv
  <2>4. Numbered' = Numbered
    BY DEF Numbered
  <2> QED BY <2>1, <2>2, <2>3, <2>4
<1> HIDE DEF I
<1>4. Spec => []I
  BY <1>2, <1>3, PTL DEF Spec
<1> QED BY <1>4 DEF I

LEMMA NInvFills == NInv => FilledOrGivenUp
<1> SUFFICES ASSUME NInv, NEW s \in Symbols \ (givenUp \cup disturbed),
                    NEW i \in EmittedOf(s), NEW j \in EmittedOf(s)
             PROVE  (i .. j) \cap AllOf(s) \subseteq EmittedOf(s)
  BY DEF FilledOrGivenUp
<1>1. Contiguous(s)
  BY DEF NInv, Undisturbed, FeedInv
<1> QED BY <1>1 DEF Contiguous

\* Where trades are numbered, a gap in a symbol that the exchange serves is filled
\* or the recovery of the symbol has given up, with an error: what the adapter
\* missed before the acknowledgement, during the recovery, with a connection or
\* to a full buffer is made up for before anything later is emitted (coinbase.go,
\* deribit.go, binance.go: recover, then emit the buffered and live trades).
\* Phoenix and Bitfinex do not have this property.
THEOREM NumberedFillGaps == Spec => [](venue \in Numbered => FilledOrGivenUp)
<1>1. SInv /\ (venue \in Numbered => NInv) => (venue \in Numbered => FilledOrGivenUp)
  BY NInvFills
<1> QED BY <1>1, FeedInvariance, PTL

\* Hence no trade of such a symbol is skipped, over any number of sessions.
THEOREM NumberedSkipNothing == Spec => [](venue \in Numbered => NothingSkipped)
<1>1. FilledOrGivenUp => NothingSkipped
  BY DEF FilledOrGivenUp, NothingSkipped
<1>2. SInv /\ (venue \in Numbered => NInv) => (venue \in Numbered => NothingSkipped)
  BY <1>1, NInvFills
<1> QED BY <1>2, FeedInvariance, PTL
=============================================================================
