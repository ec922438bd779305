--------------------------- MODULE CollectorProofs ---------------------------
(***************************************************************************)
(* No trade that the collector has handled is lost on its way to the rows: *)
(* for any keys, minutes, bounds and failures, every trade of a complete   *)
(* minute is written or has a flush coming, and when run returns all are   *)
(* in the database unless the final flush has failed.                      *)
(***************************************************************************)
EXTENDS Collector, SequenceTheorems, TLAPS

Floor(time) == Aggregator!MinuteFloor(time)

(***************************************************************************)
(* The inductive invariant.                                                *)
(***************************************************************************)

\* The trades held back.
RawTrades == [uid : Nat, upto : Nat, time : Nat, rule : {1}, volume : {1}]

Typed ==
  /\ handled \in [Keys -> Seq(Nat)]
  /\ pending \in [Keys -> Seq(RawTrades)]
  /\ marks \in [Keys -> Nat] /\ owed \in [Keys -> Nat] /\ watermark \in Nat
  /\ current \in Keys \cup {NoKey}
  /\ flusher \in {"none", "worker", "main"} /\ worker \in {"running", "done"}
  /\ accepting \in BOOLEAN /\ cancelled \in BOOLEAN
  /\ memory \subseteq Handled /\ batch \subseteq Handled /\ rows \subseteq Handled
  /\ \/ handler.call = "none"
     \/ /\ handler.call \in {"FlushBefore", "Request"} /\ handler.key \in Keys
        /\ handled[handler.key] # << >>

\* Numbered(held, b): the trades at positions b + 1, b + 2, ..., all of one time.
Numbered(held, b) ==
  /\ held \in Seq(RawTrades) /\ b \in Nat
  /\ \A i \in DOMAIN held : held[i].uid = b + i /\ held[i].upto = b + i
  /\ \A i, j \in DOMAIN held : held[i].time = held[j].time

\* What is held back of a key are its latest trades, all of one time, and that
\* time is not older than the minute of the key's watermark: but for the trade
\* of which the handler has yet to look at the watermark.
Before(k) == Len(handled[k]) - Len(pending[k])
HeldIsLatest ==
  \A k \in Keys :
    /\ Numbered(pending[k], Before(k))
    /\ \A i \in DOMAIN pending[k] : pending[k][i].time = handled[k][Before(k) + i]
Unseen(k) == handler.call = "FlushBefore" /\ handler.key = k
HeldIsCurrent ==
  \A k \in Keys : \A i \in DOMAIN pending[k] :
    Floor(marks[k]) <= pending[k][i].time \/ (Unseen(k) /\ i = Len(pending[k]))

\* Every trade that is not held back is in memory, in the batch or in the rows.
LetGo == UNION {{k} \X (1 .. Before(k)) : k \in Keys}
Accounted == LetGo \subseteq memory \cup batch \cup rows

\* The watermark is the latest time of the key, but for that trade.
MarkIsLatest ==
  \A k \in Keys : \A n \in DOMAIN handled[k] :
    handled[k][n] <= marks[k] \/ (Unseen(k) /\ n = Len(handled[k]))

\* Who flushes, and what.
FlushIsHeld ==
  /\ flusher = "none" => batch = {}
  /\ flusher = "worker" => /\ current # NoKey
                           /\ \A t \in batch : t[1] = current /\ TimeOf(t) < Floor(watermark)
  /\ flusher = "main" => phase = "writing" /\ memory = {}
  /\ current # NoKey => worker = "running"

\* What is complete is owed, or in the hands of an attempt that has yet to look.
DueIsOwed ==
  ~cancelled /\ accepting =>
    \A t \in memory : Completed(t) =>
      \/ TimeOf(t) < Floor(owed[t[1]])
      \/ current = t[1] /\ flusher # "worker" /\ TimeOf(t) < Floor(watermark)

\* How far the shutdown is.
Joined == worker = "done" /\ cancelled /\ ~accepting
ShutdownInOrder ==
  /\ phase \in {"running", "closing", "draining", "writing", "cleaning", "returned"}
  /\ phase \in {"draining", "writing", "cleaning", "returned"} => Joined
  /\ phase \in {"writing", "cleaning", "returned"} => \A k \in Keys : pending[k] = << >>
  /\ phase \in {"cleaning", "returned"} =>
       /\ flusher = "none"
       /\ "buckets" \notin errors => memory = {}
  /\ handler.call # "none" => phase = "running"

IInv ==
  /\ Typed /\ HeldIsLatest /\ HeldIsCurrent /\ Accounted /\ MarkIsLatest
  /\ FlushIsHeld /\ DueIsOwed /\ ShutdownInOrder

-----------------------------------------------------------------------------
(***************************************************************************)
(* The operators of the handler.                                           *)
(***************************************************************************)

\* A minute starts at or before each of its instants, and later instants are
\* in the same minute or a later one.
LEMMA FloorFacts ==
  /\ \A t \in Nat : Floor(t) \in Nat /\ Floor(t) <= t
  /\ \A t, u \in Nat : t <= u => Floor(t) <= Floor(u)
<1> DEFINE q(t) == t \div MinuteLength
<1>1. ASSUME NEW t \in Nat
      PROVE  /\ q(t) \in Nat /\ Floor(t) = MinuteLength * q(t)
             /\ MinuteLength * q(t) <= t /\ t < MinuteLength * q(t) + MinuteLength
  <2>1. t = MinuteLength * (t \div MinuteLength) + (t % MinuteLength)
    BY CollectorAssumption
  <2>2. t % MinuteLength \in 0 .. MinuteLength - 1 /\ t \div MinuteLength \in Nat
    BY CollectorAssumption
  <2> QED BY <2>1, <2>2, CollectorAssumption DEF Floor, Aggregator!MinuteFloor
<1>2. ASSUME NEW t \in Nat, NEW u \in Nat, t <= u
      PROVE  Floor(t) <= Floor(u)
  <2> HIDE DEF q
  <2>1. CASE q(t) <= q(u)
    <3>1. MinuteLength * q(t) <= MinuteLength * q(u)
      BY <1>1, <2>1, CollectorAssumption
    <3> QED BY <1>1, <3>1
  <2>2. CASE q(u) + 1 <= q(t)
    <3>1. MinuteLength * (q(u) + 1) <= MinuteLength * q(t)
      BY <1>1, <2>2, CollectorAssumption
    <3>2. MinuteLength * (q(u) + 1) = MinuteLength * q(u) + MinuteLength
      BY <1>1, CollectorAssumption
    <3> QED BY <1>1, <1>2, <3>1, <3>2, CollectorAssumption
  <2> QED BY <1>1, <2>1, <2>2
<1>3. \A t \in Nat : Floor(t) \in Nat /\ Floor(t) <= t
  BY <1>1, CollectorAssumption
<1> QED BY <1>2, <1>3

\* The numbers up to the next one.
LEMMA UpToNext ==
  ASSUME NEW m \in Nat
  PROVE  /\ m + 1 \in Nat /\ m + 1 \in 1 .. m + 1
         /\ \A i \in 1 .. m + 1 : i \in 1 .. m \/ i = m + 1
         /\ \A i \in 1 .. m : i \in 1 .. m + 1
OBVIOUS

\* What follows b trades, counted from the first and from those.
LEMMA Shifted ==
  ASSUME NEW b \in Nat, NEW m \in Nat, NEW n \in Nat, b + m = n
  PROVE  (\A i \in 1 .. m : b + i \in 1 .. n) /\ b + (m + 1) = n + 1
OBVIOUS

LEMMA NoParts == ASSUME NEW k PROVE PartsOfAll(k, << >>) = {}
BY DEF PartsOfAll

LEMMA PartsOfOne ==
  ASSUME NEW k, NEW held \in Seq(RawTrades), held # << >>
  PROVE  PartsOfAll(k, <<Aggregator!AggregateTrades(held)>>)
           = {k} \X (held[1].uid .. held[Len(held)].upto)
<1> DEFINE one == Aggregator!AggregateTrades(held)
<1>1. one.uid = held[1].uid /\ one.upto = held[Len(held)].upto
  BY DEF Aggregator!AggregateTrades
<1> HIDE DEF one
<1>2. PartsOfAll(k, <<one>>) = Parts(k, one)
  BY DEF PartsOfAll
<1> QED BY <1>1, <1>2 DEF Parts, one

\* The next trade joins those held back, or all of these leave.
JoinsOrReplaces(k, held, b, trade, r) ==
  \/ /\ r.pending = Append(held, trade) /\ Numbered(r.pending, b)
     /\ PartsOfAll(k, r.out) = {}
  \/ /\ r.pending = <<trade>> /\ Numbered(r.pending, b + Len(held))
     /\ PartsOfAll(k, r.out) = {k} \X (b + 1 .. b + Len(held))

LEMMA AddFacts ==
  ASSUME NEW k, NEW held, NEW b, Numbered(held, b),
         NEW trade \in RawTrades,
         trade.uid = b + Len(held) + 1, trade.upto = b + Len(held) + 1,
         NEW r, r = Aggregator!Add(held, trade)
  PROVE  JoinsOrReplaces(k, held, b, trade, r)
<1> USE DEF JoinsOrReplaces
<1>0. /\ held \in Seq(RawTrades) /\ Len(held) \in Nat /\ DOMAIN held = 1 .. Len(held)
      /\ b \in Nat /\ \A i \in 1 .. Len(held) : held[i] \in RawTrades
  BY LenProperties DEF Numbered
<1> DEFINE longer == Append(held, trade)
<1>1. /\ longer \in Seq(RawTrades) /\ Len(longer) = Len(held) + 1
      /\ DOMAIN longer = 1 .. Len(held) + 1
      /\ \A i \in 1 .. Len(held) : longer[i] = held[i]
      /\ longer[Len(held) + 1] = trade
  BY <1>0, AppendProperties, LenProperties
<1>2. CASE held = << >>
  <2>1. r.pending = longer /\ r.out = << >>
    BY <1>2 DEF Aggregator!Add
  <2>2. Numbered(longer, b)
    <3> HIDE DEF longer
    <3> QED BY <1>0, <1>1, <1>2 DEF Numbered
  <2> QED BY <2>1, <2>2, NoParts
<1>3. CASE held # << >> /\ held[Len(held)].time = trade.time
  <2>1. Len(held) \in 1 .. Len(held)
    BY <1>0, <1>3, EmptySeq
  <2>2. held[Len(held)].rule = trade.rule
    BY <1>0, <2>1 DEF RawTrades
  <2>3. r.pending = longer /\ r.out = << >>
    BY <1>3, <2>2 DEF Aggregator!Add, Aggregator!SameSample
  <2>4. Numbered(longer, b)
    <3>1. \A i \in 1 .. Len(held) : held[i].time = trade.time
      BY <1>0, <1>3, <2>1 DEF Numbered
    <3>2. \A i \in 1 .. Len(held) + 1 : longer[i].time = trade.time
      <4> HIDE DEF longer
      <4> QED BY <1>0, <1>1, <3>1
    <3>3. ASSUME NEW i \in 1 .. Len(held) + 1
          PROVE  longer[i].uid = b + i /\ longer[i].upto = b + i
      <4>1. CASE i \in 1 .. Len(held)
        <5>1. longer[i] = held[i]
          BY <1>1, <4>1
        <5> QED BY <1>0, <4>1, <5>1 DEF Numbered
      <4>2. CASE i = Len(held) + 1
        <5>1. longer[i] = trade
          BY <1>1, <4>2
        <5> QED BY <1>0, <4>2, <5>1
      <4> QED BY <1>0, <4>1, <4>2
    <3> HIDE DEF longer
    <3> QED BY <1>0, <1>1, <3>2, <3>3 DEF Numbered
  <2> QED BY <2>3, <2>4, NoParts
<1>4. CASE held # << >> /\ held[Len(held)].time # trade.time
  <2>1. r.pending = <<trade>> /\ r.out = <<Aggregator!AggregateTrades(held)>>
    BY <1>4 DEF Aggregator!Add, Aggregator!SameSample
  <2>2. 1 \in DOMAIN held /\ Len(held) \in DOMAIN held
    BY <1>0, <1>4, EmptySeq
  <2>3. PartsOfAll(k, r.out) = {k} \X (b + 1 .. b + Len(held))
    <3>1. held[1].uid = b + 1 /\ held[Len(held)].upto = b + Len(held)
      BY <2>2 DEF Numbered
    <3>2. PartsOfAll(k, r.out) = {k} \X (held[1].uid .. held[Len(held)].upto)
      BY <1>0, <1>4, <2>1, PartsOfOne
    <3> QED BY <3>1, <3>2
  <2>4. Numbered(<<trade>>, b + Len(held))
    BY <1>0 DEF Numbered
  <2> QED BY <2>1, <2>3, <2>4
<1> QED BY <1>2, <1>3, <1>4

\* What is held back stays if its minute is the watermark's or later, or all of
\* it leaves.
StaysOrLeaves(k, held, b, mark, r) ==
  \/ /\ r.pending = held /\ PartsOfAll(k, r.out) = {}
     /\ \A i \in DOMAIN held : Floor(mark) <= held[i].time
  \/ /\ r.pending = << >>
     /\ PartsOfAll(k, r.out) = {k} \X (b + 1 .. b + Len(held))

LEMMA FlushFacts ==
  ASSUME NEW k, NEW held, NEW b, Numbered(held, b), NEW mark \in Nat,
         NEW r, r = FlushHeldBefore(held, mark)
  PROVE  StaysOrLeaves(k, held, b, mark, r)
<1> USE DEF StaysOrLeaves
<1>0. /\ held \in Seq(RawTrades) /\ Len(held) \in Nat /\ DOMAIN held = 1 .. Len(held)
      /\ b \in Nat /\ \A i \in 1 .. Len(held) : held[i] \in RawTrades
  BY LenProperties DEF Numbered
<1>1. CASE held = << >>
  BY <1>0, <1>1, NoParts DEF FlushHeldBefore
<1>2. CASE held # << >> /\ held[Len(held)].time < Floor(mark)
  <2>1. r.pending = << >> /\ r.out = <<Aggregator!AggregateTrades(held)>>
    BY <1>2 DEF FlushHeldBefore, Floor
  <2>2. 1 \in DOMAIN held /\ Len(held) \in DOMAIN held
    BY <1>0, <1>2, EmptySeq
  <2>3. PartsOfAll(k, r.out) = {k} \X (b + 1 .. b + Len(held))
    <3>1. held[1].uid = b + 1 /\ held[Len(held)].upto = b + Len(held)
      BY <2>2 DEF Numbered
    <3>2. PartsOfAll(k, r.out) = {k} \X (held[1].uid .. held[Len(held)].upto)
      BY <1>0, <1>2, <2>1, PartsOfOne
    <3> QED BY <3>1, <3>2
  <2> QED BY <2>1, <2>3
<1>3. CASE held # << >> /\ ~(held[Len(held)].time < Floor(mark))
  <2>1. r.pending = held /\ r.out = << >>
    BY <1>3 DEF FlushHeldBefore, Floor
  <2>2. Len(held) \in DOMAIN held /\ \A i \in DOMAIN held : held[i].time \in Nat
    BY <1>0, <1>3, EmptySeq DEF RawTrades
  <2>3. \A i \in DOMAIN held : Floor(mark) <= held[i].time
    <3>1. \A i \in DOMAIN held : held[i].time = held[Len(held)].time
      BY <2>2 DEF Numbered
    <3>2. Floor(mark) \in Nat
      BY FloorFacts
    <3> QED BY <1>3, <2>2, <3>1, <3>2
  <2> QED BY <2>1, <2>3, NoParts
<1> QED BY <1>1, <1>2, <1>3

\* Of the trades after the first b those up to d leave, the others are held.
LeavesUpTo(k, b, d, times, held, left) ==
  /\ Numbered(held, d) /\ d + Len(held) = Len(times)
  /\ \A i \in DOMAIN held : held[i].time = times[d + i]
  /\ left = {k} \X (b + 1 .. d)

\* What is held back are the latest trades of times.
HoldsLatest(times, n, held, b) ==
  /\ times \in Seq(Nat) /\ n = Len(times) /\ Numbered(held, b) /\ b + Len(held) = n
  /\ \A i \in DOMAIN held : held[i].time = times[b + i]

\* The trade an adapter publishes as the (n+1)-th of its stream.
NextOf(n, time, trade) ==
  /\ time \in Nat /\ trade \in RawTrades
  /\ trade.uid = n + 1 /\ trade.upto = n + 1 /\ trade.time = time

\* Adding the next trade hands on those of h after b up to some d, and keeps the
\* held ones unless it is itself what is held.
AddsOne(k, h, n, held, b, time, added) ==
  \E d \in b .. n :
    /\ LeavesUpTo(k, b, d, Append(h, time), added.pending, PartsOfAll(k, added.out))
    /\ \A i \in DOMAIN added.pending :
         i = Len(added.pending) \/ (i \in DOMAIN held /\ added.pending[i] = held[i])

LEMMA AddsNext ==
  ASSUME NEW k, NEW h, NEW n, NEW held, NEW b, HoldsLatest(h, n, held, b),
         NEW time, NEW trade, NextOf(n, time, trade),
         NEW added, added = Aggregator!Add(held, trade)
  PROVE  AddsOne(k, h, n, held, b, time, added)
<1> DEFINE longer == Append(h, time)
<1>0. /\ h \in Seq(Nat) /\ n = Len(h) /\ Numbered(held, b) /\ b + Len(held) = n
      /\ \A i \in DOMAIN held : held[i].time = h[b + i]
       /\ NextOf(n, time, trade)
  BY DEF HoldsLatest
<1>1. n \in Nat /\ Len(longer) = n + 1 /\ longer[n + 1] = time /\ \A i \in 1 .. n : longer[i] = h[i]
  BY <1>0, AppendProperties, LenProperties DEF NextOf
<1>2. /\ held \in Seq(RawTrades) /\ Len(held) \in Nat /\ DOMAIN held = 1 .. Len(held) /\ b \in Nat
  BY <1>0, LenProperties DEF Numbered
<1> HIDE DEF longer
<1>3. CASE /\ added.pending = Append(held, trade) /\ Numbered(added.pending, b)
           /\ PartsOfAll(k, added.out) = {}
  <2>1. /\ Len(added.pending) = Len(held) + 1
        /\ \A i \in 1 .. Len(held) : added.pending[i] = held[i]
        /\ added.pending[Len(held) + 1] = trade
    BY <1>2, <1>3, AppendProperties
  <2>2. DOMAIN added.pending = 1 .. Len(held) + 1
    BY <1>3, <2>1, LenProperties DEF Numbered
  <2>3. \A i \in DOMAIN added.pending : i \in 1 .. Len(held) \/ i = Len(held) + 1
    BY <1>2, <2>2, UpToNext
  <2>4. ASSUME NEW i \in DOMAIN added.pending
        PROVE  added.pending[i].time = longer[b + i]
    <3>1. CASE i \in 1 .. Len(held)
      <4>1. added.pending[i].time = h[b + i]
        BY <1>0, <1>2, <2>1, <3>1
      <4>2. b + i \in 1 .. n
        BY <1>0, <1>1, <1>2, <3>1, Shifted
      <4> QED BY <1>1, <4>1, <4>2
    <3>2. CASE i = Len(held) + 1
      <4>1. b + (Len(held) + 1) = n + 1
        BY <1>0, <1>1, <1>2, Shifted
      <4> QED BY <1>0, <1>1, <2>1, <3>2, <4>1 DEF NextOf
    <3> QED BY <2>3, <3>1, <3>2
  <2>5. {k} \X (b + 1 .. b) = {}
    <3>1. b + 1 .. b = {}
      BY <1>2
    <3> QED BY <3>1
  <2>6. b \in b .. n /\ b + Len(added.pending) = n + 1
    BY <1>0, <1>1, <1>2, <2>1
  <2>7. LeavesUpTo(k, b, b, longer, added.pending, PartsOfAll(k, added.out))
    BY <1>1, <1>3, <2>4, <2>5, <2>6 DEF LeavesUpTo
  <2>8. \A i \in DOMAIN added.pending :
          i = Len(added.pending) \/ (i \in DOMAIN held /\ added.pending[i] = held[i])
    BY <1>2, <2>1, <2>3
  <2> QED BY <1>0, <2>6, <2>7, <2>8 DEF longer, AddsOne
<1>4. CASE /\ added.pending = <<trade>> /\ Numbered(added.pending, b + Len(held))
           /\ PartsOfAll(k, added.out) = {k} \X (b + 1 .. b + Len(held))
  <2>1. n \in b .. n /\ n + Len(added.pending) = n + 1
    BY <1>0, <1>1, <1>2, <1>4
  <2>2. \A i \in DOMAIN added.pending : added.pending[i].time = longer[n + i]
    BY <1>0, <1>1, <1>4 DEF NextOf
  <2>3. \A i \in DOMAIN added.pending : i = Len(added.pending)
    BY <1>4
  <2>4. LeavesUpTo(k, b, n, longer, added.pending, PartsOfAll(k, added.out))
    BY <1>0, <1>1, <1>4, <2>1, <2>2 DEF LeavesUpTo
  <2> QED BY <1>0, <2>1, <2>3, <2>4 DEF longer, AddsOne
<1>5. JoinsOrReplaces(k, held, b, trade, added)
  BY <1>0, AddFacts DEF NextOf
<1> QED BY <1>3, <1>4, <1>5 DEF JoinsOrReplaces

LEMMA FlushesUpTo ==
  ASSUME NEW k, NEW h, NEW n, NEW held, NEW b, HoldsLatest(h, n, held, b), NEW mark \in Nat,
         NEW flushed, flushed = FlushHeldBefore(held, mark)
  PROVE  \E d \in b .. n :
           /\ LeavesUpTo(k, b, d, h, flushed.pending, PartsOfAll(k, flushed.out))
           /\ \A i \in DOMAIN flushed.pending : Floor(mark) <= flushed.pending[i].time
<1>0. /\ n = Len(h) /\ Numbered(held, b) /\ b + Len(held) = n
      /\ \A i \in DOMAIN held : held[i].time = h[b + i]
  BY DEF HoldsLatest
<1>1. Len(held) \in Nat /\ b \in Nat /\ n \in Nat
  BY <1>0, LenProperties DEF Numbered
<1>2. CASE /\ flushed.pending = held /\ PartsOfAll(k, flushed.out) = {}
           /\ \A i \in DOMAIN held : Floor(mark) <= held[i].time
  <2>1. b \in b .. n
    BY <1>0, <1>1
  <2>2. {k} \X (b + 1 .. b) = {}
    <3>1. b + 1 .. b = {}
      BY <1>1
    <3> QED BY <3>1
  <2>3. LeavesUpTo(k, b, b, h, flushed.pending, PartsOfAll(k, flushed.out))
    BY <1>0, <1>2, <2>2 DEF LeavesUpTo
  <2> QED BY <1>2, <2>1, <2>3
<1>3. CASE /\ flushed.pending = << >>
           /\ PartsOfAll(k, flushed.out) = {k} \X (b + 1 .. b + Len(held))
  <2>1. Len(flushed.pending) = 0 /\ DOMAIN flushed.pending = {}
    BY <1>3, EmptySeq
  <2>2. n \in b .. n /\ n + Len(flushed.pending) = n
    BY <1>0, <1>1, <2>1
  <2>3. Numbered(flushed.pending, n)
    BY <1>1, <1>3, EmptySeq DEF Numbered
  <2>4. LeavesUpTo(k, b, n, h, flushed.pending, PartsOfAll(k, flushed.out))
    BY <1>0, <1>3, <2>1, <2>2, <2>3 DEF LeavesUpTo
  <2> QED BY <2>1, <2>2, <2>4
<1>4. StaysOrLeaves(k, held, b, mark, flushed)
  BY <1>0, FlushFacts
<1> QED BY <1>2, <1>3, <1>4 DEF StaysOrLeaves

-----------------------------------------------------------------------------
(***************************************************************************)
(* The invariant holds initially, and every step keeps it.                 *)
(***************************************************************************)
LEMMA InitHolds == Init => IInv
<1> SUFFICES ASSUME Init PROVE IInv
  OBVIOUS
<1> USE DEF Init, Worker!PromiseInit
<1>1. Handled = {} /\ LetGo = {} /\ \A k \in Keys : Before(k) = 0
  BY DEF Handled, LetGo, Before
<1>2. Typed
  BY <1>1, EmptySeq DEF Typed
<1>3. HeldIsLatest /\ HeldIsCurrent /\ MarkIsLatest /\ Accounted
  BY <1>1, EmptySeq DEF HeldIsLatest, HeldIsCurrent, MarkIsLatest, Accounted, Numbered
<1>4. FlushIsHeld /\ DueIsOwed /\ ShutdownInOrder
  BY DEF FlushIsHeld, DueIsOwed, ShutdownInOrder
<1> QED BY <1>2, <1>3, <1>4 DEF IInv

\* The trades handled, as pairs.
LEMMA HandledPairs ==
  ASSUME Typed
  PROVE  /\ \A t : t \in Handled <=>
               \E k \in Keys : \E n \in 1 .. Len(handled[k]) : t = <<k, n>>
         /\ \A t \in Handled : t[1] \in Keys /\ t[2] \in 1 .. Len(handled[t[1]])
                               /\ t = <<t[1], t[2]>> /\ TimeOf(t) \in Nat
         /\ \A k \in Keys : Len(handled[k]) \in Nat /\ DOMAIN handled[k] = 1 .. Len(handled[k])
<1>1. \A k \in Keys : /\ handled[k] \in Seq(Nat) /\ Len(handled[k]) \in Nat
                      /\ DOMAIN handled[k] = 1 .. Len(handled[k])
                      /\ \A n \in 1 .. Len(handled[k]) : handled[k][n] \in Nat
  BY LenProperties DEF Typed
<1>2. \A t : t \in Handled <=>
               \E k \in Keys : \E n \in 1 .. Len(handled[k]) : t = <<k, n>>
  BY <1>1 DEF Handled
<1> QED BY <1>1, <1>2 DEF TimeOf

\* What a step that does not touch the handler's state leaves as it is.
LEMMA HandlerAtRest ==
  ASSUME IInv, UNCHANGED handlerVars
  PROVE  /\ Handled' = Handled /\ \A t : TimeOf(t)' = TimeOf(t)
         /\ \A t : Completed(t)' <=> Completed(t)
         /\ LetGo' = LetGo
         /\ HeldIsLatest' /\ HeldIsCurrent' /\ MarkIsLatest'
<1>1. UNCHANGED <<pending, marks, handled, handler>>
  BY DEF handlerVars
<1>2. Handled' = Handled /\ (\A t : TimeOf(t)' = TimeOf(t)) /\ LetGo' = LetGo
  BY <1>1 DEF Handled, TimeOf, LetGo, Before
<1>3. \A t : InHandler(t)' <=> InHandler(t)
  BY <1>1 DEF InHandler
<1>4. \A t : Completed(t)' <=> Completed(t)
  BY <1>2, <1>3 DEF Completed, Aggregator!MinuteFloor
<1>5. HeldIsLatest' /\ HeldIsCurrent' /\ MarkIsLatest'
  BY <1>1 DEF IInv, HeldIsLatest, HeldIsCurrent, MarkIsLatest, Unseen, Before, Floor,
              Aggregator!MinuteFloor
<1> QED BY <1>2, <1>4, <1>5

\* What is held back.
LEMMA HeldFacts ==
  ASSUME IInv, NEW k \in Keys
  PROVE  /\ handled[k] \in Seq(Nat) /\ Len(handled[k]) \in Nat
         /\ DOMAIN handled[k] = 1 .. Len(handled[k])
         /\ pending[k] \in Seq(RawTrades) /\ Len(pending[k]) \in Nat
         /\ DOMAIN pending[k] = 1 .. Len(pending[k])
         /\ Before(k) \in Nat /\ Before(k) + Len(pending[k]) = Len(handled[k])
         /\ HoldsLatest(handled[k], Len(handled[k]), pending[k], Before(k))
<1>1. /\ handled[k] \in Seq(Nat) /\ Len(handled[k]) \in Nat
      /\ DOMAIN handled[k] = 1 .. Len(handled[k])
      /\ pending[k] \in Seq(RawTrades) /\ Len(pending[k]) \in Nat
      /\ DOMAIN pending[k] = 1 .. Len(pending[k])
  BY LenProperties DEF IInv, Typed
<1>2. /\ Numbered(pending[k], Before(k)) /\ Before(k) \in Nat
      /\ \A i \in DOMAIN pending[k] : pending[k][i].time = handled[k][Before(k) + i]
  BY DEF IInv, HeldIsLatest, Numbered
<1>3. Before(k) + Len(pending[k]) = Len(handled[k])
  BY <1>1, <1>2 DEF Before
<1> QED BY <1>1, <1>2, <1>3 DEF HoldsLatest

\* A trade that is held back is not of a complete minute.
LEMMA HeldIsIncomplete ==
  ASSUME IInv, NEW t \in Handled, t[2] \notin 1 .. Before(t[1])
  PROVE  ~Completed(t)
<1> SUFFICES ASSUME Completed(t) PROVE FALSE
  OBVIOUS
<1> DEFINE k == t[1]
           n == t[2]
<1>1. /\ Typed /\ k \in Keys /\ n \in 1 .. Len(handled[k]) /\ TimeOf(t) = handled[k][n]
      /\ TimeOf(t) \in Nat /\ ~InHandler(t)
  BY HandledPairs DEF IInv, TimeOf, Completed
<1>2. PICK u \in Handled : u[1] = k /\ ~InHandler(u) /\ TimeOf(t) < Floor(TimeOf(u))
  BY DEF Completed, Floor
<1>3. TimeOf(t) < Floor(marks[k])
  <2>1. u[2] \in DOMAIN handled[k] /\ TimeOf(u) = handled[k][u[2]] /\ TimeOf(u) \in Nat
    BY <1>1, <1>2, HandledPairs DEF TimeOf
  <2>2. TimeOf(u) <= marks[k] /\ marks[k] \in Nat
    BY <1>1, <1>2, <2>1 DEF IInv, MarkIsLatest, Unseen, InHandler, Typed
  <2>3. /\ Floor(TimeOf(u)) <= Floor(marks[k])
        /\ Floor(TimeOf(u)) \in Nat /\ Floor(marks[k]) \in Nat
    BY <2>1, <2>2, FloorFacts
  <2> QED BY <1>1, <1>2, <2>3
<1>4. PICK i \in 1 .. Len(pending[k]) : n = Before(k) + i
  <2>1. \A b, l, h \in Nat : h = b + l /\ n \in 1 .. h /\ n \notin 1 .. b =>
          \E i \in 1 .. l : n = b + i
    <3> HIDE DEF n
    <3>1. ASSUME NEW b \in Nat, NEW l \in Nat, NEW h \in Nat,
                 h = b + l, n \in 1 .. h, n \notin 1 .. b
          PROVE  n - b \in 1 .. l /\ n = b + (n - b)
      BY <3>1
    <3> QED BY <3>1
  <2> QED BY <1>1, <2>1, HeldFacts
<1>5. i = Len(pending[k]) => n = Len(handled[k])
  BY <1>1, <1>4, HeldFacts
<1>6. pending[k][i].time = TimeOf(t)
  BY <1>1, <1>4, HeldFacts DEF HoldsLatest
<1>7. Floor(marks[k]) <= TimeOf(t)
  <2>1. i \in DOMAIN pending[k]
    BY <1>1, <1>4, HeldFacts
  <2>2. ~(Unseen(k) /\ i = Len(pending[k]))
    BY <1>1, <1>5 DEF Unseen, InHandler
  <2> QED BY <1>1, <1>6, <2>1, <2>2 DEF IInv, HeldIsCurrent
<1>8. Floor(marks[k]) \in Nat
  BY <1>1, FloorFacts DEF Typed
<1> QED BY <1>1, <1>3, <1>7, <1>8

\* A call of the pipeline for key k, which lets go of its trades up to d.
LEMMA PipelineMoves ==
  ASSUME IInv, NEW k \in Keys, NEW d \in Nat, NEW left,
         handled' \in [Keys -> Seq(Nat)], pending' \in [Keys -> Seq(RawTrades)],
         \A j \in Keys \ {k} : handled'[j] = handled[j] /\ pending'[j] = pending[j],
         Len(handled[k]) <= Len(handled'[k]),
         \A i \in 1 .. Len(handled[k]) : handled'[k][i] = handled[k][i],
         LeavesUpTo(k, Before(k), d, handled'[k], pending'[k], left), Before(k) <= d,
         memory' = memory \cup left, UNCHANGED <<batch, rows>>
  PROVE  /\ Handled \subseteq Handled' /\ \A t \in Handled : TimeOf(t)' = TimeOf(t)
         /\ memory' \cup batch' \cup rows' \subseteq Handled'
         /\ HeldIsLatest' /\ Accounted'
<1> DEFINE b == Before(k)
           top == Len(handled'[k])
<1>1. /\ b \in Nat /\ top \in Nat /\ Len(handled[k]) \in Nat
      /\ DOMAIN handled'[k] = 1 .. top
      /\ Len(pending'[k]) \in Nat
  BY HeldFacts, LenProperties
<1>2. /\ Numbered(pending'[k], d) /\ d + Len(pending'[k]) = top
      /\ \A i \in DOMAIN pending'[k] : pending'[k][i].time = handled'[k][d + i]
      /\ left = {k} \X (b + 1 .. d)
  BY DEF LeavesUpTo
<1>3. Before(k)' = d /\ \A j \in Keys \ {k} : Before(j)' = Before(j)
  <2>1. Before(k)' = top - Len(pending'[k])
    BY DEF Before
  <2>2. \A x, y, z \in Nat : x + y = z => z - y = x
    OBVIOUS
  <2>3. Before(k)' = d
    BY <1>1, <1>2, <2>1, <2>2
  <2>4. \A j \in Keys \ {k} : Before(j)' = Before(j)
    BY DEF Before
  <2> QED BY <2>3, <2>4
<1>4. Handled \subseteq Handled' /\ \A t \in Handled : TimeOf(t)' = TimeOf(t)
  <2> SUFFICES ASSUME NEW t \in Handled
               PROVE  t \in Handled' /\ handled'[t[1]][t[2]] = handled[t[1]][t[2]]
    BY DEF TimeOf
  <2>1. t[1] \in Keys /\ t[2] \in 1 .. Len(handled[t[1]]) /\ t = <<t[1], t[2]>>
    BY HandledPairs DEF IInv
  <2>2. CASE t[1] = k
    <3>1. t[2] \in DOMAIN handled'[k]
      BY <1>1, <2>1, <2>2
    <3> QED BY <2>1, <2>2, <3>1 DEF Handled
  <2>3. CASE t[1] # k
    <3>1. t[2] \in DOMAIN handled[t[1]] /\ handled'[t[1]] = handled[t[1]]
      BY <2>1, <2>3, HandledPairs DEF IInv
    <3> QED BY <2>1, <3>1 DEF Handled
  <2> QED BY <2>2, <2>3
<1>5. left \subseteq Handled'
  <2>1. \A m \in b + 1 .. d : m \in 1 .. top
    BY <1>1, <1>2
  <2>2. \A m \in 1 .. top : <<k, m>> \in Handled'
    BY <1>1 DEF Handled
  <2> QED BY <1>2, <2>1, <2>2
<1>6. memory' \cup batch' \cup rows' \subseteq Handled'
  BY <1>4, <1>5 DEF IInv, Typed
<1>7. HeldIsLatest'
  <2>1. ASSUME NEW j \in Keys
        PROVE  /\ Numbered(pending'[j], Before(j)')
               /\ \A i \in DOMAIN pending'[j] :
                    pending'[j][i].time = handled'[j][Before(j)' + i]
    <3>1. CASE j = k
      BY <1>2, <1>3, <3>1
    <3>2. CASE j # k
      <4>1. /\ pending'[j] = pending[j] /\ handled'[j] = handled[j] /\ Before(j)' = Before(j)
        BY <1>3, <3>2
      <4>2. /\ Numbered(pending[j], Before(j))
            /\ \A i \in DOMAIN pending[j] : pending[j][i].time = handled[j][Before(j) + i]
        BY DEF IInv, HeldIsLatest
      <4> QED BY <4>1, <4>2
    <3> QED BY <3>1, <3>2
  <2> QED BY <2>1 DEF HeldIsLatest, Numbered
<1>8. Accounted'
  <2>1. LetGo' = UNION {{j} \X (1 .. Before(j)') : j \in Keys}
    BY DEF LetGo
  <2>2. ASSUME NEW j \in Keys, NEW m \in 1 .. Before(j)'
        PROVE  <<j, m>> \in memory' \cup batch' \cup rows'
    <3>1. CASE j = k /\ m \in b + 1 .. d
      BY <1>2, <3>1
    <3>2. CASE m \in 1 .. Before(j)
      <4>1. <<j, m>> \in LetGo
        BY <3>2 DEF LetGo
      <4> QED BY <4>1 DEF IInv, Accounted
    <3>3. CASE j = k /\ ~(m \in b + 1 .. d)
      <4>1. m \in 1 .. d
        BY <1>3, <3>3
      <4>2. m \in 1 .. b
        BY <1>1, <3>3, <4>1
      <4> QED BY <3>2, <3>3, <4>2
    <3>4. CASE j # k
      BY <1>3, <3>2, <3>4
    <3> QED BY <3>1, <3>3, <3>4
  <2> QED BY <2>1, <2>2 DEF Accounted
<1> QED BY <1>4, <1>6, <1>7, <1>8

LEMMA HandleHolds ==
  ASSUME IInv, NEW k \in Keys, NEW time \in 1 .. MaxTime, Handle(k, time)
  PROVE  IInv'
<1> DEFINE h == handled[k]
           n == Len(h)
           b == Before(k)
           trade == [uid |-> n + 1, upto |-> n + 1, time |-> time, rule |-> 1, volume |-> 1]
           added == Aggregator!Add(pending[k], trade)
           left == PartsOfAll(k, added.out)
           longer == Append(h, time)
<1>1. /\ handled' = [handled EXCEPT ![k] = longer]
      /\ pending' = [pending EXCEPT ![k] = added.pending]
      /\ memory' = memory \cup left
      /\ handler.call = "none" /\ handler'.call = "FlushBefore" /\ handler'.key = k
      /\ phase = "running"
      /\ UNCHANGED <<marks, batch, rows, flusher, worker, phase, signalled, errors, failures,
                     owed, current, watermark, cancelled, accepting>>
  BY DEF Handle, Called, After, workerVars
<1>2. /\ h \in Seq(Nat) /\ n \in Nat /\ DOMAIN h = 1 .. n /\ time \in Nat
      /\ b \in Nat /\ HoldsLatest(h, n, pending[k], b)
  BY HeldFacts, CollectorAssumption
<1>3. trade \in RawTrades /\ trade.uid = n + 1 /\ trade.upto = n + 1 /\ trade.time = time
  BY <1>2 DEF RawTrades
<1>4. /\ longer \in Seq(Nat) /\ Len(longer) = n + 1 /\ DOMAIN longer = 1 .. n + 1
      /\ longer[n + 1] = time /\ \A i \in 1 .. n : longer[i] = h[i]
  BY <1>2, AppendProperties, LenProperties
<1>5. /\ longer = Append(h, time) /\ added = Aggregator!Add(pending[k], trade)
      /\ left = PartsOfAll(k, added.out)
  OBVIOUS
<1> HIDE DEF h, n, b, trade, added, left, longer
<1>6. PICK d \in b .. n :
        /\ LeavesUpTo(k, b, d, longer, added.pending, left)
        /\ \A i \in DOMAIN added.pending :
             \/ i = Len(added.pending)
             \/ i \in DOMAIN pending[k] /\ added.pending[i] = pending[k][i]
  <2>1. NextOf(n, time, trade)
    BY <1>2, <1>3 DEF NextOf
  <2>2. AddsOne(k, h, n, pending[k], b, time, added)
    BY <1>2, <1>5, <2>1, AddsNext
  <2> QED BY <1>5, <2>2 DEF AddsOne
<1>7. /\ handled \in [Keys -> Seq(Nat)] /\ pending \in [Keys -> Seq(RawTrades)]
      /\ marks \in [Keys -> Nat]
  BY DEF IInv, Typed
<1>8. /\ handled'[k] = longer /\ pending'[k] = added.pending
      /\ \A j \in Keys \ {k} : handled'[j] = handled[j] /\ pending'[j] = pending[j]
  BY <1>1, <1>7
<1>9. d \in Nat /\ b <= d /\ d <= n /\ added.pending \in Seq(RawTrades)
  BY <1>2, <1>6 DEF LeavesUpTo, Numbered
<1>10. handled' \in [Keys -> Seq(Nat)] /\ pending' \in [Keys -> Seq(RawTrades)]
  BY <1>1, <1>4, <1>7, <1>9
<1>11. /\ Handled \subseteq Handled' /\ \A t \in Handled : TimeOf(t)' = TimeOf(t)
       /\ memory' \cup batch' \cup rows' \subseteq Handled'
       /\ HeldIsLatest' /\ Accounted'
  <2>1. Len(handled[k]) <= Len(handled'[k])
    BY <1>2, <1>4, <1>8 DEF h, n
  <2>2. \A i \in 1 .. Len(handled[k]) : handled'[k][i] = handled[k][i]
    BY <1>4, <1>8 DEF h, n
  <2>3. LeavesUpTo(k, Before(k), d, handled'[k], pending'[k], left) /\ Before(k) <= d
    BY <1>6, <1>8, <1>9 DEF b
  <2> QED BY <1>1, <1>8, <1>9, <1>10, <2>1, <2>2, <2>3, PipelineMoves
<1>12. Typed'
  <2>1. handled'[k] # << >>
    BY <1>2, <1>4, <1>8, EmptySeq
  <2> QED BY <1>1, <1>10, <1>11, <2>1 DEF Typed, IInv
<1>13. HeldIsCurrent'
  <2>1. ASSUME NEW j \in Keys, NEW i \in DOMAIN pending'[j]
        PROVE  \/ Floor(marks[j]) <= pending'[j][i].time
               \/ j = k /\ i = Len(pending'[j])
    <3>1. \A x \in DOMAIN pending[j] : Floor(marks[j]) <= pending[j][x].time
      BY <1>1 DEF IInv, HeldIsCurrent, Unseen
    <3>2. CASE j = k
      BY <1>6, <1>8, <3>1, <3>2
    <3>3. CASE j # k
      BY <1>8, <3>1, <3>3
    <3> QED BY <3>2, <3>3
  <2> QED BY <1>1, <2>1 DEF HeldIsCurrent, Unseen, Floor, Aggregator!MinuteFloor
<1>14. MarkIsLatest'
  <2>1. ASSUME NEW j \in Keys, NEW m \in DOMAIN handled'[j]
        PROVE  handled'[j][m] <= marks[j] \/ (j = k /\ m = Len(handled'[j]))
    <3>1. \A x \in DOMAIN handled[j] : handled[j][x] <= marks[j]
      BY <1>1 DEF IInv, MarkIsLatest, Unseen
    <3>2. CASE j = k
      <4>1. m \in 1 .. n \/ m = n + 1
        <5>1. DOMAIN handled'[j] = 1 .. n + 1
          BY <1>4, <1>8, <3>2
        <5> QED BY <1>2, <5>1, UpToNext
      <4>2. m \in 1 .. n => handled'[j][m] = h[m] /\ m \in DOMAIN handled[j]
        BY <1>2, <1>4, <1>8, <3>2 DEF h
      <4>3. m = n + 1 => m = Len(handled'[j])
        BY <1>4, <1>8, <3>2
      <4> QED BY <3>1, <3>2, <4>1, <4>2, <4>3 DEF h
    <3>3. CASE j # k
      BY <1>8, <3>1, <3>3
    <3> QED BY <3>2, <3>3
  <2> QED BY <1>1, <2>1 DEF MarkIsLatest, Unseen
<1>15. FlushIsHeld'
  <2>1. flusher # "main" /\ batch \subseteq Handled
    BY <1>1 DEF IInv, FlushIsHeld, Typed
  <2>2. flusher = "worker" =>
          \A t \in batch : t[1] = current /\ TimeOf(t)' < Floor(watermark)
    BY <1>11, <2>1 DEF IInv, FlushIsHeld
  <2> QED BY <1>1, <2>1, <2>2 DEF IInv, FlushIsHeld, Floor, Aggregator!MinuteFloor
\* The handler's trade counts for nothing yet, neither as a trade of a complete
\* minute nor as one that completes a minute.
<1>16. \A t \in Handled' : ~InHandler(t)' => t \in Handled /\ ~InHandler(t)
  <2> SUFFICES ASSUME NEW t \in Handled', ~InHandler(t)' PROVE t \in Handled
    BY <1>1 DEF InHandler
  <2>1. PICK j \in Keys : \E m \in DOMAIN handled'[j] : t = <<j, m>>
    BY DEF Handled
  <2>2. PICK m \in DOMAIN handled'[j] : t = <<j, m>>
    BY <2>1
  <2>3. CASE j = k
    <3>1. m # Len(handled'[k])
      BY <1>1, <2>2, <2>3 DEF InHandler
    <3>2. m \in DOMAIN h
      BY <1>2, <1>4, <1>8, <2>2, <2>3, <3>1, UpToNext
    <3> QED BY <2>2, <2>3, <3>2 DEF h, Handled
  <2>4. CASE j # k
    BY <1>8, <2>2, <2>4 DEF Handled
  <2> QED BY <2>3, <2>4
<1>17. \A t : Completed(t)' => Completed(t) /\ TimeOf(t)' = TimeOf(t)
  <2> SUFFICES ASSUME NEW t, Completed(t)' PROVE Completed(t) /\ TimeOf(t)' = TimeOf(t)
    OBVIOUS
  <2>1. t \in Handled /\ ~InHandler(t)
    BY <1>16 DEF Completed
  <2>2. PICK u \in Handled' : /\ u[1] = t[1] /\ ~InHandler(u)'
                              /\ TimeOf(t)' < Floor(TimeOf(u)')
    BY DEF Completed, Floor, Aggregator!MinuteFloor
  <2>3. u \in Handled /\ ~InHandler(u)
    BY <1>16, <2>2
  <2> QED BY <1>11, <2>1, <2>2, <2>3 DEF Completed, Floor
<1>18. DueIsOwed'
  <2> SUFFICES ASSUME ~cancelled, accepting, NEW t \in memory', Completed(t)'
               PROVE  \/ TimeOf(t)' < Floor(owed[t[1]])
                      \/ current = t[1] /\ flusher # "worker" /\ TimeOf(t)' < Floor(watermark)
    BY <1>1 DEF DueIsOwed, Floor, Aggregator!MinuteFloor
  <2>1. Completed(t) /\ t \in Handled /\ TimeOf(t)' = TimeOf(t)
    BY <1>17 DEF Completed
  <2>2. t \notin left
    <3>1. t \in left => t[1] = k /\ t[2] \in b + 1 .. d
      BY <1>6 DEF LeavesUpTo
    <3>2. t[1] = k /\ t[2] \in b + 1 .. d => t[2] \notin 1 .. Before(t[1])
      BY <1>2, <1>9 DEF b
    <3> QED BY <2>1, <3>1, <3>2, HeldIsIncomplete
  <2> QED BY <1>1, <2>1, <2>2 DEF IInv, DueIsOwed
<1>19. ShutdownInOrder'
  BY <1>1 DEF IInv, ShutdownInOrder
<1> QED BY <1>11, <1>12, <1>13, <1>14, <1>15, <1>18, <1>19 DEF IInv

\* The watermark that the handler takes.
LEMMA TimestampFacts ==
  ASSUME IInv, handler.call # "none"
  PROVE  /\ handler.key \in Keys /\ phase = "running"
         /\ Len(handled[handler.key]) \in DOMAIN handled[handler.key]
         /\ FlushTimestamp \in Nat /\ marks[handler.key] <= FlushTimestamp
         /\ handled[handler.key][Len(handled[handler.key])] <= FlushTimestamp
<1>1. /\ handler.key \in Keys /\ handled[handler.key] # << >> /\ phase = "running"
      /\ marks[handler.key] \in Nat
  BY DEF IInv, Typed, ShutdownInOrder
<1>2. Len(handled[handler.key]) \in DOMAIN handled[handler.key]
  BY <1>1, HeldFacts, EmptySeq
<1>3. handled[handler.key][Len(handled[handler.key])] \in Nat
  BY <1>1, <1>2, HeldFacts, ElementOfSeq
<1> QED BY <1>1, <1>2, <1>3 DEF FlushTimestamp, UpdateFlushWatermark

LEMMA FlushBeforeHolds == ASSUME IInv, FlushBefore PROVE IInv'
<1> DEFINE k == handler.key
           mark == FlushTimestamp
           flushed == FlushHeldBefore(pending[k], mark)
           left == PartsOfAll(k, flushed.out)
<1>1. /\ handler.call = "FlushBefore" /\ handler'.call = "Request" /\ handler'.key = k
      /\ marks' = [marks EXCEPT ![k] = mark]
      /\ pending' = [pending EXCEPT ![k] = flushed.pending]
      /\ memory' = memory \cup left
      /\ UNCHANGED <<handled, batch, rows, flusher, worker, phase, signalled, errors, failures,
                     owed, current, watermark, cancelled, accepting>>
  BY DEF FlushBefore, Called, After, workerVars
<1>2. /\ k \in Keys /\ phase = "running" /\ mark \in Nat /\ marks[k] <= mark
      /\ handled[k][Len(handled[k])] <= mark
  BY <1>1, TimestampFacts
<1>3. flushed = FlushHeldBefore(pending[k], mark) /\ left = PartsOfAll(k, flushed.out)
  OBVIOUS
<1>4. /\ handled[k] \in Seq(Nat) /\ Len(handled[k]) \in Nat
      /\ DOMAIN handled[k] = 1 .. Len(handled[k]) /\ Before(k) \in Nat
      /\ HoldsLatest(handled[k], Len(handled[k]), pending[k], Before(k))
  BY <1>2, HeldFacts
<1> HIDE DEF mark, flushed, left
<1>5. PICK d \in Before(k) .. Len(handled[k]) :
        /\ LeavesUpTo(k, Before(k), d, handled[k], flushed.pending, left)
        /\ \A i \in DOMAIN flushed.pending : Floor(mark) <= flushed.pending[i].time
  BY <1>2, <1>3, <1>4, FlushesUpTo
<1>6. /\ handled \in [Keys -> Seq(Nat)] /\ pending \in [Keys -> Seq(RawTrades)]
      /\ marks \in [Keys -> Nat]
  BY DEF IInv, Typed
<1>7. /\ pending'[k] = flushed.pending /\ marks'[k] = mark
      /\ \A j \in Keys \ {k} : pending'[j] = pending[j] /\ marks'[j] = marks[j]
  BY <1>1, <1>2, <1>6
<1>8. d \in Nat /\ Before(k) <= d /\ flushed.pending \in Seq(RawTrades)
  BY <1>4, <1>5 DEF LeavesUpTo, Numbered
<1>9. pending' \in [Keys -> Seq(RawTrades)] /\ marks' \in [Keys -> Nat]
  BY <1>1, <1>2, <1>6, <1>8
<1>10. memory' \cup batch' \cup rows' \subseteq Handled' /\ HeldIsLatest' /\ Accounted'
  <2>1. /\ handled' \in [Keys -> Seq(Nat)] /\ Len(handled[k]) <= Len(handled'[k])
        /\ \A i \in 1 .. Len(handled[k]) : handled'[k][i] = handled[k][i]
        /\ \A j \in Keys \ {k} : handled'[j] = handled[j]
    BY <1>1, <1>4, <1>6
  <2>2. LeavesUpTo(k, Before(k), d, handled'[k], pending'[k], left)
    BY <1>1, <1>5, <1>7
  <2> HIDE DEF k
  <2> QED BY <1>1, <1>2, <1>7, <1>8, <1>9, <2>1, <2>2, PipelineMoves
<1>11. /\ Handled' = Handled /\ \A t : TimeOf(t)' = TimeOf(t)
       /\ \A t : Completed(t)' <=> Completed(t)
  <2>1. Handled' = Handled /\ \A t : TimeOf(t)' = TimeOf(t)
    BY <1>1 DEF Handled, TimeOf
  <2>2. \A t : InHandler(t)' <=> InHandler(t)
    BY <1>1 DEF InHandler
  <2> QED BY <2>1, <2>2 DEF Completed, Aggregator!MinuteFloor
<1>12. Typed'
  BY <1>1, <1>2, <1>9, <1>10, <1>11 DEF Typed, IInv
<1>13. HeldIsCurrent'
  <2>1. ASSUME NEW j \in Keys, NEW i \in DOMAIN pending'[j]
        PROVE  Floor(marks'[j]) <= pending'[j][i].time
    <3>1. CASE j = k
      BY <1>5, <1>7, <3>1
    <3>2. CASE j # k
      BY <1>7, <3>2 DEF IInv, HeldIsCurrent, Unseen
    <3> QED BY <3>1, <3>2
  <2> QED BY <2>1 DEF HeldIsCurrent, Floor, Aggregator!MinuteFloor
<1>14. MarkIsLatest'
  <2>1. ASSUME NEW j \in Keys, NEW m \in DOMAIN handled[j]
        PROVE  handled[j][m] <= marks'[j]
    <3>1. CASE j = k
      <4>1. handled[k][m] <= marks[k] \/ m = Len(handled[k])
        BY <3>1 DEF IInv, MarkIsLatest
      <4>2. handled[k][m] \in Nat /\ marks[k] \in Nat
        BY <1>4, <1>6, <3>1, ElementOfSeq
      <4> QED BY <1>2, <1>7, <3>1, <4>1, <4>2
    <3>2. CASE j # k
      BY <1>7, <3>2 DEF IInv, MarkIsLatest, Unseen
    <3> QED BY <3>1, <3>2
  <2> QED BY <1>1, <2>1 DEF MarkIsLatest
<1>15. FlushIsHeld'
  BY <1>1, <1>2, <1>11 DEF IInv, FlushIsHeld, Floor, Aggregator!MinuteFloor
<1>16. DueIsOwed'
  <2> SUFFICES ASSUME ~cancelled, accepting, NEW t \in memory', Completed(t)
               PROVE  \/ TimeOf(t) < Floor(owed[t[1]])
                      \/ current = t[1] /\ flusher # "worker" /\ TimeOf(t) < Floor(watermark)
    BY <1>1, <1>11 DEF DueIsOwed, Floor, Aggregator!MinuteFloor
  <2>1. t \in Handled
    BY DEF Completed
  <2>2. t \notin left
    <3>1. t \in left => t[1] = k /\ t[2] \in Before(k) + 1 .. d
      BY <1>5 DEF LeavesUpTo
    <3>2. t[1] = k /\ t[2] \in Before(k) + 1 .. d => t[2] \notin 1 .. Before(t[1])
      BY <1>4, <1>8
    <3> QED BY <2>1, <3>1, <3>2, HeldIsIncomplete
  <2> QED BY <1>1, <2>2 DEF IInv, DueIsOwed
<1>17. ShutdownInOrder'
  BY <1>1, <1>2 DEF IInv, ShutdownInOrder
<1> QED BY <1>10, <1>12, <1>13, <1>14, <1>15, <1>16, <1>17 DEF IInv

LEMMA RequestHolds == ASSUME IInv, Request PROVE IInv'
<1> DEFINE k == handler.key
           mark == FlushTimestamp
<1>1. /\ handler.call = "Request" /\ handler'.call = "none"
      /\ owed' = [owed EXCEPT ![k] = Worker!Later(owed[k], mark)] /\ accepting
      /\ UNCHANGED <<pending, marks, handled, memory, batch, rows, flusher, worker, phase,
                     signalled, errors, failures, current, watermark, cancelled, accepting>>
  BY DEF Request, Called, After, Worker!PromiseRequest, bufferVars
<1>2. k \in Keys /\ mark \in Nat /\ marks[k] <= mark
  BY <1>1, TimestampFacts
<1> HIDE DEF mark
<1>3. owed \in [Keys -> Nat] /\ marks \in [Keys -> Nat]
  BY DEF IInv, Typed
<1>4. /\ owed' \in [Keys -> Nat] /\ marks[k] <= owed'[k]
      /\ \A j \in Keys \ {k} : owed'[j] = owed[j]
  <2>1. Worker!Later(owed[k], mark) \in Nat /\ mark <= Worker!Later(owed[k], mark)
    BY <1>2, <1>3 DEF Worker!Later
  <2> QED BY <1>1, <1>2, <1>3, <2>1
<1>5. /\ Handled' = Handled /\ LetGo' = LetGo /\ \A t : TimeOf(t)' = TimeOf(t)
  BY <1>1 DEF Handled, TimeOf, LetGo, Before
<1>6. Typed'
  BY <1>1, <1>4, <1>5 DEF Typed, IInv
<1>7. HeldIsLatest' /\ HeldIsCurrent' /\ MarkIsLatest' /\ Accounted'
  BY <1>1, <1>5 DEF IInv, HeldIsLatest, HeldIsCurrent, MarkIsLatest, Accounted, Unseen, Before,
                    Floor, Aggregator!MinuteFloor
<1>8. FlushIsHeld'
  BY <1>1, <1>5 DEF IInv, FlushIsHeld, Floor, Aggregator!MinuteFloor
<1>9. DueIsOwed'
  <2> SUFFICES ASSUME ~cancelled, NEW t \in memory, Completed(t)'
               PROVE  \/ TimeOf(t) < Floor(owed'[t[1]])
                      \/ current = t[1] /\ flusher # "worker" /\ TimeOf(t) < Floor(watermark)
    BY <1>1, <1>5 DEF DueIsOwed, Floor, Aggregator!MinuteFloor
  <2>1. PICK u \in Handled : u[1] = t[1] /\ TimeOf(t) < Floor(TimeOf(u))
    BY <1>5 DEF Completed, Floor, Aggregator!MinuteFloor
  <2>2. t \in Handled /\ t[1] \in Keys /\ TimeOf(t) \in Nat /\ TimeOf(u) \in Nat
    BY HandledPairs DEF IInv, Typed
  <2>3. CASE t[1] = k
    <3>1. TimeOf(u) <= marks[k]
      BY <1>1, <2>1, <2>2, <2>3, HandledPairs DEF IInv, MarkIsLatest, Unseen, TimeOf
    <3>2. TimeOf(u) <= owed'[k] /\ owed'[k] \in Nat
      BY <1>2, <1>3, <1>4, <2>2, <3>1
    <3>3. /\ Floor(TimeOf(u)) <= Floor(owed'[k])
          /\ Floor(TimeOf(u)) \in Nat /\ Floor(owed'[k]) \in Nat
      BY <2>2, <3>2, FloorFacts
    <3> QED BY <2>1, <2>2, <2>3, <3>3
  <2>4. CASE t[1] # k
    <3>1. \A x : x[1] = t[1] => ~InHandler(x)
      BY <2>4 DEF InHandler
    <3>2. Completed(t)
      BY <2>1, <2>2, <3>1 DEF Completed, Floor
    <3> QED BY <1>1, <1>4, <2>2, <2>4, <3>2 DEF IInv, DueIsOwed
  <2> QED BY <2>3, <2>4
<1>10. ShutdownInOrder'
  BY <1>1 DEF IInv, ShutdownInOrder, Joined
<1> QED BY <1>6, <1>7, <1>8, <1>9, <1>10 DEF IInv

\* The other steps, but for FlushPipeline, leave the handler's state alone.
LEMMA RestHolds ==
  ASSUME IInv, UNCHANGED handlerVars,
         /\ owed' \in [Keys -> Nat] /\ watermark' \in Nat
         /\ current' \in Keys \cup {NoKey}
         /\ flusher' \in {"none", "worker", "main"} /\ worker' \in {"running", "done"}
         /\ accepting' \in BOOLEAN /\ cancelled' \in BOOLEAN
         /\ memory' \cup batch' \cup rows' \subseteq Handled
         /\ memory \cup batch \cup rows \subseteq memory' \cup batch' \cup rows',
         FlushIsHeld', DueIsOwed', ShutdownInOrder'
  PROVE  IInv'
<1>1. Typed'
  BY HandlerAtRest DEF handlerVars, Typed, IInv
<1>2. Accounted'
  BY HandlerAtRest DEF Accounted, IInv
<1> QED BY <1>1, <1>2, HandlerAtRest DEF IInv

LEMMA TakeRequestHolds == ASSUME IInv, NEW k \in Keys, TakeRequest(k) PROVE IInv'
<1> USE DEF TakeRequest, Worker!PromiseBegin, handlerVars, bufferVars
<1>1. /\ current = NoKey /\ current' = k /\ watermark' = owed[k] /\ worker = "running"
      /\ owed' = [owed EXCEPT ![k] = 0] /\ k # NoKey
      /\ UNCHANGED <<memory, batch, rows, flusher, worker, phase, cancelled, accepting, errors>>
      /\ UNCHANGED handlerVars
  BY CollectorAssumption
<1>2. Typed /\ owed \in [Keys -> Nat]
  BY DEF IInv, Typed
<1>3. owed' \in [Keys -> Nat] /\ owed[k] \in Nat /\ \A j \in Keys \ {k} : owed'[j] = owed[j]
  BY <1>1, <1>2
<1>4. flusher # "worker"
  BY <1>1 DEF IInv, FlushIsHeld
<1>5. FlushIsHeld'
  BY <1>1, <1>4 DEF IInv, FlushIsHeld
<1>6. DueIsOwed'
  <2> SUFFICES ASSUME ~cancelled, accepting, NEW t \in memory, Completed(t)
               PROVE  \/ TimeOf(t) < Floor(owed'[t[1]])
                      \/ /\ current' = t[1] /\ flusher # "worker"
                         /\ TimeOf(t) < Floor(watermark')
    BY <1>1, HandlerAtRest DEF DueIsOwed, Floor, Aggregator!MinuteFloor
  <2>1. TimeOf(t) < Floor(owed[t[1]])
    BY <1>1, <1>2, HandledPairs, CollectorAssumption DEF IInv, DueIsOwed, Typed
  <2>2. t[1] \in Keys
    BY <1>2, HandledPairs DEF Typed
  <2> QED BY <1>1, <1>3, <1>4, <2>1, <2>2
<1>7. ShutdownInOrder'
  BY <1>1 DEF IInv, ShutdownInOrder, Joined
<1> QED BY <1>1, <1>2, <1>3, <1>5, <1>6, <1>7, RestHolds DEF Typed

LEMMA WorkerFlushHolds == ASSUME IInv, WorkerFlush PROVE IInv'
<1>1. /\ current # NoKey /\ flusher = "none" /\ flusher' = "worker"
      /\ batch' = Due /\ memory' = memory \ Due
      /\ UNCHANGED <<owed, watermark, current, rows, worker, phase, cancelled, accepting, errors>>
      /\ UNCHANGED handlerVars
  BY DEF WorkerFlush, Detach, workerVars
<1>2. Typed /\ batch = {} /\ worker = "running"
  BY <1>1 DEF IInv, FlushIsHeld
<1>3. FlushIsHeld'
  <2>1. \A t \in Due : t[1] = current /\ TimeOf(t) < Floor(watermark)
    BY DEF Due, Floor
  <2> QED BY <1>1, <1>2, <2>1, HandlerAtRest DEF FlushIsHeld, Floor, Aggregator!MinuteFloor
<1>4. DueIsOwed'
  <2>1. ASSUME ~cancelled, accepting, NEW t \in memory, t \notin Due, Completed(t)
        PROVE  TimeOf(t) < Floor(owed[t[1]])
    BY <1>1, <2>1 DEF IInv, DueIsOwed, Due, Floor
  <2>2. /\ memory' = memory \ Due /\ UNCHANGED <<owed, cancelled, accepting>>
        /\ \A t : TimeOf(t)' = TimeOf(t) /\ (Completed(t)' <=> Completed(t))
    BY <1>1, HandlerAtRest
  <2> HIDE DEF Due
  <2> QED BY <2>1, <2>2 DEF DueIsOwed, Floor, Aggregator!MinuteFloor
<1>5. ShutdownInOrder'
  BY <1>1, <1>2 DEF IInv, ShutdownInOrder, Joined, handlerVars
<1>6. Due \subseteq memory
  BY DEF Due
<1> QED BY <1>1, <1>2, <1>3, <1>4, <1>5, <1>6, RestHolds DEF Typed

\* An attempt of the worker that succeeds: nothing of what it was to write is
\* left in memory, if it has looked.
LEMMA AttemptSucceeds ==
  ASSUME IInv, UNCHANGED handlerVars, Worker!PromiseSucceed,
         flusher' = "none", batch' = {}, rows' = rows \cup batch, memory' = memory,
         UNCHANGED <<worker, phase, errors>>, flusher = "worker" \/ (flusher = "none" /\ Due = {})
  PROVE  IInv'
<1>1. /\ current # NoKey /\ current' = NoKey /\ watermark' = 0
      /\ UNCHANGED <<owed, cancelled, accepting>>
  BY DEF Worker!PromiseSucceed
<1>2. Typed /\ worker = "running"
  BY <1>1 DEF IInv, FlushIsHeld
<1>3. FlushIsHeld'
  BY <1>1 DEF FlushIsHeld
<1>4. DueIsOwed'
  <2> SUFFICES ASSUME ~cancelled, accepting, NEW t \in memory, Completed(t)
               PROVE  TimeOf(t) < Floor(owed[t[1]])
    BY <1>1, HandlerAtRest DEF handlerVars, DueIsOwed, Floor, Aggregator!MinuteFloor
  <2> QED BY <1>1 DEF IInv, DueIsOwed, Due, Floor
<1>5. ShutdownInOrder'
  BY <1>1, <1>2 DEF IInv, ShutdownInOrder, Joined, handlerVars
<1> QED BY <1>1, <1>2, <1>3, <1>4, <1>5, RestHolds DEF Typed

LEMMA NothingDueHolds == ASSUME IInv, NothingDue PROVE IInv'
<1>1. batch = {}
  BY DEF NothingDue, IInv, FlushIsHeld
<1> QED BY <1>1, AttemptSucceeds DEF NothingDue, bufferVars

LEMMA WorkerSucceedsHolds == ASSUME IInv, WorkerSucceeds PROVE IInv'
<1>1. /\ UNCHANGED handlerVars /\ Worker!PromiseSucceed
      /\ flusher = "worker" /\ flusher' = "none" /\ batch' = {} /\ rows' = rows \cup batch
      /\ memory' = memory /\ UNCHANGED <<worker, phase, errors>>
  BY DEF WorkerSucceeds, Commit
<1> QED BY <1>1, AttemptSucceeds

\* An attempt that fails: what it was to write is in memory again, and owed
\* again unless the worker is being stopped.
LEMMA WorkerFailsHolds == ASSUME IInv, WorkerFails PROVE IInv'
<1>1. /\ UNCHANGED handlerVars
      /\ flusher = "worker" /\ flusher' = "none" /\ batch' = {}
      /\ rows' \in {rows, rows \cup batch} /\ memory' = memory \cup batch
      /\ current # NoKey /\ current' = NoKey /\ watermark' = 0
      /\ UNCHANGED <<phase, errors, cancelled, accepting>>
  BY DEF WorkerFails, Rollback, Worker!PromiseAbandon, Worker!PromiseFail
<1>2. \/ cancelled /\ worker' = "done" /\ owed' = owed
      \/ ~cancelled /\ ~accepting /\ worker' = worker /\ owed' = owed
      \/ /\ ~cancelled /\ accepting /\ worker' = worker
         /\ owed' = [owed EXCEPT ![current] = Worker!Later(owed[current], watermark)]
  BY DEF WorkerFails, Worker!PromiseAbandon, Worker!PromiseFail
<1>3. /\ Typed /\ worker = "running" /\ owed \in [Keys -> Nat] /\ watermark \in Nat
      /\ current \in Keys
  BY <1>1 DEF IInv, FlushIsHeld, Typed
<1>4. owed' \in [Keys -> Nat] /\ worker' \in {"running", "done"}
  <2>1. Worker!Later(owed[current], watermark) \in Nat
    BY <1>3 DEF Worker!Later
  <2> QED BY <1>2, <1>3, <2>1
<1>5. FlushIsHeld'
  BY <1>1 DEF FlushIsHeld
<1>6. DueIsOwed'
  <2>1. ASSUME ~cancelled, accepting, NEW t \in memory \cup batch, Completed(t)
        PROVE  TimeOf(t) < Floor(owed'[t[1]])
    <3>1. t[1] \in Keys /\ TimeOf(t) \in Nat
      BY <1>3, HandledPairs DEF Typed
    <3>2. /\ owed'[current] = Worker!Later(owed[current], watermark)
          /\ \A k \in Keys \ {current} : owed'[k] = owed[k]
      BY <1>2, <1>3, <2>1
    <3>3. owed[current] <= owed'[current] /\ watermark <= owed'[current]
      BY <1>3, <3>2 DEF Worker!Later
    <3>4. /\ Floor(owed[current]) <= Floor(owed'[current])
          /\ Floor(watermark) <= Floor(owed'[current])
          /\ {Floor(owed[current]), Floor(watermark), Floor(owed'[current])} \subseteq Nat
      BY <1>3, <1>4, <3>3, FloorFacts
    <3>5. CASE t \in batch
      <4>1. t[1] = current /\ TimeOf(t) < Floor(watermark)
        BY <1>1, <3>5 DEF IInv, FlushIsHeld
      <4> QED BY <3>1, <3>4, <4>1
    <3>6. CASE t \in memory
      <4>1. TimeOf(t) < Floor(owed[t[1]])
        BY <1>1, <2>1, <3>6 DEF IInv, DueIsOwed
      <4> QED BY <3>1, <3>2, <3>4, <4>1
    <3> QED BY <3>5, <3>6
  <2>2. \A t : TimeOf(t)' = TimeOf(t) /\ (Completed(t)' <=> Completed(t))
    BY <1>1, HandlerAtRest
  <2> QED BY <1>1, <2>1, <2>2 DEF DueIsOwed, Floor, Aggregator!MinuteFloor
<1>7. ShutdownInOrder'
  BY <1>1, <1>3 DEF IInv, ShutdownInOrder, Joined, handlerVars
<1> QED BY <1>1, <1>3, <1>4, <1>5, <1>6, <1>7, RestHolds DEF Typed

LEMMA WorkerStopsHolds == ASSUME IInv, WorkerStops PROVE IInv'
<1>1. /\ UNCHANGED <<handlerVars, bufferVars, workerVars, phase, errors>>
      /\ cancelled /\ current = NoKey /\ worker' = "done"
  BY DEF WorkerStops
<1>2. Typed /\ FlushIsHeld /\ ShutdownInOrder
  BY DEF IInv
<1>3. FlushIsHeld' /\ DueIsOwed'
  BY <1>1, <1>2 DEF FlushIsHeld, DueIsOwed, bufferVars, workerVars
<1>4. ShutdownInOrder'
  BY <1>1, <1>2 DEF ShutdownInOrder, Joined, bufferVars, workerVars, handlerVars
<1> QED BY <1>1, <1>2, <1>3, <1>4, RestHolds DEF Typed, bufferVars, workerVars

\* The steps of the shutdown that touch neither the trades nor what is owed.
LEMMA ControlHolds ==
  ASSUME IInv, UNCHANGED <<handlerVars, bufferVars, owed, current, watermark, worker>>,
         cancelled' \in BOOLEAN, accepting' \in BOOLEAN,
         cancelled => cancelled', accepting' => accepting,
         flusher = "main" => phase' = "writing", ShutdownInOrder'
  PROVE  IInv'
<1>1. Typed /\ FlushIsHeld /\ DueIsOwed
  BY DEF IInv
<1>2. FlushIsHeld'
  BY <1>1, HandlerAtRest DEF FlushIsHeld, bufferVars, Floor, Aggregator!MinuteFloor
<1>3. DueIsOwed'
  <2>1. \A t : TimeOf(t)' = TimeOf(t) /\ (Completed(t)' <=> Completed(t))
    BY HandlerAtRest
  <2>2. UNCHANGED <<memory, owed, current, flusher, watermark>>
    BY DEF bufferVars
  <2>3. ASSUME ~cancelled', accepting' PROVE ~cancelled /\ accepting
    BY <1>1, <2>3 DEF Typed
  <2> QED BY <1>1, <2>1, <2>2, <2>3 DEF DueIsOwed, Floor, Aggregator!MinuteFloor
<1> QED BY <1>1, <1>2, <1>3, RestHolds DEF Typed, bufferVars

LEMMA ShutdownHolds ==
  ASSUME IInv,
         \/ Signal \/ \E failed \in BOOLEAN : RunExchangesReturns(failed)
         \/ CloseRefuses \/ CloseCancels \/ CloseJoins \/ NothingToWrite \/ Cleanup
  PROVE  IInv'
<1>1. Typed /\ FlushIsHeld /\ ShutdownInOrder
  BY DEF IInv
<1> USE DEF bufferVars, workerVars
<1>2. CASE Signal
  <2>1. ShutdownInOrder'
    BY <1>1, <1>2 DEF Signal, ShutdownInOrder, Joined, handlerVars
  <2> QED BY <1>1, <1>2, <2>1, ControlHolds DEF Signal, FlushIsHeld, Typed
<1>3. ASSUME NEW failed \in BOOLEAN, RunExchangesReturns(failed) PROVE IInv'
  <2>1. ShutdownInOrder'
    BY <1>1, <1>3 DEF RunExchangesReturns, ShutdownInOrder, handlerVars
  <2> QED BY <1>1, <1>3, <2>1, ControlHolds DEF RunExchangesReturns, FlushIsHeld, Typed
<1>4. CASE CloseRefuses
  <2>1. ShutdownInOrder'
    BY <1>1, <1>4 DEF CloseRefuses, Worker!PromiseRefuse, ShutdownInOrder, handlerVars
  <2> QED BY <1>1, <1>4, <2>1, ControlHolds
          DEF CloseRefuses, Worker!PromiseRefuse, FlushIsHeld, Typed
<1>5. CASE CloseCancels
  <2>1. ShutdownInOrder'
    BY <1>1, <1>5 DEF CloseCancels, Worker!PromiseCancel, ShutdownInOrder, handlerVars
  <2> QED BY <1>1, <1>5, <2>1, ControlHolds
          DEF CloseCancels, Worker!PromiseCancel, FlushIsHeld, Typed
<1>6. CASE CloseJoins
  <2>1. ShutdownInOrder'
    BY <1>1, <1>6 DEF CloseJoins, ShutdownInOrder, Joined, handlerVars
  <2> QED BY <1>1, <1>6, <2>1, ControlHolds DEF CloseJoins, FlushIsHeld, Typed
<1>7. CASE NothingToWrite
  <2>1. ShutdownInOrder'
    BY <1>1, <1>7 DEF NothingToWrite, ShutdownInOrder, Joined, handlerVars
  <2> QED BY <1>1, <1>7, <2>1, ControlHolds DEF NothingToWrite, Typed
<1>8. CASE Cleanup
  <2>1. ShutdownInOrder'
    BY <1>1, <1>8 DEF Cleanup, ShutdownInOrder, Joined, handlerVars
  <2> QED BY <1>1, <1>8, <2>1, ControlHolds DEF Cleanup, Typed, FlushIsHeld
<1> QED BY <1>2, <1>3, <1>4, <1>5, <1>6, <1>7, <1>8

LEMMA StutterHolds == ASSUME IInv, UNCHANGED vars PROVE IInv'
<1>1. UNCHANGED <<handlerVars, bufferVars, workerVars, worker, phase, errors>>
  BY DEF vars
<1>2. ShutdownInOrder'
  BY <1>1 DEF IInv, ShutdownInOrder, Joined, handlerVars, bufferVars, workerVars
<1> QED BY <1>1, <1>2, ControlHolds DEF bufferVars, workerVars, IInv, Typed, FlushIsHeld

\* When the worker has ended, nothing is owed any more for DueIsOwed to say.
LEMMA WhenJoined ==
  ASSUME IInv, Joined
  PROVE  current = NoKey /\ flusher # "worker" /\ (Joined' => DueIsOwed')
BY DEF IInv, FlushIsHeld, Joined, DueIsOwed

\* The last of what the pipeline holds back is let go.
LEMMA FlushPipelineHolds == ASSUME IInv, FlushPipeline PROVE IInv'
<1> DEFINE drained == UNION {Parts(k, Aggregator!AggregateTrades(pending[k])) :
                               k \in {k \in Keys : pending[k] # << >>}}
<1>1. /\ phase = "draining" /\ phase' = "writing" /\ memory' = memory \cup drained
      /\ pending' = [k \in Keys |-> << >>]
      /\ UNCHANGED <<marks, handled, handler, batch, rows, flusher, owed, current, watermark, cancelled,
                     accepting, worker, errors>>
  BY DEF FlushPipeline, workerVars
<1>2. Typed /\ HeldIsLatest /\ Accounted /\ MarkIsLatest /\ FlushIsHeld /\ ShutdownInOrder
  BY DEF IInv
<1>3. Joined /\ flusher = "none" /\ current = NoKey
  <2>1. Joined
    BY <1>1, <1>2 DEF ShutdownInOrder
  <2> QED BY <1>1, <1>2, <2>1, WhenJoined DEF FlushIsHeld, Typed
<1>4. \A k \in Keys : /\ pending[k] \in Seq(RawTrades) /\ Len(pending[k]) \in Nat
                      /\ DOMAIN pending[k] = 1 .. Len(pending[k])
                      /\ Len(handled[k]) \in Nat /\ Before(k) \in Nat
                      /\ Before(k) + Len(pending[k]) = Len(handled[k])
  <2>1. ASSUME NEW k \in Keys
        PROVE  /\ pending[k] \in Seq(RawTrades) /\ Len(pending[k]) \in Nat
               /\ DOMAIN pending[k] = 1 .. Len(pending[k])
               /\ Len(handled[k]) \in Nat /\ Before(k) \in Nat
    BY <1>2, LenProperties DEF Typed, HeldIsLatest, Numbered
  <2>2. ASSUME NEW k \in Keys PROVE Before(k) + Len(pending[k]) = Len(handled[k])
    BY <2>1 DEF Before
  <2> QED BY <2>1, <2>2
<1>5. ASSUME NEW k \in Keys, pending[k] # << >>
      PROVE  Parts(k, Aggregator!AggregateTrades(pending[k]))
               = {k} \X (Before(k) + 1 .. Len(handled[k]))
  <2> DEFINE held == pending[k]
  <2>1. 1 \in DOMAIN held /\ Len(held) \in DOMAIN held
    BY <1>4, <1>5, EmptySeq
  <2>2. held[1].uid = Before(k) + 1 /\ held[Len(held)].upto = Len(handled[k])
    BY <1>2, <1>4, <2>1 DEF HeldIsLatest, Numbered
  <2>3. /\ Aggregator!AggregateTrades(held).uid = held[1].uid
        /\ Aggregator!AggregateTrades(held).upto = held[Len(held)].upto
    BY DEF Aggregator!AggregateTrades
  <2> HIDE DEF held
  <2> QED BY <2>2, <2>3 DEF Parts, held
<1>6. drained \subseteq Handled
  <2>1. ASSUME NEW k \in Keys
        PROVE  {k} \X (Before(k) + 1 .. Len(handled[k])) \subseteq Handled
    <3>1. \A m \in Before(k) + 1 .. Len(handled[k]) : m \in 1 .. Len(handled[k])
      BY <1>4
    <3> QED BY <1>2, <3>1, HandledPairs
  <2> QED BY <1>5, <2>1
<1> HIDE DEF drained
<1>7. \A k \in Keys : pending'[k] = << >> /\ Before(k)' = Len(handled[k])
  <2>1. \A k \in Keys : pending'[k] = << >>
    BY <1>1
  <2>2. \A k \in Keys : Before(k)' = Len(handled[k]) - 0
    BY <1>1, <2>1, EmptySeq DEF Before
  <2> QED BY <1>4, <2>1, <2>2
<1>8. Handled' = Handled /\ \A t : TimeOf(t)' = TimeOf(t)
  BY <1>1 DEF Handled, TimeOf
<1>9. Typed'
  <2>1. pending' \in [Keys -> Seq(RawTrades)]
    BY <1>1, EmptySeq
  <2> QED BY <1>1, <1>2, <1>6, <1>8, <2>1 DEF Typed
<1>10. HeldIsLatest' /\ HeldIsCurrent'
  <2>1. ASSUME NEW m \in Nat PROVE Numbered(<< >>, m)
    BY EmptySeq DEF Numbered
  <2>2. \A k \in Keys : Numbered(pending'[k], Before(k)') /\ DOMAIN pending'[k] = {}
    BY <1>4, <1>7, <2>1, EmptySeq
  <2> QED BY <2>2 DEF HeldIsLatest, HeldIsCurrent, Numbered
<1>11. Accounted'
  <2>1. ASSUME NEW k \in Keys, NEW m \in 1 .. Len(handled[k])
        PROVE  <<k, m>> \in memory' \cup batch \cup rows
    <3>1. CASE m \in 1 .. Before(k)
      <4>1. <<k, m>> \in LetGo
        BY <3>1 DEF LetGo
      <4> QED BY <1>1, <1>2, <4>1 DEF Accounted
    <3>2. CASE m \notin 1 .. Before(k)
      <4>1. m \in Before(k) + 1 .. Len(handled[k])
        BY <1>4, <3>2
      <4>2. pending[k] # << >>
        BY <1>4, <4>1, EmptySeq
      <4>3. <<k, m>> \in drained
        BY <1>5, <4>1, <4>2 DEF drained
      <4> QED BY <1>1, <4>3
    <3> QED BY <3>1, <3>2
  <2>2. LetGo' = UNION {{k} \X (1 .. Before(k)') : k \in Keys}
    BY DEF LetGo
  <2> QED BY <1>1, <1>7, <2>1, <2>2 DEF Accounted
<1>12. MarkIsLatest'
  BY <1>1, <1>2 DEF MarkIsLatest, Unseen
<1>13. FlushIsHeld' /\ DueIsOwed'
  BY <1>1, <1>2, <1>3, WhenJoined DEF FlushIsHeld, Joined
<1>14. ShutdownInOrder'
  BY <1>1, <1>2, <1>3, <1>7 DEF ShutdownInOrder, Joined
<1> QED BY <1>9, <1>10, <1>11, <1>12, <1>13, <1>14 DEF IInv

LEMMA FlushBucketsHolds ==
  ASSUME IInv, FlushBuckets \/ FlushBucketsSucceeds \/ FlushBucketsFails
  PROVE  IInv'
<1>1. Typed /\ FlushIsHeld /\ ShutdownInOrder
  BY DEF IInv
<1>2. phase = "writing" /\ (flusher = "main" => memory = {})
  BY <1>1 DEF FlushBuckets, FlushBucketsSucceeds, FlushBucketsFails, Commit, Rollback, FlushIsHeld
<1>3. UNCHANGED <<handlerVars, owed, current, watermark, cancelled, accepting, worker>>
  BY DEF FlushBuckets, Detach, FlushBucketsSucceeds, Commit, FlushBucketsFails, Rollback,
         workerVars
<1>4. Joined /\ current = NoKey /\ DueIsOwed'
  BY <1>1, <1>2, <1>3, WhenJoined DEF ShutdownInOrder, Joined
<1>5. CASE FlushBuckets
  <2>1. /\ flusher' = "main" /\ batch' = memory /\ memory' = {} /\ rows' = rows
        /\ flusher = "none" /\ UNCHANGED <<phase, errors>>
    BY <1>5 DEF FlushBuckets, Detach
  <2>2. FlushIsHeld' /\ ShutdownInOrder'
    BY <1>1, <1>2, <1>3, <1>4, <2>1 DEF FlushIsHeld, ShutdownInOrder, Joined, handlerVars
  <2>3. batch = {}
    BY <1>1, <2>1 DEF FlushIsHeld
  <2> QED BY <1>1, <1>3, <1>4, <2>1, <2>2, <2>3, RestHolds DEF Typed
<1>6. CASE FlushBucketsSucceeds
  <2>1. /\ flusher = "main" /\ flusher' = "none" /\ batch' = {} /\ rows' = rows \cup batch
        /\ UNCHANGED <<memory, errors>> /\ phase' = "cleaning"
    BY <1>6 DEF FlushBucketsSucceeds, Commit
  <2>2. FlushIsHeld' /\ ShutdownInOrder'
    BY <1>1, <1>2, <1>3, <1>4, <2>1 DEF FlushIsHeld, ShutdownInOrder, Joined, handlerVars
  <2> QED BY <1>1, <1>3, <1>4, <2>1, <2>2, RestHolds DEF Typed
<1>7. CASE FlushBucketsFails
  <2>1. /\ flusher = "main" /\ flusher' = "none" /\ batch' = {}
        /\ rows' \in {rows, rows \cup batch} /\ memory' = memory \cup batch
        /\ errors' = errors \cup {"buckets"} /\ phase' = "cleaning"
    BY <1>7 DEF FlushBucketsFails, Rollback
  <2>2. FlushIsHeld' /\ ShutdownInOrder'
    BY <1>1, <1>2, <1>3, <1>4, <2>1 DEF FlushIsHeld, ShutdownInOrder, Joined, handlerVars
  <2> QED BY <1>1, <1>3, <1>4, <2>1, <2>2, RestHolds DEF Typed
<1> QED BY <1>5, <1>6, <1>7

LEMMA NextHolds == IInv /\ [Next]_vars => IInv'
<1> SUFFICES ASSUME IInv, [Next]_vars PROVE IInv'
  OBVIOUS
<1>1. ASSUME NEW k \in Keys, NEW time \in 1 .. MaxTime, Handle(k, time) PROVE IInv'
  BY <1>1, HandleHolds
<1>12. CASE FlushBefore \/ Request
  BY <1>12, FlushBeforeHolds, RequestHolds
<1>2. ASSUME NEW k \in Keys, TakeRequest(k) PROVE IInv'
  BY <1>2, TakeRequestHolds
<1>3. CASE WorkerFlush
  BY <1>3, WorkerFlushHolds
<1>4. CASE NothingDue
  BY <1>4, NothingDueHolds
<1>5. CASE WorkerSucceeds
  BY <1>5, WorkerSucceedsHolds
<1>6. CASE WorkerStops
  BY <1>6, WorkerStopsHolds
<1>7. CASE WorkerFails
  BY <1>7, WorkerFailsHolds
<1>8. CASE \/ Signal \/ \E failed \in BOOLEAN : RunExchangesReturns(failed)
           \/ CloseRefuses \/ CloseCancels \/ CloseJoins \/ NothingToWrite \/ Cleanup
  BY <1>8, ShutdownHolds
<1>9. CASE FlushPipeline
  BY <1>9, FlushPipelineHolds
<1>10. CASE FlushBuckets \/ FlushBucketsSucceeds \/ FlushBucketsFails
  BY <1>10, FlushBucketsHolds
<1>11. CASE UNCHANGED vars
  BY <1>11, StutterHolds
<1> QED BY <1>1, <1>2, <1>3, <1>4, <1>5, <1>6, <1>7, <1>8, <1>9, <1>10, <1>11, <1>12
        DEF Next, WorkerStep, Shutdown

-----------------------------------------------------------------------------
(***************************************************************************)
(* What follows from the invariant.                                        *)
(***************************************************************************)

\* The invariant holds in every state.
THEOREM Invariance == Spec => []IInv
<1> QED BY InitHolds, NextHolds, PTL DEF Spec

\* A trade of a complete minute, in the rows or not, has left the pipeline, and
\* while it waits for its flush one that will include it is coming.
THEOREM CompletedIsAlwaysOwed == Spec => []CompletedIsOwed
<1>1. IInv => CompletedIsOwed
  <2> SUFFICES ASSUME IInv, ~cancelled, accepting, NEW t \in Handled, Completed(t)
               PROVE  \/ t \in batch \cup rows
                      \/ /\ t \in memory
                         /\ \/ TimeOf(t) < Floor(owed[t[1]])
                            \/ /\ current = t[1] /\ flusher # "worker"
                               /\ TimeOf(t) < Floor(watermark)
    BY DEF CompletedIsOwed, Floor
  <2>1. t[1] \in Keys /\ t = <<t[1], t[2]>>
    BY HandledPairs DEF IInv
  <2>2. t[2] \in 1 .. Before(t[1])
    BY HeldIsIncomplete
  <2>3. t \in memory \cup batch \cup rows
    <3>1. <<t[1], t[2]>> \in LetGo
      BY <2>1, <2>2 DEF LetGo
    <3> QED BY <2>1, <3>1 DEF IInv, Accounted
  <2> QED BY <2>3 DEF IInv, DueIsOwed
<1> QED BY <1>1, Invariance, PTL

\* When run has returned, the worker has no flush under way and every trade the
\* handler was given is in the database, unless the final flush has failed.
THEOREM NothingIsLeftBehind == Spec => []NothingLeftBehind
<1>1. IInv => NothingLeftBehind
  <2> SUFFICES ASSUME IInv, phase = "returned"
               PROVE  /\ batch = {} /\ current = NoKey
                      /\ "buckets" \notin errors => Handled \subseteq rows
    BY DEF NothingLeftBehind
  <2>1. Joined /\ flusher = "none" /\ \A k \in Keys : pending[k] = << >>
    BY DEF IInv, ShutdownInOrder
  <2>2. batch = {} /\ current = NoKey
    BY <2>1 DEF IInv, FlushIsHeld, Joined
  <2>3. Handled \subseteq LetGo
    <3>1. \A k \in Keys : Before(k) = Len(handled[k])
      <4>1. \A k \in Keys : Before(k) = Len(handled[k]) - 0
        BY <2>1, EmptySeq DEF Before
      <4> QED BY <4>1, HandledPairs DEF IInv
    <3> QED BY <3>1, HandledPairs DEF IInv, LetGo
  <2>4. "buckets" \notin errors => memory = {}
    BY DEF IInv, ShutdownInOrder
  <2> QED BY <2>2, <2>3, <2>4 DEF IInv, Accounted
<1> QED BY <1>1, Invariance, PTL
=============================================================================
