------------------------- MODULE TradePipelineProofs -------------------------
(***************************************************************************)
(* Proofs about TradePipeline for any keys, thresholds, windows, streams   *)
(* and bounds.                                                             *)
(*                                                                         *)
(* Keys do not share state, and a call makes of one key's state one of a   *)
(* set of outcomes.  KeyInv is what holds of a key's state between calls;  *)
(* one lemma per operator shows that each outcome, that of a refused       *)
(* publication included, satisfies it again, and SettleInv lifts this to   *)
(* the whole pipeline.                                                     *)
(***************************************************************************)
EXTENDS TradePipeline, TLAPS, FiniteSetTheorems, SequenceTheorems

-----------------------------------------------------------------------------
(***************************************************************************)
(* The operators of Aggregators.                                           *)
(***************************************************************************)

LEMMA SeqFacts ==
  ASSUME NEW S, NEW s \in Seq(S)
  PROVE  /\ Len(s) \in Nat /\ DOMAIN s = 1 .. Len(s)
         /\ \A i \in DOMAIN s : s[i] \in S
         /\ s # << >> => Len(s) \in DOMAIN s /\ 1 \in DOMAIN s
BY LenProperties, ElementOfSeq, EmptySeq

LEMMA AppendFacts ==
  ASSUME NEW S, NEW s \in Seq(S), NEW x \in S
  PROVE  /\ Append(s, x) \in Seq(S) /\ Append(s, x) # << >>
         /\ Len(Append(s, x)) = Len(s) + 1
         /\ DOMAIN Append(s, x) = DOMAIN s \cup {Len(s) + 1}
         /\ \A i \in DOMAIN s : Append(s, x)[i] = s[i]
         /\ Append(s, x)[Len(s) + 1] = x
BY AppendProperties, LenProperties

LEMMA SingletonFacts ==
  ASSUME NEW S, NEW x \in S
  PROVE  /\ <<x>> \in Seq(S) /\ <<x>> # << >> /\ Len(<<x>>) = 1
         /\ DOMAIN <<x>> = {1} /\ <<x>>[1] = x
OBVIOUS

\* A minute starts at or before each of its instants, less than a minute
\* before.
LEMMA MinuteFloorBounds ==
  ASSUME NEW time \in Nat
  PROVE  /\ MinuteFloor(time) \in Nat
         /\ MinuteFloor(time) <= time /\ time < MinuteFloor(time) + MinuteLength
<1>1. time % MinuteLength \in 0 .. MinuteLength - 1
  BY MinuteAssumption
<1>2. time % MinuteLength <= time
  BY MinuteAssumption
<1> QED BY <1>1, <1>2, MinuteAssumption DEF MinuteFloor

\* A minute starts at a multiple of its length.
LEMMA WholeMinute ==
  ASSUME NEW x \in Nat
  PROVE  MinuteFloor(x) % MinuteLength = 0
<1> DEFINE q == x \div MinuteLength
<1>1. q \in Nat /\ x = MinuteLength * q + (x % MinuteLength)
  BY MinuteAssumption
<1>2. MinuteFloor(x) = MinuteLength * q
  BY <1>1, MinuteAssumption DEF MinuteFloor
<1> HIDE DEF q
<1> DEFINE y == MinuteLength * q
           d == y \div MinuteLength
           r == y % MinuteLength
<1>3. y \in Nat
  BY <1>1, MinuteAssumption
<1>4. d \in Nat /\ r \in 0 .. MinuteLength - 1 /\ y = MinuteLength * d + r
  <2> HIDE DEF y
  <2> QED BY <1>3, MinuteAssumption
<1>5. MinuteLength * q = MinuteLength * d + r
  BY <1>4
<1> HIDE DEF y, d, r
<1>6. CASE q <= d
  <2>1. MinuteLength * q <= MinuteLength * d
    BY <1>1, <1>4, <1>6, MinuteAssumption
  <2>2. MinuteLength * q \in Nat /\ MinuteLength * d \in Nat
    BY <1>1, <1>4, MinuteAssumption
  <2>3. r = 0
    BY <1>4, <1>5, <2>1, <2>2
  <2> QED BY <1>2, <2>3 DEF r, y
<1>7. CASE d + 1 <= q
  <2>1. MinuteLength * (d + 1) <= MinuteLength * q
    BY <1>1, <1>4, <1>7, MinuteAssumption
  <2>2. MinuteLength * (d + 1) = MinuteLength * d + MinuteLength
    BY <1>4, MinuteAssumption
  <2>3. MinuteLength * q \in Nat /\ MinuteLength * d \in Nat
    BY <1>1, <1>4, MinuteAssumption
  <2> QED BY <1>4, <1>5, <2>1, <2>2, <2>3, MinuteAssumption
<1> QED BY <1>1, <1>4, <1>6, <1>7

\* A total of volumes is a natural.
LEMMA TotalVolumeType ==
  ASSUME NEW trades \in Seq(Trade)
  PROVE  TotalVolume(trades) \in Nat
<1> DEFINE units(i) == {i} \X (1 .. trades[i].volume)
           family == {units(i) : i \in DOMAIN trades}
<1>1. ASSUME NEW i \in DOMAIN trades PROVE IsFiniteSet(units(i))
  <2>1. trades[i] \in Trade
    BY SeqFacts
  <2>2. trades[i].volume \in Nat
    BY <2>1 DEF Trade
  <2>3. IsFiniteSet({i})
    BY FS_Singleton
  <2>4. IsFiniteSet(1 .. trades[i].volume)
    BY <2>2, FS_Interval
  <2> QED BY <2>3, <2>4, FS_Product
<1>2. IsFiniteSet(family)
  <2> DEFINE f == [i \in DOMAIN trades |-> units(i)]
  <2>1. IsFiniteSet(DOMAIN trades)
    BY SeqFacts, FS_Interval
  <2>2. f \in Surjection(DOMAIN trades, family)
    BY DEF Surjection
  <2> HIDE DEF f
  <2> QED BY <2>1, <2>2, FS_Surjection
<1>3. IsFiniteSet(UNION family)
  <2>1. \A T \in family : IsFiniteSet(T)
    BY <1>1
  <2> HIDE DEF family
  <2> QED BY <1>2, <2>1, FS_UNION
<1>4. TotalVolume(trades) = Cardinality(UNION family)
  BY DEF TotalVolume
<1> HIDE DEF family
<1> QED BY <1>3, <1>4, FS_CardinalityType

\* An aggregate of trades is a trade.
LEMMA AggregateTradesType ==
  ASSUME NEW trades \in Seq(Trade), trades # << >>
  PROVE  AggregateTrades(trades) \in Trade
<1>1. trades[1] \in Trade /\ trades[Len(trades)] \in Trade
  BY SeqFacts
<1>2. TotalVolume(trades) \in Nat
  BY TotalVolumeType
<1> QED BY <1>1, <1>2 DEF AggregateTrades, Trade

\* A tick of trades is a significant-stream event.
LEMMA TickType ==
  ASSUME NEW k, NEW trades \in Seq(Trade), trades # << >>, NEW late \in BOOLEAN
  PROVE  Tick(k, trades, late) \in SignificantTrade
<1> DEFINE significant == {i \in DOMAIN trades : IsSignificant(k, trades[i])}
           base == IF significant = {} THEN trades[Len(trades)]
                   ELSE trades[CHOOSE i \in significant : TRUE]
<1>1. base \in Trade
  <2>1. CASE significant = {}
    BY <2>1, SeqFacts
  <2>2. CASE significant # {}
    <3>1. (CHOOSE i \in significant : TRUE) \in significant
      BY <2>2
    <3>2. \A i \in significant : trades[i] \in Trade
      BY SeqFacts
    <3> QED BY <2>2, <3>1, <3>2
  <2> QED BY <2>1, <2>2
<1>2. base.uid \in Nat
  BY <1>1 DEF Trade
<1>3. Tick(k, trades, late) = [uid |-> base.uid, significant |-> significant # {},
                               trades |-> trades, late |-> late]
  BY DEF Tick
<1> HIDE DEF base
<1> QED BY <1>2, <1>3 DEF SignificantTrade

LEMMA GetTickType ==
  ASSUME NEW k, NEW trades \in Seq(Trade)
  PROVE  GetTick(k, trades) \in Seq(SignificantTrade)
<1>1. CASE trades = << >>
  BY <1>1 DEF GetTick
<1>2. CASE trades # << >>
  <2>1. Tick(k, trades, FALSE) \in SignificantTrade
    BY <1>2, TickType
  <2> QED BY <1>2, <2>1, SingletonFacts DEF GetTick
<1> QED BY <1>1, <1>2

\* What the SignificantTradeAggregator holds for a key: trades that are not
\* significant, in the current window.
ContextInv(k, context, win) ==
  /\ context \in Seq(Trade) /\ win \in Window
  /\ \A i \in DOMAIN context : ~IsSignificant(k, context[i])
  /\ WindowDuration # 0 => \A i \in DOMAIN context : InWindow(win, context[i])

LEMMA ContextWithin ==
  ASSUME NEW k, NEW context, NEW win, ContextInv(k, context, win), WindowDuration # 0
  PROVE  \A i \in DOMAIN context : InWindow(win, context[i])
BY DEF ContextInv

LEMMA EmptyContext ==
  ASSUME NEW k, NEW win \in Window
  PROVE  ContextInv(k, << >>, win)
BY DEF ContextInv

LEMMA WindowAtFacts ==
  ASSUME NEW trade \in Trade
  PROVE  /\ WindowAt(trade.time) \in Window
         /\ WindowDuration # 0 => InWindow(WindowAt(trade.time), trade)
<1>1. trade.time \in Nat
  BY DEF Trade
<1> QED BY <1>1, MinuteFloorBounds, WindowAssumption, MinuteAssumption
        DEF WindowAt, Window, InWindow

\* A trade of the current window keeps the context's invariant.
LEMMA SignificantTradeOrTickInv ==
  ASSUME NEW k \in Keys, NEW context, NEW win, ContextInv(k, context, win),
         NEW trade \in Trade, WindowDuration # 0 => InWindow(win, trade),
         NEW r, r = SignificantTradeOrTick(k, context, win, trade)
  PROVE  ContextInv(k, r.pending, r.win) /\ r.ticks \in Seq(SignificantTrade)
<1> DEFINE trades == Append(context, trade)
<1>1. context \in Seq(Trade) /\ win \in Window
  BY DEF ContextInv
<1>2. /\ trades \in Seq(Trade) /\ trades # << >>
      /\ DOMAIN trades = DOMAIN context \cup {Len(context) + 1}
      /\ \A i \in DOMAIN context : trades[i] = context[i]
      /\ trades[Len(context) + 1] = trade
  BY <1>1, AppendFacts
<1>3. CASE IsSignificant(k, trade)
  <2>1. r = [pending |-> << >>, win |-> win, ticks |-> GetTick(k, trades)]
    BY <1>3 DEF SignificantTradeOrTick
  <2> HIDE DEF trades
  <2> QED BY <1>1, <1>2, <2>1, GetTickType, EmptyContext
<1>4. CASE ~IsSignificant(k, trade)
  <2>1. r = [pending |-> trades, win |-> win, ticks |-> << >>]
    BY <1>4 DEF SignificantTradeOrTick
  <2>2. ContextInv(k, trades, win)
    <3> HIDE DEF trades
    <3> QED BY <1>1, <1>2, <1>4 DEF ContextInv
  <2> QED BY <2>1, <2>2
<1> QED BY <1>3, <1>4

LEMMA SignificantAddInv ==
  ASSUME NEW k \in Keys, NEW context, NEW win, ContextInv(k, context, win),
         NEW trade \in Trade,
         NEW r, r = SignificantAdd(k, context, win, trade)
  PROVE  ContextInv(k, r.pending, r.win) /\ r.ticks \in Seq(SignificantTrade)
<1> DEFINE w == IF win = NoWindow THEN WindowAt(trade.time) ELSE win
<1>1. context \in Seq(Trade) /\ win \in Window /\ trade.time \in Nat
  BY DEF ContextInv, Trade
<1>2. w \in Window /\ w.start \in Int /\ w.stop \in Int
  BY <1>1, WindowAtFacts DEF Window
<1>3. CASE WindowDuration = 0
  <2>1. r = SignificantTradeOrTick(k, context, win, trade)
    BY <1>3 DEF SignificantAdd
  <2> QED BY <1>3, <2>1, SignificantTradeOrTickInv
<1>4. CASE WindowDuration # 0
  <2>1. ContextInv(k, context, w)
    <3>1. CASE win = NoWindow
      <4>1. \A i \in DOMAIN context : context[i].time \in Nat
        <5>1. \A i \in DOMAIN context : context[i] \in Trade
          BY <1>1, SeqFacts
        <5> QED BY <5>1 DEF Trade
      <4>2. \A i \in DOMAIN context : ~InWindow(win, context[i])
        BY <3>1, <4>1 DEF InWindow, NoWindow
      <4>3. DOMAIN context = {}
        BY <1>4, <4>2 DEF ContextInv
      <4> QED BY <1>1, <1>2, <4>3 DEF ContextInv
    <3>2. CASE win # NoWindow
      BY <3>2
    <3> QED BY <3>1, <3>2
  <2>2. CASE trade.time < w.start
    <3> DEFINE ticks == <<Tick(k, <<trade>>, TRUE)>>
    <3>1. r = [pending |-> context, win |-> w, ticks |-> ticks]
      BY <1>4, <2>2 DEF SignificantAdd
    <3>2. ticks \in Seq(SignificantTrade)
      <4>1. <<trade>> \in Seq(Trade) /\ <<trade>> # << >>
        OBVIOUS
      <4>2. Tick(k, <<trade>>, TRUE) \in SignificantTrade
        BY <4>1, TickType
      <4> QED BY <4>2, SingletonFacts
    <3> HIDE DEF w, ticks
    <3> QED BY <2>1, <3>1, <3>2
  <2>3. CASE ~(trade.time < w.start) /\ trade.time >= w.stop
    <3> DEFINE next == SignificantTradeOrTick(k, << >>, WindowAt(trade.time), trade)
    <3>1. r = [next EXCEPT !.ticks = GetTick(k, context) \o next.ticks]
      BY <1>4, <2>3 DEF SignificantAdd, NextWindow
    <3>2. ContextInv(k, << >>, WindowAt(trade.time))
      BY EmptyContext, WindowAtFacts
    <3>3. ContextInv(k, next.pending, next.win) /\ next.ticks \in Seq(SignificantTrade)
      BY <3>2, WindowAtFacts, SignificantTradeOrTickInv
    <3>4. GetTick(k, context) \o next.ticks \in Seq(SignificantTrade)
      BY <1>1, <3>3, GetTickType, ConcatProperties
    <3>5. next = [pending |-> next.pending, win |-> next.win, ticks |-> next.ticks]
      BY DEF SignificantTradeOrTick
    <3> HIDE DEF next
    <3>6. r.pending = next.pending /\ r.win = next.win
             /\ r.ticks = GetTick(k, context) \o next.ticks
      BY <3>1, <3>5
    <3> QED BY <3>3, <3>4, <3>6
  <2>4. CASE ~(trade.time < w.start) /\ ~(trade.time >= w.stop)
    <3>1. r = SignificantTradeOrTick(k, context, w, trade)
      BY <1>4, <2>4 DEF SignificantAdd
    <3>2. InWindow(w, trade)
      <4> HIDE DEF w
      <4> QED BY <1>1, <1>2, <2>4 DEF InWindow
    <3> HIDE DEF w
    <3> QED BY <2>1, <3>1, <3>2, SignificantTradeOrTickInv
  <2> QED BY <2>2, <2>3, <2>4
<1> QED BY <1>3, <1>4

-----------------------------------------------------------------------------
(***************************************************************************)
(* The outcomes of a call, per key.                                        *)
(***************************************************************************)
KeyInv(k, s) ==
  s \in KeyState /\ LatestSample(s) /\ ContextInv(k, s.context, s.win)

\* What the publication of anything leaves alone: the trades that wait in the
\* TradeAggregator, and those handled.
Published(k, s, o) ==
  /\ o.ok \in BOOLEAN
  /\ o.state \in KeyState /\ ContextInv(k, o.state.context, o.state.win)
  /\ o.state.pending = s.pending /\ o.state.handled = s.handled

LEMMA PublishedKeepsInv ==
  ASSUME NEW k, NEW s, NEW o, LatestSample(s), Published(k, s, o)
  PROVE  KeyInv(k, o.state) /\ o.ok \in BOOLEAN
BY DEF KeyInv, Published, LatestSample

LEMMA PartsType ==
  /\ \A trade \in Trade : Parts(trade) \subseteq Nat
  /\ \A trades \in Seq(Trade) : PartsOf(trades) \subseteq Nat
<1>1. \A trade \in Trade : Parts(trade) \subseteq Nat
  BY DEF Trade, Parts
<1>2. ASSUME NEW trades \in Seq(Trade)
      PROVE  PartsOf(trades) \subseteq Nat
  <2>1. \A i \in DOMAIN trades : trades[i] \in Trade
    BY SeqFacts
  <2> QED BY <1>1, <2>1 DEF PartsOf
<1> QED BY <1>1, <1>2

LEMMA PublishTicksOutcome ==
  ASSUME NEW k, NEW s \in KeyState, ContextInv(k, s.context, s.win),
         NEW ticks \in Seq(SignificantTrade), NEW batch \in BOOLEAN,
         NEW o \in PublishTicks(s, ticks, batch)
  PROVE  Published(k, s, o)
<1>1. Len(ticks) \in Nat /\ DOMAIN ticks = 1 .. Len(ticks)
      /\ \A i \in DOMAIN ticks : ticks[i] \in SignificantTrade
  BY SeqFacts
<1>2. PICK n \in 0 .. Len(ticks) : o = Outcome(PublishedTicks(s, ticks, n), n = Len(ticks))
  BY <1>1 DEF PublishTicks
<1> DEFINE sent == s.significant \o SubSeq(ticks, 1, n)
           lost == s.sigLost \cup UNION {PartsOf(ticks[i].trades) : i \in n+1 .. Len(ticks)}
           t == [s EXCEPT !.significant = sent, !.sigLost = lost]
<1>3. o = [state |-> t, ok |-> n = Len(ticks)]
  BY <1>2 DEF Outcome, PublishedTicks
<1>4. sent \in Seq(SignificantTrade)
  <2>1. \A i \in 1 .. n : ticks[i] \in SignificantTrade
    BY <1>1
  <2>2. SubSeq(ticks, 1, n) \in Seq(SignificantTrade)
    BY <1>1, <2>1, SubSeqProperties
  <2>3. s.significant \in Seq(SignificantTrade)
    BY DEF KeyState
  <2> QED BY <2>2, <2>3, ConcatProperties
<1>5. lost \in SUBSET Nat
  <2>1. \A i \in n+1 .. Len(ticks) : ticks[i].trades \in Seq(Trade)
    <3>1. \A i \in n+1 .. Len(ticks) : ticks[i] \in SignificantTrade
      BY <1>1
    <3> QED BY <3>1 DEF SignificantTrade
  <2>2. \A i \in n+1 .. Len(ticks) : PartsOf(ticks[i].trades) \subseteq Nat
    BY <2>1, PartsType
  <2>3. s.sigLost \subseteq Nat
    BY DEF KeyState
  <2> QED BY <2>2, <2>3
<1> HIDE DEF sent, lost
<1>6. /\ t \in KeyState
      /\ t.context = s.context /\ t.win = s.win
      /\ t.pending = s.pending /\ t.handled = s.handled
  BY <1>4, <1>5 DEF KeyState
<1> HIDE DEF t
<1>7. o.state = t /\ o.ok = (n = Len(ticks))
  BY <1>3
<1> QED BY <1>6, <1>7 DEF Published

LEMMA AddSignificantOutcome ==
  ASSUME NEW k \in Keys, NEW s \in KeyState, ContextInv(k, s.context, s.win),
         NEW trade \in Trade, NEW batch \in BOOLEAN,
         NEW o \in AddSignificant(k, s, trade, batch)
  PROVE  Published(k, s, o)
<1> DEFINE r == SignificantAdd(k, s.context, s.win, trade)
           t == [s EXCEPT !.context = r.pending, !.win = r.win]
<1>1. ContextInv(k, r.pending, r.win) /\ r.ticks \in Seq(SignificantTrade)
  BY SignificantAddInv
<1>2. o \in PublishTicks(t, r.ticks, batch)
  BY DEF AddSignificant
<1> HIDE DEF r
<1>3. /\ t \in KeyState /\ ContextInv(k, t.context, t.win)
      /\ t.pending = s.pending /\ t.handled = s.handled
  BY <1>1 DEF KeyState, ContextInv
<1> HIDE DEF t
<1>4. Published(k, t, o)
  BY <1>1, <1>2, <1>3, PublishTicksOutcome
<1> QED BY <1>3, <1>4 DEF Published

LEMMA PublishAggregatedOutcome ==
  ASSUME NEW k, NEW s \in KeyState, ContextInv(k, s.context, s.win),
         NEW trade \in Trade, NEW o \in PublishAggregated(s, trade)
  PROVE  Published(k, s, o)
<1>1. Parts(trade) \subseteq Nat /\ s.aggLost \subseteq Nat /\ s.sigLost \subseteq Nat
  BY PartsType DEF KeyState
<1>2. s.aggregated \in Seq(Trade)
  BY DEF KeyState
<1>3. CASE ~AggregatedOn
  <2>1. o = [state |-> s, ok |-> TRUE]
    BY <1>3 DEF PublishAggregated, Outcome
  <2> QED BY <2>1 DEF Published
<1>4. CASE AggregatedOn
  <2> DEFINE longer == Append(s.aggregated, trade)
             aggLost == s.aggLost \cup Parts(trade)
             sigLost == s.sigLost \cup Parts(trade)
             sent == [s EXCEPT !.aggregated = longer]
             lost == [s EXCEPT !.aggLost = aggLost, !.sigLost = sigLost]
  <2>1. longer \in Seq(Trade) /\ aggLost \in SUBSET Nat /\ sigLost \in SUBSET Nat
    BY <1>1, <1>2
  <2>2. \/ o = [state |-> sent, ok |-> TRUE]
        \/ o = [state |-> lost, ok |-> FALSE]
    BY <1>4 DEF PublishAggregated, Outcome
  <2> HIDE DEF longer, aggLost, sigLost
  <2>3. ASSUME NEW t \in {sent, lost}
        PROVE  /\ t \in KeyState /\ t.context = s.context /\ t.win = s.win
               /\ t.pending = s.pending /\ t.handled = s.handled
    BY <2>1 DEF KeyState
  <2> HIDE DEF sent, lost
  <2>4. CASE o = [state |-> sent, ok |-> TRUE]
    <3>1. o.state = sent /\ o.ok = TRUE
      BY <2>4
    <3> QED BY <2>3, <3>1 DEF Published
  <2>5. CASE o = [state |-> lost, ok |-> FALSE]
    <3>1. o.state = lost /\ o.ok = FALSE
      BY <2>5
    <3> QED BY <2>3, <3>1 DEF Published
  <2> QED BY <2>2, <2>4, <2>5
<1> QED BY <1>3, <1>4

LEMMA DeliverOutcome ==
  ASSUME NEW k \in Keys, NEW s \in KeyState, ContextInv(k, s.context, s.win),
         NEW trade \in Trade, NEW batch \in BOOLEAN,
         NEW o \in Deliver(k, s, trade, batch)
  PROVE  Published(k, s, o)
<1>1. PICK p \in PublishAggregated(s, trade) :
        o \in IF p.ok
                THEN IF SignificantOn THEN AddSignificant(k, p.state, trade, batch)
                     ELSE {Outcome(p.state, TRUE)}
                ELSE {p}
  BY DEF Deliver, OnSuccess
<1>2. Published(k, s, p)
  BY PublishAggregatedOutcome
<1>3. CASE p.ok /\ SignificantOn
  <2>1. Published(k, p.state, o)
    BY <1>1, <1>2, <1>3, AddSignificantOutcome DEF Published
  <2> QED BY <1>2, <2>1 DEF Published
<1>4. CASE p.ok /\ ~SignificantOn
  <2>1. o = [state |-> p.state, ok |-> TRUE]
    BY <1>1, <1>4 DEF Outcome
  <2> QED BY <1>2, <2>1 DEF Published
<1>5. CASE ~p.ok
  BY <1>1, <1>2, <1>5
<1> QED BY <1>3, <1>4, <1>5

LEMMA FlushAggregatedKeyOutcome ==
  ASSUME NEW k \in Keys, NEW s, KeyInv(k, s), NEW o \in FlushAggregatedKey(k, s)
  PROVE  KeyInv(k, o.state) /\ o.ok \in BOOLEAN
<1>0. s \in KeyState /\ s.pending \in Seq(Trade) /\ s.handled \in Seq(Trade)
  BY DEF KeyInv, KeyState
<1>1. CASE s.pending = << >>
  <2>1. o = [state |-> s, ok |-> TRUE]
    BY <1>1 DEF FlushAggregatedKey, Outcome
  <2> QED BY <2>1
<1>2. CASE s.pending # << >>
  <2> DEFINE cuts == s.cuts \cup {s.pending[Len(s.pending)].upto}
             none == << >>
             t == [s EXCEPT !.pending = none, !.cuts = cuts]
  <2>1. o \in Deliver(k, t, AggregateTrades(s.pending), Batch)
    BY <1>2 DEF FlushAggregatedKey
  <2>2. AggregateTrades(s.pending) \in Trade
    BY <1>0, <1>2, AggregateTradesType
  <2>3. cuts \in SUBSET Nat
    <3>1. s.pending[Len(s.pending)] \in Trade
      BY <1>0, <1>2, SeqFacts
    <3> QED BY <1>0, <3>1 DEF KeyState, Trade
  <2>4. none \in Seq(Trade)
    OBVIOUS
  <2> HIDE DEF cuts, none
  <2>5. /\ t \in KeyState /\ t.context = s.context /\ t.win = s.win
        /\ t.pending = none /\ t.handled = s.handled
    BY <1>0, <2>3, <2>4 DEF KeyState
  <2> HIDE DEF t
  <2>6. ContextInv(k, t.context, t.win)
    BY <2>5 DEF KeyInv
  <2>7. LatestSample(t)
    <3>1. Len(none) = 0 /\ DOMAIN none = {} /\ Len(t.handled) \in Nat
      BY <1>0, <2>5, LenProperties DEF none
    <3> QED BY <2>5, <3>1 DEF LatestSample
  <2>8. Published(k, t, o)
    BY <2>1, <2>2, <2>5, <2>6, StreamsAssumption, DeliverOutcome
  <2> QED BY <2>7, <2>8, PublishedKeepsInv
<1> QED BY <1>1, <1>2

LEMMA FlushSignificantKeyOutcome ==
  ASSUME NEW k \in Keys, NEW s, KeyInv(k, s), NEW o \in FlushSignificantKey(k, s)
  PROVE  KeyInv(k, o.state) /\ o.ok \in BOOLEAN
<1> DEFINE none == << >>
           t == [s EXCEPT !.context = none]
<1>1. o \in PublishTicks(t, GetTick(k, s.context), Batch)
  BY DEF FlushSignificantKey
<1>2. GetTick(k, s.context) \in Seq(SignificantTrade)
  BY GetTickType DEF KeyInv, KeyState
<1>3. none \in Seq(Trade)
  OBVIOUS
<1>4. s \in KeyState /\ LatestSample(s)
  BY DEF KeyInv
<1> HIDE DEF none
<1>5. /\ t \in KeyState /\ t.context = none /\ t.win \in Window
      /\ t.pending = s.pending /\ t.handled = s.handled
  BY <1>3, <1>4 DEF KeyState
<1> HIDE DEF t
<1>6. Published(k, t, o)
  BY <1>1, <1>2, <1>5, EmptyContext, StreamsAssumption, PublishTicksOutcome DEF none
<1>7. LatestSample(t)
  BY <1>4, <1>5 DEF LatestSample
<1> QED BY <1>6, <1>7, PublishedKeepsInv

LEMMA FlushBeforeOutcome ==
  ASSUME NEW k \in Keys, NEW s, KeyInv(k, s), NEW boundary,
         NEW o \in FlushBeforeOutcomes(k, s, boundary)
  PROVE  KeyInv(k, o.state) /\ o.ok \in BOOLEAN
<1> DEFINE first == IF HasPendingBefore(s.pending, boundary)
                      THEN FlushAggregatedKey(k, s) ELSE {Outcome(s, TRUE)}
<1>1. PICK p \in first :
        o \in IF p.ok
                THEN IF SignificantOn /\ HasPendingBefore(p.state.context, boundary)
                       THEN FlushSignificantKey(k, p.state)
                       ELSE {Outcome(p.state, TRUE)}
                ELSE {p}
  BY DEF FlushBeforeOutcomes, OnSuccess
<1>2. KeyInv(k, p.state) /\ p.ok \in BOOLEAN
  <2>1. CASE p = Outcome(s, TRUE)
    BY <2>1 DEF Outcome
  <2>2. CASE p \in FlushAggregatedKey(k, s)
    BY <2>2, FlushAggregatedKeyOutcome
  <2> QED BY <2>1, <2>2
<1>3. CASE o \in FlushSignificantKey(k, p.state)
  BY <1>2, <1>3, FlushSignificantKeyOutcome
<1>4. CASE o = Outcome(p.state, TRUE)
  BY <1>2, <1>4 DEF Outcome
<1>5. CASE o = p
  BY <1>2, <1>5
<1> QED BY <1>1, <1>3, <1>4, <1>5

\* What the TradeAggregator makes of the next trade: the pending trades are
\* again the latest ones, and of one sample.
LEMMA AddEffect ==
  ASSUME NEW pending \in Seq(Trade), NEW trade \in Trade,
         NEW handled \in Seq(Trade), Len(handled) >= Len(pending),
         \A i \in DOMAIN pending :
           pending[i] = handled[Len(handled) - Len(pending) + i],
         \A i, j \in DOMAIN pending : SameSample(pending[i], pending[j]),
         NEW later, later = Append(handled, trade),
         NEW r, r = Add(pending, trade)
  PROVE  /\ r.pending \in Seq(Trade) /\ Len(later) - Len(r.pending) >= 0
         /\ \A i \in DOMAIN r.pending :
              r.pending[i] = later[Len(later) - Len(r.pending) + i]
         /\ \A i, j \in DOMAIN r.pending : SameSample(r.pending[i], r.pending[j])
         /\ r.out # << >> => r.out[1] \in Trade
<1> DEFINE one == <<trade>>
           longer == Append(pending, trade)
           agg == <<AggregateTrades(pending)>>
           none == << >>
<1>1. /\ Len(later) = Len(handled) + 1 /\ Len(handled) \in Nat
      /\ \A i \in 1 .. Len(handled) : later[i] = handled[i]
      /\ later[Len(handled) + 1] = trade
  BY AppendProperties, LenProperties
<1>2. one \in Seq(Trade) /\ Len(one) = 1 /\ DOMAIN one = {1} /\ one[1] = trade
  BY SingletonFacts
<1>3. /\ longer \in Seq(Trade) /\ Len(longer) = Len(pending) + 1
      /\ DOMAIN longer = 1 .. Len(pending) + 1
      /\ \A i \in DOMAIN pending : longer[i] = pending[i]
      /\ longer[Len(pending) + 1] = trade
      /\ DOMAIN pending = 1 .. Len(pending) /\ Len(pending) \in Nat
  BY AppendProperties, LenProperties
<1> DEFINE Latest(p) ==
             /\ p \in Seq(Trade) /\ Len(later) - Len(p) >= 0
             /\ \A i \in DOMAIN p : p[i] = later[Len(later) - Len(p) + i]
             /\ \A i, j \in DOMAIN p : SameSample(p[i], p[j])
<1> SUFFICES Latest(r.pending) /\ (r.out # << >> => r.out[1] \in Trade)
  OBVIOUS
<1>4. Latest(one)
  <2> HIDE DEF one
  <2>1. Len(later) - Len(one) = Len(handled)
    BY <1>1, <1>2
  <2>2. later[Len(later) - Len(one) + 1] = trade
    BY <1>1, <2>1
  <2> QED BY <1>1, <1>2, <2>1, <2>2 DEF SameSample
<1>5. CASE pending = << >>
  <2>1. r = [pending |-> one, out |-> none]
    BY <1>5 DEF Add
  <2> HIDE DEF one, none
  <2>2. r.pending = one /\ r.out = none
    BY <2>1
  <2> HIDE DEF Latest
  <2> QED BY <1>4, <2>2 DEF none
<1>6. CASE pending # << >> /\ SameSample(pending[Len(pending)], trade)
  <2>1. r = [pending |-> longer, out |-> none]
    BY <1>6 DEF Add
  <2>2. r.pending = longer /\ r.out = none
    <3> HIDE DEF longer, none
    <3> QED BY <2>1
  <2>3. Len(later) - Len(longer) = Len(handled) - Len(pending)
    BY <1>1, <1>3
  <2>4. ASSUME NEW i \in DOMAIN longer
        PROVE  longer[i] = later[Len(handled) - Len(pending) + i]
    <3>1. CASE i \in DOMAIN pending
      <4>1. Len(handled) - Len(pending) + i \in 1 .. Len(handled)
        BY <1>1, <1>3, <3>1
      <4>2. longer[i] = handled[Len(handled) - Len(pending) + i]
        BY <1>3, <3>1
      <4> HIDE DEF longer
      <4> QED BY <1>1, <4>1, <4>2
    <3>2. CASE i = Len(pending) + 1
      <4>1. Len(handled) - Len(pending) + i = Len(handled) + 1
        BY <1>1, <1>3, <3>2
      <4> HIDE DEF longer
      <4> QED BY <1>1, <1>3, <3>2, <4>1
    <3> QED BY <1>3, <3>1, <3>2
  <2>5. Len(pending) \in DOMAIN pending
    BY <1>6, SeqFacts
  <2>6. \A i, j \in DOMAIN longer : SameSample(longer[i], longer[j])
    <3>1. \A i \in DOMAIN longer : SameSample(longer[i], trade)
      <4>1. \A i \in DOMAIN pending : SameSample(pending[i], trade)
        BY <1>6, <2>5 DEF SameSample
      <4> HIDE DEF longer
      <4> QED BY <1>3, <4>1 DEF SameSample
    <3> HIDE DEF longer
    <3> QED BY <3>1 DEF SameSample
  <2> HIDE DEF longer
  <2>7. Len(later) - Len(longer) >= 0
    BY <1>1, <1>3, <2>3
  <2>8. Latest(longer)
    BY <1>3, <2>3, <2>4, <2>6, <2>7
  <2> HIDE DEF Latest
  <2> QED BY <2>2, <2>8 DEF none
<1>7. CASE pending # << >> /\ ~SameSample(pending[Len(pending)], trade)
  <2>1. r = [pending |-> one, out |-> agg]
    BY <1>7 DEF Add
  <2>2. agg[1] \in Trade
    BY <1>7, AggregateTradesType
  <2> HIDE DEF one, agg
  <2>3. r.pending = one /\ r.out = agg
    BY <2>1
  <2> HIDE DEF Latest
  <2> QED BY <1>4, <2>2, <2>3
<1> QED BY <1>5, <1>6, <1>7

LEMMA HandleOutcome ==
  ASSUME NEW k \in Keys, NEW s, KeyInv(k, s), NEW trade \in Trade,
         NEW o \in HandleOutcomes(k, s, trade)
  PROVE  KeyInv(k, o.state) /\ o.ok \in BOOLEAN
<1> DEFINE r == Add(s.pending, trade)
           later == Append(s.handled, trade)
           t == [s EXCEPT !.pending = r.pending, !.handled = later]
<1>0. /\ s \in KeyState /\ s.pending \in Seq(Trade) /\ s.handled \in Seq(Trade)
      /\ LatestSample(s) /\ ContextInv(k, s.context, s.win)
  BY DEF KeyInv, KeyState
<1>1. later \in Seq(Trade)
  BY <1>0, AppendProperties
<1>2. /\ r.pending \in Seq(Trade) /\ Len(later) - Len(r.pending) >= 0
      /\ \A i \in DOMAIN r.pending :
           r.pending[i] = later[Len(later) - Len(r.pending) + i]
      /\ \A i, j \in DOMAIN r.pending : SameSample(r.pending[i], r.pending[j])
      /\ r.out # << >> => r.out[1] \in Trade
  <2>1. Len(s.handled) >= Len(s.pending)
    <3>1. Len(s.handled) \in Nat /\ Len(s.pending) \in Nat
      BY <1>0, LenProperties
    <3> QED BY <1>0, <3>1 DEF LatestSample
  <2>2. /\ \A i \in DOMAIN s.pending :
             s.pending[i] = s.handled[Len(s.handled) - Len(s.pending) + i]
        /\ \A i, j \in DOMAIN s.pending : SameSample(s.pending[i], s.pending[j])
    BY <1>0 DEF LatestSample
  <2> QED BY <1>0, <2>1, <2>2, AddEffect
<1>3. \/ o = Outcome(t, TRUE)
      \/ r.out # << >> /\ o \in Deliver(k, t, r.out[1], FALSE)
  BY DEF HandleOutcomes
<1> HIDE DEF r, later
<1>4. /\ t \in KeyState /\ t.context = s.context /\ t.win = s.win
      /\ t.pending = r.pending /\ t.handled = later
  BY <1>0, <1>1, <1>2 DEF KeyState
<1> HIDE DEF t
<1>5. LatestSample(t) /\ ContextInv(k, t.context, t.win)
  BY <1>0, <1>2, <1>4 DEF LatestSample
<1>6. CASE o = Outcome(t, TRUE)
  <2>1. o.state = t /\ o.ok = TRUE
    BY <1>6 DEF Outcome
  <2> QED BY <1>4, <1>5, <2>1 DEF KeyInv
<1>7. CASE r.out # << >> /\ o \in Deliver(k, t, r.out[1], FALSE)
  <2>1. Published(k, t, o)
    BY <1>2, <1>4, <1>5, <1>7, DeliverOutcome
  <2> QED BY <1>5, <2>1, PublishedKeepsInv
<1> QED BY <1>3, <1>6, <1>7

-----------------------------------------------------------------------------
IInv ==
  /\ \A k \in Keys : KeyInv(k, pipe[k])
  /\ pipe = [k \in Keys |-> pipe[k]]
  /\ flushing \in {"idle", "aggregated", "significant"}
  /\ failures \in Nat

LEMMA InitInv == Init => IInv
<1> SUFFICES ASSUME Init PROVE IInv
  OBVIOUS
<1> DEFINE none == << >>
<1>1. EmptyKey = [pending |-> none, context |-> none, win |-> NoWindow,
                  aggregated |-> none, significant |-> none, handled |-> none,
                  aggLost |-> {}, sigLost |-> {}, cuts |-> {}]
  BY DEF EmptyKey
<1>2. /\ none \in Seq(Trade) /\ none \in Seq(SignificantTrade)
      /\ Len(none) = 0 /\ DOMAIN none = {}
  OBVIOUS
<1> HIDE DEF none
<1>3. NoWindow \in Window
  BY DEF NoWindow, Window
<1>4. EmptyKey \in KeyState
  BY <1>1, <1>2, <1>3 DEF KeyState
<1>5. EmptyKey.pending = none /\ EmptyKey.handled = none
      /\ EmptyKey.context = none /\ EmptyKey.win = NoWindow
  BY <1>1
<1>6. LatestSample(EmptyKey)
  BY <1>2, <1>5 DEF LatestSample
<1>7. \A k \in Keys : KeyInv(k, EmptyKey)
  BY <1>3, <1>4, <1>5, <1>6, EmptyContext DEF KeyInv, none
<1> HIDE DEF EmptyKey
<1> QED BY <1>7 DEF Init, IInv

\* A call that settles on an outcome that is in order keeps the invariant.
LEMMA SettleInv ==
  ASSUME IInv, NEW k \in Keys, NEW o, KeyInv(k, o.state), o.ok \in BOOLEAN,
         Settle(k, o), flushing' \in {"idle", "aggregated", "significant"}
  PROVE  IInv'
<1>1. pipe' = [pipe EXCEPT ![k] = o.state]
  BY DEF Settle
<1>2. DOMAIN pipe = Keys /\ \A q \in Keys : KeyInv(q, pipe[q])
  BY DEF IInv
<1>3. failures' \in Nat
  BY DEF Settle, IInv
<1>4. /\ DOMAIN pipe' = Keys /\ pipe' = [q \in Keys |-> pipe'[q]]
      /\ \A q \in Keys : pipe'[q] = IF q = k THEN o.state ELSE pipe[q]
  BY <1>1, <1>2
<1>5. \A q \in Keys : KeyInv(q, pipe'[q])
  BY <1>2, <1>4
<1> QED BY <1>3, <1>4, <1>5 DEF IInv

LEMMA NextInv == IInv /\ [Next]_vars => IInv'
<1> SUFFICES ASSUME IInv, [Next]_vars PROVE IInv'
  OBVIOUS
<1>0. /\ \A k \in Keys : KeyInv(k, pipe[k])
      /\ flushing \in {"idle", "aggregated", "significant"}
      /\ failures \in Nat
  BY DEF IInv
<1>1. ASSUME pipe' = pipe, failures' \in Nat,
             flushing' \in {"idle", "aggregated", "significant"}
      PROVE  IInv'
  BY <1>1 DEF IInv
<1>2. CASE HandleRawRefused
  BY <1>0, <1>1, <1>2 DEF HandleRawRefused
<1>3. ASSUME NEW k \in Keys, NEW time \in 0 .. MaxTime, NEW rule \in Rules,
             NEW volume \in Volumes, Handle(k, time, rule, volume)
      PROVE  IInv'
  <2> DEFINE uid == Len(pipe[k].handled) + 1
             trade == [uid |-> uid, upto |-> uid, time |-> time,
                       rule |-> rule, volume |-> volume]
  <2>1. pipe[k].handled \in Seq(Trade)
    <3>1. pipe[k] \in KeyState
      BY <1>0 DEF KeyInv
    <3> QED BY <3>1 DEF KeyState
  <2>2. uid \in Nat
    BY <2>1, LenProperties
  <2>3. trade \in Trade
    BY <2>2, InputAssumption DEF Trade
  <2>4. PICK o \in HandleOutcomes(k, pipe[k], trade) : Settle(k, o)
    BY <1>3 DEF Handle
  <2>5. flushing' = flushing
    BY <1>3 DEF Handle
  <2> HIDE DEF trade
  <2>6. KeyInv(k, o.state) /\ o.ok \in BOOLEAN
    BY <1>0, <2>3, HandleOutcome
  <2> QED BY <1>0, <2>4, <2>5, <2>6, SettleInv
<1>4. ASSUME NEW k \in Keys, NEW time \in 0 .. MaxTime, FlushBefore(k, time)
      PROVE  IInv'
  <2>1. PICK o \in FlushBeforeOutcomes(k, pipe[k], MinuteFloor(time)) : Settle(k, o)
    BY <1>4 DEF FlushBefore
  <2>2. flushing' = flushing
    BY <1>4 DEF FlushBefore
  <2>3. KeyInv(k, o.state) /\ o.ok \in BOOLEAN
    BY <1>0, FlushBeforeOutcome
  <2> QED BY <1>0, <2>1, <2>2, <2>3, SettleInv
<1>5. CASE StartFlush \/ FlushAggregatedDone \/ FlushDone
  BY <1>0, <1>1, <1>5 DEF StartFlush, FlushAggregatedDone, FlushDone
<1>6. ASSUME NEW k \in Keys, FlushAggregated(k) PROVE IInv'
  <2>1. PICK o \in FlushAggregatedKey(k, pipe[k]) :
          Settle(k, o) /\ flushing' = IF o.ok THEN flushing ELSE "idle"
    BY <1>6 DEF FlushAggregated, FlushKey
  <2>2. KeyInv(k, o.state) /\ o.ok \in BOOLEAN
    BY <1>0, FlushAggregatedKeyOutcome
  <2> QED BY <1>0, <2>1, <2>2, SettleInv
<1>7. ASSUME NEW k \in Keys, FlushSignificant(k) PROVE IInv'
  <2>1. PICK o \in FlushSignificantKey(k, pipe[k]) :
          Settle(k, o) /\ flushing' = IF o.ok THEN flushing ELSE "idle"
    BY <1>7 DEF FlushSignificant, FlushKey
  <2>2. KeyInv(k, o.state) /\ o.ok \in BOOLEAN
    BY <1>0, FlushSignificantKeyOutcome
  <2> QED BY <1>0, <2>1, <2>2, SettleInv
<1>8. CASE UNCHANGED vars
  BY <1>0, <1>1, <1>8 DEF vars
<1> QED BY <1>2, <1>3, <1>4, <1>5, <1>6, <1>7, <1>8 DEF Next

LEMMA Invariance == Spec => []IInv
<1>1. Init => IInv
  BY InitInv
<1>2. IInv /\ [Next]_vars => IInv'
  BY NextInv
<1> QED BY <1>1, <1>2, PTL DEF Spec

-----------------------------------------------------------------------------
\* What is pending in the TradeAggregator is one sample of the latest trades,
\* so that aggregating it cannot fail with a sample mismatch.
THEOREM SampleCorrect == Spec => []PendingIsLatestSample
<1>1. IInv => PendingIsLatestSample
  BY DEF IInv, PendingIsLatestSample, KeyInv
<1> QED BY <1>1, Invariance, PTL

\* No significant trade waits, so that closing a tick cannot fail with more
\* than one significant trade.
THEOREM SignificantCorrect == Spec => []NothingSignificantWaits
<1>1. IInv => NothingSignificantWaits
  BY DEF IInv, NothingSignificantWaits, KeyInv, ContextInv
<1> QED BY <1>1, Invariance, PTL

\* What waits for its tick lies in the key's window, for any window of at
\* least a minute and any order in which trades arrive.
THEOREM WindowCorrect == Spec => []ContextInWindow
<1>1. ASSUME IInv PROVE ContextInWindow
  <2>1. \A k \in Keys : ContextInv(k, pipe[k].context, pipe[k].win)
    BY <1>1 DEF IInv, KeyInv
  <2>2. ASSUME WindowDuration # 0, NEW k \in Keys, NEW i \in DOMAIN pipe[k].context
        PROVE  InWindow(pipe[k].win, pipe[k].context[i])
    <3>1. ContextInv(k, pipe[k].context, pipe[k].win)
      BY <2>1
    <3>2. \A m \in DOMAIN pipe[k].context : InWindow(pipe[k].win, pipe[k].context[m])
      BY <2>2, <3>1, ContextWithin
    <3> QED BY <3>2
  <2> QED BY <2>2 DEF ContextInWindow
<1> QED BY <1>1, Invariance, PTL

-----------------------------------------------------------------------------
(***************************************************************************)
(* The accounts of the pipeline: what the aggregated stream says of the    *)
(* trades, and that every trade is in one place of each stream.            *)
(*                                                                         *)
(* A trade handled is at a position of its key's stream.  The invariant    *)
(* speaks of the positions 1 .. b that have left the TradeAggregator; the  *)
(* rest is pending.  An aggregate that leaves covers b + 1 .. c and moves  *)
(* the boundary from b to c, whether its publication succeeds or not.      *)
(***************************************************************************)

-----------------------------------------------------------------------------
(***************************************************************************)
(* What a delivery makes of the fields of a key's state.                   *)
(***************************************************************************)

\* The aggregated stream: published, refused, or not configured.
AggregatedStep(s, a, t) ==
  /\ t.pending = s.pending /\ t.handled = s.handled /\ t.cuts = s.cuts
  /\ \/ /\ AggregatedOn
        /\ t.aggregated = Append(s.aggregated, a) /\ t.aggLost = s.aggLost
     \/ /\ AggregatedOn
        /\ t.aggregated = s.aggregated /\ t.aggLost = s.aggLost \cup Parts(a)
     \/ /\ ~AggregatedOn
        /\ t.aggregated = s.aggregated /\ t.aggLost = s.aggLost

\* The first n of some ticks are published, the others are lost.
TicksStep(s, ticks, n, t) ==
  /\ t.significant = s.significant \o SubSeq(ticks, 1, n)
  /\ t.sigLost = s.sigLost \cup UNION {PartsOf(ticks[i].trades) : i \in n+1 .. Len(ticks)}

\* The significant stream: the aggregate is lost with its publication in the
\* other stream, or the stream is not configured, or the aggregate is added.
SignificantStep(k, s, a, t) ==
  \/ /\ t.context = s.context /\ t.win = s.win /\ t.significant = s.significant
     /\ \/ AggregatedOn /\ t.sigLost = s.sigLost \cup Parts(a)
        \/ ~SignificantOn /\ t.sigLost = s.sigLost
  \/ /\ SignificantOn
     /\ t.context = SignificantAdd(k, s.context, s.win, a).pending
     /\ t.win = SignificantAdd(k, s.context, s.win, a).win
     /\ \E n \in 0 .. Len(SignificantAdd(k, s.context, s.win, a).ticks) :
          TicksStep(s, SignificantAdd(k, s.context, s.win, a).ticks, n, t)

\* The part of the state that publishing ticks leaves alone.
Upstream(s) == <<s.pending, s.handled, s.cuts, s.aggregated, s.aggLost>>

LEMMA PublishTicksStep ==
  ASSUME NEW s \in KeyState, NEW ticks \in Seq(SignificantTrade), NEW batch \in BOOLEAN,
         NEW o \in PublishTicks(s, ticks, batch)
  PROVE  \E n \in 0 .. Len(ticks) :
           /\ TicksStep(s, ticks, n, o.state) /\ o.ok = (n = Len(ticks))
           /\ Upstream(o.state) = Upstream(s)
           /\ o.state.context = s.context /\ o.state.win = s.win
<1>1. PICK n \in 0 .. Len(ticks) : o = Outcome(PublishedTicks(s, ticks, n), n = Len(ticks))
  BY SeqFacts DEF PublishTicks
<1> DEFINE sent == s.significant \o SubSeq(ticks, 1, n)
           lost == s.sigLost \cup UNION {PartsOf(ticks[i].trades) : i \in n+1 .. Len(ticks)}
<1>2. /\ o.state = [s EXCEPT !.significant = sent, !.sigLost = lost]
      /\ o.ok = (n = Len(ticks))
  BY <1>1 DEF Outcome, PublishedTicks
<1>3. o.state.significant = sent /\ o.state.sigLost = lost
      /\ Upstream(o.state) = Upstream(s)
      /\ o.state.context = s.context /\ o.state.win = s.win
  <2> HIDE DEF sent, lost
  <2> QED BY <1>2 DEF KeyState, Upstream
<1> QED BY <1>2, <1>3 DEF TicksStep

LEMMA PublishAggregatedStep ==
  ASSUME NEW s \in KeyState, NEW a, NEW o \in PublishAggregated(s, a)
  PROVE  /\ AggregatedStep(s, a, o.state)
         /\ o.state.context = s.context /\ o.state.win = s.win
         /\ o.state.significant = s.significant
         /\ \/ o.ok = TRUE /\ o.state.sigLost = s.sigLost
            \/ o.ok = FALSE /\ AggregatedOn /\ o.state.sigLost = s.sigLost \cup Parts(a)
<1>1. CASE ~AggregatedOn
  BY <1>1 DEF PublishAggregated, Outcome, AggregatedStep
<1>2. CASE AggregatedOn
  <2> DEFINE longer == Append(s.aggregated, a)
             aggLost == s.aggLost \cup Parts(a)
             sigLost == s.sigLost \cup Parts(a)
             sent == [s EXCEPT !.aggregated = longer]
             lost == [s EXCEPT !.aggLost = aggLost, !.sigLost = sigLost]
  <2>1. \/ o.state = sent /\ o.ok = TRUE
        \/ o.state = lost /\ o.ok = FALSE
    <3>1. o \in {Outcome(sent, TRUE), Outcome(lost, FALSE)}
      BY <1>2 DEF PublishAggregated
    <3> HIDE DEF sent, lost
    <3>2. CASE o = Outcome(sent, TRUE)
      BY <3>2 DEF Outcome
    <3>3. CASE o = Outcome(lost, FALSE)
      BY <3>3 DEF Outcome
    <3> QED BY <3>1, <3>2, <3>3
  <2> HIDE DEF longer, aggLost, sigLost
  <2>2. /\ sent.aggregated = longer /\ sent.aggLost = s.aggLost /\ sent.sigLost = s.sigLost
        /\ lost.aggregated = s.aggregated /\ lost.aggLost = aggLost /\ lost.sigLost = sigLost
        /\ \A t \in {sent, lost} :
             /\ t.pending = s.pending /\ t.handled = s.handled /\ t.cuts = s.cuts
             /\ t.context = s.context /\ t.win = s.win /\ t.significant = s.significant
    BY DEF KeyState
  <2> HIDE DEF sent, lost
  <2>3. AggregatedStep(s, a, sent) /\ AggregatedStep(s, a, lost)
    BY <1>2, <2>2 DEF AggregatedStep, longer, aggLost
  <2> QED BY <1>2, <2>1, <2>2, <2>3 DEF sigLost
<1> QED BY <1>1, <1>2

LEMMA AddSignificantStep ==
  ASSUME NEW k \in Keys, NEW s \in KeyState, ContextInv(k, s.context, s.win),
         NEW a \in Trade, NEW batch \in BOOLEAN, NEW o \in AddSignificant(k, s, a, batch),
         SignificantOn
  PROVE  Upstream(o.state) = Upstream(s) /\ SignificantStep(k, s, a, o.state)
<1> DEFINE r == SignificantAdd(k, s.context, s.win, a)
           t == [s EXCEPT !.context = r.pending, !.win = r.win]
<1>1. ContextInv(k, r.pending, r.win) /\ r.ticks \in Seq(SignificantTrade)
  BY SignificantAddInv
<1>2. o \in PublishTicks(t, r.ticks, batch)
  BY DEF AddSignificant
<1>3. r = SignificantAdd(k, s.context, s.win, a)
  OBVIOUS
<1> HIDE DEF r
<1>4. /\ t \in KeyState /\ t.context = r.pending /\ t.win = r.win
      /\ Upstream(t) = Upstream(s) /\ t.significant = s.significant /\ t.sigLost = s.sigLost
  BY <1>1 DEF KeyState, ContextInv, Upstream
<1> HIDE DEF t
<1>5. PICK n \in 0 .. Len(r.ticks) :
        /\ TicksStep(t, r.ticks, n, o.state)
        /\ Upstream(o.state) = Upstream(t)
        /\ o.state.context = t.context /\ o.state.win = t.win
  BY <1>1, <1>2, <1>4, PublishTicksStep
<1>6. TicksStep(s, r.ticks, n, o.state)
  BY <1>4, <1>5 DEF TicksStep
<1> QED BY <1>3, <1>4, <1>5, <1>6 DEF SignificantStep

LEMMA DeliverStep ==
  ASSUME NEW k \in Keys, NEW s \in KeyState, ContextInv(k, s.context, s.win),
         NEW a \in Trade, NEW batch \in BOOLEAN, NEW o \in Deliver(k, s, a, batch)
  PROVE  AggregatedStep(s, a, o.state) /\ SignificantStep(k, s, a, o.state)
<1>1. PICK p \in PublishAggregated(s, a) :
        o \in IF p.ok
                THEN IF SignificantOn THEN AddSignificant(k, p.state, a, batch)
                     ELSE {Outcome(p.state, TRUE)}
                ELSE {p}
  BY DEF Deliver, OnSuccess
<1>2. /\ AggregatedStep(s, a, p.state)
      /\ p.state.context = s.context /\ p.state.win = s.win
      /\ p.state.significant = s.significant
      /\ \/ p.ok = TRUE /\ p.state.sigLost = s.sigLost
         \/ p.ok = FALSE /\ AggregatedOn /\ p.state.sigLost = s.sigLost \cup Parts(a)
  BY <1>1, PublishAggregatedStep
<1>3. Published(k, s, p)
  BY PublishAggregatedOutcome
<1>4. CASE p.ok /\ SignificantOn
  <2>1. Upstream(o.state) = Upstream(p.state) /\ SignificantStep(k, p.state, a, o.state)
    BY <1>1, <1>3, <1>4, AddSignificantStep DEF Published
  <2>2. AggregatedStep(s, a, o.state)
    BY <1>2, <2>1 DEF AggregatedStep, Upstream
  <2>3. SignificantStep(k, s, a, o.state)
    <3>1. /\ p.state.context = s.context /\ p.state.win = s.win
          /\ p.state.significant = s.significant /\ p.state.sigLost = s.sigLost
      BY <1>2, <1>4
    <3>2. \A ticks, n : TicksStep(p.state, ticks, n, o.state) <=> TicksStep(s, ticks, n, o.state)
      BY <3>1 DEF TicksStep
    <3> QED BY <2>1, <3>1, <3>2 DEF SignificantStep
  <2> QED BY <2>2, <2>3
<1>5. CASE p.ok /\ ~SignificantOn
  <2>1. o.state = p.state
    BY <1>1, <1>5 DEF Outcome
  <2> QED BY <1>2, <1>5, <2>1 DEF SignificantStep
<1>6. CASE ~p.ok
  BY <1>1, <1>2, <1>6 DEF SignificantStep
<1> QED BY <1>4, <1>5, <1>6

-----------------------------------------------------------------------------
(***************************************************************************)
(* The aggregated stream.                                                  *)
(***************************************************************************)

\* One handled sequence continues another.
Continues(h, longer) ==
  /\ h \in Seq(Trade) /\ longer \in Seq(Trade) /\ Len(h) <= Len(longer)
  /\ \A i \in 1 .. Len(h) : longer[i] = h[i]

\* The aggregate a stands for exactly the trades at b + 1 .. c.
Covers(h, a, b, c) ==
  /\ a.uid = b + 1 /\ a.upto = c
  /\ \A u \in b + 1 .. c : SameSample(h[u], a)
  /\ a.volume = TotalVolume(SubSeq(h, b + 1, c))

\* The account of the stream up to b: each aggregate is exact, they are in
\* order, and a position is in one of them or lost, never in both.
Exact(h, a, b) ==
  /\ 1 <= a.uid /\ a.uid <= a.upto /\ a.upto <= b
  /\ \A u \in Parts(a) : SameSample(h[u], a)
  /\ a.volume = TotalVolume(SubSeq(h, a.uid, a.upto))
InOrder(agg) == \A i, j \in DOMAIN agg : i < j => agg[i].upto < agg[j].uid
Maximal(cuts, agg) ==
  \A i \in 1 .. Len(agg) - 1 :
    agg[i].upto + 1 = agg[i+1].uid /\ SameSample(agg[i], agg[i+1]) => agg[i].upto \in cuts
PublishedOrLost(agg, lost, b) ==
  /\ lost \subseteq 1 .. b
  /\ AggregatedOn => \A u \in 1 .. b :
       u \in lost <=> ~ \E i \in DOMAIN agg : u \in Parts(agg[i])
Stream(h, cuts, agg, lost, b) ==
  /\ h \in Seq(Trade) /\ agg \in Seq(Trade) /\ b \in Nat /\ b <= Len(h)
  /\ \A i \in DOMAIN agg : Exact(h, agg[i], b)
  /\ InOrder(agg) /\ Maximal(cuts, agg) /\ PublishedOrLost(agg, lost, b)

\* What ends at b ends there for a reason: a flush, or another sample.
Closed(h, cuts, b) ==
  \/ b = 0 \/ b \in cuts
  \/ b + 1 \in 1 .. Len(h) /\ ~SameSample(h[b], h[b + 1])

LEMMA SubSeqContinues ==
  ASSUME NEW h, NEW longer, Continues(h, longer), NEW m \in Nat, NEW n \in Nat,
         1 <= m, m <= n, n <= Len(h)
  PROVE  SubSeq(longer, m, n) = SubSeq(h, m, n)
<1>1. Len(h) \in Nat /\ Len(longer) \in Nat
  BY LenProperties DEF Continues
<1>2. \A i \in m .. n : h[i] \in Trade /\ longer[i] = h[i]
  BY <1>1, ElementOfSeq DEF Continues
<1>3. /\ SubSeq(h, m, n) \in Seq(Trade) /\ Len(SubSeq(h, m, n)) = n - m + 1
      /\ \A i \in 1 .. n - m + 1 : SubSeq(h, m, n)[i] = h[m + i - 1]
  BY <1>2, SubSeqProperties
<1>4. /\ SubSeq(longer, m, n) \in Seq(Trade) /\ Len(SubSeq(longer, m, n)) = n - m + 1
      /\ \A i \in 1 .. n - m + 1 : SubSeq(longer, m, n)[i] = longer[m + i - 1]
  BY <1>2, SubSeqProperties
<1>5. \A i \in 1 .. n - m + 1 : SubSeq(longer, m, n)[i] = SubSeq(h, m, n)[i]
  <2>1. \A i \in 1 .. n - m + 1 : m + i - 1 \in m .. n
    OBVIOUS
  <2> QED BY <1>2, <1>3, <1>4, <2>1
<1> QED BY <1>3, <1>4, <1>5, SeqEqual

LEMMA WithinPrefix ==
  ASSUME NEW p \in Nat, NEW q \in Nat, NEW b \in Nat, 1 <= p, q <= b, NEW u \in p .. q
  PROVE  u \in 1 .. b
OBVIOUS

\* Trades that are handled later change nothing of the account.
LEMMA StreamContinues ==
  ASSUME NEW h, NEW longer, Continues(h, longer), NEW cuts, NEW more, cuts \subseteq more,
         NEW agg, NEW lost, NEW b, Stream(h, cuts, agg, lost, b)
  PROVE  Stream(longer, more, agg, lost, b)
<1>1. Len(h) \in Nat /\ Len(longer) \in Nat /\ b \in Nat /\ b <= Len(h)
  BY LenProperties DEF Continues, Stream
<1>0. \A m, n \in Nat : 1 <= m /\ m <= n /\ n <= Len(h) => SubSeq(longer, m, n) = SubSeq(h, m, n)
  BY SubSeqContinues
<1>2. ASSUME NEW i \in DOMAIN agg PROVE Exact(longer, agg[i], b)
  <2>1. agg[i] \in Trade /\ Exact(h, agg[i], b)
    BY SeqFacts DEF Stream
  <2>2. agg[i].uid \in Nat /\ agg[i].upto \in Nat
    BY <2>1 DEF Trade
  <2>3. ASSUME NEW u \in Parts(agg[i]) PROVE longer[u] = h[u]
    <3>1. 1 <= agg[i].uid /\ agg[i].upto <= b
      BY <2>1 DEF Exact
    <3>2. u \in agg[i].uid .. agg[i].upto
      BY DEF Parts
    <3>3. u \in 1 .. b /\ b <= Len(h)
      BY <1>1, <2>2, <3>1, <3>2, WithinPrefix
    <3>4. u \in 1 .. Len(h)
      BY <1>1, <3>3
    <3> QED BY <3>4 DEF Continues
  <2>4. SubSeq(longer, agg[i].uid, agg[i].upto) = SubSeq(h, agg[i].uid, agg[i].upto)
    <3>1. 1 <= agg[i].uid /\ agg[i].uid <= agg[i].upto /\ agg[i].upto <= b
      BY <2>1 DEF Exact
    <3>2. agg[i].upto <= Len(h)
      BY <1>1, <2>2, <3>1
    <3> QED BY <1>0, <2>2, <3>1, <3>2
  <2>5. \A u \in Parts(agg[i]) : SameSample(longer[u], agg[i])
    BY <2>1, <2>3 DEF Exact
  <2> QED BY <2>1, <2>4, <2>5 DEF Exact
<1>3. Maximal(more, agg)
  BY DEF Stream, Maximal
<1> QED BY <1>1, <1>2, <1>3 DEF Stream, Continues

LEMMA ClosedContinues ==
  ASSUME NEW h, NEW longer, Continues(h, longer), NEW cuts, NEW more, cuts \subseteq more,
         NEW b \in Nat, b <= Len(h), Closed(h, cuts, b)
  PROVE  Closed(longer, more, b)
<1>1. Len(h) \in Nat /\ Len(longer) \in Nat /\ Len(h) <= Len(longer)
  BY LenProperties DEF Continues
<1>2. CASE b = 0 \/ b \in cuts
  BY <1>2 DEF Closed
<1>3. CASE b # 0 /\ b + 1 \in 1 .. Len(h) /\ ~SameSample(h[b], h[b + 1])
  <2>1. b \in 1 .. Len(h) /\ b + 1 \in 1 .. Len(longer)
    BY <1>1, <1>3
  <2> QED BY <1>3, <2>1 DEF Closed, Continues
<1> QED BY <1>2, <1>3 DEF Closed

\* The delivery of the aggregate that covers b + 1 .. c, refused or not.
LEMMA StreamTakes ==
  ASSUME NEW s, NEW t, NEW a \in Trade, NEW b, NEW c \in Nat,
         Stream(s.handled, s.cuts, s.aggregated, s.aggLost, b),
         Closed(s.handled, s.cuts, b), b < c, c <= Len(s.handled),
         Covers(s.handled, a, b, c), AggregatedStep(s, a, t)
  PROVE  Stream(t.handled, t.cuts, t.aggregated, t.aggLost, c)
<1> DEFINE h == s.handled
           agg == s.aggregated
           new == t.aggregated
           n == Len(agg)
<1>1. /\ h \in Seq(Trade) /\ agg \in Seq(Trade) /\ b \in Nat /\ n \in Nat
      /\ DOMAIN agg = 1 .. n /\ Len(h) \in Nat
      /\ \A i \in 1 .. n : agg[i] \in Trade /\ Exact(h, agg[i], b)
  BY SeqFacts DEF Stream
<1>2. InOrder(agg) /\ Maximal(s.cuts, agg) /\ PublishedOrLost(agg, s.aggLost, b)
  BY DEF Stream
<1>3. /\ a.uid = b + 1 /\ a.upto = c /\ Parts(a) = b + 1 .. c
      /\ t.handled = h /\ t.cuts = s.cuts
  BY DEF Covers, Parts, AggregatedStep
<1>4. \A i \in 1 .. n : agg[i].uid \in Nat /\ agg[i].upto \in Nat /\ agg[i].upto <= b
  BY <1>1 DEF Trade, Exact
<1>5. \A i \in 1 .. n : Exact(h, agg[i], c)
  BY <1>1, <1>4 DEF Exact
<1>6. Exact(h, a, c)
  BY <1>1, <1>3 DEF Covers, Exact
<1>7. \A u \in 1 .. c : u \in 1 .. b \/ u \in Parts(a)
  BY <1>1, <1>3
<1>8. ASSUME NEW i \in 1 .. n, NEW u \in Parts(agg[i]) PROVE u \in 1 .. b
  <2>1. 1 <= agg[i].uid
    BY <1>1 DEF Exact
  <2>2. u \in agg[i].uid .. agg[i].upto /\ agg[i].uid \in Nat /\ agg[i].upto \in Nat
    BY <1>4 DEF Parts
  <2>3. agg[i].upto <= b
    BY <1>4
  <2> QED BY <1>1, <2>1, <2>2, <2>3, WithinPrefix
<1>9. CASE new = agg
  <2>1. PublishedOrLost(agg, t.aggLost, c)
    <3>1. CASE AggregatedOn /\ t.aggLost = s.aggLost \cup Parts(a)
      <4>1. t.aggLost \subseteq 1 .. c
        BY <1>1, <1>2, <1>3, <3>1 DEF PublishedOrLost
      <4>2. ASSUME NEW u \in 1 .. c
            PROVE  u \in t.aggLost <=> ~ \E i \in DOMAIN agg : u \in Parts(agg[i])
        <5>1. CASE u \in 1 .. b
          <6>1. u \notin Parts(a)
            BY <1>1, <1>3, <5>1
          <6> QED BY <1>2, <3>1, <5>1, <6>1 DEF PublishedOrLost
        <5>2. CASE u \in Parts(a)
          <6>1. u \notin 1 .. b
            BY <1>1, <1>3, <5>2
          <6> QED BY <1>1, <1>8, <3>1, <5>2, <6>1
        <5> QED BY <1>7, <5>1, <5>2
      <4> QED BY <4>1, <4>2 DEF PublishedOrLost
    <3>2. CASE ~AggregatedOn /\ t.aggLost = s.aggLost
      BY <1>1, <1>2, <3>2 DEF PublishedOrLost
    <3>3. \/ AggregatedOn /\ t.aggLost = s.aggLost \cup Parts(a)
          \/ ~AggregatedOn /\ t.aggLost = s.aggLost
      <4>1. Append(agg, a) # agg
        BY <1>1, AppendProperties
      <4> QED BY <1>9, <4>1 DEF AggregatedStep
    <3> QED BY <3>1, <3>2, <3>3
  <2> QED BY <1>1, <1>2, <1>3, <1>5, <1>9, <2>1 DEF Stream
<1>10. CASE new = Append(agg, a) /\ t.aggLost = s.aggLost
  <2>1. /\ new \in Seq(Trade) /\ Len(new) = n + 1 /\ DOMAIN new = 1 .. n + 1
        /\ \A i \in 1 .. n : new[i] = agg[i]
        /\ new[n + 1] = a
    BY <1>1, <1>10, AppendProperties, LenProperties
  <2> HIDE DEF new, agg, n
  <2>2. \A i \in DOMAIN new : Exact(h, new[i], c)
    BY <1>1, <1>5, <1>6, <2>1
  <2>3. InOrder(new)
    <3> SUFFICES ASSUME NEW i \in 1 .. n + 1, NEW j \in 1 .. n + 1, i < j
                 PROVE  new[i].upto < new[j].uid
      BY <2>1 DEF InOrder
    <3>1. i \in 1 .. n /\ new[i] = agg[i]
      BY <1>1, <2>1
    <3>2. CASE j \in 1 .. n
      BY <1>1, <1>2, <2>1, <3>1, <3>2 DEF InOrder
    <3>3. CASE j = n + 1
      BY <1>1, <1>3, <1>4, <2>1, <3>1, <3>3
    <3> QED BY <1>1, <3>2, <3>3
  <2>4. Maximal(s.cuts, new)
    <3> SUFFICES ASSUME NEW i \in 1 .. n, new[i].upto + 1 = new[i+1].uid,
                        SameSample(new[i], new[i+1])
                 PROVE  new[i].upto \in s.cuts
      BY <1>1, <2>1 DEF Maximal
    <3>1. new[i] = agg[i]
      BY <2>1
    <3>2. CASE i \in 1 .. n - 1
      <4>1. i + 1 \in 1 .. n
        BY <1>1, <3>2
      <4> QED BY <1>2, <2>1, <3>1, <3>2, <4>1 DEF Maximal, n
    <3>3. CASE i = n
      <4>1. agg[i].upto = b /\ SameSample(agg[i], a)
        BY <1>1, <1>3, <1>4, <2>1, <3>1, <3>3
      <4>2. SameSample(h[b], agg[i]) /\ b # 0
        <5>1. b \in Parts(agg[i]) /\ b # 0
          BY <1>1, <1>4, <4>1 DEF Exact, Parts
        <5> QED BY <1>1, <5>1 DEF Exact
      <4>3. SameSample(h[b + 1], a)
        BY <1>1 DEF Covers
      <4>4. SameSample(h[b], h[b + 1])
        BY <4>1, <4>2, <4>3 DEF SameSample
      <4> QED BY <3>1, <4>1, <4>2, <4>4 DEF Closed
    <3> QED BY <1>1, <3>2, <3>3
  <2>5. PublishedOrLost(new, t.aggLost, c)
    <3>1. t.aggLost \subseteq 1 .. c
      BY <1>1, <1>2, <1>10 DEF PublishedOrLost
    <3>2. ASSUME AggregatedOn, NEW u \in 1 .. c
          PROVE  u \in t.aggLost <=> ~ \E i \in DOMAIN new : u \in Parts(new[i])
      <4>1. (\E i \in DOMAIN new : u \in Parts(new[i])) <=>
               (\E i \in 1 .. n : u \in Parts(agg[i])) \/ u \in Parts(a)
        <5>1. n + 1 \in DOMAIN new /\ \A i \in 1 .. n : i \in DOMAIN new
          BY <1>1, <2>1
        <5>2. \A i \in DOMAIN new : i \in 1 .. n \/ i = n + 1
          BY <1>1, <2>1
        <5> QED BY <2>1, <5>1, <5>2
      <4>2. CASE u \in 1 .. b
        <5>1. u \notin Parts(a)
          BY <1>1, <1>3, <4>2
        <5> QED BY <1>1, <1>2, <1>10, <3>2, <4>1, <4>2, <5>1 DEF PublishedOrLost
      <4>3. CASE u \in Parts(a)
        <5>1. u \notin 1 .. b
          BY <1>1, <1>3, <4>3
        <5> QED BY <1>2, <1>10, <4>1, <4>3, <5>1 DEF PublishedOrLost
      <4> QED BY <1>7, <4>2, <4>3
    <3> QED BY <3>1, <3>2 DEF PublishedOrLost
  <2> QED BY <1>1, <1>3, <2>1, <2>2, <2>3, <2>4, <2>5 DEF Stream, new
<1> QED BY <1>9, <1>10 DEF AggregatedStep

LEMMA CoversContinues ==
  ASSUME NEW h, NEW longer, Continues(h, longer), NEW a, NEW b \in Nat, NEW c \in Nat,
         b < c, c <= Len(h), Covers(h, a, b, c)
  PROVE  Covers(longer, a, b, c)
<1>1. Len(h) \in Nat
  BY LenProperties DEF Continues
<1>2. \A u \in b + 1 .. c : longer[u] = h[u]
  BY <1>1 DEF Continues
<1>3. SubSeq(longer, b + 1, c) = SubSeq(h, b + 1, c)
  BY <1>1, SubSeqContinues
<1> QED BY <1>2, <1>3 DEF Covers

\* The boundary of a key: the last position that has left its TradeAggregator.
Before(s) == Len(s.handled) - Len(s.pending)

\* A trade handled carries its position.
Raw(h) == \A i \in DOMAIN h : h[i].uid = i /\ h[i].upto = i

AggregatedInv(s) ==
  /\ Raw(s.handled)
  /\ Stream(s.handled, s.cuts, s.aggregated, s.aggLost, Before(s))
  /\ Closed(s.handled, s.cuts, Before(s))

\* The pending trades are those after the boundary.
LEMMA PendingFacts ==
  ASSUME NEW s \in KeyState, LatestSample(s), Raw(s.handled)
  PROVE  /\ s.pending \in Seq(Trade) /\ s.handled \in Seq(Trade)
         /\ Len(s.pending) \in Nat /\ Len(s.handled) \in Nat /\ Before(s) \in Nat
         /\ Before(s) + Len(s.pending) = Len(s.handled)
         /\ DOMAIN s.pending = 1 .. Len(s.pending) /\ DOMAIN s.handled = 1 .. Len(s.handled)
         /\ \A i \in 1 .. Len(s.pending) :
              /\ s.pending[i] = s.handled[Before(s) + i]
              /\ s.pending[i].uid = Before(s) + i /\ s.pending[i].upto = Before(s) + i
         /\ s.pending # << >> => Len(s.pending) \in 1 .. Len(s.pending)
<1>1. /\ s.pending \in Seq(Trade) /\ s.handled \in Seq(Trade)
      /\ Len(s.pending) \in Nat /\ Len(s.handled) \in Nat
      /\ DOMAIN s.pending = 1 .. Len(s.pending) /\ DOMAIN s.handled = 1 .. Len(s.handled)
      /\ s.pending # << >> => Len(s.pending) \in 1 .. Len(s.pending)
  BY SeqFacts DEF KeyState
<1>2. Before(s) \in Nat /\ Before(s) + Len(s.pending) = Len(s.handled)
  BY <1>1 DEF LatestSample, Before
<1>3. \A i \in 1 .. Len(s.pending) :
        s.pending[i] = s.handled[Before(s) + i] /\ Before(s) + i \in 1 .. Len(s.handled)
  <2>1. \A i \in 1 .. Len(s.pending) : s.pending[i] = s.handled[Before(s) + i]
    BY <1>1 DEF LatestSample, Before
  <2>2. \A i \in 1 .. Len(s.pending) : Before(s) + i \in 1 .. Len(s.handled)
    BY <1>1, <1>2
  <2> QED BY <2>1, <2>2
<1> QED BY <1>1, <1>2, <1>3 DEF Raw

LEMMA PendingIsCovered ==
  ASSUME NEW s \in KeyState, LatestSample(s), Raw(s.handled), s.pending # << >>,
         NEW a, a = AggregateTrades(s.pending)
  PROVE  Covers(s.handled, a, Before(s), Len(s.handled)) /\ Before(s) < Len(s.handled)
<1> DEFINE b == Before(s)
           h == s.handled
           p == s.pending
<1>1. /\ p \in Seq(Trade) /\ h \in Seq(Trade) /\ Len(p) \in Nat /\ Len(h) \in Nat
      /\ b \in Nat /\ b + Len(p) = Len(h)
      /\ \A i \in 1 .. Len(p) : p[i] = h[b + i] /\ p[i].uid = b + i /\ p[i].upto = b + i
      /\ Len(p) \in 1 .. Len(p)
  BY PendingFacts
<1>2. \A i, j \in DOMAIN p : SameSample(p[i], p[j])
  BY DEF LatestSample
<1>3. DOMAIN p = 1 .. Len(p)
  BY <1>1, LenProperties
<1>4. /\ a.uid = p[1].uid /\ a.upto = p[Len(p)].upto
      /\ a.time = p[Len(p)].time /\ a.rule = p[Len(p)].rule /\ a.volume = TotalVolume(p)
  BY DEF AggregateTrades
<1> HIDE DEF b, h, p
<1>5. 1 \in 1 .. Len(p) /\ a.uid = b + 1 /\ a.upto = Len(h) /\ b < Len(h)
  BY <1>1, <1>4
<1>6. ASSUME NEW u \in b + 1 .. Len(h) PROVE SameSample(h[u], a)
  <2>1. u - b \in 1 .. Len(p) /\ b + (u - b) = u
    BY <1>1
  <2>2. h[u] = p[u - b]
    BY <1>1, <2>1
  <2>3. SameSample(p[u - b], p[Len(p)])
    BY <1>1, <1>2, <1>3, <2>1
  <2> QED BY <1>4, <2>2, <2>3 DEF SameSample
<1>7. SubSeq(h, b + 1, Len(h)) = p
  <2>1. \A i \in b + 1 .. Len(h) : h[i] \in Trade
    BY <1>1, ElementOfSeq
  <2>2. /\ SubSeq(h, b + 1, Len(h)) \in Seq(Trade)
        /\ Len(SubSeq(h, b + 1, Len(h))) = Len(h) - (b + 1) + 1
        /\ \A i \in 1 .. Len(h) - (b + 1) + 1 :
             SubSeq(h, b + 1, Len(h))[i] = h[(b + 1) + i - 1]
    BY <1>1, <1>5, <2>1, SubSeqProperties
  <2>3. Len(h) - (b + 1) + 1 = Len(p) /\ \A i \in 1 .. Len(p) : (b + 1) + i - 1 = b + i
    BY <1>1
  <2> QED BY <1>1, <2>2, <2>3, SeqEqual
<1> QED BY <1>4, <1>5, <1>6, <1>7 DEF Covers, b, h, p

\* A flush leaves a key's TradeAggregator empty, and delivers the aggregate
\* of what it held.
Emptied(s, t) ==
  /\ t \in KeyState /\ t.pending = << >> /\ t.handled = s.handled
  /\ t.context = s.context /\ t.win = s.win
  /\ t.cuts = s.cuts \cup {Len(s.handled)}
  /\ t.aggregated = s.aggregated /\ t.aggLost = s.aggLost
  /\ t.significant = s.significant /\ t.sigLost = s.sigLost

LEMMA FlushAggregatedKeyStep ==
  ASSUME NEW k \in Keys, NEW s, KeyInv(k, s), Raw(s.handled), s.pending # << >>,
         NEW o \in FlushAggregatedKey(k, s), NEW a, a = AggregateTrades(s.pending)
  PROVE  /\ a \in Trade /\ Covers(s.handled, a, Before(s), Len(s.handled))
         /\ \E t : /\ Emptied(s, t)
                   /\ AggregatedStep(t, a, o.state) /\ SignificantStep(k, t, a, o.state)
         /\ o.state.handled = s.handled /\ o.state.pending = << >>
         /\ Before(o.state) = Len(s.handled)
<1> DEFINE cuts == s.cuts \cup {s.pending[Len(s.pending)].upto}
           none == << >>
           t == [s EXCEPT !.pending = none, !.cuts = cuts]
           c == Len(s.handled)
<1>0. s \in KeyState /\ LatestSample(s) /\ ContextInv(k, s.context, s.win)
  BY DEF KeyInv
<1>1. o \in Deliver(k, t, a, Batch)
  BY DEF FlushAggregatedKey
<1>2. /\ s.pending \in Seq(Trade) /\ c \in Nat
      /\ s.pending[Len(s.pending)].upto = c
  BY <1>0, PendingFacts
<1>3. a \in Trade /\ Covers(s.handled, a, Before(s), c)
  BY <1>0, <1>2, AggregateTradesType, PendingIsCovered
<1>4. cuts \in SUBSET Nat /\ cuts = s.cuts \cup {c}
  BY <1>0, <1>2 DEF KeyState
<1>5. none \in Seq(Trade) /\ Len(none) = 0
  OBVIOUS
<1> HIDE DEF cuts, none, c
<1>6. /\ t \in KeyState /\ t.context = s.context /\ t.win = s.win
      /\ t.pending = none /\ t.handled = s.handled /\ t.cuts = cuts
      /\ t.aggregated = s.aggregated /\ t.aggLost = s.aggLost
      /\ t.significant = s.significant /\ t.sigLost = s.sigLost
  BY <1>0, <1>4, <1>5 DEF KeyState
<1> HIDE DEF t
<1>7. Emptied(s, t)
  BY <1>4, <1>6 DEF Emptied, none, c
<1>8. AggregatedStep(t, a, o.state) /\ SignificantStep(k, t, a, o.state)
  BY <1>0, <1>1, <1>3, <1>6, StreamsAssumption, DeliverStep
<1>9. o.state.handled = s.handled /\ o.state.pending = none
  BY <1>6, <1>8 DEF AggregatedStep
<1>10. Before(o.state) = c - 0
  BY <1>5, <1>9 DEF Before, c
<1> QED BY <1>2, <1>3, <1>7, <1>8, <1>9, <1>10 DEF none, c

LEMMA FlushAggregatedKeyLedger ==
  ASSUME NEW k \in Keys, NEW s, KeyInv(k, s), AggregatedInv(s),
         NEW o \in FlushAggregatedKey(k, s)
  PROVE  AggregatedInv(o.state)
<1> DEFINE a == AggregateTrades(s.pending)
           c == Len(s.handled)
<1>0. s \in KeyState /\ LatestSample(s) /\ Raw(s.handled)
  BY DEF KeyInv, AggregatedInv
<1>1. CASE s.pending = << >>
  <2>1. o.state = s
    BY <1>1 DEF FlushAggregatedKey, Outcome
  <2> QED BY <2>1
<1>2. CASE s.pending # << >>
  <2>1. /\ s.handled \in Seq(Trade) /\ c \in Nat /\ Before(s) \in Nat /\ Before(s) < c
    BY <1>0, <1>2, PendingFacts, PendingIsCovered
  <2>2. PICK t : Emptied(s, t) /\ AggregatedStep(t, a, o.state)
    BY <1>0, <1>2, FlushAggregatedKeyStep
  <2>3. /\ a \in Trade /\ Covers(s.handled, a, Before(s), c)
        /\ o.state.handled = s.handled /\ Before(o.state) = c
    BY <1>0, <1>2, FlushAggregatedKeyStep
  <2> HIDE DEF a
  <2>4. /\ t.handled = s.handled /\ t.cuts = s.cuts \cup {c}
        /\ t.aggregated = s.aggregated /\ t.aggLost = s.aggLost
    BY <2>2 DEF Emptied
  <2>5. /\ Stream(t.handled, t.cuts, t.aggregated, t.aggLost, Before(s))
        /\ Closed(t.handled, t.cuts, Before(s))
    <3>1. Continues(s.handled, s.handled) /\ s.cuts \subseteq t.cuts /\ Before(s) <= Len(s.handled)
      BY <2>1, <2>4 DEF Continues
    <3> QED BY <2>1, <2>4, <3>1, StreamContinues, ClosedContinues DEF AggregatedInv
  <2>6. Stream(o.state.handled, o.state.cuts, o.state.aggregated, o.state.aggLost, c)
    <3>1. c <= Len(t.handled) /\ Covers(t.handled, a, Before(s), c)
      BY <2>1, <2>3, <2>4
    <3> QED BY <2>1, <2>2, <2>3, <2>5, <3>1, StreamTakes
  <2>7. c \in o.state.cuts
    BY <2>2, <2>4 DEF AggregatedStep
  <2> QED BY <1>0, <2>3, <2>6, <2>7 DEF AggregatedInv, Closed
<1> QED BY <1>1, <1>2

\* Nothing of the significant stream matters here.
LEMMA UpstreamLedger ==
  ASSUME NEW s, NEW t, AggregatedInv(s), Upstream(t) = Upstream(s)
  PROVE  AggregatedInv(t)
<1>1. /\ t.pending = s.pending /\ t.handled = s.handled /\ t.cuts = s.cuts
      /\ t.aggregated = s.aggregated /\ t.aggLost = s.aggLost
  BY DEF Upstream
<1> QED BY <1>1 DEF AggregatedInv, Before

LEMMA FlushSignificantKeyStep ==
  ASSUME NEW k \in Keys, NEW s, KeyInv(k, s), NEW o \in FlushSignificantKey(k, s)
  PROVE  /\ Upstream(o.state) = Upstream(s)
         /\ o.state.context = << >> /\ o.state.win = s.win
         /\ \E n \in 0 .. Len(GetTick(k, s.context)) :
              TicksStep(s, GetTick(k, s.context), n, o.state)
<1> DEFINE none == << >>
           t == [s EXCEPT !.context = none]
           ticks == GetTick(k, s.context)
<1>1. o \in PublishTicks(t, ticks, Batch)
  BY DEF FlushSignificantKey
<1>2. s \in KeyState /\ ticks \in Seq(SignificantTrade) /\ none \in Seq(Trade)
  BY GetTickType DEF KeyInv, KeyState
<1> HIDE DEF none, ticks
<1>3. /\ t \in KeyState /\ Upstream(t) = Upstream(s)
      /\ t.context = none /\ t.win = s.win
      /\ t.significant = s.significant /\ t.sigLost = s.sigLost
  BY <1>2 DEF KeyState, Upstream
<1> HIDE DEF t
<1>4. PICK n \in 0 .. Len(ticks) :
        /\ TicksStep(t, ticks, n, o.state)
        /\ Upstream(o.state) = Upstream(t)
        /\ o.state.context = t.context /\ o.state.win = t.win
  BY <1>1, <1>2, <1>3, StreamsAssumption, PublishTicksStep
<1>5. TicksStep(s, ticks, n, o.state)
  BY <1>3, <1>4 DEF TicksStep
<1> QED BY <1>3, <1>4, <1>5 DEF none, ticks

\* The fields of a key's state when its TradeAggregator has taken the next
\* trade, and before anything is delivered.
Taken(s, trade, t) ==
  /\ t \in KeyState /\ t.handled = Append(s.handled, trade)
  /\ t.context = s.context /\ t.win = s.win /\ t.cuts = s.cuts
  /\ t.aggregated = s.aggregated /\ t.aggLost = s.aggLost
  /\ t.significant = s.significant /\ t.sigLost = s.sigLost

LEMMA HandleStep ==
  ASSUME NEW k \in Keys, NEW s, KeyInv(k, s), NEW trade \in Trade,
         NEW o \in HandleOutcomes(k, s, trade)
  PROVE  \E t : /\ Taken(s, trade, t)
                /\ \/ o.state = t /\ Before(t) = Before(s)
                   \/ /\ s.pending # << >> /\ t.pending = <<trade>>
                      /\ ~SameSample(s.pending[Len(s.pending)], trade)
                      /\ o \in Deliver(k, t, AggregateTrades(s.pending), FALSE)
<1> DEFINE r == Add(s.pending, trade)
           later == Append(s.handled, trade)
           t == [s EXCEPT !.pending = r.pending, !.handled = later]
           one == <<trade>>
           longer == Append(s.pending, trade)
<1>1. s \in KeyState /\ s.pending \in Seq(Trade) /\ s.handled \in Seq(Trade)
  BY DEF KeyInv, KeyState
<1>2. /\ later \in Seq(Trade) /\ Len(later) = Len(s.handled) + 1
      /\ longer \in Seq(Trade) /\ Len(longer) = Len(s.pending) + 1
      /\ one \in Seq(Trade) /\ Len(one) = 1
      /\ Len(s.handled) \in Nat /\ Len(s.pending) \in Nat
  BY <1>1, AppendProperties, LenProperties
<1>3. \/ r.out = << >> /\ o = Outcome(t, TRUE)
      \/ r.out # << >> /\ o \in Deliver(k, t, r.out[1], FALSE)
  BY DEF HandleOutcomes
<1>4. \/ s.pending = << >> /\ r.pending = one /\ r.out = << >>
      \/ r.pending = longer /\ r.out = << >>
      \/ /\ s.pending # << >> /\ ~SameSample(s.pending[Len(s.pending)], trade)
         /\ r.pending = one /\ r.out # << >> /\ r.out[1] = AggregateTrades(s.pending)
  BY DEF Add
<1> HIDE DEF r, later, one, longer
<1>5. r.pending \in Seq(Trade)
  BY <1>2, <1>4
<1>6. Taken(s, trade, t) /\ t.pending = r.pending
  <2>1. /\ t \in KeyState /\ t.pending = r.pending /\ t.handled = later
        /\ t.context = s.context /\ t.win = s.win /\ t.cuts = s.cuts
        /\ t.aggregated = s.aggregated /\ t.aggLost = s.aggLost
        /\ t.significant = s.significant /\ t.sigLost = s.sigLost
    BY <1>1, <1>2, <1>5 DEF KeyState
  <2> HIDE DEF t
  <2> QED BY <2>1 DEF Taken, later
<1>7. CASE r.out = << >>
  <2>1. o.state = t
    BY <1>3, <1>7 DEF Outcome
  <2>2. Before(t) = Before(s)
    <3>1. t.handled = later
      BY <1>6 DEF Taken, later
    <3>2. Len(r.pending) = Len(s.pending) + 1
      BY <1>2, <1>4, <1>7, EmptySeq
    <3> HIDE DEF t
    <3> QED BY <1>2, <1>6, <3>1, <3>2 DEF Before
  <2> HIDE DEF t
  <2> QED BY <1>6, <2>1, <2>2
<1>8. CASE r.out # << >>
  <2>1. /\ s.pending # << >> /\ ~SameSample(s.pending[Len(s.pending)], trade)
        /\ t.pending = one /\ o \in Deliver(k, t, AggregateTrades(s.pending), FALSE)
    <3> HIDE DEF t
    <3> QED BY <1>3, <1>4, <1>6, <1>8
  <2> HIDE DEF t
  <2> QED BY <1>6, <2>1 DEF one
<1> QED BY <1>7, <1>8

LEMMA AppendContinues ==
  ASSUME NEW h \in Seq(Trade), NEW trade \in Trade
  PROVE  /\ Continues(h, Append(h, trade)) /\ Len(Append(h, trade)) = Len(h) + 1
         /\ Append(h, trade)[Len(h) + 1] = trade /\ Len(h) \in Nat
         /\ \A i \in 1 .. Len(h) : Append(h, trade)[i] = h[i]
BY AppendProperties, LenProperties DEF Continues

LEMMA HandleLedger ==
  ASSUME NEW k \in Keys, NEW s, KeyInv(k, s), AggregatedInv(s), NEW trade \in Trade,
         trade.uid = Len(s.handled) + 1, trade.upto = Len(s.handled) + 1,
         NEW o \in HandleOutcomes(k, s, trade)
  PROVE  AggregatedInv(o.state)
<1> DEFINE n == Len(s.handled)
           later == Append(s.handled, trade)
           a == AggregateTrades(s.pending)
           b == Before(s)
<1>0. s \in KeyState /\ LatestSample(s) /\ Raw(s.handled) /\ ContextInv(k, s.context, s.win)
  BY DEF KeyInv, AggregatedInv
<1>1. /\ s.handled \in Seq(Trade) /\ s.pending \in Seq(Trade) /\ n \in Nat /\ b \in Nat
      /\ b <= n
  BY <1>0, PendingFacts
<1>2. /\ Continues(s.handled, later) /\ later \in Seq(Trade) /\ Len(later) = n + 1
      /\ later[n + 1] = trade /\ \A i \in 1 .. n : later[i] = s.handled[i]
  BY <1>1, AppendContinues DEF Continues
<1>3. PICK t : /\ Taken(s, trade, t)
               /\ \/ o.state = t /\ Before(t) = b
                  \/ /\ s.pending # << >> /\ t.pending = <<trade>>
                     /\ ~SameSample(s.pending[Len(s.pending)], trade)
                     /\ o \in Deliver(k, t, a, FALSE)
  BY HandleStep
<1>4. /\ t \in KeyState /\ t.handled = later /\ t.cuts = s.cuts
      /\ t.aggregated = s.aggregated /\ t.aggLost = s.aggLost
      /\ t.context = s.context /\ t.win = s.win
  BY <1>3 DEF Taken
<1> HIDE DEF later
<1>5. Raw(later)
  <2>1. DOMAIN later = 1 .. n + 1 /\ DOMAIN s.handled = 1 .. n
    BY <1>1, <1>2, LenProperties
  <2>2. ASSUME NEW i \in 1 .. n + 1 PROVE later[i].uid = i /\ later[i].upto = i
    <3>1. CASE i \in 1 .. n
      BY <1>0, <1>2, <2>1, <3>1 DEF Raw
    <3>2. CASE i = n + 1
      BY <1>2, <3>2
    <3> QED BY <1>1, <3>1, <3>2
  <2> QED BY <2>1, <2>2 DEF Raw
<1>6. Stream(later, s.cuts, s.aggregated, s.aggLost, b) /\ Closed(later, s.cuts, b)
  BY <1>1, <1>2, StreamContinues, ClosedContinues DEF AggregatedInv
<1>7. CASE o.state = t /\ Before(t) = b
  BY <1>4, <1>5, <1>6, <1>7 DEF AggregatedInv
<1>8. CASE /\ s.pending # << >> /\ t.pending = <<trade>>
           /\ ~SameSample(s.pending[Len(s.pending)], trade)
           /\ o \in Deliver(k, t, a, FALSE)
  <2>1. a \in Trade
    BY <1>1, <1>8, AggregateTradesType
  <2>2. Covers(s.handled, a, b, n) /\ b < n
    BY <1>0, <1>8, PendingIsCovered
  <2> HIDE DEF a, b, n
  <2>3. Covers(later, a, b, n)
    BY <1>1, <1>2, <2>2, CoversContinues DEF n
  <2>4. AggregatedStep(t, a, o.state)
    BY <1>0, <1>4, <1>8, <2>1, DeliverStep
  <2>5. Stream(o.state.handled, o.state.cuts, o.state.aggregated, o.state.aggLost, n)
    <3>1. /\ Stream(t.handled, t.cuts, t.aggregated, t.aggLost, b)
          /\ Closed(t.handled, t.cuts, b) /\ n <= Len(t.handled) /\ Covers(t.handled, a, b, n)
      BY <1>1, <1>2, <1>4, <1>6, <2>3
    <3> QED BY <1>1, <2>1, <2>2, <2>4, <3>1, StreamTakes
  <2>6. /\ o.state.handled = later /\ o.state.cuts = s.cuts /\ o.state.pending = <<trade>>
    BY <1>4, <1>8, <2>4 DEF AggregatedStep
  <2>7. Before(o.state) = n
    <3>1. Before(o.state) = (n + 1) - 1
      BY <1>2, <2>6 DEF Before
    <3> QED BY <1>1, <3>1
  <2>8. Closed(later, s.cuts, n)
    <3>1. s.pending[Len(s.pending)] = s.handled[n] /\ n \in 1 .. n
      <4>1. /\ Len(s.pending) \in 1 .. Len(s.pending) /\ Before(s) + Len(s.pending) = n
            /\ s.pending[Len(s.pending)] = s.handled[Before(s) + Len(s.pending)]
        BY <1>0, <1>8, PendingFacts DEF n
      <4> QED BY <1>1, <2>2, <4>1
    <3>2. n + 1 \in 1 .. Len(later)
      BY <1>1, <1>2
    <3> QED BY <1>2, <1>8, <3>1, <3>2 DEF Closed
  <2> QED BY <1>5, <2>5, <2>6, <2>7, <2>8 DEF AggregatedInv
<1> QED BY <1>3, <1>7, <1>8

-----------------------------------------------------------------------------
(***************************************************************************)
(* The significant stream.                                                 *)
(***************************************************************************)

\* The account of the stream up to b: every position is in one tick, waits in
\* the context, or is lost, and in one of them only.
Ticked(ticks, i) == PartsOf(ticks[i].trades)
Apart(ticks) == \A i, j \in DOMAIN ticks : i # j => Ticked(ticks, i) \cap Ticked(ticks, j) = {}
Places(ticks, context, lost, b) ==
  /\ ticks \in Seq(SignificantTrade) /\ b \in Nat
  /\ lost \subseteq 1 .. b /\ PartsOf(context) \subseteq 1 .. b
  /\ \A i \in DOMAIN ticks :
       /\ Ticked(ticks, i) \subseteq 1 .. b
       /\ Ticked(ticks, i) \cap PartsOf(context) = {} /\ Ticked(ticks, i) \cap lost = {}
  /\ Apart(ticks) /\ PartsOf(context) \cap lost = {}
  /\ \A u \in 1 .. b : \/ u \in lost \/ u \in PartsOf(context)
                       \/ \E i \in DOMAIN ticks : u \in Ticked(ticks, i)

\* Ticks and what waits after them, of the positions S.
Split(ticks, context, S) ==
  /\ ticks \in Seq(SignificantTrade) /\ Apart(ticks)
  /\ \A i \in DOMAIN ticks : Ticked(ticks, i) \cap PartsOf(context) = {}
  /\ PartsOf(context) \cup UNION {Ticked(ticks, i) : i \in DOMAIN ticks} = S

LEMMA PartsFacts ==
  /\ PartsOf(<< >>) = {}
  /\ \A a : PartsOf(<<a>>) = Parts(a)
  /\ \A context \in Seq(Trade), a \in Trade :
       PartsOf(Append(context, a)) = PartsOf(context) \cup Parts(a)
<1>1. PartsOf(<< >>) = {} /\ \A a : PartsOf(<<a>>) = Parts(a)
  BY DEF PartsOf
<1>2. ASSUME NEW context \in Seq(Trade), NEW a \in Trade
      PROVE  PartsOf(Append(context, a)) = PartsOf(context) \cup Parts(a)
  <2> DEFINE longer == Append(context, a)
             n == Len(context) + 1
  <2>1. /\ DOMAIN longer = DOMAIN context \cup {n} /\ longer[n] = a
        /\ \A i \in DOMAIN context : longer[i] = context[i]
    BY AppendFacts
  <2> HIDE DEF longer, n
  <2> QED BY <2>1 DEF PartsOf, longer
<1> QED BY <1>1, <1>2

\* The first n ticks are published and the others lost: everything has its
\* place again, up to c.
LEMMA TicksSettle ==
  ASSUME NEW s, NEW t, NEW context, NEW ticks, NEW b, NEW c \in Nat, b <= c,
         Places(s.significant, s.context, s.sigLost, b),
         Split(ticks, context, PartsOf(s.context) \cup (b + 1 .. c)),
         NEW n \in 0 .. Len(ticks), TicksStep(s, ticks, n, t)
  PROVE  Places(t.significant, context, t.sigLost, c)
<1> DEFINE old == s.significant
           sent == SubSeq(ticks, 1, n)
           new == t.significant
           m == Len(old)
           rest == n + 1 .. Len(ticks)
<1>1. /\ old \in Seq(SignificantTrade) /\ m \in Nat /\ DOMAIN old = 1 .. m
      /\ ticks \in Seq(SignificantTrade) /\ Len(ticks) \in Nat /\ DOMAIN ticks = 1 .. Len(ticks)
      /\ b \in Nat
  BY LenProperties DEF Places, Split
<1>2. /\ sent \in Seq(SignificantTrade) /\ Len(sent) = n
      /\ \A i \in 1 .. n : sent[i] = ticks[i]
  <2>1. \A i \in 1 .. n : ticks[i] \in SignificantTrade
    BY <1>1, ElementOfSeq
  <2>2. /\ sent \in Seq(SignificantTrade) /\ Len(sent) = IF 1 <= n THEN n - 1 + 1 ELSE 0
        /\ \A i \in 1 .. n - 1 + 1 : sent[i] = ticks[1 + i - 1]
    BY <2>1, SubSeqProperties
  <2>3. \A i \in 1 .. n : 1 + i - 1 = i
    OBVIOUS
  <2> QED BY <2>2, <2>3
<1>3. /\ new \in Seq(SignificantTrade) /\ DOMAIN new = 1 .. m + n
      /\ \A i \in 1 .. m : new[i] = old[i]
      /\ \A i \in m + 1 .. m + n : new[i] = ticks[i - m]
  <2>1. new = old \o sent /\ m = Len(old)
    BY DEF TicksStep
  <2> HIDE DEF new, old, sent, m
  <2>2. /\ new \in Seq(SignificantTrade) /\ Len(new) = m + n
        /\ \A i \in 1 .. m + n : new[i] = IF i <= m THEN old[i] ELSE sent[i - m]
    <3>1. /\ old \o sent \in Seq(SignificantTrade) /\ Len(old \o sent) = Len(old) + Len(sent)
          /\ \A i \in 1 .. Len(old) + Len(sent) :
               (old \o sent)[i] = IF i <= Len(old) THEN old[i] ELSE sent[i - Len(old)]
      BY <1>1, <1>2, ConcatProperties
    <3> QED BY <1>2, <2>1, <3>1
  <2>3. \A i \in m + 1 .. m + n : i - m \in 1 .. n /\ ~(i <= m) /\ i \in 1 .. m + n
    BY <1>1
  <2>4. \A i \in 1 .. m : i <= m /\ i \in 1 .. m + n
    BY <1>1
  <2> QED BY <1>2, <2>2, <2>3, <2>4, LenProperties
<1>4. t.sigLost = s.sigLost \cup UNION {Ticked(ticks, i) : i \in rest}
  BY DEF TicksStep, Ticked
<1>5. /\ s.sigLost \subseteq 1 .. b /\ PartsOf(s.context) \subseteq 1 .. b
      /\ PartsOf(s.context) \cap s.sigLost = {}
      /\ \A i \in 1 .. m :
           /\ Ticked(old, i) \subseteq 1 .. b
           /\ Ticked(old, i) \cap PartsOf(s.context) = {} /\ Ticked(old, i) \cap s.sigLost = {}
      /\ Apart(old)
      /\ \A u \in 1 .. b : \/ u \in s.sigLost \/ u \in PartsOf(s.context)
                           \/ \E i \in 1 .. m : u \in Ticked(old, i)
  BY <1>1 DEF Places
<1>6. /\ Apart(ticks)
      /\ \A i \in 1 .. Len(ticks) :
           /\ Ticked(ticks, i) \cap PartsOf(context) = {}
           /\ Ticked(ticks, i) \subseteq PartsOf(s.context) \cup (b + 1 .. c)
      /\ PartsOf(context) \subseteq PartsOf(s.context) \cup (b + 1 .. c)
      /\ \A u \in PartsOf(s.context) \cup (b + 1 .. c) :
           u \in PartsOf(context) \/ \E i \in 1 .. Len(ticks) : u \in Ticked(ticks, i)
  BY <1>1 DEF Split
<1> HIDE DEF old, new, m, sent
<1>7. /\ rest \subseteq 1 .. Len(ticks) /\ 1 .. n \subseteq 1 .. Len(ticks)
      /\ \A i \in 1 .. Len(ticks) : i \in 1 .. n \/ i \in rest
      /\ \A i \in 1 .. n : i \notin rest
  BY <1>1
<1>8. (b + 1 .. c) \cap (1 .. b) = {} /\ 1 .. b \subseteq 1 .. c /\ b + 1 .. c \subseteq 1 .. c
      /\ \A u \in 1 .. c : u \in 1 .. b \/ u \in b + 1 .. c
  BY <1>1
<1> HIDE DEF rest
<1>9. \A i \in 1 .. m : Ticked(new, i) = Ticked(old, i)
  BY <1>3 DEF Ticked
<1>10. \A i \in m + 1 .. m + n : Ticked(new, i) = Ticked(ticks, i - m) /\ i - m \in 1 .. n
  <2>1. \A i \in m + 1 .. m + n : i - m \in 1 .. n
    BY <1>1
  <2> QED BY <1>3, <2>1 DEF Ticked
<1>11. \A i \in DOMAIN new : i \in 1 .. m \/ i \in m + 1 .. m + n
  BY <1>1, <1>3
<1>12. \A i \in 1 .. n : m + i \in DOMAIN new /\ Ticked(new, m + i) = Ticked(ticks, i)
  <2>1. \A i \in 1 .. n : m + i \in m + 1 .. m + n /\ (m + i) - m = i /\ m + i \in 1 .. m + n
    BY <1>1
  <2> QED BY <1>3, <1>10, <2>1
<1>13. \A i \in 1 .. m : i \in DOMAIN new
  BY <1>1, <1>3
<1>14. ASSUME NEW i \in DOMAIN new
       PROVE  /\ Ticked(new, i) \subseteq 1 .. c
              /\ Ticked(new, i) \cap PartsOf(context) = {} /\ Ticked(new, i) \cap t.sigLost = {}
  <2>1. CASE i \in 1 .. m
    <3>1. /\ Ticked(new, i) \subseteq 1 .. b
          /\ Ticked(new, i) \cap PartsOf(s.context) = {} /\ Ticked(new, i) \cap s.sigLost = {}
      BY <1>5, <1>9, <2>1
    <3>2. \A j \in rest : Ticked(new, i) \cap Ticked(ticks, j) = {}
      BY <1>6, <1>7, <1>8, <3>1
    <3> QED BY <1>4, <1>6, <1>8, <3>1, <3>2
  <2>2. CASE i \in m + 1 .. m + n
    <3> DEFINE j == i - m
    <3>1. Ticked(new, i) = Ticked(ticks, j) /\ j \in 1 .. n /\ j \in 1 .. Len(ticks)
      BY <1>7, <1>10, <2>2
    <3> HIDE DEF j
    <3>2. /\ Ticked(ticks, j) \cap PartsOf(context) = {}
          /\ Ticked(ticks, j) \subseteq PartsOf(s.context) \cup (b + 1 .. c)
      BY <1>6, <3>1
    <3>3. Ticked(ticks, j) \cap s.sigLost = {}
      BY <1>5, <1>8, <3>2
    <3>4. \A l \in rest : Ticked(ticks, j) \cap Ticked(ticks, l) = {}
      <4>1. \A l \in rest : l \in DOMAIN ticks /\ l # j
        BY <1>1, <1>7, <3>1
      <4> QED BY <1>1, <1>6, <3>1, <4>1 DEF Apart
    <3>5. Ticked(ticks, j) \subseteq 1 .. c
      BY <1>5, <1>8, <3>2
    <3> QED BY <1>4, <3>1, <3>2, <3>3, <3>4, <3>5
  <2> QED BY <1>11, <2>1, <2>2
<1>15. Apart(new)
  <2> SUFFICES ASSUME NEW i \in DOMAIN new, NEW j \in DOMAIN new, i # j
               PROVE  Ticked(new, i) \cap Ticked(new, j) = {}
    BY DEF Apart
  <2>1. ASSUME NEW p \in 1 .. m, NEW q \in m + 1 .. m + n
        PROVE  Ticked(new, p) \cap Ticked(new, q) = {}
    <3>1. /\ Ticked(new, p) \subseteq 1 .. b
          /\ Ticked(new, p) \cap PartsOf(s.context) = {}
      BY <1>5, <1>9
    <3>2. Ticked(new, q) \subseteq PartsOf(s.context) \cup (b + 1 .. c)
      BY <1>6, <1>7, <1>10
    <3> QED BY <1>8, <3>1, <3>2
  <2>2. CASE i \in 1 .. m /\ j \in 1 .. m
    BY <1>1, <1>5, <1>9, <2>2 DEF Apart, old, m
  <2>3. CASE i \in m + 1 .. m + n /\ j \in m + 1 .. m + n
    <3>1. /\ i - m \in DOMAIN ticks /\ j - m \in DOMAIN ticks /\ i - m # j - m
          /\ Ticked(new, i) = Ticked(ticks, i - m) /\ Ticked(new, j) = Ticked(ticks, j - m)
      <4>1. i - m # j - m
        BY <1>1, <2>3
      <4> QED BY <1>1, <1>7, <1>10, <2>3, <4>1
    <3> QED BY <1>6, <3>1 DEF Apart
  <2> QED BY <1>11, <2>1, <2>2, <2>3
<1>16. /\ t.sigLost \subseteq 1 .. c /\ PartsOf(context) \subseteq 1 .. c
       /\ PartsOf(context) \cap t.sigLost = {}
  <2>1. PartsOf(context) \subseteq 1 .. c
    BY <1>5, <1>6, <1>8
  <2>2. \A i \in rest : Ticked(ticks, i) \subseteq 1 .. c /\ Ticked(ticks, i) \cap PartsOf(context) = {}
    BY <1>5, <1>6, <1>7, <1>8
  <2>3. s.sigLost \subseteq 1 .. c /\ PartsOf(context) \cap s.sigLost = {}
    BY <1>5, <1>6, <1>8
  <2> QED BY <1>4, <2>1, <2>2, <2>3
<1>17. ASSUME NEW u \in 1 .. c
       PROVE  \/ u \in t.sigLost \/ u \in PartsOf(context)
              \/ \E i \in DOMAIN new : u \in Ticked(new, i)
  <2>1. CASE u \in PartsOf(s.context) \cup (b + 1 .. c)
    <3>1. CASE u \in PartsOf(context)
      BY <3>1
    <3>2. ASSUME NEW i \in 1 .. Len(ticks), u \in Ticked(ticks, i)
          PROVE  u \in t.sigLost \/ \E j \in DOMAIN new : u \in Ticked(new, j)
      <4>1. CASE i \in 1 .. n
        BY <1>12, <3>2, <4>1
      <4>2. CASE i \in rest
        BY <1>4, <3>2, <4>2
      <4> QED BY <1>7, <4>1, <4>2
    <3> QED BY <1>6, <2>1, <3>1, <3>2
  <2>2. CASE u \in 1 .. b /\ u \notin PartsOf(s.context)
    BY <1>4, <1>5, <1>9, <1>13, <2>2
  <2> QED BY <1>8, <2>1, <2>2
<1> QED BY <1>3, <1>14, <1>15, <1>16, <1>17 DEF Places, new

\* Nothing closed; and one tick closed, of some trades.
LEMMA NoTickSplit ==
  ASSUME NEW context PROVE Split(<< >>, context, PartsOf(context))
BY EmptySeq DEF Split, Apart

LEMMA GetTickSplit ==
  ASSUME NEW k, NEW trades \in Seq(Trade)
  PROVE  Split(GetTick(k, trades), << >>, PartsOf(trades))
<1>1. GetTick(k, trades) \in Seq(SignificantTrade)
  BY GetTickType
<1>2. CASE trades = << >>
  BY <1>2, NoTickSplit, PartsFacts DEF GetTick
<1>3. CASE trades # << >>
  <2> DEFINE one == GetTick(k, trades)
  <2>1. one = <<Tick(k, trades, FALSE)>> /\ Tick(k, trades, FALSE).trades = trades
    BY <1>3 DEF GetTick, Tick
  <2>2. DOMAIN one = {1} /\ Ticked(one, 1) = PartsOf(trades)
    <3>1. one[1].trades = trades /\ DOMAIN one = {1}
      <4> DEFINE tick == Tick(k, trades, FALSE)
      <4>1. one = <<tick>> /\ tick.trades = trades
        BY <2>1
      <4> HIDE DEF one, tick
      <4> QED BY <4>1
    <3> QED BY <3>1 DEF Ticked
  <2> HIDE DEF one
  <2> QED BY <1>1, <2>2, PartsFacts DEF Split, Apart, one
<1> QED BY <1>2, <1>3

\* Some ticks after others.
LEMMA ConcatSplit ==
  ASSUME NEW first, NEW S, Split(first, << >>, S),
         NEW second, NEW context, NEW T, Split(second, context, T), S \cap T = {}
  PROVE  Split(first \o second, context, S \cup T)
<1> DEFINE both == first \o second
           m == Len(first)
           n == Len(second)
<1>1. /\ first \in Seq(SignificantTrade) /\ second \in Seq(SignificantTrade)
      /\ m \in Nat /\ n \in Nat /\ DOMAIN first = 1 .. m /\ DOMAIN second = 1 .. n
  BY LenProperties DEF Split
<1>2. /\ both \in Seq(SignificantTrade) /\ Len(both) = m + n /\ DOMAIN both = 1 .. m + n
      /\ \A i \in 1 .. m + n : both[i] = IF i <= m THEN first[i] ELSE second[i - m]
  BY <1>1, ConcatProperties, LenProperties
<1>3. /\ Apart(first) /\ UNION {Ticked(first, i) : i \in 1 .. m} = S
      /\ Apart(second) /\ \A i \in 1 .. n : Ticked(second, i) \cap PartsOf(context) = {}
      /\ PartsOf(context) \cup UNION {Ticked(second, i) : i \in 1 .. n} = T
  BY <1>1, PartsFacts DEF Split
<1> HIDE DEF both, m, n
<1>4. \A i \in 1 .. m : i \in DOMAIN both /\ Ticked(both, i) = Ticked(first, i)
  <2>1. \A i \in 1 .. m : i \in 1 .. m + n /\ i <= m
    BY <1>1
  <2> QED BY <1>2, <2>1 DEF Ticked
<1>5. \A i \in 1 .. n : m + i \in DOMAIN both /\ Ticked(both, m + i) = Ticked(second, i)
  <2>1. \A i \in 1 .. n : m + i \in 1 .. m + n /\ ~(m + i <= m) /\ (m + i) - m = i
    BY <1>1
  <2> QED BY <1>2, <2>1 DEF Ticked
<1>6. \A i \in DOMAIN both : i \in 1 .. m \/ \E j \in 1 .. n : i = m + j
  <2>1. ASSUME NEW i \in 1 .. m + n, i \notin 1 .. m
        PROVE  i - m \in 1 .. n /\ i = m + (i - m)
    BY <1>1, <2>1
  <2> QED BY <1>2, <2>1
<1>7. Apart(both)
  <2> SUFFICES ASSUME NEW i \in DOMAIN both, NEW j \in DOMAIN both, i # j
               PROVE  Ticked(both, i) \cap Ticked(both, j) = {}
    BY DEF Apart
  <2>1. \A p \in 1 .. m, q \in 1 .. n : Ticked(first, p) \cap Ticked(second, q) = {}
    BY <1>3
  <2>2. CASE i \in 1 .. m /\ j \in 1 .. m
    BY <1>1, <1>3, <1>4, <2>2 DEF Apart
  <2>3. ASSUME NEW p \in 1 .. n, i = m + p, NEW q \in 1 .. n, j = m + q
        PROVE  Ticked(both, i) \cap Ticked(both, j) = {}
    BY <1>1, <1>3, <1>5, <2>3 DEF Apart
  <2>4. ASSUME NEW p \in 1 .. m, NEW q \in 1 .. n
        PROVE  Ticked(both, p) \cap Ticked(both, m + q) = {}
    BY <1>4, <1>5, <2>1
  <2> QED BY <1>6, <2>2, <2>3, <2>4
<1>8. \A i \in DOMAIN both : Ticked(both, i) \cap PartsOf(context) = {}
  <2>1. \A p \in 1 .. m : Ticked(first, p) \cap PartsOf(context) = {}
    BY <1>3
  <2> QED BY <1>3, <1>4, <1>5, <1>6, <2>1
<1>9. UNION {Ticked(both, i) : i \in DOMAIN both} =
        (UNION {Ticked(first, i) : i \in 1 .. m}) \cup (UNION {Ticked(second, i) : i \in 1 .. n})
  BY <1>4, <1>5, <1>6
<1> QED BY <1>2, <1>3, <1>7, <1>8, <1>9 DEF Split, both

\* A trade either joins what waits or closes it.
LEMMA TradeOrTickSplit ==
  ASSUME NEW k \in Keys, NEW context \in Seq(Trade), NEW win, NEW a \in Trade,
         NEW r, r = SignificantTradeOrTick(k, context, win, a)
  PROVE  Split(r.ticks, r.pending, PartsOf(context) \cup Parts(a))
<1> DEFINE trades == Append(context, a)
<1>1. trades \in Seq(Trade) /\ PartsOf(trades) = PartsOf(context) \cup Parts(a)
  BY AppendFacts, PartsFacts
<1>2. \/ r.pending = << >> /\ r.ticks = GetTick(k, trades)
      \/ r.pending = trades /\ r.ticks = << >>
  BY DEF SignificantTradeOrTick
<1> HIDE DEF trades
<1> QED BY <1>1, <1>2, GetTickSplit, NoTickSplit

\* What the SignificantTradeAggregator makes of an aggregate: its positions and
\* those that waited are in the ticks it closes or wait again.
LEMMA SignificantAddSplit ==
  ASSUME NEW k \in Keys, NEW context, NEW win, ContextInv(k, context, win),
         NEW a \in Trade, PartsOf(context) \cap Parts(a) = {},
         NEW r, r = SignificantAdd(k, context, win, a)
  PROVE  Split(r.ticks, r.pending, PartsOf(context) \cup Parts(a))
<1> DEFINE w == IF win = NoWindow THEN WindowAt(a.time) ELSE win
<1>1. context \in Seq(Trade)
  BY DEF ContextInv
<1>2. ASSUME NEW x, r = SignificantTradeOrTick(k, context, x, a)
      PROVE  Split(r.ticks, r.pending, PartsOf(context) \cup Parts(a))
  BY <1>1, <1>2, TradeOrTickSplit
<1>3. ASSUME r = [pending |-> context, win |-> w, ticks |-> <<Tick(k, <<a>>, TRUE)>>]
      PROVE  Split(r.ticks, r.pending, PartsOf(context) \cup Parts(a))
  <2> DEFINE late == <<Tick(k, <<a>>, TRUE)>>
  <2>1. late \in Seq(SignificantTrade)
    <3>1. Tick(k, <<a>>, TRUE) \in SignificantTrade
      BY SingletonFacts, TickType
    <3> QED BY <3>1, SingletonFacts
  <2>2. DOMAIN late = {1} /\ Ticked(late, 1) = PartsOf(<<a>>)
    BY DEF Ticked, Tick
  <2>3. r = [pending |-> context, win |-> w, ticks |-> late]
    BY <1>3
  <2> HIDE DEF late, w
  <2>4. r.pending = context /\ r.ticks = late
    BY <2>3
  <2> QED BY <2>1, <2>2, <2>4, PartsFacts DEF Split, Apart
<1>4. ASSUME r = NextWindow(k, context, a)
      PROVE  Split(r.ticks, r.pending, PartsOf(context) \cup Parts(a))
  <2> DEFINE next == SignificantTradeOrTick(k, << >>, WindowAt(a.time), a)
  <2>1. Split(next.ticks, next.pending, Parts(a))
    <3>1. << >> \in Seq(Trade) /\ PartsOf(<< >>) \cup Parts(a) = Parts(a)
      BY PartsFacts
    <3>2. Split(next.ticks, next.pending, PartsOf(<< >>) \cup Parts(a))
      BY <3>1, TradeOrTickSplit
    <3> QED BY <3>1, <3>2
  <2>2. r.pending = next.pending /\ r.ticks = GetTick(k, context) \o next.ticks
    <3>1. r = [next EXCEPT !.ticks = GetTick(k, context) \o next.ticks]
      BY <1>4 DEF NextWindow
    <3>2. next = [pending |-> next.pending, win |-> next.win, ticks |-> next.ticks]
      BY DEF SignificantTradeOrTick
    <3> HIDE DEF next
    <3> QED BY <3>1, <3>2
  <2> HIDE DEF next
  <2> QED BY <1>1, <2>1, <2>2, GetTickSplit, ConcatSplit
<1> QED BY <1>2, <1>3, <1>4 DEF SignificantAdd

SignificantInv(s) ==
  SignificantOn => Places(s.significant, s.context, s.sigLost, Before(s))

\* The delivery of the aggregate that covers b + 1 .. c, to this stream.
LEMMA PlacesTake ==
  ASSUME NEW k \in Keys, NEW s \in KeyState, ContextInv(k, s.context, s.win), NEW t,
         NEW a \in Trade, NEW b, NEW c \in Nat, b <= c, Parts(a) = b + 1 .. c,
         Places(s.significant, s.context, s.sigLost, b), SignificantOn,
         SignificantStep(k, s, a, t)
  PROVE  Places(t.significant, t.context, t.sigLost, c)
<1>1. b \in Nat /\ PartsOf(s.context) \subseteq 1 .. b
  BY DEF Places
<1>2. (1 .. b) \cap Parts(a) = {} /\ Parts(a) \subseteq 1 .. c /\ 1 .. b \subseteq 1 .. c
      /\ \A u \in 1 .. c : u \in 1 .. b \/ u \in Parts(a)
  BY <1>1
<1>3. CASE /\ t.context = s.context /\ t.significant = s.significant
           /\ t.sigLost = s.sigLost \cup Parts(a)
  BY <1>1, <1>2, <1>3 DEF Places
<1>4. CASE /\ t.context = SignificantAdd(k, s.context, s.win, a).pending
           /\ \E n \in 0 .. Len(SignificantAdd(k, s.context, s.win, a).ticks) :
                TicksStep(s, SignificantAdd(k, s.context, s.win, a).ticks, n, t)
  <2> DEFINE r == SignificantAdd(k, s.context, s.win, a)
  <2>1. Split(r.ticks, r.pending, PartsOf(s.context) \cup Parts(a))
    BY <1>1, <1>2, SignificantAddSplit
  <2>2. PICK n \in 0 .. Len(r.ticks) : TicksStep(s, r.ticks, n, t)
    BY <1>4
  <2>3. t.context = r.pending
    BY <1>4
  <2> HIDE DEF r
  <2> QED BY <2>1, <2>2, <2>3, TicksSettle
<1> QED BY <1>3, <1>4 DEF SignificantStep

LEMMA FlushAggregatedKeyPlaces ==
  ASSUME NEW k \in Keys, NEW s, KeyInv(k, s), Raw(s.handled), SignificantInv(s),
         NEW o \in FlushAggregatedKey(k, s)
  PROVE  SignificantInv(o.state)
<1>1. CASE s.pending = << >>
  <2>1. o.state = s
    BY <1>1 DEF FlushAggregatedKey, Outcome
  <2> QED BY <2>1
<1>2. CASE s.pending # << >> /\ SignificantOn
  <2> DEFINE a == AggregateTrades(s.pending)
             c == Len(s.handled)
  <2>1. c \in Nat /\ Before(s) \in Nat /\ Before(s) <= c
    BY <1>2, PendingFacts, PendingIsCovered DEF KeyInv
  <2>2. PICK t : Emptied(s, t) /\ SignificantStep(k, t, a, o.state)
    BY <1>2, FlushAggregatedKeyStep
  <2>3. a \in Trade /\ Covers(s.handled, a, Before(s), c) /\ Before(o.state) = c
    BY <1>2, FlushAggregatedKeyStep
  <2> HIDE DEF a
  <2>4. /\ t \in KeyState /\ ContextInv(k, t.context, t.win)
        /\ Places(t.significant, t.context, t.sigLost, Before(s))
    BY <1>2, <2>2 DEF KeyInv, Emptied, SignificantInv
  <2>5. Parts(a) = Before(s) + 1 .. c
    BY <2>3 DEF Covers, Parts
  <2>6. Places(o.state.significant, o.state.context, o.state.sigLost, c)
    BY <1>2, <2>1, <2>2, <2>3, <2>4, <2>5, PlacesTake
  <2> QED BY <2>3, <2>6 DEF SignificantInv
<1> QED BY <1>1, <1>2 DEF SignificantInv

LEMMA HandlePlaces ==
  ASSUME NEW k \in Keys, NEW s, KeyInv(k, s), Raw(s.handled), SignificantInv(s),
         NEW trade \in Trade, NEW o \in HandleOutcomes(k, s, trade)
  PROVE  SignificantInv(o.state)
<1> SUFFICES ASSUME SignificantOn
             PROVE  Places(o.state.significant, o.state.context, o.state.sigLost, Before(o.state))
  BY DEF SignificantInv
<1> DEFINE n == Len(s.handled)
           a == AggregateTrades(s.pending)
           b == Before(s)
<1>0. s \in KeyState /\ LatestSample(s) /\ ContextInv(k, s.context, s.win)
  BY DEF KeyInv
<1>1. /\ s.handled \in Seq(Trade) /\ s.pending \in Seq(Trade) /\ n \in Nat /\ b \in Nat
  BY <1>0, PendingFacts
<1>2. PICK t : /\ Taken(s, trade, t)
               /\ \/ o.state = t /\ Before(t) = b
                  \/ /\ s.pending # << >> /\ t.pending = <<trade>>
                     /\ ~SameSample(s.pending[Len(s.pending)], trade)
                     /\ o \in Deliver(k, t, a, FALSE)
  BY HandleStep
<1>3. /\ t \in KeyState /\ t.handled = Append(s.handled, trade)
      /\ t.significant = s.significant /\ t.sigLost = s.sigLost
      /\ t.context = s.context /\ t.win = s.win
  BY <1>2 DEF Taken
<1>4. Places(t.significant, t.context, t.sigLost, b) /\ ContextInv(k, t.context, t.win)
  BY <1>0, <1>3 DEF SignificantInv
<1>5. CASE o.state = t /\ Before(t) = b
  BY <1>4, <1>5
<1>6. CASE /\ s.pending # << >> /\ t.pending = <<trade>>
           /\ o \in Deliver(k, t, a, FALSE)
  <2>1. a \in Trade
    BY <1>1, <1>6, AggregateTradesType
  <2>2. Covers(s.handled, a, b, n) /\ b < n
    BY <1>0, <1>6, PendingIsCovered
  <2> HIDE DEF a, b
  <2>3. Parts(a) = b + 1 .. n /\ b <= n
    BY <1>1, <2>2 DEF Covers, Parts
  <2>4. AggregatedStep(t, a, o.state) /\ SignificantStep(k, t, a, o.state)
    BY <1>3, <1>4, <1>6, <2>1, DeliverStep
  <2>5. Before(o.state) = n
    <3>1. o.state.handled = Append(s.handled, trade) /\ o.state.pending = <<trade>>
      BY <1>3, <1>6, <2>4 DEF AggregatedStep
    <3>2. Len(Append(s.handled, trade)) = n + 1
      BY <1>1, AppendContinues
    <3>3. Before(o.state) = (n + 1) - 1
      BY <3>1, <3>2 DEF Before
    <3> QED BY <1>1, <3>3
  <2>6. Places(o.state.significant, o.state.context, o.state.sigLost, n)
    BY <1>1, <1>3, <1>4, <2>1, <2>3, <2>4, PlacesTake
  <2> QED BY <2>5, <2>6
<1> QED BY <1>2, <1>5, <1>6

LEMMA FlushSignificantKeyPlaces ==
  ASSUME NEW k \in Keys, NEW s, KeyInv(k, s), SignificantInv(s),
         NEW o \in FlushSignificantKey(k, s)
  PROVE  SignificantInv(o.state)
<1> SUFFICES ASSUME SignificantOn
             PROVE  Places(o.state.significant, o.state.context, o.state.sigLost, Before(o.state))
  BY DEF SignificantInv
<1> DEFINE ticks == GetTick(k, s.context)
           b == Before(s)
<1>1. /\ Upstream(o.state) = Upstream(s) /\ o.state.context = << >>
      /\ \E n \in 0 .. Len(ticks) : TicksStep(s, ticks, n, o.state)
  BY FlushSignificantKeyStep
<1>2. s.context \in Seq(Trade) /\ Places(s.significant, s.context, s.sigLost, b)
  BY DEF KeyInv, ContextInv, SignificantInv
<1>3. Split(ticks, << >>, PartsOf(s.context))
  BY <1>2, GetTickSplit
<1> HIDE DEF ticks
<1>4. b + 1 .. b = {} /\ b \in Nat
  BY <1>2 DEF Places
<1>5. Before(o.state) = b
  BY <1>1 DEF Upstream, Before
<1>6. PartsOf(s.context) \cup (b + 1 .. b) = PartsOf(s.context)
  BY <1>4
<1> QED BY <1>1, <1>2, <1>3, <1>4, <1>5, <1>6, TicksSettle

-----------------------------------------------------------------------------
(***************************************************************************)
(* The ticks.                                                              *)
(***************************************************************************)

\* An instant after the start of a minute is in that minute or a later one;
\* less than a minute after the start, in that minute.
LEMMA MinuteFloorFacts ==
  ASSUME NEW x \in Nat, NEW y \in Nat, MinuteFloor(x) <= y
  PROVE  /\ MinuteFloor(x) <= MinuteFloor(y)
         /\ y < MinuteFloor(x) + MinuteLength => MinuteFloor(y) = MinuteFloor(x)
<1> DEFINE q(t) == t \div MinuteLength
<1>1. ASSUME NEW t \in Nat
      PROVE  /\ q(t) \in Nat /\ MinuteFloor(t) = MinuteLength * q(t)
             /\ MinuteLength * q(t) <= t /\ t < MinuteLength * q(t) + MinuteLength
  <2>1. t = MinuteLength * (t \div MinuteLength) + (t % MinuteLength)
    BY MinuteAssumption
  <2>2. t % MinuteLength \in 0 .. MinuteLength - 1 /\ t \div MinuteLength \in Nat
    BY MinuteAssumption
  <2> QED BY <2>1, <2>2, MinuteAssumption DEF MinuteFloor
<1> HIDE DEF q
<1>2. ASSUME NEW m \in Nat, NEW n \in Nat, MinuteLength * m < MinuteLength * n + MinuteLength
      PROVE  m <= n
  <2> SUFFICES ASSUME n + 1 <= m PROVE FALSE
    OBVIOUS
  <2>1. MinuteLength * (n + 1) <= MinuteLength * m
    BY MinuteAssumption
  <2>2. MinuteLength * (n + 1) = MinuteLength * n + MinuteLength
    BY MinuteAssumption
  <2> QED BY <1>2, <2>1, <2>2, MinuteAssumption
<1>3. q(x) \in Nat /\ q(y) \in Nat /\ MinuteLength * q(x) \in Nat /\ MinuteLength * q(y) \in Nat
  BY <1>1, MinuteAssumption
<1>4. q(x) <= q(y)
  <2>1. MinuteLength * q(x) < MinuteLength * q(y) + MinuteLength
    BY <1>1, <1>3, MinuteAssumption
  <2> QED BY <1>2, <1>3, <2>1
<1>5. MinuteLength * q(x) <= MinuteLength * q(y)
  BY <1>3, <1>4, MinuteAssumption
<1>6. ASSUME y < MinuteFloor(x) + MinuteLength PROVE q(y) = q(x)
  <2>1. MinuteLength * q(y) < MinuteLength * q(x) + MinuteLength
    BY <1>1, <1>3, <1>6, MinuteAssumption
  <2>2. q(y) <= q(x)
    BY <1>2, <1>3, <2>1
  <2> QED BY <1>3, <1>4, <2>2
<1> QED BY <1>1, <1>5, <1>6

\* What TicksAreWellFormed says of a tick, when h are the trades handled.
Minute(tick) == MinuteFloor(tick.trades[1].time)
TickInv(k, h, tick) ==
  /\ tick \in SignificantTrade
  /\ Len(tick.trades) > 0 /\ tick.uid = tick.trades[Len(tick.trades)].uid
  /\ tick.significant = IsSignificant(k, tick.trades[Len(tick.trades)])
  /\ \A i \in 1 .. Len(tick.trades) - 1 : ~IsSignificant(k, tick.trades[i])
  /\ ~tick.late /\ WindowDuration # 0 =>
       \A i, j \in DOMAIN tick.trades :
         tick.trades[i].time < MinuteFloor(tick.trades[j].time) + WindowDuration
  /\ tick.late =>
       /\ Len(tick.trades) = 1
       /\ \E u \in 1 .. Len(h) : u < tick.uid /\ MinuteFloor(h[u].time) > Minute(tick)

\* Ticks closed while the window moved from first to last.
Chain(k, h, first, ticks, last) ==
  /\ ticks \in Seq(SignificantTrade) /\ first \in Window /\ last \in Window
  /\ \A i \in DOMAIN ticks : TickInv(k, h, ticks[i])
  /\ WindowDuration = MinuteLength =>
       /\ \A i, j \in DOMAIN ticks :
            i < j /\ ~ticks[i].late /\ ~ticks[j].late => Minute(ticks[i]) <= Minute(ticks[j])
       /\ \A i \in DOMAIN ticks : ~ticks[i].late =>
            /\ last # NoWindow /\ Minute(ticks[i]) <= last.start
            /\ first # NoWindow => first.start <= Minute(ticks[i])
       /\ first # NoWindow => last # NoWindow /\ first.start <= last.start

LEMMA TickInvFacts ==
  ASSUME NEW k, NEW h, NEW tick, TickInv(k, h, tick)
  PROVE  /\ tick.trades \in Seq(Trade) /\ Len(tick.trades) \in Nat
         /\ DOMAIN tick.trades = 1 .. Len(tick.trades) /\ 1 \in DOMAIN tick.trades
         /\ \A i \in DOMAIN tick.trades : tick.trades[i] \in Trade /\ tick.trades[i].time \in Nat
         /\ Minute(tick) \in Nat
<1>1. tick.trades \in Seq(Trade)
  BY DEF TickInv, SignificantTrade
<1>2. /\ Len(tick.trades) \in Nat /\ DOMAIN tick.trades = 1 .. Len(tick.trades)
      /\ \A i \in DOMAIN tick.trades : tick.trades[i] \in Trade
  BY <1>1, SeqFacts
<1>3. 1 \in DOMAIN tick.trades
  BY <1>2 DEF TickInv
<1>4. \A i \in DOMAIN tick.trades : tick.trades[i].time \in Nat
  BY <1>2 DEF Trade
<1>5. Minute(tick) \in Nat
  BY <1>3, <1>4, MinuteFloorBounds DEF Minute
<1> QED BY <1>1, <1>2, <1>3, <1>4, <1>5

LEMMA ChainContinues ==
  ASSUME NEW k, NEW h, NEW longer, Continues(h, longer),
         NEW first, NEW ticks, NEW last, Chain(k, h, first, ticks, last)
  PROVE  Chain(k, longer, first, ticks, last)
<1>1. Len(h) \in Nat /\ Len(longer) \in Nat /\ Len(h) <= Len(longer)
  BY LenProperties DEF Continues
<1>2. ASSUME NEW i \in DOMAIN ticks PROVE TickInv(k, longer, ticks[i])
  <2>1. TickInv(k, h, ticks[i])
    BY DEF Chain
  <2>2. \A u \in 1 .. Len(h) : u \in 1 .. Len(longer) /\ longer[u] = h[u]
    BY <1>1 DEF Continues
  <2> QED BY <2>1, <2>2 DEF TickInv
<1> QED BY <1>2 DEF Chain

LEMMA ChainPrefix ==
  ASSUME NEW k, NEW h, NEW first, NEW ticks, NEW last, Chain(k, h, first, ticks, last),
         NEW n \in 0 .. Len(ticks)
  PROVE  Chain(k, h, first, SubSeq(ticks, 1, n), last)
<1> DEFINE sent == SubSeq(ticks, 1, n)
<1>1. ticks \in Seq(SignificantTrade) /\ Len(ticks) \in Nat /\ DOMAIN ticks = 1 .. Len(ticks)
  BY LenProperties DEF Chain
<1>2. /\ sent \in Seq(SignificantTrade) /\ DOMAIN sent = 1 .. n
      /\ \A i \in 1 .. n : i \in DOMAIN ticks /\ sent[i] = ticks[i]
  <2>1. \A i \in 1 .. n : ticks[i] \in SignificantTrade /\ i \in DOMAIN ticks
    BY <1>1, ElementOfSeq
  <2>2. /\ sent \in Seq(SignificantTrade) /\ Len(sent) = IF 1 <= n THEN n - 1 + 1 ELSE 0
        /\ \A i \in 1 .. n - 1 + 1 : sent[i] = ticks[1 + i - 1]
    BY <2>1, SubSeqProperties
  <2>3. \A i \in 1 .. n : 1 + i - 1 = i
    OBVIOUS
  <2> HIDE DEF sent
  <2>4. Len(sent) = n /\ DOMAIN sent = 1 .. Len(sent)
    BY <2>2, LenProperties
  <2> QED BY <2>1, <2>2, <2>3, <2>4
<1> HIDE DEF sent
<1> QED BY <1>2 DEF Chain, sent

LEMMA ChainConcat ==
  ASSUME NEW k, NEW h, NEW first, NEW middle, NEW last, NEW left, NEW right,
         Chain(k, h, first, left, middle), Chain(k, h, middle, right, last)
  PROVE  Chain(k, h, first, left \o right, last)
<1> DEFINE both == left \o right
           m == Len(left)
           n == Len(right)
<1>1. /\ left \in Seq(SignificantTrade) /\ right \in Seq(SignificantTrade)
      /\ m \in Nat /\ n \in Nat /\ DOMAIN left = 1 .. m /\ DOMAIN right = 1 .. n
      /\ {first, middle, last} \subseteq Window
  BY LenProperties DEF Chain
<1>2. /\ both \in Seq(SignificantTrade) /\ DOMAIN both = 1 .. m + n
      /\ \A i \in 1 .. m + n : both[i] = IF i <= m THEN left[i] ELSE right[i - m]
  BY <1>1, ConcatProperties, LenProperties
<1> HIDE DEF both, m, n
<1>3. ASSUME NEW i \in DOMAIN both
      PROVE  \/ i \in DOMAIN left /\ both[i] = left[i]
             \/ \E j \in DOMAIN right : i = m + j /\ both[i] = right[j]
  <2>1. CASE i <= m
    BY <1>1, <1>2, <2>1
  <2>2. CASE ~(i <= m)
    <3>1. i - m \in DOMAIN right /\ i = m + (i - m)
      BY <1>1, <1>2, <2>2
    <3> QED BY <1>2, <2>2, <3>1
  <2> QED BY <2>1, <2>2
<1>4. \A i \in DOMAIN both : TickInv(k, h, both[i])
  BY <1>3 DEF Chain
<1>5. ASSUME WindowDuration = MinuteLength
      PROVE  /\ \A i, j \in DOMAIN both :
                  i < j /\ ~both[i].late /\ ~both[j].late => Minute(both[i]) <= Minute(both[j])
             /\ \A i \in DOMAIN both : ~both[i].late =>
                  /\ last # NoWindow /\ Minute(both[i]) <= last.start
                  /\ first # NoWindow => first.start <= Minute(both[i])
             /\ first # NoWindow => last # NoWindow /\ first.start <= last.start
  <2>1. first.start \in Int /\ middle.start \in Int /\ last.start \in Int
    BY <1>1 DEF Window
  <2>2. /\ \A i \in DOMAIN left : Minute(left[i]) \in Nat
        /\ \A j \in DOMAIN right : Minute(right[j]) \in Nat
    BY TickInvFacts DEF Chain
  <2>3. /\ first # NoWindow => middle # NoWindow /\ first.start <= middle.start
        /\ middle # NoWindow => last # NoWindow /\ middle.start <= last.start
    BY <1>5 DEF Chain
  <2>4. \A i \in DOMAIN left : ~left[i].late =>
          /\ middle # NoWindow /\ Minute(left[i]) <= middle.start
          /\ first # NoWindow => first.start <= Minute(left[i])
    BY <1>5 DEF Chain
  <2>5. \A j \in DOMAIN right : ~right[j].late =>
          /\ last # NoWindow /\ Minute(right[j]) <= last.start
          /\ middle # NoWindow => middle.start <= Minute(right[j])
    BY <1>5 DEF Chain
  <2>6. ASSUME NEW i \in DOMAIN both, NEW j \in DOMAIN both, i < j, ~both[i].late, ~both[j].late
        PROVE  Minute(both[i]) <= Minute(both[j])
    <3>1. CASE i \in DOMAIN left /\ both[i] = left[i] /\ j \in DOMAIN left /\ both[j] = left[j]
      BY <1>5, <2>6, <3>1 DEF Chain
    <3>2. ASSUME NEW q \in DOMAIN right, j = m + q, both[j] = right[q],
                 i \in DOMAIN left, both[i] = left[i]
          PROVE  Minute(both[i]) <= Minute(both[j])
      BY <2>1, <2>2, <2>4, <2>5, <2>6, <3>2
    <3>3. ASSUME NEW p \in DOMAIN right, i = m + p, both[i] = right[p],
                 NEW q \in DOMAIN right, j = m + q, both[j] = right[q]
          PROVE  Minute(both[i]) <= Minute(both[j])
      <4>1. p < q
        BY <1>1, <2>6, <3>3
      <4> QED BY <1>5, <2>6, <3>3, <4>1 DEF Chain
    <3>4. ASSUME NEW p \in DOMAIN right, i = m + p, j \in DOMAIN left PROVE FALSE
      BY <1>1, <2>6, <3>4
    <3> QED BY <1>3, <3>1, <3>2, <3>3, <3>4
  <2>7. ASSUME NEW i \in DOMAIN both, ~both[i].late
        PROVE  /\ last # NoWindow /\ Minute(both[i]) <= last.start
               /\ first # NoWindow => first.start <= Minute(both[i])
    <3>1. CASE i \in DOMAIN left /\ both[i] = left[i]
      BY <2>1, <2>2, <2>3, <2>4, <2>7, <3>1
    <3>2. ASSUME NEW q \in DOMAIN right, both[i] = right[q]
          PROVE  /\ last # NoWindow /\ Minute(both[i]) <= last.start
                 /\ first # NoWindow => first.start <= Minute(both[i])
      BY <2>1, <2>2, <2>3, <2>5, <2>7, <3>2
    <3> QED BY <1>3, <3>1, <3>2
  <2> QED BY <2>1, <2>3, <2>6, <2>7
<1> QED BY <1>1, <1>2, <1>4, <1>5 DEF Chain, both

\* A tick of trades of which only the last may be significant.
IsTickOf(k, trades, late, tick) ==
  /\ tick \in SignificantTrade /\ tick.trades = trades /\ tick.late = late
  /\ tick.uid = trades[Len(trades)].uid
  /\ tick.significant = IsSignificant(k, trades[Len(trades)])

LEMMA ClosedTick ==
  ASSUME NEW k, NEW trades \in Seq(Trade), trades # << >>, NEW late \in BOOLEAN,
         \A i \in 1 .. Len(trades) - 1 : ~IsSignificant(k, trades[i]),
         NEW tick, tick = Tick(k, trades, late)
  PROVE  IsTickOf(k, trades, late, tick)
<1> DEFINE n == Len(trades)
           significant == {i \in DOMAIN trades : IsSignificant(k, trades[i])}
           base == IF significant = {} THEN trades[n]
                   ELSE trades[CHOOSE i \in significant : TRUE]
<1>1. n \in Nat /\ DOMAIN trades = 1 .. n /\ n \in DOMAIN trades
  BY SeqFacts
<1>2. significant \subseteq {n}
  BY <1>1
<1>3. significant # {} => (CHOOSE i \in significant : TRUE) = n
  BY <1>2
<1>4. base = trades[n] /\ ((significant # {}) <=> IsSignificant(k, trades[n]))
  BY <1>1, <1>2, <1>3
<1>5. tick = [uid |-> base.uid, significant |-> significant # {},
              trades |-> trades, late |-> late]
  BY DEF Tick
<1>6. tick \in SignificantTrade
  BY TickType
<1> HIDE DEF base, significant, n
<1>7. /\ tick.uid = base.uid /\ tick.trades = trades /\ tick.late = late
      /\ tick.significant = (significant # {})
  BY <1>5
<1> QED BY <1>4, <1>6, <1>7 DEF n, IsSignificant, IsTickOf

\* The window, once there is one, is that of a trade at 1 .. b.
IsWindow(h, b, win) ==
  WindowDuration # 0 /\ win # NoWindow => \E u \in 1 .. b : win = WindowAt(h[u].time)

LEMMA WindowFacts ==
  ASSUME NEW x \in Nat, NEW win, win = WindowAt(x)
  PROVE  /\ win \in Window /\ win # NoWindow /\ win.start = MinuteFloor(x) /\ win.start \in Nat
         /\ win.stop = MinuteFloor(x) + WindowDuration
<1>1. MinuteFloor(x) \in Nat /\ win = [start |-> MinuteFloor(x), stop |-> MinuteFloor(x) + WindowDuration]
  BY MinuteFloorBounds DEF WindowAt
<1> QED BY <1>1, WindowAssumption DEF NoWindow, Window

\* No tick, while the window moves on or is set.
LEMMA EmptyChain ==
  ASSUME NEW k, NEW h, NEW first \in Window, NEW last \in Window,
         WindowDuration = MinuteLength /\ first # NoWindow =>
           last # NoWindow /\ first.start <= last.start
  PROVE  Chain(k, h, first, << >>, last)
BY EmptySeq DEF Chain

\* The trades of one window make one tick, and leave the window as it is.
LEMMA GetTickChain ==
  ASSUME NEW k, NEW h, NEW trades \in Seq(Trade), NEW win \in Window,
         \A i \in 1 .. Len(trades) - 1 : ~IsSignificant(k, trades[i]),
         WindowDuration # 0 /\ trades # << >> =>
           /\ \E x \in Nat : win = WindowAt(x)
           /\ \A i \in DOMAIN trades : InWindow(win, trades[i])
  PROVE  Chain(k, h, win, GetTick(k, trades), win)
<1>1. win.start \in Int
  BY DEF Window
<1>2. CASE trades = << >>
  BY <1>1, <1>2, EmptyChain DEF GetTick
<1>3. CASE trades # << >>
  <2> DEFINE tick == Tick(k, trades, FALSE)
             one == <<tick>>
             n == Len(trades)
  <2>1. /\ tick \in SignificantTrade /\ tick.trades = trades /\ ~tick.late
        /\ tick.uid = trades[n].uid /\ tick.significant = IsSignificant(k, trades[n])
    <3>1. tick = Tick(k, trades, FALSE) /\ FALSE \in BOOLEAN
      OBVIOUS
    <3> HIDE DEF tick
    <3>2. IsTickOf(k, trades, FALSE, tick)
      BY <1>3, <3>1, ClosedTick
    <3> QED BY <3>2 DEF IsTickOf
  <2>2. /\ n \in Nat /\ n > 0 /\ DOMAIN trades = 1 .. n /\ 1 \in DOMAIN trades
        /\ \A i \in DOMAIN trades : trades[i] \in Trade
    BY <1>3, SeqFacts
  <2>3. \A i \in DOMAIN trades : trades[i].time \in Nat
    BY <2>2 DEF Trade
  <2>4. ASSUME WindowDuration # 0
        PROVE  \E x \in Nat : /\ win.start = MinuteFloor(x) /\ win # NoWindow
                              /\ \A i \in DOMAIN trades :
                                   /\ MinuteFloor(x) <= trades[i].time
                                   /\ trades[i].time < MinuteFloor(x) + WindowDuration
                                   /\ MinuteFloor(x) <= MinuteFloor(trades[i].time)
    <3>1. PICK x \in Nat : win = WindowAt(x)
      BY <1>3, <2>4
    <3>2. /\ win # NoWindow /\ win.start = MinuteFloor(x) /\ win.stop = MinuteFloor(x) + WindowDuration
      BY <3>1, WindowFacts
    <3>3. \A i \in DOMAIN trades :
            MinuteFloor(x) <= trades[i].time /\ trades[i].time < MinuteFloor(x) + WindowDuration
      BY <1>3, <2>4, <3>2 DEF InWindow
    <3>4. \A i \in DOMAIN trades : MinuteFloor(x) <= MinuteFloor(trades[i].time)
      BY <2>3, <3>3, MinuteFloorFacts
    <3> QED BY <3>2, <3>3, <3>4
  <2> HIDE DEF tick
  <2>5. ASSUME WindowDuration # 0, NEW i \in DOMAIN trades, NEW j \in DOMAIN trades
        PROVE  trades[i].time < MinuteFloor(trades[j].time) + WindowDuration
    <3>1. PICK x \in Nat : /\ win.start = MinuteFloor(x) /\ win # NoWindow
                           /\ \A l \in DOMAIN trades :
                                /\ MinuteFloor(x) <= trades[l].time
                                /\ trades[l].time < MinuteFloor(x) + WindowDuration
                                /\ MinuteFloor(x) <= MinuteFloor(trades[l].time)
      BY <2>4, <2>5
    <3>2. MinuteFloor(x) \in Nat /\ MinuteFloor(trades[j].time) \in Nat
      BY <2>3, MinuteFloorBounds
    <3>3. /\ trades[i].time < MinuteFloor(x) + WindowDuration
          /\ MinuteFloor(x) <= MinuteFloor(trades[j].time) /\ trades[i].time \in Nat
      BY <2>3, <3>1
    <3> QED BY <3>2, <3>3, WindowAssumption
  <2>6. TickInv(k, h, tick)
    <3> HIDE DEF n
    <3> QED BY <2>1, <2>2, <2>5 DEF TickInv, n
  <2>7. ASSUME WindowDuration = MinuteLength
        PROVE  win # NoWindow /\ Minute(tick) = win.start
    <3>1. PICK x \in Nat : /\ win.start = MinuteFloor(x) /\ win # NoWindow
                           /\ \A l \in DOMAIN trades :
                                /\ MinuteFloor(x) <= trades[l].time
                                /\ trades[l].time < MinuteFloor(x) + WindowDuration
                                /\ MinuteFloor(x) <= MinuteFloor(trades[l].time)
      BY <2>4, <2>7, MinuteAssumption
    <3>2. MinuteFloor(trades[1].time) = MinuteFloor(x)
      BY <2>2, <2>3, <2>7, <3>1, MinuteFloorFacts
    <3> QED BY <2>1, <3>1, <3>2 DEF Minute
  <2>8. one \in Seq(SignificantTrade) /\ DOMAIN one = {1} /\ one[1] = tick
    BY <2>1, SingletonFacts
  <2>9. GetTick(k, trades) = one
    BY <1>3 DEF GetTick, tick
  <2> HIDE DEF one
  <2> QED BY <1>1, <2>6, <2>7, <2>8, <2>9 DEF Chain
<1> QED BY <1>2, <1>3

LEMMA ChainExtend ==
  ASSUME NEW k, NEW h, NEW first, NEW ticks, NEW middle, Chain(k, h, first, ticks, middle),
         NEW last \in Window,
         WindowDuration = MinuteLength /\ middle # NoWindow =>
           last # NoWindow /\ middle.start <= last.start
  PROVE  Chain(k, h, first, ticks, last)
<1>1. Chain(k, h, middle, << >>, last)
  BY EmptyChain DEF Chain
<1>2. Chain(k, h, first, ticks \o << >>, last)
  BY <1>1, ChainConcat
<1>3. ticks \o << >> = ticks
  BY ConcatEmptySeq DEF Chain
<1> QED BY <1>2, <1>3

\* The ticks that a trade of the window closes.
LEMMA TradeOrTickChain ==
  ASSUME NEW k \in Keys, NEW h, NEW context, NEW win, ContextInv(k, context, win),
         NEW a \in Trade,
         WindowDuration # 0 => (\E x \in Nat : win = WindowAt(x)) /\ InWindow(win, a),
         NEW r, r = SignificantTradeOrTick(k, context, win, a)
  PROVE  Chain(k, h, win, r.ticks, win)
<1> DEFINE trades == Append(context, a)
           n == Len(context)
<1>1. context \in Seq(Trade) /\ win \in Window /\ win.start \in Int
  BY DEF ContextInv, Window
<1>2. /\ trades \in Seq(Trade) /\ Len(trades) = n + 1 /\ n \in Nat
      /\ DOMAIN trades = 1 .. n + 1 /\ DOMAIN context = 1 .. n
      /\ \A i \in 1 .. n : trades[i] = context[i]
      /\ trades[n + 1] = a
  BY <1>1, AppendProperties, LenProperties
<1>3. r.ticks = GetTick(k, trades) \/ r.ticks = << >>
  BY DEF SignificantTradeOrTick
<1> HIDE DEF trades, n
<1>4. Chain(k, h, win, GetTick(k, trades), win)
  <2>1. \A i \in 1 .. Len(trades) - 1 : ~IsSignificant(k, trades[i])
    BY <1>2 DEF ContextInv
  <2>2. WindowDuration # 0 => \A i \in DOMAIN trades : InWindow(win, trades[i])
    BY <1>2 DEF ContextInv
  <2> QED BY <1>1, <1>2, <2>1, <2>2, GetTickChain
<1>5. Chain(k, h, win, << >>, win)
  BY <1>1, EmptyChain
<1> QED BY <1>3, <1>4, <1>5

\* The ticks that an aggregate closes, when it ends with the trade at c and
\* the ones before it end at b.
LEMMA SignificantAddChain ==
  ASSUME NEW k \in Keys, NEW context, NEW win, ContextInv(k, context, win),
         NEW a \in Trade, NEW h \in Seq(Trade), NEW b \in Nat, NEW c \in Nat,
         b < c, c <= Len(h), a.uid = b + 1, a.time = h[c].time, IsWindow(h, b, win),
         NEW r, r = SignificantAdd(k, context, win, a)
  PROVE  Chain(k, h, win, r.ticks, r.win) /\ IsWindow(h, c, r.win)
<1> DEFINE w == IF win = NoWindow THEN WindowAt(a.time) ELSE win
           new == WindowAt(a.time)
<1>1. /\ context \in Seq(Trade) /\ win \in Window /\ a.time \in Nat
      /\ Len(h) \in Nat /\ win.start \in Int
  BY LenProperties DEF ContextInv, Trade, Window
<1>2. \A u \in 1 .. Len(h) : h[u].time \in Nat
  <2>1. \A u \in 1 .. Len(h) : h[u] \in Trade
    BY ElementOfSeq
  <2> QED BY <2>1 DEF Trade
<1>3. 1 .. b \subseteq 1 .. c /\ c \in 1 .. c /\ 1 .. c \subseteq 1 .. Len(h)
  BY <1>1
<1>4. CASE WindowDuration = 0
  <2>1. r = SignificantTradeOrTick(k, context, win, a)
    BY <1>4 DEF SignificantAdd
  <2>2. Chain(k, h, win, r.ticks, win)
    BY <1>4, <2>1, TradeOrTickChain
  <2>3. r.win = win
    BY <2>1 DEF SignificantTradeOrTick
  <2> QED BY <1>4, <2>2, <2>3 DEF IsWindow
<1>5. CASE WindowDuration # 0
  <2>1. /\ \E x \in Nat : w = WindowAt(x) /\ (win # NoWindow => \E u \in 1 .. b : x = h[u].time)
        /\ win # NoWindow => w = win
    BY <1>1, <1>2, <1>3, <1>5 DEF IsWindow
  <2>2. PICK x \in Nat : w = WindowAt(x) /\ (win # NoWindow => \E u \in 1 .. b : x = h[u].time)
    BY <2>1
  <2>3. /\ w \in Window /\ w # NoWindow /\ w.start = MinuteFloor(x) /\ w.start \in Nat
        /\ w.stop = MinuteFloor(x) + WindowDuration /\ w.stop \in Nat
    BY <2>2, WindowFacts, WindowAssumption
  <2>4. /\ new \in Window /\ new # NoWindow /\ new.start = MinuteFloor(a.time)
        /\ new.start \in Nat /\ InWindow(new, a)
    BY <1>1, <1>5, WindowFacts, WindowAtFacts
  <2>5. IsWindow(h, c, w) /\ IsWindow(h, c, new)
    BY <1>3, <1>5 DEF IsWindow
  <2>6. ContextInv(k, context, w)
    <3>1. CASE win = NoWindow
      <4>1. \A i \in DOMAIN context : context[i] \in Trade
        BY <1>1, SeqFacts
      <4>2. \A i \in DOMAIN context : context[i].time \in Nat
        BY <4>1 DEF Trade
      <4>3. \A i \in DOMAIN context : ~InWindow(win, context[i])
        BY <3>1, <4>2 DEF InWindow, NoWindow
      <4>4. DOMAIN context = {}
        BY <1>5, <4>3 DEF ContextInv
      <4> QED BY <1>1, <2>3, <4>4 DEF ContextInv
    <3>2. CASE win # NoWindow
      BY <3>2
    <3> QED BY <3>1, <3>2
  <2>7. Chain(k, h, win, << >>, w)
    BY <1>1, <2>1, <2>3, EmptyChain
  <2>8. ASSUME NEW ticks, NEW last, Chain(k, h, w, ticks, last)
        PROVE  Chain(k, h, win, ticks, last)
    <3>1. Chain(k, h, win, << >> \o ticks, last)
      BY <2>7, <2>8, ChainConcat
    <3>2. << >> \o ticks = ticks
      BY <2>8, ConcatEmptySeq DEF Chain
    <3> QED BY <3>1, <3>2
  <2>9. CASE a.time < w.start
    <3> DEFINE tick == Tick(k, <<a>>, TRUE)
               late == <<tick>>
    <3>1. r = [pending |-> context, win |-> w, ticks |-> late]
      BY <1>5, <2>9 DEF SignificantAdd
    <3>2. /\ tick \in SignificantTrade /\ tick.trades = <<a>> /\ tick.late = TRUE
          /\ tick.uid = a.uid /\ tick.significant = IsSignificant(k, a)
      <4> DEFINE one == <<a>>
      <4>1. one \in Seq(Trade) /\ one # << >> /\ Len(one) = 1 /\ one[1] = a /\ TRUE \in BOOLEAN
        OBVIOUS
      <4>2. tick = Tick(k, one, TRUE)
        OBVIOUS
      <4> HIDE DEF tick, one
      <4>3. 1 .. Len(one) - 1 = {}
        BY <4>1
      <4>4. IsTickOf(k, one, TRUE, tick)
        BY <4>1, <4>2, <4>3, ClosedTick
      <4> QED BY <4>1, <4>4 DEF one, IsTickOf
    <3> HIDE DEF tick
    <3>3. \E u \in 1 .. Len(h) : u < a.uid /\ MinuteFloor(h[u].time) > MinuteFloor(a.time)
      <4>1. win # NoWindow
        <5>1. new.start <= a.time
          BY <2>4 DEF InWindow
        <5>2. w # new
          <6> HIDE DEF w, new
          <6> QED BY <1>1, <2>3, <2>4, <2>9, <5>1
        <5> QED BY <5>2
      <4>2. PICK u \in 1 .. b : x = h[u].time
        BY <2>2, <4>1
      <4>3. u \in 1 .. Len(h) /\ u < a.uid
        BY <1>3, <4>2
      <4>4. MinuteFloor(a.time) \in Nat /\ MinuteFloor(a.time) <= a.time
        BY <1>1, MinuteFloorBounds
      <4>5. MinuteFloor(h[u].time) = w.start
        BY <2>3, <4>2
      <4>6. MinuteFloor(h[u].time) > MinuteFloor(a.time)
        BY <1>1, <2>3, <2>9, <4>4, <4>5
      <4> QED BY <4>3, <4>6
    <3>4. TickInv(k, h, tick)
      <4> DEFINE one == <<a>>
      <4>1. Len(one) = 1 /\ one[1] = a
        OBVIOUS
      <4>2. tick.trades = one
        BY <3>2
      <4> HIDE DEF one
      <4>3. 1 .. Len(one) - 1 = {}
        BY <4>1
      <4>4. Minute(tick) = MinuteFloor(a.time)
        BY <4>1, <4>2 DEF Minute
      <4> QED BY <3>2, <3>3, <4>1, <4>2, <4>3, <4>4 DEF TickInv
    <3>5. late \in Seq(SignificantTrade) /\ DOMAIN late = {1} /\ late[1] = tick
      BY <3>2, SingletonFacts
    <3> HIDE DEF late, w
    <3>6. Chain(k, h, w, late, w)
      BY <2>3, <3>2, <3>4, <3>5 DEF Chain
    <3>7. r.win = w /\ r.ticks = late
      BY <3>1
    <3> QED BY <2>5, <2>8, <3>6, <3>7
  <2>10. CASE ~(a.time < w.start) /\ a.time >= w.stop
    <3> DEFINE next == SignificantTradeOrTick(k, << >>, new, a)
    <3>1. r = [next EXCEPT !.ticks = GetTick(k, context) \o next.ticks]
      BY <1>5, <2>10 DEF SignificantAdd, NextWindow
    <3>2. next = [pending |-> next.pending, win |-> next.win, ticks |-> next.ticks]
      BY DEF SignificantTradeOrTick
    <3>3. next.win = new
      BY DEF SignificantTradeOrTick
    <3>4. Chain(k, h, new, next.ticks, new)
      <4>1. ContextInv(k, << >>, new)
        BY <2>4, EmptyContext
      <4> HIDE DEF new
      <4>2. \E y \in Nat : new = WindowAt(y)
        BY <1>1 DEF new
      <4> QED BY <2>4, <4>1, <4>2, TradeOrTickChain
    <3> HIDE DEF next, w, new
    <3>5. r.win = next.win /\ r.ticks = GetTick(k, context) \o next.ticks
      BY <3>1, <3>2
    <3>6. w.start <= new.start
      <4>1. MinuteFloor(x) <= a.time
        BY <1>1, <2>3, <2>10
      <4> QED BY <1>1, <2>3, <2>4, <4>1, MinuteFloorFacts
    <3>7. Chain(k, h, w, GetTick(k, context), w)
      <4>1. Len(context) \in Nat /\ DOMAIN context = 1 .. Len(context)
        BY <1>1, SeqFacts
      <4>2. \A i \in 1 .. Len(context) - 1 : ~IsSignificant(k, context[i])
        BY <2>6, <4>1 DEF ContextInv
      <4>3. WindowDuration # 0 => \A i \in DOMAIN context : InWindow(w, context[i])
        BY <2>6 DEF ContextInv
      <4> QED BY <1>1, <2>2, <2>3, <4>2, <4>3, GetTickChain
    <3>8. Chain(k, h, w, GetTick(k, context), new)
      BY <2>4, <3>6, <3>7, ChainExtend
    <3>9. Chain(k, h, w, GetTick(k, context) \o next.ticks, new)
      BY <3>4, <3>8, ChainConcat
    <3> QED BY <2>5, <2>8, <3>3, <3>5, <3>9
  <2>11. CASE ~(a.time < w.start) /\ ~(a.time >= w.stop)
    <3>1. r = SignificantTradeOrTick(k, context, w, a)
      BY <1>5, <2>11 DEF SignificantAdd
    <3> HIDE DEF w
    <3>2. InWindow(w, a)
      BY <1>1, <2>3, <2>11 DEF InWindow
    <3>3. Chain(k, h, w, r.ticks, w)
      BY <2>2, <2>6, <3>1, <3>2, TradeOrTickChain
    <3>4. r.win = w
      BY <3>1 DEF SignificantTradeOrTick
    <3> QED BY <2>5, <2>8, <3>3, <3>4
  <2> QED BY <2>9, <2>10, <2>11
<1> QED BY <1>4, <1>5

TickedInv(k, s) ==
  /\ Chain(k, s.handled, NoWindow, s.significant, s.win)
  /\ IsWindow(s.handled, Before(s), s.win)

\* The first n of the ticks that moved the window from that of s to win.
LEMMA ChainSettle ==
  ASSUME NEW k, NEW h, NEW s, Chain(k, h, NoWindow, s.significant, s.win),
         NEW ticks, NEW win, Chain(k, h, s.win, ticks, win),
         NEW n \in 0 .. Len(ticks), NEW t, TicksStep(s, ticks, n, t)
  PROVE  Chain(k, h, NoWindow, t.significant, win)
<1>1. Chain(k, h, s.win, SubSeq(ticks, 1, n), win)
  BY ChainPrefix
<1>2. Chain(k, h, NoWindow, s.significant \o SubSeq(ticks, 1, n), win)
  BY <1>1, ChainConcat
<1> QED BY <1>2 DEF TicksStep

\* The delivery of the aggregate that covers b + 1 .. c, to this stream.
LEMMA ChainTakes ==
  ASSUME NEW k \in Keys, NEW s \in KeyState, ContextInv(k, s.context, s.win), NEW t,
         NEW a \in Trade, NEW h \in Seq(Trade), NEW b \in Nat, NEW c \in Nat,
         b < c, c <= Len(h), Covers(h, a, b, c),
         Chain(k, h, NoWindow, s.significant, s.win), IsWindow(h, b, s.win),
         SignificantStep(k, s, a, t)
  PROVE  Chain(k, h, NoWindow, t.significant, t.win) /\ IsWindow(h, c, t.win)
<1>1. CASE t.win = s.win /\ t.significant = s.significant
  <2>1. 1 .. b \subseteq 1 .. c
    OBVIOUS
  <2> QED BY <1>1, <2>1 DEF IsWindow
<1>2. CASE /\ t.win = SignificantAdd(k, s.context, s.win, a).win
           /\ \E n \in 0 .. Len(SignificantAdd(k, s.context, s.win, a).ticks) :
                TicksStep(s, SignificantAdd(k, s.context, s.win, a).ticks, n, t)
  <2> DEFINE r == SignificantAdd(k, s.context, s.win, a)
  <2>1. a.uid = b + 1 /\ a.time = h[c].time
    <3>1. c \in b + 1 .. c
      OBVIOUS
    <3> QED BY <3>1 DEF Covers, SameSample
  <2>2. Chain(k, h, s.win, r.ticks, r.win) /\ IsWindow(h, c, r.win)
    BY <2>1, SignificantAddChain
  <2>3. PICK n \in 0 .. Len(r.ticks) : TicksStep(s, r.ticks, n, t)
    BY <1>2
  <2>4. t.win = r.win
    BY <1>2
  <2> HIDE DEF r
  <2>5. Chain(k, h, NoWindow, t.significant, r.win)
    BY <2>2, <2>3, ChainSettle
  <2> QED BY <2>2, <2>4, <2>5
<1> QED BY <1>1, <1>2 DEF SignificantStep

LEMMA FlushAggregatedKeyTicks ==
  ASSUME NEW k \in Keys, NEW s, KeyInv(k, s), Raw(s.handled), TickedInv(k, s),
         NEW o \in FlushAggregatedKey(k, s)
  PROVE  TickedInv(k, o.state)
<1>1. CASE s.pending = << >>
  <2>1. o.state = s
    BY <1>1 DEF FlushAggregatedKey, Outcome
  <2> QED BY <2>1
<1>2. CASE s.pending # << >>
  <2> DEFINE a == AggregateTrades(s.pending)
             c == Len(s.handled)
             h == s.handled
  <2>1. h \in Seq(Trade) /\ c \in Nat /\ Before(s) \in Nat /\ Before(s) < c /\ c <= Len(h)
    BY <1>2, PendingFacts, PendingIsCovered DEF KeyInv
  <2>2. PICK t : Emptied(s, t) /\ SignificantStep(k, t, a, o.state)
    BY <1>2, FlushAggregatedKeyStep
  <2>3. /\ a \in Trade /\ Covers(h, a, Before(s), c)
        /\ o.state.handled = h /\ Before(o.state) = c
    BY <1>2, FlushAggregatedKeyStep
  <2> HIDE DEF a, h, c
  <2>4. /\ t \in KeyState /\ ContextInv(k, t.context, t.win)
        /\ Chain(k, h, NoWindow, t.significant, t.win) /\ IsWindow(h, Before(s), t.win)
    BY <1>2, <2>2 DEF KeyInv, Emptied, TickedInv, h
  <2>5. /\ Chain(k, h, NoWindow, o.state.significant, o.state.win)
        /\ IsWindow(h, c, o.state.win)
    BY <2>1, <2>2, <2>3, <2>4, ChainTakes
  <2> QED BY <2>3, <2>5 DEF TickedInv
<1> QED BY <1>1, <1>2

LEMMA HandleTicks ==
  ASSUME NEW k \in Keys, NEW s, KeyInv(k, s), Raw(s.handled), TickedInv(k, s),
         NEW trade \in Trade, NEW o \in HandleOutcomes(k, s, trade)
  PROVE  TickedInv(k, o.state)
<1> DEFINE n == Len(s.handled)
           later == Append(s.handled, trade)
           a == AggregateTrades(s.pending)
           b == Before(s)
<1>0. s \in KeyState /\ LatestSample(s) /\ ContextInv(k, s.context, s.win)
  BY DEF KeyInv
<1>1. /\ s.handled \in Seq(Trade) /\ s.pending \in Seq(Trade) /\ n \in Nat /\ b \in Nat /\ b <= n
  BY <1>0, PendingFacts
<1>2. /\ Continues(s.handled, later) /\ later \in Seq(Trade) /\ Len(later) = n + 1
      /\ \A i \in 1 .. n : later[i] = s.handled[i]
  BY <1>1, AppendContinues DEF Continues
<1>3. PICK t : /\ Taken(s, trade, t)
               /\ \/ o.state = t /\ Before(t) = b
                  \/ /\ s.pending # << >> /\ t.pending = <<trade>>
                     /\ ~SameSample(s.pending[Len(s.pending)], trade)
                     /\ o \in Deliver(k, t, a, FALSE)
  BY HandleStep
<1>4. /\ t \in KeyState /\ t.handled = later /\ t.significant = s.significant
      /\ t.context = s.context /\ t.win = s.win
  BY <1>3 DEF Taken
<1> HIDE DEF later
<1>5. /\ Chain(k, later, NoWindow, t.significant, t.win) /\ ContextInv(k, t.context, t.win)
      /\ IsWindow(later, b, t.win)
  <2>1. Chain(k, later, NoWindow, s.significant, s.win)
    BY <1>2, ChainContinues DEF TickedInv
  <2>2. \A u \in 1 .. b : u \in 1 .. n
    BY <1>1
  <2>3. IsWindow(later, b, s.win)
    BY <1>2, <2>2 DEF TickedInv, IsWindow
  <2> QED BY <1>0, <1>4, <2>1, <2>3
<1>6. CASE o.state = t /\ Before(t) = b
  BY <1>4, <1>5, <1>6 DEF TickedInv
<1>7. CASE /\ s.pending # << >> /\ t.pending = <<trade>>
           /\ o \in Deliver(k, t, a, FALSE)
  <2>1. a \in Trade
    BY <1>1, <1>7, AggregateTradesType
  <2>2. Covers(s.handled, a, b, n) /\ b < n
    BY <1>0, <1>7, PendingIsCovered
  <2> HIDE DEF a, b
  <2>3. Covers(later, a, b, n)
    <3>1. n <= Len(s.handled)
      BY <1>1
    <3> QED BY <1>1, <1>2, <2>2, <3>1, CoversContinues
  <2>4. AggregatedStep(t, a, o.state) /\ SignificantStep(k, t, a, o.state)
    BY <1>4, <1>5, <1>7, <2>1, DeliverStep
  <2>5. o.state.handled = later /\ Before(o.state) = n
    <3>1. o.state.handled = later /\ o.state.pending = <<trade>>
      BY <1>4, <1>7, <2>4 DEF AggregatedStep
    <3>2. Before(o.state) = (n + 1) - 1
      BY <1>2, <3>1 DEF Before
    <3> QED BY <1>1, <3>1, <3>2
  <2>6. /\ Chain(k, later, NoWindow, o.state.significant, o.state.win)
        /\ IsWindow(later, n, o.state.win)
    <3>1. n <= Len(later)
      BY <1>1, <1>2
    <3> HIDE DEF n
    <3> QED BY <1>1, <1>2, <1>4, <1>5, <2>1, <2>2, <2>3, <2>4, <3>1, ChainTakes
  <2> QED BY <2>5, <2>6 DEF TickedInv
<1> QED BY <1>3, <1>6, <1>7

LEMMA FlushSignificantKeyTicks ==
  ASSUME NEW k \in Keys, NEW s, KeyInv(k, s), Raw(s.handled), TickedInv(k, s),
         NEW o \in FlushSignificantKey(k, s)
  PROVE  TickedInv(k, o.state)
<1> DEFINE ticks == GetTick(k, s.context)
           h == s.handled
<1>1. /\ Upstream(o.state) = Upstream(s) /\ o.state.win = s.win
      /\ \E n \in 0 .. Len(ticks) : TicksStep(s, ticks, n, o.state)
  BY FlushSignificantKeyStep
<1>2. /\ s \in KeyState /\ LatestSample(s) /\ s.context \in Seq(Trade) /\ s.win \in Window
      /\ \A i \in DOMAIN s.context : ~IsSignificant(k, s.context[i])
      /\ WindowDuration # 0 => \A i \in DOMAIN s.context : InWindow(s.win, s.context[i])
  BY DEF KeyInv, ContextInv
<1>3. Len(s.context) \in Nat /\ DOMAIN s.context = 1 .. Len(s.context)
      /\ \A i \in DOMAIN s.context : s.context[i] \in Trade
  BY <1>2, SeqFacts
<1>4. Chain(k, h, s.win, ticks, s.win)
  <2>1. \A i \in 1 .. Len(s.context) - 1 : ~IsSignificant(k, s.context[i])
    BY <1>2, <1>3
  <2>2. ASSUME WindowDuration # 0, s.context # << >>
        PROVE  \E x \in Nat : s.win = WindowAt(x)
    <3>1. 1 \in DOMAIN s.context
      BY <1>2, <2>2, SeqFacts
    <3>2. s.context[1].time \in Nat /\ InWindow(s.win, s.context[1])
      BY <1>2, <1>3, <2>2, <3>1 DEF Trade
    <3>3. s.win # NoWindow
      BY <3>2 DEF InWindow, NoWindow
    <3>4. PICK u \in 1 .. Before(s) : s.win = WindowAt(h[u].time)
      BY <2>2, <3>3 DEF TickedInv, IsWindow
    <3>5. h[u] \in Trade
      <4>1. /\ h \in Seq(Trade) /\ Before(s) \in Nat /\ Len(s.pending) \in Nat
            /\ Before(s) + Len(s.pending) = Len(h) /\ DOMAIN h = 1 .. Len(h)
        BY <1>2, PendingFacts
      <4>2. u \in DOMAIN h
        BY <4>1
      <4> QED BY <4>1, <4>2, SeqFacts
    <3> QED BY <3>4, <3>5 DEF Trade
  <2> QED BY <1>2, <2>1, <2>2, GetTickChain
<1>5. PICK n \in 0 .. Len(ticks) : TicksStep(s, ticks, n, o.state)
  BY <1>1
<1> HIDE DEF ticks
<1>6. Chain(k, h, NoWindow, o.state.significant, s.win)
  BY <1>4, <1>5, ChainSettle DEF TickedInv
<1>7. o.state.handled = s.handled /\ Before(o.state) = Before(s)
  BY <1>1 DEF Upstream, Before
<1> QED BY <1>1, <1>6, <1>7 DEF TickedInv

-----------------------------------------------------------------------------
(***************************************************************************)
(* The calls, and the pipeline.                                            *)
(***************************************************************************)
KeyLedger(k, s) == KeyInv(k, s) /\ AggregatedInv(s) /\ SignificantInv(s) /\ TickedInv(k, s)

LEMMA FlushAggregatedKeyKeeps ==
  ASSUME NEW k \in Keys, NEW s, KeyLedger(k, s), NEW o \in FlushAggregatedKey(k, s)
  PROVE  KeyLedger(k, o.state)
BY FlushAggregatedKeyOutcome, FlushAggregatedKeyLedger, FlushAggregatedKeyPlaces,
   FlushAggregatedKeyTicks DEF KeyLedger, AggregatedInv

LEMMA FlushSignificantKeyKeeps ==
  ASSUME NEW k \in Keys, NEW s, KeyLedger(k, s), NEW o \in FlushSignificantKey(k, s)
  PROVE  KeyLedger(k, o.state)
<1>1. Upstream(o.state) = Upstream(s)
  BY FlushSignificantKeyStep DEF KeyLedger
<1>2. AggregatedInv(o.state)
  BY <1>1, UpstreamLedger DEF KeyLedger
<1> QED BY <1>2, FlushSignificantKeyOutcome, FlushSignificantKeyPlaces, FlushSignificantKeyTicks
        DEF KeyLedger, AggregatedInv

LEMMA HandleKeeps ==
  ASSUME NEW k \in Keys, NEW s, KeyLedger(k, s), NEW trade \in Trade,
         trade.uid = Len(s.handled) + 1, trade.upto = Len(s.handled) + 1,
         NEW o \in HandleOutcomes(k, s, trade)
  PROVE  KeyLedger(k, o.state)
BY HandleOutcome, HandleLedger, HandlePlaces, HandleTicks DEF KeyLedger, AggregatedInv

LEMMA FlushBeforeKeeps ==
  ASSUME NEW k \in Keys, NEW s, KeyLedger(k, s), NEW boundary,
         NEW o \in FlushBeforeOutcomes(k, s, boundary)
  PROVE  KeyLedger(k, o.state)
<1> DEFINE first == IF HasPendingBefore(s.pending, boundary)
                      THEN FlushAggregatedKey(k, s) ELSE {Outcome(s, TRUE)}
<1>1. PICK p \in first :
        o \in IF p.ok
                THEN IF SignificantOn /\ HasPendingBefore(p.state.context, boundary)
                       THEN FlushSignificantKey(k, p.state)
                       ELSE {Outcome(p.state, TRUE)}
                ELSE {p}
  BY DEF FlushBeforeOutcomes, OnSuccess
<1>2. KeyLedger(k, p.state)
  <2>1. CASE p = Outcome(s, TRUE)
    BY <2>1 DEF Outcome
  <2>2. CASE p \in FlushAggregatedKey(k, s)
    BY <2>2, FlushAggregatedKeyKeeps
  <2> QED BY <2>1, <2>2
<1>3. CASE o \in FlushSignificantKey(k, p.state)
  BY <1>2, <1>3, FlushSignificantKeyKeeps
<1>4. CASE o = Outcome(p.state, TRUE)
  BY <1>2, <1>4 DEF Outcome
<1>5. CASE o = p
  BY <1>2, <1>5
<1> QED BY <1>1, <1>3, <1>4, <1>5

\* Where Flush stands: when it has come to the significant stream, nothing is
\* pending in the TradeAggregator.
LedgerInv ==
  /\ IInv
  /\ \A k \in Keys : KeyLedger(k, pipe[k])
  /\ \A k \in Keys : ~SignificantOn => pipe[k].context = << >>
  /\ flushing = "significant" => SignificantOn /\ \A k \in Keys : pipe[k].pending = << >>

\* Without a SignificantPublisher nothing reaches the SignificantTradeAggregator.
LEMMA SignificantOff ==
  ASSUME ~SignificantOn, NEW k \in Keys, NEW s, KeyInv(k, s), Raw(s.handled),
         s.context = << >>
  PROVE  /\ \A o \in FlushAggregatedKey(k, s) : o.state.context = << >>
         /\ \A trade \in Trade : \A o \in HandleOutcomes(k, s, trade) : o.state.context = << >>
         /\ \A boundary : \A o \in FlushBeforeOutcomes(k, s, boundary) : o.state.context = << >>
<1>0. /\ s \in KeyState /\ s.pending \in Seq(Trade) /\ ContextInv(k, s.context, s.win)
  BY DEF KeyInv, KeyState
<1>1. ASSUME NEW o \in FlushAggregatedKey(k, s) PROVE o.state.context = << >>
  <2>1. CASE s.pending = << >>
    <3>1. o.state = s
      BY <2>1 DEF FlushAggregatedKey, Outcome
    <3> QED BY <3>1
  <2>2. CASE s.pending # << >>
    <3>1. PICK t : /\ Emptied(s, t)
                   /\ SignificantStep(k, t, AggregateTrades(s.pending), o.state)
      BY <2>2, FlushAggregatedKeyStep
    <3> QED BY <3>1 DEF Emptied, SignificantStep
  <2> QED BY <2>1, <2>2
<1>2. ASSUME NEW trade \in Trade, NEW o \in HandleOutcomes(k, s, trade)
      PROVE  o.state.context = << >>
  <2>1. PICK t : /\ Taken(s, trade, t)
                 /\ \/ o.state = t /\ Before(t) = Before(s)
                    \/ /\ s.pending # << >> /\ t.pending = <<trade>>
                       /\ ~SameSample(s.pending[Len(s.pending)], trade)
                       /\ o \in Deliver(k, t, AggregateTrades(s.pending), FALSE)
    BY HandleStep
  <2>2. t \in KeyState /\ t.context = s.context /\ t.win = s.win
    BY <2>1 DEF Taken
  <2>3. CASE s.pending # << >> /\ o \in Deliver(k, t, AggregateTrades(s.pending), FALSE)
    <3>1. SignificantStep(k, t, AggregateTrades(s.pending), o.state)
      BY <1>0, <2>2, <2>3, AggregateTradesType, DeliverStep
    <3> QED BY <2>2, <3>1 DEF SignificantStep
  <2> QED BY <2>1, <2>2, <2>3
<1>3. ASSUME NEW boundary, NEW o \in FlushBeforeOutcomes(k, s, boundary)
      PROVE  o.state.context = << >>
  <2>1. \/ \E p \in FlushAggregatedKey(k, s) : o = p \/ o = Outcome(p.state, TRUE)
        \/ o = Outcome(s, TRUE) \/ o = Outcome(Outcome(s, TRUE).state, TRUE)
    BY DEF FlushBeforeOutcomes, OnSuccess
  <2> QED BY <1>1, <2>1 DEF Outcome
<1> QED BY <1>1, <1>2, <1>3

LEMMA InitLedger == Init => LedgerInv
<1> SUFFICES ASSUME Init PROVE LedgerInv
  OBVIOUS
<1>1. IInv
  BY InitInv
<1> DEFINE none == << >>
<1>2. EmptyKey = [pending |-> none, context |-> none, win |-> NoWindow,
                  aggregated |-> none, significant |-> none, handled |-> none,
                  aggLost |-> {}, sigLost |-> {}, cuts |-> {}]
  BY DEF EmptyKey
<1>3. /\ none \in Seq(Trade) /\ none \in Seq(SignificantTrade)
      /\ Len(none) = 0 /\ DOMAIN none = {} /\ 1 .. 0 = {} /\ PartsOf(none) = {}
      /\ 1 .. Len(none) - 1 = {}
  BY PartsFacts
<1> HIDE DEF none
<1>4. /\ EmptyKey.pending = none /\ EmptyKey.context = none /\ EmptyKey.win = NoWindow
      /\ EmptyKey.aggregated = none /\ EmptyKey.significant = none /\ EmptyKey.handled = none
      /\ EmptyKey.aggLost = {} /\ EmptyKey.sigLost = {} /\ EmptyKey.cuts = {}
  BY <1>2
<1>5. Before(EmptyKey) = 0
  BY <1>3, <1>4 DEF Before
<1>6. AggregatedInv(EmptyKey)
  <2>1. Stream(none, {}, none, {}, 0)
    BY <1>3 DEF Stream, InOrder, Maximal, PublishedOrLost
  <2> QED BY <1>3, <1>4, <1>5, <2>1 DEF AggregatedInv, Raw, Closed
<1>7. SignificantInv(EmptyKey)
  <2>1. Places(none, none, {}, 0)
    BY <1>3 DEF Places, Apart
  <2> QED BY <1>4, <1>5, <2>1 DEF SignificantInv
<1>8. \A k : TickedInv(k, EmptyKey)
  <2>1. \A k : Chain(k, none, NoWindow, << >>, NoWindow)
    <3>1. NoWindow \in Window /\ NoWindow.start <= NoWindow.start
      BY DEF NoWindow, Window
    <3> QED BY <3>1, EmptyChain
  <2>2. IsWindow(none, 0, NoWindow)
    BY DEF IsWindow
  <2> QED BY <1>4, <1>5, <2>1, <2>2 DEF TickedInv, none
<1>9. \A k \in Keys : pipe[k] = EmptyKey
  BY DEF Init
<1>10. \A k \in Keys : KeyLedger(k, pipe[k]) /\ pipe[k].context = << >>
  BY <1>1, <1>4, <1>6, <1>7, <1>8, <1>9 DEF KeyLedger, IInv, none
<1> QED BY <1>1, <1>10 DEF LedgerInv, Init

\* A call that settles on an outcome that is in order keeps the accounts.
LEMMA SettleLedger ==
  ASSUME LedgerInv, NEW k \in Keys, NEW o, KeyLedger(k, o.state),
         ~SignificantOn => o.state.context = << >>, Settle(k, o), IInv',
         flushing' = "significant" =>
           SignificantOn /\ o.state.pending = << >> /\ flushing = "significant"
  PROVE  LedgerInv'
<1>1. /\ DOMAIN pipe = Keys /\ \A q \in Keys : KeyLedger(q, pipe[q])
      /\ \A q \in Keys : ~SignificantOn => pipe[q].context = << >>
      /\ flushing = "significant" => \A q \in Keys : pipe[q].pending = << >>
  BY DEF LedgerInv, IInv
<1>2. \A q \in Keys : pipe'[q] = IF q = k THEN o.state ELSE pipe[q]
  BY <1>1 DEF Settle
<1>3. \A q \in Keys : /\ KeyLedger(q, pipe'[q])
                      /\ ~SignificantOn => pipe'[q].context = << >>
                      /\ flushing' = "significant" => pipe'[q].pending = << >>
  BY <1>1, <1>2
<1> QED BY <1>3 DEF LedgerInv

LEMMA NextLedger == LedgerInv /\ [Next]_vars => LedgerInv'
<1> SUFFICES ASSUME LedgerInv, [Next]_vars PROVE LedgerInv'
  OBVIOUS
<1>0. /\ \A k \in Keys : /\ KeyLedger(k, pipe[k])
                         /\ KeyInv(k, pipe[k]) /\ Raw(pipe[k].handled)
      /\ \A k \in Keys : ~SignificantOn => pipe[k].context = << >>
      /\ flushing = "significant" => SignificantOn /\ \A k \in Keys : pipe[k].pending = << >>
      /\ IInv /\ IInv'
  BY NextInv DEF LedgerInv, KeyLedger, AggregatedInv
<1>1. ASSUME pipe' = pipe,
             flushing' = "significant" => SignificantOn /\ \A k \in Keys : pipe[k].pending = << >>
      PROVE  LedgerInv'
  BY <1>0, <1>1 DEF LedgerInv
<1>2. CASE HandleRawRefused
  BY <1>0, <1>1, <1>2 DEF HandleRawRefused
<1>3. ASSUME NEW k \in Keys, NEW time \in 0 .. MaxTime, NEW rule \in Rules,
             NEW volume \in Volumes, Handle(k, time, rule, volume)
      PROVE  LedgerInv'
  <2> DEFINE uid == Len(pipe[k].handled) + 1
             trade == [uid |-> uid, upto |-> uid, time |-> time,
                       rule |-> rule, volume |-> volume]
  <2>1. uid \in Nat
    <3>1. pipe[k].handled \in Seq(Trade)
      BY <1>0 DEF KeyInv, KeyState
    <3> QED BY <3>1, LenProperties
  <2>2. trade \in Trade /\ trade.uid = uid /\ trade.upto = uid
    BY <2>1, InputAssumption DEF Trade
  <2>3. PICK o \in HandleOutcomes(k, pipe[k], trade) : Settle(k, o)
    BY <1>3 DEF Handle
  <2>4. flushing' # "significant"
    BY <1>3 DEF Handle
  <2> HIDE DEF trade
  <2>5. KeyLedger(k, o.state)
    BY <1>0, <2>2, HandleKeeps
  <2>6. ~SignificantOn => o.state.context = << >>
    BY <1>0, <2>2, SignificantOff
  <2> QED BY <1>0, <2>3, <2>4, <2>5, <2>6, SettleLedger
<1>4. ASSUME NEW k \in Keys, NEW time \in 0 .. MaxTime, FlushBefore(k, time)
      PROVE  LedgerInv'
  <2>1. PICK o \in FlushBeforeOutcomes(k, pipe[k], MinuteFloor(time)) : Settle(k, o)
    BY <1>4 DEF FlushBefore
  <2>2. flushing' # "significant"
    BY <1>4 DEF FlushBefore
  <2>3. KeyLedger(k, o.state)
    BY <1>0, FlushBeforeKeeps
  <2>4. ~SignificantOn => o.state.context = << >>
    BY <1>0, SignificantOff
  <2> QED BY <1>0, <2>1, <2>2, <2>3, <2>4, SettleLedger
<1>5. CASE StartFlush \/ FlushAggregatedDone \/ FlushDone
  BY <1>0, <1>1, <1>5 DEF StartFlush, FlushAggregatedDone, FlushDone
<1>6. ASSUME NEW k \in Keys, FlushAggregated(k) PROVE LedgerInv'
  <2>1. PICK o \in FlushAggregatedKey(k, pipe[k]) :
          Settle(k, o) /\ flushing' = IF o.ok THEN flushing ELSE "idle"
    BY <1>6 DEF FlushAggregated, FlushKey
  <2>2. flushing' # "significant"
    BY <1>6, <2>1 DEF FlushAggregated
  <2>3. KeyLedger(k, o.state)
    BY <1>0, FlushAggregatedKeyKeeps
  <2>4. ~SignificantOn => o.state.context = << >>
    BY <1>0, SignificantOff
  <2> QED BY <1>0, <2>1, <2>2, <2>3, <2>4, SettleLedger
<1>7. ASSUME NEW k \in Keys, FlushSignificant(k) PROVE LedgerInv'
  <2>1. PICK o \in FlushSignificantKey(k, pipe[k]) :
          Settle(k, o) /\ flushing' = IF o.ok THEN flushing ELSE "idle"
    BY <1>7 DEF FlushSignificant, FlushKey
  <2>2. KeyLedger(k, o.state)
    BY <1>0, FlushSignificantKeyKeeps
  <2>3. o.state.context = << >> /\ o.state.pending = pipe[k].pending
    BY <1>0, FlushSignificantKeyStep DEF Upstream
  <2>4. flushing' = "significant" =>
          SignificantOn /\ o.state.pending = << >> /\ flushing = "significant"
    BY <1>0, <1>7, <2>1, <2>3 DEF FlushSignificant
  <2> QED BY <1>0, <2>1, <2>2, <2>3, <2>4, SettleLedger
<1>8. CASE UNCHANGED vars
  BY <1>0, <1>1, <1>8 DEF vars
<1> QED BY <1>2, <1>3, <1>4, <1>5, <1>6, <1>7, <1>8 DEF Next

LEMMA LedgerInvariance == Spec => []LedgerInv
<1> QED BY InitLedger, NextLedger, PTL DEF Spec

-----------------------------------------------------------------------------
(***************************************************************************)
(* The theorems.                                                           *)
(***************************************************************************)

\* The window, once a key has one, is that of a trade it has handled.
LEMMA WindowOfTrade ==
  ASSUME NEW k \in Keys, NEW s, KeyLedger(k, s), WindowDuration # 0, s.win # NoWindow
  PROVE  \E x \in Nat : s.win = WindowAt(x)
<1>1. /\ s \in KeyState /\ LatestSample(s) /\ Raw(s.handled)
      /\ IsWindow(s.handled, Before(s), s.win)
  BY DEF KeyLedger, KeyInv, AggregatedInv, TickedInv
<1>2. PICK u \in 1 .. Before(s) : s.win = WindowAt(s.handled[u].time)
  BY <1>1 DEF IsWindow
<1>3. s.handled[u] \in Trade
  <2>1. /\ s.handled \in Seq(Trade) /\ Before(s) \in Nat /\ Len(s.pending) \in Nat
        /\ Before(s) + Len(s.pending) = Len(s.handled)
        /\ DOMAIN s.handled = 1 .. Len(s.handled)
    BY <1>1, PendingFacts
  <2>2. u \in DOMAIN s.handled
    BY <2>1
  <2> QED BY <2>1, <2>2, ElementOfSeq
<1> QED BY <1>2, <1>3 DEF Trade

\* The state of every key is well-formed whatever is handled, flushed and
\* refused, and every window is whole minutes: for any keys, windows and
\* thresholds.
THEOREM TypeCorrect == Spec => []TypeOK
<1>1. ASSUME LedgerInv PROVE TypeOK
  <2>1. ASSUME NEW k \in Keys, WindowDuration # 0, pipe[k].win # NoWindow
        PROVE  WholeMinutes(pipe[k].win)
    <3>1. PICK x \in Nat : pipe[k].win = WindowAt(x)
      BY <1>1, <2>1, WindowOfTrade DEF LedgerInv
    <3>2. /\ pipe[k].win.start = MinuteFloor(x)
          /\ pipe[k].win.stop = MinuteFloor(x) + WindowDuration
      BY <3>1, WindowFacts
    <3>3. MinuteFloor(x) % MinuteLength = 0
      BY WholeMinute
    <3> QED BY <3>2, <3>3 DEF WholeMinutes
  <2>2. WindowDuration # 0 => \A k \in Keys : WholeMinutes(pipe[k].win)
    BY <2>1 DEF WholeMinutes
  <2> QED BY <1>1, <2>2 DEF LedgerInv, IInv, TypeOK, KeyInv
<1> QED BY <1>1, LedgerInvariance, PTL

\* An aggregated event stands for exactly the consecutive trades from its uid
\* to its last one, events follow each other in order and overlap nowhere, and
\* only a flush cuts a sample in two: for any keys, rules, volumes and bounds,
\* and whatever publications are refused.
THEOREM AggregatesExact == Spec => []AggregatesAreExact
<1>1. ASSUME LedgerInv PROVE AggregatesAreExact
  <2> SUFFICES ASSUME NEW k \in Keys, NEW s, s = pipe[k], NEW agg, agg = s.aggregated
               PROVE  /\ \A i \in DOMAIN agg : ExactAggregate(s, agg[i])
                      /\ \A i, j \in DOMAIN agg : i < j => agg[i].upto < agg[j].uid
                      /\ \A i \in 1 .. Len(agg) - 1 :
                           agg[i].upto + 1 = agg[i+1].uid /\ SameSample(agg[i], agg[i+1])
                             => agg[i].upto \in s.cuts
    BY DEF AggregatesAreExact
  <2>1. Stream(s.handled, s.cuts, agg, s.aggLost, Before(s))
    BY <1>1 DEF LedgerInv, KeyLedger, AggregatedInv
  <2>2. ASSUME NEW i \in DOMAIN agg PROVE ExactAggregate(s, agg[i])
    <3>1. Exact(s.handled, agg[i], Before(s)) /\ agg[i] \in Trade
      BY <2>1, SeqFacts DEF Stream
    <3>2. Before(s) \in Nat /\ Before(s) <= Len(s.handled) /\ Len(s.handled) \in Nat
      BY <2>1, LenProperties DEF Stream
    <3>3. agg[i].uid \in Nat /\ agg[i].upto \in Nat
      BY <3>1 DEF Trade
    <3> QED BY <3>1, <3>2, <3>3 DEF Exact, ExactAggregate
  <2> QED BY <2>1, <2>2 DEF Stream, InOrder, Maximal
<1> QED BY <1>1, LedgerInvariance, PTL

\* A set without two elements is empty or a singleton.
LEMMA AtMostOne ==
  ASSUME NEW S, \A i, j \in S : i = j
  PROVE  Cardinality(S) = Count(S # {})
<1>1. CASE S = {}
  BY <1>1, FS_EmptySet DEF Count
<1>2. CASE S # {}
  <2>1. PICK i : i \in S
    BY <1>2
  <2>2. S = {i}
    BY <2>1
  <2> QED BY <2>2, FS_Singleton DEF Count
<1> QED BY <1>1, <1>2

LEMMA PendingParts ==
  ASSUME NEW s \in KeyState, LatestSample(s), Raw(s.handled)
  PROVE  PartsOf(s.pending) = Before(s) + 1 .. Len(s.handled)
<1> DEFINE b == Before(s)
           p == s.pending
           n == Len(s.handled)
<1>1. /\ Len(p) \in Nat /\ n \in Nat /\ b \in Nat /\ b + Len(p) = n
      /\ DOMAIN p = 1 .. Len(p)
      /\ \A i \in 1 .. Len(p) : p[i].uid = b + i /\ p[i].upto = b + i
  BY PendingFacts
<1> HIDE DEF b, p, n
<1>2. \A i \in 1 .. Len(p) : Parts(p[i]) = {b + i}
  <2>1. \A x \in Nat : x .. x = {x}
    OBVIOUS
  <2>2. \A i \in 1 .. Len(p) : b + i \in Nat
    BY <1>1
  <2> QED BY <1>1, <2>1, <2>2 DEF Parts
<1>3. \A u : (\E i \in 1 .. Len(p) : u = b + i) <=> u \in b + 1 .. n
  <2>1. \A i \in 1 .. Len(p) : b + i \in b + 1 .. n
    BY <1>1
  <2>2. \A u \in b + 1 .. n : u - b \in 1 .. Len(p) /\ u = b + (u - b)
    BY <1>1
  <2> QED BY <2>1, <2>2
<1>4. \A u : u \in PartsOf(p) <=> \E i \in 1 .. Len(p) : u \in Parts(p[i])
  BY <1>1 DEF PartsOf
<1>5. \A u : u \in PartsOf(p) <=> u \in b + 1 .. n
  <2> TAKE u
  <2>1. \A i \in 1 .. Len(p) : u \in Parts(p[i]) <=> u = b + i
    BY <1>2
  <2>2. u \in PartsOf(p) <=> \E i \in 1 .. Len(p) : u = b + i
    BY <1>4, <2>1
  <2> QED BY <1>3, <2>2
<1> QED BY <1>5 DEF b, p, n

\* Every trade handled is in one place of each stream: in one event, waiting,
\* or lost with a refused publication.
THEOREM EachOnce == Spec => []EachTradeOnce
<1>1. ASSUME LedgerInv PROVE EachTradeOnce
  <2> SUFFICES ASSUME NEW k \in Keys, NEW s, s = pipe[k], NEW u \in DOMAIN s.handled
               PROVE  /\ AggregatedOn => AggregatedOnce(s, u)
                      /\ SignificantOn => InOneTick(s, u)
    BY DEF EachTradeOnce
  <2> DEFINE b == Before(s)
  <2>1. /\ s \in KeyState /\ LatestSample(s) /\ Raw(s.handled)
        /\ Stream(s.handled, s.cuts, s.aggregated, s.aggLost, b)
        /\ SignificantOn => Places(s.significant, s.context, s.sigLost, b)
    BY <1>1 DEF LedgerInv, KeyLedger, KeyInv, AggregatedInv, SignificantInv
  <2>2. /\ u \in 1 .. Len(s.handled) /\ b \in Nat /\ Len(s.handled) \in Nat
        /\ PartsOf(s.pending) = b + 1 .. Len(s.handled)
    BY <2>1, PendingFacts, PendingParts
  <2> HIDE DEF b
  <2>3. \/ u \in 1 .. b /\ u \notin PartsOf(s.pending)
        \/ u \notin 1 .. b /\ u \in PartsOf(s.pending)
    BY <2>2
  <2>4. ASSUME AggregatedOn PROVE AggregatedOnce(s, u)
    <3> DEFINE S == {i \in DOMAIN s.aggregated : u \in Parts(s.aggregated[i])}
    <3>1. \A i \in DOMAIN s.aggregated :
            /\ s.aggregated[i].uid \in Nat /\ s.aggregated[i].upto \in Nat
            /\ s.aggregated[i].upto <= b /\ i \in Int /\ 1 <= s.aggregated[i].uid
      <4>1. ASSUME NEW i \in DOMAIN s.aggregated
            PROVE  /\ s.aggregated[i] \in Trade /\ i \in Int
                   /\ Exact(s.handled, s.aggregated[i], b)
        BY <2>1, SeqFacts DEF Stream
      <4> QED BY <4>1 DEF Trade, Exact
    <3>2. \A i, j \in S : i = j
      <4> SUFFICES ASSUME NEW i \in S, NEW j \in S, i < j PROVE FALSE
        BY <3>1
      <4>1. s.aggregated[i].upto < s.aggregated[j].uid
        BY <2>1 DEF Stream, InOrder
      <4> QED BY <2>2, <3>1, <4>1 DEF Parts
    <3>3. Aggregated(s, u) = Count(S # {})
      BY <3>2, AtMostOne DEF Aggregated
    <3>4. S # {} => u \in 1 .. b
      BY <2>2, <3>1 DEF Parts
    <3>5. u \in s.aggLost => u \in 1 .. b
      BY <2>1 DEF Stream, PublishedOrLost
    <3>6. u \in 1 .. b => ((u \in s.aggLost) <=> (S = {}))
      BY <2>1, <2>4 DEF Stream, PublishedOrLost
    <3> HIDE DEF S
    <3> QED BY <2>3, <3>3, <3>4, <3>5, <3>6 DEF AggregatedOnce, Count
  <2>5. ASSUME SignificantOn PROVE InOneTick(s, u)
    <3> DEFINE S == {i \in DOMAIN s.significant : u \in Ticked(s.significant, i)}
    <3>1. \A i, j \in S : i = j
      BY <2>1, <2>5 DEF Places, Apart
    <3>2. InTicks(s, u) = Count(S # {})
      BY <3>1, AtMostOne DEF InTicks, Ticked
    <3>3. /\ S # {} => u \in 1 .. b /\ u \notin PartsOf(s.context) /\ u \notin s.sigLost
          /\ u \in s.sigLost => u \in 1 .. b /\ u \notin PartsOf(s.context)
          /\ u \in PartsOf(s.context) => u \in 1 .. b
      BY <2>1, <2>5 DEF Places
    <3>4. u \in 1 .. b => u \in s.sigLost \/ u \in PartsOf(s.context) \/ S # {}
      BY <2>1, <2>5 DEF Places
    <3> HIDE DEF S
    <3> QED BY <2>3, <3>2, <3>3, <3>4 DEF InOneTick, Count
  <2> QED BY <2>4, <2>5
<1> QED BY <1>1, LedgerInvariance, PTL

\* What TicksAreWellFormed says of the ticks of a key.
TicksInOrder(k, s, ticks) ==
  /\ \A i \in DOMAIN ticks : WellFormedTick(k, s, ticks[i])
  /\ WindowDuration = MinuteLength => \A i, j \in DOMAIN ticks :
       i < j /\ ~ticks[i].late /\ ~ticks[j].late => Minute(ticks[i]) <= Minute(ticks[j])

\* A tick ends with its significant trade or with its window, holds the trades
\* of one window only, is late only after a trade of a later minute, and ticks
\* that are not late come minute by minute: whatever the order of the trades.
THEOREM TicksWellFormed == Spec => []TicksAreWellFormed
<1>1. ASSUME LedgerInv PROVE TicksAreWellFormed
  <2> SUFFICES \A k \in Keys : TicksInOrder(k, pipe[k], pipe[k].significant)
    <3> SUFFICES ASSUME NEW k \in Keys
                 PROVE  TicksInOrder(k, pipe[k], pipe[k].significant) <=>
                          LET ticks == pipe[k].significant IN
                          /\ \A i \in DOMAIN ticks : WellFormedTick(k, pipe[k], ticks[i])
                          /\ WindowDuration = MinuteLength => \A i, j \in DOMAIN ticks :
                               i < j /\ ~ticks[i].late /\ ~ticks[j].late =>
                                 MinuteFloor(ticks[i].trades[1].time)
                                   <= MinuteFloor(ticks[j].trades[1].time)
      BY DEF TicksAreWellFormed
    <3> QED BY DEF TicksInOrder, Minute
  <2> SUFFICES ASSUME NEW k \in Keys, NEW s, s = pipe[k], NEW ticks, ticks = s.significant
               PROVE  TicksInOrder(k, s, ticks)
    OBVIOUS
  <2>1. Chain(k, s.handled, NoWindow, ticks, s.win)
    BY <1>1 DEF LedgerInv, KeyLedger, TickedInv
  <2>2. ASSUME NEW i \in DOMAIN ticks PROVE WellFormedTick(k, s, ticks[i])
    <3> DEFINE tick == ticks[i]
    <3>1. TickInv(k, s.handled, tick)
      BY <2>1 DEF Chain
    <3> HIDE DEF tick
    <3>2. DOMAIN tick.trades = 1 .. Len(tick.trades) /\ Len(tick.trades) \in Nat
      BY <3>1, TickInvFacts
    <3>3. tick.uid \in Nat
      BY <3>1 DEF TickInv, SignificantTrade
    <3>4. \A u \in 1 .. Len(s.handled) : u < tick.uid => u \in 1 .. tick.uid - 1
      BY <3>3
    <3>5. /\ Len(tick.trades) > 0 /\ tick.uid = tick.trades[Len(tick.trades)].uid
          /\ tick.significant = IsSignificant(k, tick.trades[Len(tick.trades)])
          /\ \A j \in 1 .. Len(tick.trades) - 1 : ~IsSignificant(k, tick.trades[j])
      BY <3>1 DEF TickInv
    <3>6. ~tick.late /\ WindowDuration # 0 =>
            \A m, j \in 1 .. Len(tick.trades) :
              tick.trades[m].time < MinuteFloor(tick.trades[j].time) + WindowDuration
      BY <3>1, <3>2 DEF TickInv
    <3>7. tick.late => Len(tick.trades) = 1
      BY <3>1 DEF TickInv
    <3>8. tick.late => \E u \in 1 .. tick.uid - 1 :
                         MinuteFloor(s.handled[u].time) > MinuteFloor(tick.trades[1].time)
      BY <3>1, <3>4 DEF TickInv, Minute
    <3>9. WellFormedTick(k, s, tick)
      BY <3>5, <3>6, <3>7, <3>8 DEF WellFormedTick
    <3> QED BY <3>9 DEF tick
  <2>3. WindowDuration = MinuteLength => \A i, j \in DOMAIN ticks :
          i < j /\ ~ticks[i].late /\ ~ticks[j].late => Minute(ticks[i]) <= Minute(ticks[j])
    BY <2>1 DEF Chain
  <2> QED BY <2>2, <2>3 DEF TicksInOrder
<1> QED BY <1>1, LedgerInvariance, PTL

-----------------------------------------------------------------------------
(***************************************************************************)
(* What a flush takes and what it leaves.  A minute boundary never cuts a  *)
(* sample, nor, when a window is a minute, what waits in one window.       *)
(***************************************************************************)

\* All of some trades are older than the boundary, or none is.
OneSide(trades, boundary) ==
  \A i, j \in DOMAIN trades : trades[i].time < boundary => trades[j].time < boundary

LEMMA WindowSide ==
  ASSUME WindowDuration = MinuteLength, NEW x \in Nat, NEW y \in Nat,
         NEW left \in Trade, InWindow(WindowAt(x), left),
         NEW right \in Trade, InWindow(WindowAt(x), right), left.time < MinuteFloor(y)
  PROVE  right.time < MinuteFloor(y)
<1>1. left.time \in Nat /\ right.time \in Nat
  BY DEF Trade
<1>2. MinuteFloor(left.time) = MinuteFloor(x) /\ MinuteFloor(right.time) = MinuteFloor(x)
  <2>1. ASSUME NEW trade \in Trade, InWindow(WindowAt(x), trade)
        PROVE  MinuteFloor(trade.time) = MinuteFloor(x)
    <3>1. /\ trade.time \in Nat /\ MinuteFloor(x) <= trade.time
          /\ trade.time < MinuteFloor(x) + MinuteLength
      BY <2>1, WindowFacts DEF Trade, InWindow
    <3> QED BY <3>1, MinuteFloorFacts
  <2> QED BY <2>1
<1>3. MinuteFloor(y) \in Nat /\ MinuteFloor(left.time) <= left.time /\ MinuteFloor(x) \in Nat
  BY <1>1, MinuteFloorBounds
<1> SUFFICES ASSUME MinuteFloor(y) <= right.time PROVE FALSE
  BY <1>1, <1>3
<1>4. MinuteFloor(y) <= MinuteFloor(right.time)
  BY <1>1, MinuteFloorFacts
<1> QED BY <1>1, <1>2, <1>3, <1>4

\* The window of what waits is that of a trade handled.
LEMMA ContextWindow ==
  ASSUME NEW k \in Keys, NEW s, KeyLedger(k, s), WindowDuration # 0, s.context # << >>
  PROVE  /\ s.win # NoWindow /\ \E x \in Nat : s.win = WindowAt(x)
         /\ \A i \in DOMAIN s.context : s.context[i] \in Trade /\ InWindow(s.win, s.context[i])
<1>1. /\ s.context \in Seq(Trade) /\ s \in KeyState /\ LatestSample(s) /\ Raw(s.handled)
      /\ \A i \in DOMAIN s.context : InWindow(s.win, s.context[i])
      /\ IsWindow(s.handled, Before(s), s.win)
  BY DEF KeyLedger, KeyInv, ContextInv, AggregatedInv, TickedInv
<1>2. 1 \in DOMAIN s.context /\ \A i \in DOMAIN s.context : s.context[i] \in Trade
  BY <1>1, SeqFacts
<1>3. s.win # NoWindow
  BY <1>1, <1>2 DEF Trade, InWindow, NoWindow
<1>4. PICK u \in 1 .. Before(s) : s.win = WindowAt(s.handled[u].time)
  BY <1>1, <1>3 DEF IsWindow
<1>5. s.handled[u] \in Trade
  <2>1. /\ s.handled \in Seq(Trade) /\ Before(s) \in Nat /\ Len(s.pending) \in Nat
        /\ Before(s) + Len(s.pending) = Len(s.handled)
        /\ DOMAIN s.handled = 1 .. Len(s.handled)
    BY <1>1, PendingFacts
  <2>2. u \in DOMAIN s.handled
    BY <2>1
  <2> QED BY <2>1, <2>2, SeqFacts
<1> QED BY <1>1, <1>2, <1>3, <1>4, <1>5 DEF Trade

LEMMA ContextSide ==
  ASSUME NEW k \in Keys, NEW s, KeyLedger(k, s), WindowDuration = MinuteLength, NEW y \in Nat
  PROVE  OneSide(s.context, MinuteFloor(y))
<1> SUFFICES ASSUME NEW i \in DOMAIN s.context, NEW j \in DOMAIN s.context,
                    s.context[i].time < MinuteFloor(y)
             PROVE  s.context[j].time < MinuteFloor(y)
  BY DEF OneSide
<1>1. s.context # << >> /\ WindowDuration # 0
  BY MinuteAssumption
<1>2. PICK x \in Nat : s.win = WindowAt(x)
  BY <1>1, ContextWindow
<1>3. \A l \in DOMAIN s.context : s.context[l] \in Trade /\ InWindow(WindowAt(x), s.context[l])
  BY <1>1, <1>2, ContextWindow
<1> QED BY <1>3, WindowSide

\* Trades on one side, of which the last is not older, or there is none.
LEMMA NothingOlder ==
  ASSUME NEW trades \in Seq(Trade), NEW b \in Nat, OneSide(trades, b),
         ~HasPendingBefore(trades, b)
  PROVE  Older(trades, b) = {}
<1>1. /\ DOMAIN trades = 1 .. Len(trades)
      /\ trades # << >> => Len(trades) \in DOMAIN trades
      /\ trades = << >> => DOMAIN trades = {}
  BY SeqFacts
<1> QED BY <1>1 DEF Older, OneSide, HasPendingBefore

\* Trades on one side, of which the last is older: nothing has to be kept.
LEMMA NothingLater ==
  ASSUME NEW trades \in Seq(Trade), NEW b \in Nat, OneSide(trades, b),
         HasPendingBefore(trades, b), NEW after
  PROVE  KeepsLater(trades, after, b)
<1>1. Len(trades) \in DOMAIN trades
  BY SeqFacts DEF HasPendingBefore
<1> QED BY <1>1 DEF Older, OneSide, HasPendingBefore, KeepsLater

LEMMA KeepsAll ==
  ASSUME NEW trades, NEW b PROVE KeepsLater(trades, trades, b)
BY DEF KeepsLater

LEMMA KeepsOn ==
  ASSUME NEW trades, NEW b, NEW middle, KeepsLater(trades, middle, b),
         NEW after, KeepsLater(middle, after, b)
  PROVE  KeepsLater(trades, after, b)
<1> SUFFICES ASSUME NEW i \in DOMAIN trades \ Older(trades, b)
             PROVE  \E l \in DOMAIN after : after[l] = trades[i]
  BY DEF KeepsLater
<1>1. PICK j \in DOMAIN middle : middle[j] = trades[i]
  BY DEF KeepsLater
<1>2. j \notin Older(middle, b)
  BY <1>1 DEF Older
<1> QED BY <1>1, <1>2 DEF KeepsLater

\* An aggregate older than the boundary takes nothing along that is not.
LEMMA SignificantAddKeepsLater ==
  ASSUME NEW k \in Keys, NEW s, KeyLedger(k, s), WindowDuration = MinuteLength,
         NEW y \in Nat, NEW b, b = MinuteFloor(y), NEW a \in Trade, a.time < b
  PROVE  KeepsLater(s.context, SignificantAdd(k, s.context, s.win, a).pending, b)
<1> DEFINE context == s.context
           r == SignificantAdd(k, context, s.win, a)
<1>1. context \in Seq(Trade) /\ WindowDuration # 0 /\ b \in Nat /\ a.time \in Nat
  BY MinuteAssumption, MinuteFloorBounds DEF KeyLedger, KeyInv, ContextInv, Trade
<1>2. CASE context = << >>
  BY <1>2 DEF KeepsLater
<1>3. CASE context # << >>
  <2>1. /\ s.win # NoWindow
        /\ \A i \in DOMAIN context : context[i] \in Trade /\ InWindow(s.win, context[i])
    BY <1>1, <1>3, ContextWindow
  <2>2. PICK x \in Nat : s.win = WindowAt(x)
    BY <1>1, <1>3, ContextWindow
  <2>3. s.win.start \in Nat /\ s.win.stop \in Nat
    BY <2>2, WindowFacts, WindowAssumption
  <2>4. ASSUME \A i \in DOMAIN context : context[i].time < b, NEW after
        PROVE  KeepsLater(context, after, b)
    BY <2>4 DEF KeepsLater, Older
  <2>5. CASE a.time < s.win.start
    <3>1. r.pending = context
      BY <1>1, <2>1, <2>5 DEF SignificantAdd
    <3> QED BY <3>1, KeepsAll
  <2>6. CASE ~(a.time < s.win.start) /\ a.time >= s.win.stop
    <3>1. \A i \in DOMAIN context : context[i].time \in Nat /\ context[i].time < s.win.stop
      BY <2>1 DEF InWindow, Trade
    <3>2. \A i \in DOMAIN context : context[i].time < b
      BY <1>1, <2>3, <2>6, <3>1
    <3> QED BY <2>4, <3>2
  <2>7. CASE ~(a.time < s.win.start) /\ ~(a.time >= s.win.stop)
    <3>1. r = SignificantTradeOrTick(k, context, s.win, a)
      BY <1>1, <2>1, <2>7 DEF SignificantAdd
    <3>2. CASE IsSignificant(k, a)
      <4>1. InWindow(s.win, a)
        BY <1>1, <2>3, <2>7 DEF InWindow
      <4>2. \A i \in DOMAIN context : context[i].time < b
        BY <2>1, <2>2, <4>1, WindowSide
      <4> QED BY <2>4, <4>2
    <3>3. CASE ~IsSignificant(k, a)
      <4> DEFINE longer == Append(context, a)
      <4>1. r.pending = longer
        BY <3>1, <3>3 DEF SignificantTradeOrTick
      <4>2. \A i \in DOMAIN context : i \in DOMAIN longer /\ longer[i] = context[i]
        BY <1>1, AppendFacts
      <4>3. KeepsLater(context, longer, b)
        <5> HIDE DEF longer
        <5> QED BY <4>2 DEF KeepsLater
      <4> QED BY <4>1, <4>3
    <3> QED BY <3>2, <3>3
  <2> QED BY <2>5, <2>6, <2>7
<1> QED BY <1>2, <1>3

\* What a flush of one key that returns without an error has done.
FlushedState(s, t, b) ==
  /\ Older(t.pending, b) = {} /\ Older(t.context, b) = {}
  /\ KeepsLater(s.pending, t.pending, b) /\ KeepsLater(s.context, t.context, b)

LEMMA FlushBeforeExact ==
  ASSUME NEW k \in Keys, NEW s, KeyLedger(k, s), ~SignificantOn => s.context = << >>,
         WindowDuration = MinuteLength, NEW y \in Nat, NEW b, b = MinuteFloor(y),
         NEW o \in FlushBeforeOutcomes(k, s, b), o.ok
  PROVE  FlushedState(s, o.state, b)
<1> DEFINE first == IF HasPendingBefore(s.pending, b)
                      THEN FlushAggregatedKey(k, s) ELSE {Outcome(s, TRUE)}
<1>1. PICK p \in first :
        o \in IF p.ok
                THEN IF SignificantOn /\ HasPendingBefore(p.state.context, b)
                       THEN FlushSignificantKey(k, p.state)
                       ELSE {Outcome(p.state, TRUE)}
                ELSE {p}
  BY DEF FlushBeforeOutcomes, OnSuccess
<1>2. /\ b \in Nat /\ s \in KeyState /\ LatestSample(s) /\ Raw(s.handled) /\ KeyInv(k, s)
      /\ s.pending \in Seq(Trade) /\ s.context \in Seq(Trade)
  BY MinuteFloorBounds DEF KeyLedger, KeyInv, KeyState, AggregatedInv
<1>3. OneSide(s.pending, b)
  BY <1>2 DEF OneSide, LatestSample, SameSample
<1>4. /\ KeyLedger(k, p.state) /\ (~SignificantOn => p.state.context = << >>)
      /\ Older(p.state.pending, b) = {} /\ KeepsLater(s.pending, p.state.pending, b)
      /\ KeepsLater(s.context, p.state.context, b)
  <2>1. CASE ~HasPendingBefore(s.pending, b)
    <3>1. p.state = s
      BY <1>1, <2>1 DEF Outcome
    <3> QED BY <1>2, <1>3, <2>1, <3>1, NothingOlder, KeepsAll
  <2>2. CASE HasPendingBefore(s.pending, b)
    <3> DEFINE a == AggregateTrades(s.pending)
    <3>1. p \in FlushAggregatedKey(k, s) /\ s.pending # << >>
      BY <1>1, <2>2 DEF HasPendingBefore
    <3>2. KeyLedger(k, p.state) /\ (~SignificantOn => p.state.context = << >>)
      BY <1>2, <3>1, FlushAggregatedKeyKeeps, SignificantOff
    <3>3. p.state.pending = << >> /\ a \in Trade
      BY <1>2, <3>1, FlushAggregatedKeyStep
    <3>4. PICK t : Emptied(s, t) /\ SignificantStep(k, t, a, p.state)
      BY <1>2, <3>1, FlushAggregatedKeyStep
    <3>5. a.time < b
      BY <2>2 DEF AggregateTrades, HasPendingBefore
    <3> HIDE DEF a
    <3>6. KeepsLater(s.context, SignificantAdd(k, s.context, s.win, a).pending, b)
      BY <3>3, <3>5, SignificantAddKeepsLater
    <3>7. KeepsLater(s.context, p.state.context, b)
      <4>1. \/ p.state.context = s.context
            \/ p.state.context = SignificantAdd(k, s.context, s.win, a).pending
        BY <3>4 DEF Emptied, SignificantStep
      <4> QED BY <3>6, <4>1, KeepsAll
    <3>8. Older(p.state.pending, b) = {}
      BY <3>3 DEF Older
    <3> QED BY <1>2, <1>3, <2>2, <3>2, <3>7, <3>8, NothingLater
  <2> QED BY <2>1, <2>2
<1>5. p.state.context \in Seq(Trade) /\ KeyInv(k, p.state) /\ OneSide(p.state.context, b)
  BY <1>4, ContextSide DEF KeyLedger, KeyInv, ContextInv
<1>6. p.ok
  BY <1>1
<1>7. CASE SignificantOn /\ HasPendingBefore(p.state.context, b)
  <2>1. o \in FlushSignificantKey(k, p.state)
    BY <1>1, <1>6, <1>7
  <2>2. o.state.context = << >> /\ o.state.pending = p.state.pending
    BY <1>5, <2>1, FlushSignificantKeyStep DEF Upstream
  <2>3. Older(o.state.context, b) = {}
    BY <2>2 DEF Older
  <2>4. KeepsLater(p.state.context, o.state.context, b)
    BY <1>2, <1>5, <1>7, NothingLater
  <2>5. KeepsLater(s.context, o.state.context, b)
    BY <1>4, <2>4, KeepsOn
  <2> QED BY <1>4, <2>2, <2>3, <2>5 DEF FlushedState
<1>8. CASE ~(SignificantOn /\ HasPendingBefore(p.state.context, b))
  <2>1. o.state = p.state
    BY <1>1, <1>6, <1>8 DEF Outcome
  <2>2. Older(p.state.context, b) = {}
    <3>1. ~HasPendingBefore(p.state.context, b)
      BY <1>4, <1>8 DEF HasPendingBefore
    <3> QED BY <1>2, <1>5, <3>1, NothingOlder
  <2> QED BY <1>4, <2>1, <2>2 DEF FlushedState
<1> QED BY <1>7, <1>8

\* A FlushBefore that succeeds leaves nothing older than its minute and takes
\* nothing of that minute or later, for any keys, thresholds and bounds
\* (pipeline.go:115).
THEOREM FlushesExact == Spec => FlushesAreExact
<1> DEFINE Exactly ==
             failures' = failures =>
               \A k \in Keys, time \in 0 .. MaxTime :
                 FlushBefore(k, time) /\ WindowDuration = MinuteLength =>
                   FlushedBefore(k, MinuteFloor(time))
<1>1. ASSUME LedgerInv, [Next]_vars, failures' = failures PROVE Exactly
  <2>0. /\ \A k \in Keys : KeyLedger(k, pipe[k]) /\ (~SignificantOn => pipe[k].context = << >>)
        /\ DOMAIN pipe = Keys /\ failures \in Nat
    BY <1>1 DEF LedgerInv, IInv
  <2>1. ASSUME NEW k, NEW o, Settle(k, o) PROVE o.ok
    BY <1>1, <2>0, <2>1 DEF Settle
  <2>2. ASSUME NEW k \in Keys, NEW time \in 0 .. MaxTime,
               FlushBefore(k, time), WindowDuration = MinuteLength
        PROVE  FlushedBefore(k, MinuteFloor(time))
    <3>1. PICK o \in FlushBeforeOutcomes(k, pipe[k], MinuteFloor(time)) : Settle(k, o)
      BY <2>2 DEF FlushBefore
    <3>2. time \in Nat
      BY InputAssumption
    <3>3. FlushedState(pipe[k], o.state, MinuteFloor(time))
      BY <2>0, <2>1, <2>2, <3>1, <3>2, FlushBeforeExact
    <3>4. pipe'[k] = o.state
      BY <2>0, <3>1 DEF Settle
    <3> QED BY <3>3, <3>4 DEF FlushedState, FlushedBefore
  <2> QED BY <2>2
<1>2. LedgerInv /\ [Next]_vars => [Exactly]_vars
  BY <1>1
<1> QED BY <1>2, LedgerInvariance, PTL DEF Spec, FlushesAreExact
=============================================================================
