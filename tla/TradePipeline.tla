---------------------------- MODULE TradePipeline ----------------------------
(***************************************************************************)
(* TradePipeline (pipeline.go): trades go through the TradeAggregator and  *)
(* the SignificantTradeAggregator to the publishers, and any Publish may   *)
(* be refused.  Calls are serialized (pipeline.go:29), so every call is    *)
(* one step; only Flush, a loop over the keys that have something pending, *)
(* takes one step per key, with no other call in between.                  *)
(*                                                                         *)
(* Keys do not share state: pipe[k] is all the pipeline holds for key k,   *)
(* what it has published for it, and three ghosts:                         *)
(*   handled   the trades that reached the aggregator, in order            *)
(*   aggLost, sigLost   the positions in handled of trades that a refused  *)
(*             Publish dropped from the aggregated, the significant stream *)
(*   cuts      the last positions of the aggregates closed by a flush      *)
(***************************************************************************)
EXTENDS Aggregators

CONSTANTS
  AggregatedOn,    \* an AggregatedPublisher is configured
  SignificantOn,   \* a SignificantPublisher is configured
  Batch,           \* the SignificantPublisher is a BatchPublisher
  Volumes,         \* volumes of the trades handled
  MaxTime,         \* bound: timestamps are 0 .. MaxTime
  MaxTrades,       \* bound: trades handled per key
  MaxFailures      \* bound: refused publications

ASSUME StreamsAssumption ==
  /\ AggregatedOn \in BOOLEAN /\ SignificantOn \in BOOLEAN /\ Batch \in BOOLEAN
  /\ AggregatedOn \/ SignificantOn
ASSUME InputAssumption ==
  Volumes \subseteq Nat /\ MaxTime \in Nat /\ MaxTrades \in Nat /\ MaxFailures \in Nat

VARIABLES
  pipe,       \* per key: the aggregators' state and the published streams
  flushing,   \* where Flush is: "idle", "aggregated", "significant"
  failures    \* refused publications so far

vars == <<pipe, flushing, failures>>

EmptyKey ==
  [pending |-> << >>, context |-> << >>, win |-> NoWindow,
   aggregated |-> << >>, significant |-> << >>,
   handled |-> << >>, aggLost |-> {}, sigLost |-> {}, cuts |-> {}]

-----------------------------------------------------------------------------
(***************************************************************************)
(* What a call may make of one key's state: a set of outcomes, of which    *)
(* those with ok = FALSE return the publisher's error to the caller.       *)
(***************************************************************************)
Outcome(s, ok) == [state |-> s, ok |-> ok]

\* The step after an "if err != nil { return err }".
OnSuccess(outcomes, Continue(_)) ==
  UNION {IF o.ok THEN Continue(o.state) ELSE {o} : o \in outcomes}

\* The positions in handled that a trade, or a sequence of trades, stands for.
Parts(trade) == trade.uid .. trade.upto
PartsOf(trades) == UNION {Parts(trades[i]) : i \in DOMAIN trades}

PublishAggregated(s, trade) ==
  IF ~AggregatedOn THEN {Outcome(s, TRUE)}
  ELSE {Outcome([s EXCEPT !.aggregated = Append(@, trade)], TRUE),
        Outcome([s EXCEPT !.aggLost = @ \cup Parts(trade),
                          !.sigLost = @ \cup Parts(trade)], FALSE)}

\* The first n ticks are published; the rest, if any, is dropped.
PublishedTicks(s, ticks, n) ==
  [s EXCEPT !.significant = @ \o SubSeq(ticks, 1, n),
            !.sigLost = @ \cup UNION {PartsOf(ticks[i].trades) : i \in n+1 .. Len(ticks)}]

\* One by one, or all or none when batched.
PublishTicks(s, ticks, batch) ==
  LET published == IF batch THEN {0, Len(ticks)} ELSE 0 .. Len(ticks)
  IN  {Outcome(PublishedTicks(s, ticks, n), n = Len(ticks)) : n \in published}

AddSignificant(k, s, trade, batch) ==
  LET r == SignificantAdd(k, s.context, s.win, trade)
  IN  PublishTicks([s EXCEPT !.context = r.pending, !.win = r.win], r.ticks, batch)

\* An aggregate leaves the TradeAggregator.
Deliver(k, s, trade, batch) ==
  LET Significant(s1) == IF SignificantOn THEN AddSignificant(k, s1, trade, batch)
                         ELSE {Outcome(s1, TRUE)}
  IN  OnSuccess(PublishAggregated(s, trade), Significant)

HandleOutcomes(k, s, trade) ==
  LET r  == Add(s.pending, trade)
      s1 == [s EXCEPT !.pending = r.pending, !.handled = Append(@, trade)]
  IN  IF r.out = << >> THEN {Outcome(s1, TRUE)}
      ELSE Deliver(k, s1, r.out[1], FALSE)

\* Faulty: the pending trades stay when they have been flushed.
FlushKeepsPending(k, s) ==
  IF s.pending = << >> THEN {Outcome(s, TRUE)}
  ELSE Deliver(k, s, AggregateTrades(s.pending), Batch)

\* flushAggregatedTradeKey: the pending trades are gone before they are
\* published.
FlushAggregatedKey(k, s) ==
  IF s.pending = << >> THEN {Outcome(s, TRUE)}
  ELSE Deliver(k,
               [s EXCEPT !.pending = << >>,
                         !.cuts = @ \cup {s.pending[Len(s.pending)].upto}],
               AggregateTrades(s.pending),
               Batch)

FlushSignificantKey(k, s) ==
  PublishTicks([s EXCEPT !.context = << >>], GetTick(k, s.context), Batch)

\* Faulty: the boundary itself counts as older.
HasPendingUpTo(trades, boundary) ==
  trades # << >> /\ trades[Len(trades)].time <= boundary

HasPendingBefore(trades, boundary) ==
  trades # << >> /\ trades[Len(trades)].time < boundary

FlushBeforeOutcomes(k, s, boundary) ==
  LET Significant(s1) ==
        IF SignificantOn /\ HasPendingBefore(s1.context, boundary)
          THEN FlushSignificantKey(k, s1) ELSE {Outcome(s1, TRUE)}
  IN  OnSuccess(IF HasPendingBefore(s.pending, boundary)
                  THEN FlushAggregatedKey(k, s) ELSE {Outcome(s, TRUE)},
                Significant)

-----------------------------------------------------------------------------
(***************************************************************************)
(* The calls.                                                              *)
(***************************************************************************)
Init ==
  /\ pipe = [k \in Keys |-> EmptyKey]
  /\ flushing = "idle"
  /\ failures = 0

\* The call ends in one of the outcomes.
Settle(k, outcome) ==
  /\ pipe' = [pipe EXCEPT ![k] = outcome.state]
  /\ failures' = failures + IF outcome.ok THEN 0 ELSE 1
  /\ failures' <= MaxFailures

\* Handle returns before the aggregator when the raw publisher refuses.
HandleRawRefused ==
  /\ flushing = "idle" /\ failures < MaxFailures
  /\ failures' = failures + 1
  /\ UNCHANGED <<pipe, flushing>>

Handle(k, time, rule, volume) ==
  LET uid == Len(pipe[k].handled) + 1
      trade == [uid |-> uid, upto |-> uid, time |-> time, rule |-> rule, volume |-> volume]
  IN  /\ flushing = "idle" /\ uid <= MaxTrades
      /\ \E o \in HandleOutcomes(k, pipe[k], trade) : Settle(k, o)
      /\ UNCHANGED flushing

FlushBefore(k, time) ==
  /\ flushing = "idle"
  /\ \E o \in FlushBeforeOutcomes(k, pipe[k], MinuteFloor(time)) : Settle(k, o)
  /\ UNCHANGED flushing

\* pendingKeys: the keys Flush has left to do, in order.
NextPending(k, Pending(_)) ==
  /\ Pending(k) # << >>
  /\ \A j \in Keys : j < k => Pending(j) = << >>

StartFlush ==
  /\ flushing = "idle"
  /\ flushing' = "aggregated"
  /\ UNCHANGED <<pipe, failures>>

\* Flush returns at the first error.
FlushKey(k, outcomes) ==
  \E o \in outcomes :
    /\ Settle(k, o)
    /\ flushing' = IF o.ok THEN flushing ELSE "idle"

FlushAggregated(k) ==
  /\ flushing = "aggregated"
  /\ NextPending(k, LAMBDA j : pipe[j].pending)
  /\ FlushKey(k, FlushAggregatedKey(k, pipe[k]))

FlushAggregatedDone ==
  /\ flushing = "aggregated"
  /\ \A k \in Keys : pipe[k].pending = << >>
  /\ flushing' = IF SignificantOn THEN "significant" ELSE "idle"
  /\ UNCHANGED <<pipe, failures>>

FlushSignificant(k) ==
  /\ flushing = "significant"
  /\ NextPending(k, LAMBDA j : pipe[j].context)
  /\ FlushKey(k, FlushSignificantKey(k, pipe[k]))

FlushDone ==
  /\ flushing = "significant"
  /\ \A k \in Keys : pipe[k].context = << >>
  /\ flushing' = "idle"
  /\ UNCHANGED <<pipe, failures>>

Next ==
  \/ HandleRawRefused
  \/ \E k \in Keys, time \in 0 .. MaxTime, rule \in Rules, volume \in Volumes :
       Handle(k, time, rule, volume)
  \/ \E k \in Keys, time \in 0 .. MaxTime : FlushBefore(k, time)
  \/ StartFlush
  \/ \E k \in Keys : FlushAggregated(k)
  \/ FlushAggregatedDone
  \/ \E k \in Keys : FlushSignificant(k)
  \/ FlushDone

Spec == Init /\ [][Next]_vars

-----------------------------------------------------------------------------
(***************************************************************************)
(* Properties.  The predicates on s are about one key's state.             *)
(***************************************************************************)
Window == [start : Int, stop : Int]
SignificantTrade ==
  [uid : Nat, significant : BOOLEAN, trades : Seq(Trade), late : BOOLEAN]

KeyState ==
  [pending : Seq(Trade), context : Seq(Trade), win : Window,
   aggregated : Seq(Trade), significant : Seq(SignificantTrade),
   handled : Seq(Trade), aggLost : SUBSET Nat, sigLost : SUBSET Nat,
   cuts : SUBSET Nat]

\* The type invariant.  A key's window, once it has one, is WindowDuration from
\* a whole minute on, so that windows never overlap in part.
WholeMinutes(win) ==
  win # NoWindow =>
    /\ win.start % MinuteLength = 0
    /\ win.stop = win.start + WindowDuration
TypeOK ==
  /\ pipe \in [Keys -> KeyState]
  /\ WindowDuration # 0 => \A k \in Keys : WholeMinutes(pipe[k].win)
  /\ flushing \in {"idle", "aggregated", "significant"}
  /\ failures \in Nat

\* The trades pending in the TradeAggregator of a key are its latest ones and
\* all of one sample, so that the "trade sample mismatch" error of
\* aggregateTrades, which would stop the collector, cannot occur.
LatestSample(s) ==
  LET before == Len(s.handled) - Len(s.pending)
  IN  /\ before >= 0
      /\ \A i \in DOMAIN s.pending : s.pending[i] = s.handled[before + i]
      /\ \A i, j \in DOMAIN s.pending : SameSample(s.pending[i], s.pending[j])
PendingIsLatestSample == \A k \in Keys : LatestSample(pipe[k])

\* Nothing significant waits in the SignificantTradeAggregator, so that the
\* "more than one significant trade" error of aggregate cannot occur.
NothingSignificantWaits ==
  \A k \in Keys : \A i \in DOMAIN pipe[k].context :
    ~IsSignificant(k, pipe[k].context[i])

\* With windows on, whatever waits in the SignificantTradeAggregator lies in
\* the key's current window, however late or early trades arrive.
InWindow(win, trade) == win.start <= trade.time /\ trade.time < win.stop
ContextInWindow ==
  WindowDuration # 0 =>
    \A k \in Keys : \A i \in DOMAIN pipe[k].context :
      InWindow(pipe[k].win, pipe[k].context[i])

\* An aggregated event stands for the consecutive trades from its uid to its
\* last one, has their sample and their total volume, and starts after the
\* previous event: no trade is aggregated twice or out of order, whatever
\* publications fail and whenever the key is flushed.  And they are maximal:
\* events that follow each other directly are different samples unless a flush
\* closed the first one early.
ExactAggregate(s, a) ==
  /\ a.uid <= a.upto /\ a.upto <= Len(s.handled)
  /\ \A u \in Parts(a) : SameSample(s.handled[u], a)
  /\ a.volume = TotalVolume(SubSeq(s.handled, a.uid, a.upto))
AggregatesAreExact ==
  \A k \in Keys : LET agg == pipe[k].aggregated IN
    /\ \A i \in DOMAIN agg : ExactAggregate(pipe[k], agg[i])
    /\ \A i, j \in DOMAIN agg : i < j => agg[i].upto < agg[j].uid
    /\ \A i \in 1 .. Len(agg) - 1 :
         agg[i].upto + 1 = agg[i+1].uid /\ SameSample(agg[i], agg[i+1])
           => agg[i].upto \in pipe[k].cuts

Count(b) == IF b THEN 1 ELSE 0
Aggregated(s, u) ==
  Cardinality({i \in DOMAIN s.aggregated : u \in Parts(s.aggregated[i])})
AggregatedOnce(s, u) ==
  Aggregated(s, u) + Count(u \in PartsOf(s.pending)) + Count(u \in s.aggLost) = 1
InTicks(s, u) ==
  Cardinality({i \in DOMAIN s.significant : u \in PartsOf(s.significant[i].trades)})
InOneTick(s, u) ==
  InTicks(s, u) + Count(u \in PartsOf(s.pending))
    + Count(u \in PartsOf(s.context)) + Count(u \in s.sigLost) = 1

\* Every trade handled is, exactly once, in the aggregated stream, pending, or
\* lost with a publication that was refused; and likewise in one tick, waiting
\* in either aggregator, or lost: a failed call loses what it had in hand and
\* nothing else.
EachTradeOnce ==
  \A k \in Keys : \A u \in DOMAIN pipe[k].handled :
    /\ AggregatedOn => AggregatedOnce(pipe[k], u)
    /\ SignificantOn => InOneTick(pipe[k], u)

\* A tick carries the UID of its last trade, is marked significant exactly
\* when that trade is and no other of its trades is; its trades lie in one
\* window; a late tick is one trade, of an older minute than a trade handled
\* before it.  Ticks that are not late come minute by minute, whatever the order
\* in which the trades came.
WellFormedTick(k, s, tick) ==
  LET n == Len(tick.trades) IN
  /\ n > 0 /\ tick.uid = tick.trades[n].uid
  /\ tick.significant = IsSignificant(k, tick.trades[n])
  /\ \A i \in 1 .. n - 1 : ~IsSignificant(k, tick.trades[i])
  /\ ~tick.late /\ WindowDuration # 0 =>
       \A i, j \in 1 .. n :
         tick.trades[i].time < MinuteFloor(tick.trades[j].time) + WindowDuration
  /\ tick.late =>
       /\ n = 1
       /\ \E u \in 1 .. tick.uid - 1 :
            MinuteFloor(s.handled[u].time) > MinuteFloor(tick.trades[1].time)
TicksAreWellFormed ==
  \A k \in Keys : LET ticks == pipe[k].significant IN
    /\ \A i \in DOMAIN ticks : WellFormedTick(k, pipe[k], ticks[i])
    /\ WindowDuration = MinuteLength => \A i, j \in DOMAIN ticks :
         i < j /\ ~ticks[i].late /\ ~ticks[j].late =>
           MinuteFloor(ticks[i].trades[1].time) <= MinuteFloor(ticks[j].trades[1].time)

\* A FlushBefore that succeeds leaves nothing older than its minute in either
\* aggregator of the key, what it has itself passed on from the one to the other
\* included, and takes nothing from that minute on.
Older(trades, boundary) == {i \in DOMAIN trades : trades[i].time < boundary}
KeepsLater(before, after, boundary) ==
  \A i \in DOMAIN before \ Older(before, boundary) :
    \E j \in DOMAIN after : after[j] = before[i]
FlushedBefore(k, b) ==
  /\ Older(pipe'[k].pending, b) = {} /\ Older(pipe'[k].context, b) = {}
  /\ KeepsLater(pipe[k].pending, pipe'[k].pending, b)
  /\ KeepsLater(pipe[k].context, pipe'[k].context, b)
FlushesAreExact ==
  [][failures' = failures =>
       \A k \in Keys, time \in 0 .. MaxTime :
         FlushBefore(k, time) /\ WindowDuration = MinuteLength =>
           FlushedBefore(k, MinuteFloor(time))]_vars
=============================================================================
