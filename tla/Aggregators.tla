----------------------------- MODULE Aggregators -----------------------------
(***************************************************************************)
(* The two aggregators of quanttick as functions of one key's state: the   *)
(* TradeAggregator (trade_aggregator.go), which merges consecutive trades  *)
(* of one sample, and the SignificantTradeAggregator                       *)
(* (significant_aggregator.go), which cuts the aggregated stream into      *)
(* ticks that end with a significant trade or with their minute window.    *)
(*                                                                         *)
(* A key is an (exchange, symbol) pair.  A trade is abstracted to the data *)
(* the control flow looks at:                                              *)
(*   uid     its position in the stream of its key (the code's UID)        *)
(*   upto    the position of the last raw trade merged into it (ghost; a   *)
(*           raw trade has upto = uid)                                     *)
(*   time    Timestamp and Nanoseconds, in abstract units, MinuteLength of *)
(*           them to a minute                                              *)
(*   rule    TickRule                                                      *)
(*   volume  Volume                                                        *)
(* Price, notional, ticks and IsSequential are sums, extrema or            *)
(* conjunctions computed like volume and are left out.                     *)
(***************************************************************************)
EXTENDS Integers, Sequences, FiniteSets

CONSTANTS
  Keys,            \* the (exchange, symbol) pairs, numbered in string order
  MinuteLength,    \* units of time in a minute
  WindowDuration,  \* the significant window; 0 when windows are disabled
  Threshold,       \* the significant threshold of each key
  Rules            \* the tick rules

ASSUME KeysAssumption == Keys \subseteq Nat
ASSUME MinuteAssumption == MinuteLength \in Nat \ {0}
ASSUME WindowAssumption ==
  WindowDuration \in Nat /\ (WindowDuration = 0 \/ WindowDuration >= MinuteLength)
ASSUME ThresholdAssumption == Threshold \in [Keys -> Nat]

-----------------------------------------------------------------------------
(***************************************************************************)
(* TradeAggregator.                                                        *)
(***************************************************************************)

Trade == [uid : Nat, upto : Nat, time : Nat, rule : Rules, volume : Nat]

\* Truncation of a timestamp to its minute (time.Truncate, time.Date).
MinuteFloor(time) == time - (time % MinuteLength)

\* Trades of one key are one sample when time and tick rule agree.
SameSample(left, right) == left.time = right.time /\ left.rule = right.rule

\* The sum of the volumes, counted as the units of volume the trades carry.
TotalVolume(trades) ==
  Cardinality(UNION {{i} \X (1 .. trades[i].volume) : i \in DOMAIN trades})

\* Faulty: the volume of the last trade only.
AggregateLastVolume(trades) ==
  [trades[Len(trades)] EXCEPT !.uid = trades[1].uid]

\* One trade standing for a non-empty sequence of trades of one sample: the
\* last trade, with the first one's UID and the total volume.
AggregateTrades(trades) ==
  LET first == trades[1]
      last  == trades[Len(trades)]
  IN  [uid |-> first.uid, upto |-> last.upto, time |-> last.time,
       rule |-> last.rule, volume |-> TotalVolume(trades)]

\* Faulty: only the time makes a sample.
AddIgnoringRule(pending, trade) ==
  IF pending # << >> /\ pending[Len(pending)].time = trade.time
    THEN [pending |-> Append(pending, trade), out |-> << >>]
  ELSE [pending |-> <<trade>>,
        out |-> IF pending = << >> THEN << >> ELSE <<AggregateTrades(pending)>>]

\* TradeAggregator.Add: what is pending after trade, and the aggregates it
\* completes (at most one).
Add(pending, trade) ==
  IF pending = << >>
    THEN [pending |-> <<trade>>, out |-> << >>]
  ELSE IF SameSample(pending[Len(pending)], trade)
    THEN [pending |-> Append(pending, trade), out |-> << >>]
  ELSE [pending |-> <<trade>>, out |-> <<AggregateTrades(pending)>>]

-----------------------------------------------------------------------------
(***************************************************************************)
(* SignificantTradeAggregator.                                             *)
(***************************************************************************)

NoWindow == [start |-> -1, stop |-> -1]

\* Faulty: the timestamp is not truncated to its minute.
WindowAtTrade(time) == [start |-> time, stop |-> time + WindowDuration]

\* setWindow: from the minute of the trade, for WindowDuration.
WindowAt(time) ==
  [start |-> MinuteFloor(time), stop |-> MinuteFloor(time) + WindowDuration]

IsSignificant(k, trade) == trade.volume >= Threshold[k]

\* aggregate: the tick keeps the trades it totals; its UID and its
\* non-null Volume come from the significant trade among them, if any.
Tick(k, trades, late) ==
  LET significant == {i \in DOMAIN trades : IsSignificant(k, trades[i])}
      base == IF significant = {} THEN trades[Len(trades)]
              ELSE trades[CHOOSE i \in significant : TRUE]
  IN  [uid |-> base.uid, significant |-> significant # {},
       trades |-> trades, late |-> late]

\* getTick: the tick of everything pending, if anything is.
GetTick(k, trades) ==
  IF trades = << >> THEN << >> ELSE <<Tick(k, trades, FALSE)>>

\* Faulty: a volume equal to the threshold does not close the tick.
StrictSignificantTradeOrTick(k, pending, win, trade) ==
  LET trades == Append(pending, trade)
  IN  IF trade.volume > Threshold[k]
        THEN [pending |-> << >>, win |-> win, ticks |-> GetTick(k, trades)]
        ELSE [pending |-> trades, win |-> win, ticks |-> << >>]

\* getSignificantTradeOrTick: a significant trade closes the pending tick.
SignificantTradeOrTick(k, pending, win, trade) ==
  LET trades == Append(pending, trade)
  IN  IF IsSignificant(k, trade)
        THEN [pending |-> << >>, win |-> win, ticks |-> GetTick(k, trades)]
        ELSE [pending |-> trades, win |-> win, ticks |-> << >>]

\* Faulty: the pending trades move on to the next window.
NextWindowKeepsPending(k, pending, trade) ==
  SignificantTradeOrTick(k, pending, WindowAt(trade.time), trade)

\* A trade at or after the window's stop: the pending tick is closed first,
\* the trade opens its own window, and closes its own tick if significant.
NextWindow(k, pending, trade) ==
  LET next == SignificantTradeOrTick(k, << >>, WindowAt(trade.time), trade)
  IN  [next EXCEPT !.ticks = GetTick(k, pending) \o next.ticks]

\* Faulty: no test for trades older than the window.
SignificantAddWithoutLate(k, pending, win, trade) ==
  LET w == IF win = NoWindow THEN WindowAt(trade.time) ELSE win
  IN  IF WindowDuration # 0 /\ trade.time >= w.stop
        THEN NextWindow(k, pending, trade)
        ELSE SignificantTradeOrTick(k, pending, w, trade)

\* SignificantTradeAggregator.Add.  A trade older than the window is a tick
\* of its own, marked late, and leaves the pending trades alone.
SignificantAdd(k, pending, win, trade) ==
  LET w == IF win = NoWindow THEN WindowAt(trade.time) ELSE win
  IN  IF WindowDuration = 0
        THEN SignificantTradeOrTick(k, pending, win, trade)
      ELSE IF trade.time < w.start
        THEN [pending |-> pending, win |-> w,
              ticks |-> <<Tick(k, <<trade>>, TRUE)>>]
      ELSE IF trade.time >= w.stop
        THEN NextWindow(k, pending, trade)
      ELSE SignificantTradeOrTick(k, pending, w, trade)
=============================================================================
