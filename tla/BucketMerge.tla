----------------------------- MODULE BucketMerge -----------------------------
(***************************************************************************)
(* How trades of one (exchange, symbol, minute) bucket are put together    *)
(* (websocket_data_merge.go): in memory one at a time, then with what was  *)
(* detached earlier, then with the row the database already has.           *)
(*                                                                         *)
(* An event is a trade of the bucket's raw or aggregated stream:           *)
(*   uid     UID; numbers stand for sortable ids                           *)
(*   time    Timestamp and Nanoseconds                                     *)
(*   rule    TickRule                                                      *)
(*   volume  Volume                                                        *)
(*   ticks   Ticks, the number of trades it stands for                     *)
(*   parts   the uids of those trades (ghost)                              *)
(* Trades without a UID, which are never duplicates, are left out: every   *)
(* adapter sets one.                                                       *)
(***************************************************************************)
EXTENDS Integers, Sequences, FiniteSetsExt

CONSTANT
  Venue   \* "numeric": ids sort; "opaque": ids do not; "bitfinex": raw
          \* trades are sorted by id alone

ASSUME VenueAssumption == Venue \in {"numeric", "opaque", "bitfinex"}

Events == [uid : Nat, time : Nat, rule : {-1, 1}, volume : Nat, ticks : Nat,
           parts : SUBSET Nat]

\* webSocketDataTradeLess.
Less(stream, left, right) ==
  IF Venue = "bitfinex" /\ stream = "raw" THEN left.uid < right.uid
  ELSE \/ left.time < right.time
       \/ left.time = right.time /\ Venue # "opaque" /\ left.uid < right.uid

\* The elements of a finite set in a total order, a set of pairs: an element
\* has as many before it as there are.
Arrange(S, order) ==
  [p \in 1 .. Cardinality(S) |->
     CHOOSE i \in S : Cardinality({j \in S : <<j, i>> \in order}) = p - 1]
Ascending(S) == Arrange(S, {pair \in S \X S : pair[1] < pair[2]})

\* sort.SliceStable: an event goes after those less than it and after those
\* equal to it that come first.
Ahead(stream, events) ==
  {pair \in (DOMAIN events) \X (DOMAIN events) :
     \/ Less(stream, events[pair[1]], events[pair[2]])
     \/ ~Less(stream, events[pair[2]], events[pair[1]]) /\ pair[1] < pair[2]}
StableSort(stream, events) ==
  LET at == Arrange(DOMAIN events, Ahead(stream, events))
  IN  [p \in DOMAIN at |-> events[at[p]]]

\* The first event with each uid keeps its place; among aggregated duplicates
\* the first of those with the most ticks takes that place.
Dedup(stream, events) ==
  LET Same(i)  == {j \in DOMAIN events : events[j].uid = events[i].uid}
      Most(i)  == {j \in Same(i) : \A l \in Same(i) : events[l].ticks <= events[j].ticks}
      at       == Ascending({i \in DOMAIN events : i = Min(Same(i))})
  IN  [n \in DOMAIN at |->
         events[IF stream = "aggregated" THEN Min(Most(at[n])) ELSE at[n]]]

\* canonicalWebSocketDataTrades.
Canonical(stream, events) == StableSort(stream, Dedup(stream, events))

\* mergeWebSocketDataTrades.
Merge(stream, existing, incoming) == Canonical(stream, existing \o incoming)

InsertBefore(place, events, event) ==
  [i \in 1 .. Len(events) + 1 |->
     IF i < place THEN events[i] ELSE IF i = place THEN event ELSE events[i - 1]]

\* insertWebSocketDataTrade, into a list that is sorted: a known raw uid is
\* ignored, a known aggregated one replaced if the event has more ticks.
Insert(stream, events, event) ==
  LET same  == {i \in DOMAIN events : events[i].uid = event.uid}
      after == {i \in DOMAIN events : Less(stream, event, events[i])}
  IN  IF same = {}
        THEN InsertBefore(IF after = {} THEN Len(events) + 1 ELSE Min(after), events, event)
      ELSE IF stream = "aggregated" /\ event.ticks > events[Min(same)].ticks
        THEN StableSort(stream, [events EXCEPT ![Min(same)] = event])
      ELSE events

-----------------------------------------------------------------------------
SameSample(left, right) == left.time = right.time /\ left.rule = right.rule

\* The sum of a function's values, counted as the units they are made of.
Total(amounts) == Cardinality(UNION {{i} \X (1 .. amounts[i]) : i \in DOMAIN amounts})
Volume(events) == Total([i \in DOMAIN events |-> events[i].volume])
Ticks(events) == Total([i \in DOMAIN events |-> events[i].ticks])

\* Faulty: ticks counts the events, not the trades they stand for.
AggregateCountingEvents(events) ==
  [events[Len(events)] EXCEPT
     !.uid    = events[1].uid,
     !.volume = Volume(events),
     !.ticks  = Len(events),
     !.parts  = UNION {events[i].parts : i \in DOMAIN events}]

\* aggregateTrades.
AggregateTrades(events) ==
  LET last == events[Len(events)]
  IN  [last EXCEPT
         !.uid    = events[1].uid,
         !.volume = Volume(events),
         !.ticks  = Ticks(events),
         !.parts  = UNION {events[i].parts : i \in DOMAIN events}]

\* The segments of events that end at the indices in ends.
Segments(events, ends) ==
  LET at == Ascending(ends)
  IN  [n \in DOMAIN at |->
         SubSeq(events, IF n = 1 THEN 1 ELSE at[n - 1] + 1, at[n])]

\* aggregateTradeEvents: each maximal run of one sample becomes one event.
AggregateTradeEvents(events) ==
  LET ends == {i \in DOMAIN events :
                 i = Len(events) \/ ~SameSample(events[i], events[i + 1])}
      runs == Segments(events, ends)
  IN  [n \in DOMAIN runs |-> AggregateTrades(runs[n])]

\* Faulty: what follows the last significant trade is dropped.
FilterWithoutTail(events, threshold) ==
  LET segments == Segments(events, {i \in DOMAIN events : events[i].volume >= threshold})
  IN  [n \in DOMAIN segments |->
         LET last == segments[n][Len(segments[n])]
         IN  [uid |-> last.uid, significant |-> TRUE,
              parts |-> UNION {segments[n][i].parts : i \in DOMAIN segments[n]}]]

\* volumeFilterAggregatedTrades: a segment ends with each event of at least
\* threshold; what is left over is a segment without a significant trade.
FilterTrades(events, threshold) ==
  LET ends == {i \in DOMAIN events :
                 i = Len(events) \/ events[i].volume >= threshold}
      segments == Segments(events, ends)
  IN  [n \in DOMAIN segments |->
         LET last == segments[n][Len(segments[n])]
         IN  [uid |-> last.uid, significant |-> last.volume >= threshold,
              parts |-> UNION {segments[n][i].parts : i \in DOMAIN segments[n]}]]

\* deriveWebSocketDataBucket: on Bitfinex the aggregated events are derived
\* from the raw trades when there are any, elsewhere coalesced.
Derive(bucket, threshold) ==
  LET raw == Canonical("raw", bucket.raw)
      source == IF Venue = "bitfinex" /\ raw # << >> THEN raw
                ELSE Canonical("aggregated", bucket.aggregated)
      aggregated == AggregateTradeEvents(source)
  IN  [raw |-> raw, aggregated |-> aggregated,
       filtered |-> FilterTrades(aggregated, threshold)]
=============================================================================
