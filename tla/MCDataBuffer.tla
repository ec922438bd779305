---------------------------- MODULE MCDataBuffer -----------------------------
(***************************************************************************)
(* DataBuffer for TLC, in one of two scenarios.  "raw" has the constants   *)
(* of the configuration; in "aggregated" it is the aggregated stream that  *)
(* is published, on a venue whose ids sort.  Two units of time make a      *)
(* minute.                                                                 *)
(***************************************************************************)
EXTENDS DataBuffer

CONSTANTS
  Scenarios,
  AmbiguousAggregated,  \* AmbiguousCommits of the second scenario
  MaxAggregated         \* bound: aggregated events published to a bucket

VARIABLE scenario

AggregatedBuffer == INSTANCE DataBuffer
  WITH Venue <- "numeric", Streams <- {"aggregated"},
       AmbiguousCommits <- AmbiguousAggregated, MaxPublished <- MaxAggregated

ASSUME AggregatedAssumption == AggregatedBuffer!BufferAssumption

\* Every trade has volume 1.
MCVolumes == [u \in 1 .. 4 |-> 1]
Event(parts, time) ==
  [uid |-> Min(parts), time |-> time, rule |-> 1, volume |-> Cardinality(parts),
   ticks |-> Cardinality(parts), parts |-> parts]

\* Raw: two trades of one instant, a later one of the same minute, and one of
\* the next minute.  Aggregated: trades 1, 3 and 4 are one sample, in the middle
\* of which trade 2 may arrive, of a later instant; trades 3 and 4 may be
\* aggregated together; two trades together are significant.
MCTrades ==
  [raw |-> {Event({1}, 0), Event({2}, 0), Event({3}, 1), Event({4}, 2)},
   aggregated |->
     {Event({1}, 0), Event({2}, 1), Event({3}, 0), Event({4}, 0), Event({3, 4}, 0)}]

\* Each trade aggregated by itself.
MCSingleTrades ==
  [MCTrades EXCEPT !.aggregated = {t \in @ : t.ticks = 1}]

MCInit == Init /\ scenario \in Scenarios
MCNext ==
  /\ \/ scenario = "raw" /\ Next
     \/ scenario = "aggregated" /\ AggregatedBuffer!Next
  /\ UNCHANGED scenario
MCSpec == MCInit /\ [][MCNext]_<<vars, scenario>>
=============================================================================
