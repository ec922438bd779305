----------------------------- MODULE DataBuffer ------------------------------
(***************************************************************************)
(* WebSocketDataBuffer and WebSocketDataStore: trades published by the     *)
(* pipeline are collected in minute buckets in memory, and flushed to      *)
(* database rows, one per bucket, that a transaction reads, merges and     *)
(* writes back.                                                            *)
(*                                                                         *)
(* A bucket is one minute of one (exchange, symbol); the symbol is fixed,  *)
(* for the buckets of two symbols never touch, and so is its threshold.    *)
(* Two flushers (the flush worker's FlushBefore, and Flush) compete for    *)
(* flushMu; what happens under b.mu is one step; the transaction reads in  *)
(* one step and commits or fails in another.  A commit may be applied      *)
(* although its caller sees an error (the connection or the flush context  *)
(* ends before the answer).                                                *)
(***************************************************************************)
EXTENDS BucketMerge

CONSTANTS
  Streams,           \* the streams that are published: "raw", "aggregated"
  Trades,            \* stream -> the events that may be published to it
  Volumes,           \* trade -> its volume, of the trades that are aggregated
  MinuteLength,      \* units of time in a minute
  Threshold,         \* the significant trade filter
  Flushers,          \* the goroutines that flush
  Retention,         \* minutes a row is kept, one hour in the code
  AmbiguousCommits,  \* a commit may be applied and reported as failed
  MaxPublished,      \* bound: events published to a bucket
  MaxFailures,       \* bound: failed transactions
  MaxCrashes,        \* bound: restarts of the process
  MaxMinute          \* bound: the wall clock's last minute

Minutes == 0 .. MaxMinute
MinuteOf(time) == time \div MinuteLength

NoFlusher == "none"

\* The volume of a set of trades.
PartVolume(parts) == Total([u \in parts |-> Volumes[u]])

ASSUME BufferAssumption ==
  /\ Streams \subseteq {"raw", "aggregated"}
  /\ MinuteLength \in Nat \ {0} /\ Retention \in Nat /\ NoFlusher \notin Flushers
  /\ \A stream \in Streams : \A t \in Trades[stream] :
       t \in Events /\ MinuteOf(t.time) \in Minutes
  /\ \A u \in DOMAIN Volumes : Volumes[u] \in Nat
  \* What the TradeAggregator publishes has the UID of one of its trades, and
  \* counts them and their volume (trade_aggregator.go:58).
  /\ "aggregated" \in Streams => \A t \in Trades.aggregated :
       /\ t.uid \in t.parts /\ IsFiniteSet(t.parts) /\ t.parts \subseteq DOMAIN Volumes
       /\ t.ticks = Cardinality(t.parts) /\ t.volume = PartVolume(t.parts)

VARIABLES
  buckets,     \* b.buckets: minute -> bucket, EmptyBucket when not in the map
  batch,       \* the detached buckets of the flush under way, likewise
  existing,    \* the rows its transaction has read
  flusher,     \* holder of flushMu, or NoFlusher
  step,        \* of the holder: "detached", "read", "failed"; else "idle"
  rows,        \* the database: minute -> row, EmptyRow when there is none
  clock,       \* the wall clock's minute
  accepted,    \* ghost: minute -> what Publish has accepted, in order
  replayed,    \* ghost: the minutes that were given an aggregated trade twice
  failures, crashes

bufferVars == <<buckets, batch>>
flushVars == <<existing, flusher, step>>
ghosts == <<accepted, replayed>>
vars == <<bufferVars, flushVars, rows, clock, ghosts, failures, crashes>>

UidsOf(events) == {events[i].uid : i \in DOMAIN events}
PartsOf(events) == UNION {events[i].parts : i \in DOMAIN events}

EmptyBucket == [raw |-> << >>, aggregated |-> << >>]
EmptyRow == [raw |-> << >>, aggregated |-> << >>, filtered |-> << >>]
NoBuckets == [m \in Minutes |-> EmptyBucket]
NoRows == [m \in Minutes |-> EmptyRow]

Init ==
  /\ buckets = NoBuckets /\ batch = NoBuckets
  /\ existing = NoRows /\ flusher = NoFlusher /\ step = "idle"
  /\ rows = NoRows
  /\ clock = 0
  /\ accepted = NoBuckets /\ replayed = {}
  /\ failures = 0 /\ crashes = 0

-----------------------------------------------------------------------------
\* The bucket holds an event with the same UID that stands for the same trades,
\* and maybe for more: what is published again is recognised.
Recognised(m, event) ==
  \E i \in DOMAIN buckets[m].aggregated :
    LET held == buckets[m].aggregated[i]
    IN  held.uid = event.uid /\ event.parts \subseteq held.parts

\* An aggregated event with a trade of another one that was accepted or is
\* stored.  One process aggregates a trade once (TradePipeline, EachTradeOnce)
\* as long as its adapters emit it once; a new process, and an adapter whose
\* ring of seen ids is too small, aggregate a replayed trade again, and maybe
\* with other trades.
IsReplay(m, event) ==
  /\ event.parts \cap PartsOf(accepted[m].aggregated) # {}
  /\ ~Recognised(m, event)

\* addTrade: the same event may be published again, by a recovery that
\* overlaps what was received live or was received before a restart.
Publish(stream, trade) ==
  LET m == MinuteOf(trade.time) IN
  /\ Len(accepted[m][stream]) < MaxPublished
  /\ buckets' = [buckets EXCEPT ![m][stream] = Insert(stream, @, trade)]
  /\ accepted' = [accepted EXCEPT ![m][stream] = Append(@, trade)]
  /\ replayed' = IF stream = "aggregated" /\ IsReplay(m, trade)
                   THEN replayed \cup {m} ELSE replayed
  /\ UNCHANGED <<batch, flushVars, rows, clock, failures, crashes>>

\* Faulty: a flush does not wait for the one under way.
DetachUnlocked(f, minutes) ==
  /\ \E m \in minutes : buckets[m] # EmptyBucket
  /\ flusher' = f /\ step' = "detached"
  /\ batch' = [m \in Minutes |-> IF m \in minutes THEN buckets[m] ELSE EmptyBucket]
  /\ buckets' = [m \in Minutes |-> IF m \in minutes THEN EmptyBucket ELSE buckets[m]]
  /\ UNCHANGED <<existing, rows, clock, ghosts, failures, crashes>>

\* flush takes flushMu and detaches the buckets it includes.  If there are
\* none it returns, having done nothing.
Detach(f, minutes) ==
  /\ flusher = NoFlusher
  /\ \E m \in minutes : buckets[m] # EmptyBucket
  /\ flusher' = f /\ step' = "detached"
  /\ batch' = [m \in Minutes |-> IF m \in minutes THEN buckets[m] ELSE EmptyBucket]
  /\ buckets' = [m \in Minutes |-> IF m \in minutes THEN EmptyBucket ELSE buckets[m]]
  /\ UNCHANGED <<existing, rows, clock, ghosts, failures, crashes>>

FlushBefore(f, boundary) == Detach(f, {m \in Minutes : m < boundary})
Flush(f) == Detach(f, Minutes)

\* UpsertBuckets begins its transaction and reads the rows to be merged.
ReadExisting ==
  /\ step = "detached"
  /\ existing' = [m \in Minutes |-> IF batch[m] = EmptyBucket THEN EmptyRow ELSE rows[m]]
  /\ step' = "read"
  /\ UNCHANGED <<bufferVars, flusher, rows, clock, ghosts, failures, crashes>>

\* Faulty: the row is replaced by what is flushed.
ReplacedRow(row, bucket) == Derive(bucket, Threshold)

\* The row written for a bucket.
MergedRow(row, bucket) ==
  Derive([raw |-> Merge("raw", row.raw, bucket.raw),
          aggregated |-> Merge("aggregated", row.aggregated, bucket.aggregated)],
         Threshold)

\* deleteOldWebSocketData.
IsExpired(m) == m < clock - Retention

Written ==
  [m \in Minutes |->
     IF IsExpired(m) THEN EmptyRow
     ELSE IF batch[m] = EmptyBucket THEN rows[m]
     ELSE MergedRow(existing[m], batch[m])]

\* Faulty: flushMu stays locked.
UnlockForgotten == /\ flusher' = flusher /\ step' = "idle"
                   /\ batch' = NoBuckets /\ existing' = NoRows

Unlock == /\ flusher' = NoFlusher /\ step' = "idle"
          /\ batch' = NoBuckets /\ existing' = NoRows

Commit ==
  /\ step = "read"
  /\ rows' = Written
  /\ Unlock
  /\ UNCHANGED <<buckets, clock, ghosts, failures, crashes>>

\* The transaction fails at any of its statements and is rolled back ...
Fail ==
  /\ step \in {"detached", "read"} /\ failures < MaxFailures
  /\ failures' = failures + 1 /\ step' = "failed"
  /\ UNCHANGED <<bufferVars, existing, flusher, rows, clock, ghosts, crashes>>

\* ... or is committed and reported as failed.
CommitUnacknowledged ==
  /\ AmbiguousCommits
  /\ step = "read" /\ failures < MaxFailures
  /\ rows' = Written
  /\ failures' = failures + 1 /\ step' = "failed"
  /\ UNCHANGED <<bufferVars, existing, flusher, clock, ghosts, crashes>>

\* Faulty: what was published during the flush goes first.
RestoreAfterCurrent ==
  /\ step = "failed"
  /\ buckets' = [m \in Minutes |->
       IF batch[m] = EmptyBucket THEN buckets[m]
       ELSE [s \in DOMAIN EmptyBucket |-> Merge(s, buckets[m][s], batch[m][s])]]
  /\ Unlock
  /\ UNCHANGED <<rows, clock, ghosts, failures, crashes>>

\* restore puts the detached buckets back, before what has been published
\* since.
Restore ==
  /\ step = "failed"
  /\ buckets' = [m \in Minutes |->
       IF batch[m] = EmptyBucket THEN buckets[m]
       ELSE [s \in DOMAIN EmptyBucket |-> Merge(s, batch[m][s], buckets[m][s])]]
  /\ Unlock
  /\ UNCHANGED <<rows, clock, ghosts, failures, crashes>>

\* The process ends and is started again: what was only in memory is gone.
Crash ==
  /\ crashes < MaxCrashes
  /\ crashes' = crashes + 1
  /\ buckets' = NoBuckets
  /\ Unlock
  /\ accepted' = [m \in Minutes |-> [s \in DOMAIN EmptyBucket |-> rows[m][s]]]
  /\ UNCHANGED <<rows, clock, replayed, failures>>

MinutePasses ==
  /\ clock < MaxMinute
  /\ clock' = clock + 1
  /\ UNCHANGED <<bufferVars, flushVars, rows, ghosts, failures, crashes>>

FlushStep == ReadExisting \/ Commit \/ Restore

Next ==
  \/ \E stream \in Streams : \E trade \in Trades[stream] : Publish(stream, trade)
  \/ \E f \in Flushers : Flush(f) \/ \E boundary \in Minutes : FlushBefore(f, boundary)
  \/ FlushStep
  \/ Fail \/ CommitUnacknowledged
  \/ Crash
  \/ MinutePasses

Spec == Init /\ [][Next]_vars

-----------------------------------------------------------------------------
(***************************************************************************)
(* Properties.  They are about the minutes whose rows are still kept.      *)
(***************************************************************************)

\* The type invariant.
Buckets == [Minutes -> [raw : Seq(Events), aggregated : Seq(Events)]]
TypeOK ==
  /\ buckets \in Buckets /\ batch \in Buckets /\ accepted \in Buckets
  /\ flusher \in Flushers \cup {NoFlusher}
  /\ step \in {"idle", "detached", "read", "failed"}
  /\ step = "idle" <=> flusher = NoFlusher
  /\ replayed \subseteq Minutes
  /\ \A m \in Minutes : {rows[m].raw, rows[m].aggregated} \subseteq Seq(Events)

\* Every trade a publisher has accepted is in memory, in the batch being
\* written or in the database, whatever is published, flushed and restored at
\* the same time: only a crash loses trades, and only what was in memory.  (When
\* aggregated trades are replayed, those of one UID may stand for different
\* trades, and one of them is dropped.)
RawIsKept ==
  \A m \in Minutes : ~IsExpired(m) =>
    UidsOf(accepted[m].raw) \subseteq
      UidsOf(buckets[m].raw) \cup UidsOf(batch[m].raw) \cup UidsOf(rows[m].raw)
AggregatedIsKept ==
  \A m \in Minutes \ replayed : ~IsExpired(m) =>
    PartsOf(accepted[m].aggregated) \subseteq
      PartsOf(buckets[m].aggregated) \cup PartsOf(batch[m].aggregated)
        \cup PartsOf(rows[m].aggregated)
NothingIsLost == RawIsKept /\ AggregatedIsKept

\* What the database will hold once memory is flushed is what it would hold had
\* all raw trades been flushed at once: flushes, failures and restarts change
\* neither which trades are kept nor their order, and on venues with opaque ids
\* trades of one instant keep the order of the feed.
RawIsFlushIndependent ==
  \A m \in Minutes : ~IsExpired(m) =>
    Merge("raw", rows[m].raw, Merge("raw", batch[m].raw, buckets[m].raw))
      = Canonical("raw", accepted[m].raw)

\* A row, once written, keeps its raw trades until it expires, also across
\* restarts within its minute.
RowsOnlyGrow ==
  [][\A m \in Minutes : ~IsExpired(m) =>
       UidsOf(rows[m].raw) \subseteq UidsOf(rows'[m].raw)]_vars

\* A row is as if derived from all its trades at once, although they were
\* aggregated and flushed apart: no two neighbours among its aggregated trades
\* are one sample; its filtered trades stand for the same trades, and all but
\* the last one end with a significant one.
RowIsCoherent ==
  \A m \in Minutes :
    LET agg == rows[m].aggregated
        filtered == rows[m].filtered
    IN  /\ \A i \in 1 .. Len(agg) - 1 : ~SameSample(agg[i], agg[i + 1])
        /\ PartsOf(filtered) = PartsOf(agg)
        /\ \A i \in 1 .. Len(filtered) - 1 : filtered[i].significant

\* An aggregated trade of a row has as many ticks, and the volume, of the trades
\* it was aggregated from (README.md:17), and no trade is in two of them nor in
\* two filtered ones.
CountsTradesOnce(row) ==
  /\ \A i \in DOMAIN row.aggregated :
       LET t == row.aggregated[i]
       IN  t.ticks = Cardinality(t.parts) /\ t.volume = PartVolume(t.parts)
  /\ \A trades \in {row.aggregated, row.filtered} : \A i, j \in DOMAIN trades :
       i # j => trades[i].parts \cap trades[j].parts = {}

\* Flushes, failures, restores and restarts make no row count a trade twice that
\* was aggregated once; nor does an event that is published again while it is in
\* memory.
TicksCountTrades == \A m \in Minutes \ replayed : CountsTradesOnce(rows[m])

\* The same also of a trade that is aggregated again after it was stored.
ReplaysCountOnce == \A m \in Minutes : CountsTradesOnce(rows[m])
=============================================================================
