------------------------------ MODULE Collector ------------------------------
(***************************************************************************)
(* The collector of main.go when it writes to the database: the handler    *)
(* that RunExchanges calls with every trade, the flush worker it drives,   *)
(* and the shutdown.                                                       *)
(*                                                                         *)
(* The parts are taken from the modules that describe them.  The pipeline  *)
(* aggregates with Aggregators (there is no significant publisher in this  *)
(* mode, and the buffer's publishers refuse nothing).  The worker is what  *)
(* FlushPromise says of it, which FlushWorker implements.  Of the buffer   *)
(* and the rows only which trades are in them is kept: DataBuffer has      *)
(* their order and merging.  A trade is a pair of its key and its position *)
(* among the trades handled for it.  The handler makes three calls for a   *)
(* trade, between which the worker goes on.                                *)
(***************************************************************************)
EXTENDS Integers, Sequences, FiniteSets

CONSTANTS
  Keys,          \* the (exchange, symbol) pairs
  NoKey,
  MinuteLength,  \* units of time in a minute
  MaxTime,       \* bound: timestamps are 1 .. MaxTime
  MaxTrades,     \* bound: trades handled
  MaxFailures    \* bound: failed transactions

ASSUME CollectorAssumption ==
  /\ MinuteLength \in Nat \ {0} /\ NoKey \notin Keys
  /\ {MaxTime, MaxTrades, MaxFailures} \subseteq Nat

VARIABLES
  pending,    \* per key: what its aggregator holds back
  marks,      \* flushWatermarks: per key the latest timestamp (0: none)
  handled,    \* per key: the timestamps of the trades handled, in order
  handler,    \* [call, key]: the handler's next call for the last trade of the
              \* key, "FlushBefore" or "Request"; "none" when it has returned
  memory,     \* the trades in the buffer
  batch,      \* the trades of the flush under way
  rows,       \* the trades in the database
  flusher,    \* who holds flushMu: "worker", "main" or "none"
  owed, current, watermark, cancelled, accepting,  \* the worker's promise
  worker,     \* "running" or "done"
  phase,      \* where run is: "running", "closing", "draining", "writing",
              \* "cleaning", "returned"
  signalled,  \* the process has been told to end
  errors,     \* the parts that have returned an error to run
  failures

workerVars == <<owed, current, watermark, cancelled, accepting>>
bufferVars == <<memory, batch, rows, flusher>>
handlerVars == <<pending, marks, handled, handler>>
vars == <<handlerVars, bufferVars, workerVars, worker, phase, signalled, errors, failures>>

Aggregator == INSTANCE Aggregators
  WITH WindowDuration <- 0, Threshold <- [k \in Keys |-> 0], Rules <- {1}
Worker == INSTANCE FlushPromise WITH MaxWatermark <- MaxTime

Init ==
  /\ pending = [k \in Keys |-> << >>] /\ marks = [k \in Keys |-> 0]
  /\ handled = [k \in Keys |-> << >>] /\ handler = [call |-> "none", key |-> NoKey]
  /\ memory = {} /\ batch = {} /\ rows = {} /\ flusher = "none"
  /\ Worker!PromiseInit /\ worker = "running"
  /\ phase = "running" /\ signalled = FALSE /\ errors = {} /\ failures = 0

Handled == UNION {{k} \X DOMAIN handled[k] : k \in Keys}
TimeOf(trade) == handled[trade[1]][trade[2]]

-----------------------------------------------------------------------------
(***************************************************************************)
(* The handler.                                                            *)
(***************************************************************************)

\* The trades that an aggregate of key k stands for.
Parts(k, aggregate) == {k} \X (aggregate.uid .. aggregate.upto)
PartsOfAll(k, aggregates) == UNION {Parts(k, aggregates[i]) : i \in DOMAIN aggregates}

\* Faulty: the last trade decides.
LatestWatermark(k, time) == time

\* updateFlushWatermark: a late trade does not set the watermark back.
UpdateFlushWatermark(k, time) == IF marks[k] > time THEN marks[k] ELSE time

\* TradePipeline.FlushBefore: what is held back from before the minute of the
\* watermark is let go.
FlushHeldBefore(held, mark) ==
  IF held # << >> /\ held[Len(held)].time < Aggregator!MinuteFloor(mark)
    THEN [pending |-> << >>, out |-> <<Aggregator!AggregateTrades(held)>>]
    ELSE [pending |-> held, out |-> << >>]

\* Faulty: the worker is asked before the pipeline has let go.
RequestFirst(call) ==
  CASE call = "Handle" -> "Request" [] call = "Request" -> "FlushBefore" [] OTHER -> "none"

\* The order of the handler's calls.
After(call) ==
  CASE call = "Handle" -> "FlushBefore" [] call = "FlushBefore" -> "Request" [] OTHER -> "none"
Called(call, k) ==
  handler' = IF After(call) = "none" THEN [call |-> "none", key |-> NoKey]
                                     ELSE [call |-> After(call), key |-> k]

\* pipeline.Handle: the trade is aggregated.
Handle(k, time) ==
  LET uid == Len(handled[k]) + 1
      trade == [uid |-> uid, upto |-> uid, time |-> time, rule |-> 1, volume |-> 1]
      added == Aggregator!Add(pending[k], trade)
  IN  /\ phase = "running" /\ handler.call = "none" /\ Cardinality(Handled) < MaxTrades
      /\ handled' = [handled EXCEPT ![k] = Append(@, time)]
      /\ pending' = [pending EXCEPT ![k] = added.pending]
      /\ memory' = memory \cup PartsOfAll(k, added.out)
      /\ Called("Handle", k)
      /\ UNCHANGED <<marks, batch, rows, flusher, workerVars, worker, phase, signalled,
                     errors, failures>>

\* The watermark of the handler's trade.
FlushTimestamp == UpdateFlushWatermark(handler.key, handled[handler.key][Len(handled[handler.key])])

\* What the watermark completes leaves the pipeline.
FlushBefore ==
  LET k == handler.key
      flushed == FlushHeldBefore(pending[k], FlushTimestamp)
  IN  /\ handler.call = "FlushBefore"
      /\ marks' = [marks EXCEPT ![k] = FlushTimestamp]
      /\ pending' = [pending EXCEPT ![k] = flushed.pending]
      /\ memory' = memory \cup PartsOfAll(k, flushed.out)
      /\ Called("FlushBefore", k)
      /\ UNCHANGED <<handled, batch, rows, flusher, workerVars, worker, phase, signalled,
                     errors, failures>>

\* The worker is asked to write up to the watermark.
Request ==
  /\ handler.call = "Request"
  /\ Worker!PromiseRequest(handler.key, FlushTimestamp)
  /\ Called("Request", handler.key)
  /\ UNCHANGED <<pending, marks, handled, bufferVars, worker, phase, signalled, errors, failures>>

-----------------------------------------------------------------------------
(***************************************************************************)
(* The worker, and the flushes of the buffer.                              *)
(***************************************************************************)
TakeRequest(k) ==
  /\ worker = "running"
  /\ Worker!PromiseBegin(k)
  /\ UNCHANGED <<handlerVars, bufferVars, worker, phase, signalled, errors, failures>>

\* What FlushBefore includes: the minutes before the watermark's.
Due == {t \in memory : t[1] = current /\ TimeOf(t) < Aggregator!MinuteFloor(watermark)}

Detach(who, trades) ==
  /\ flusher = "none" /\ trades # {}
  /\ flusher' = who /\ batch' = trades /\ memory' = memory \ trades
  /\ UNCHANGED <<handlerVars, rows, workerVars, worker, phase, signalled, errors, failures>>

WorkerFlush == current # NoKey /\ Detach("worker", Due)

NothingDue ==
  /\ current # NoKey /\ flusher = "none" /\ Due = {}
  /\ Worker!PromiseSucceed
  /\ UNCHANGED <<handlerVars, bufferVars, worker, phase, signalled, errors, failures>>

Commit(who) ==
  /\ flusher = who /\ flusher' = "none"
  /\ rows' = rows \cup batch /\ batch' = {}
  /\ UNCHANGED <<memory, handlerVars, worker, signalled, errors, failures>>

\* The transaction fails, or its success is not seen; the trades are restored.
Rollback(who) ==
  /\ flusher = who /\ flusher' = "none"
  /\ failures < MaxFailures /\ failures' = failures + 1
  /\ rows' \in {rows, rows \cup batch}
  /\ memory' = memory \cup batch /\ batch' = {}
  /\ UNCHANGED <<handlerVars, signalled>>

WorkerSucceeds ==
  /\ Commit("worker") /\ Worker!PromiseSucceed
  /\ UNCHANGED phase

\* A request that failed is tried again, unless the worker is being stopped.
WorkerFails ==
  /\ Rollback("worker")
  /\ IF cancelled
       THEN Worker!PromiseAbandon /\ worker' = "done"
       ELSE (IF accepting THEN Worker!PromiseFail ELSE Worker!PromiseAbandon) /\ UNCHANGED worker
  /\ UNCHANGED <<phase, errors>>

WorkerStops ==
  /\ worker = "running" /\ cancelled /\ current = NoKey
  /\ worker' = "done"
  /\ UNCHANGED <<handlerVars, bufferVars, workerVars, phase, signalled, errors, failures>>

-----------------------------------------------------------------------------
(***************************************************************************)
(* run, from the end of RunExchanges to its return.                        *)
(***************************************************************************)

\* The context that the signal ends is the parent of the worker's.
Signal ==
  /\ ~signalled /\ signalled' = TRUE
  /\ cancelled' = TRUE
  /\ UNCHANGED <<handlerVars, bufferVars, owed, current, watermark, accepting, worker,
                 phase, errors, failures>>

\* RunExchanges returns: once it has drained the trades, after a signal or when
\* every adapter has ended; or with the handler's error.  It runs the handler.
RunExchangesReturns(failed) ==
  /\ phase = "running" /\ handler.call = "none"
  /\ phase' = "closing"
  /\ errors' = IF failed THEN {"exchanges"} ELSE {}
  /\ UNCHANGED <<handlerVars, bufferVars, workerVars, worker, signalled, failures>>

\* flushWorker.Close: refuse requests, cancel, wait.
CloseRefuses ==
  /\ phase = "closing" /\ accepting /\ Worker!PromiseRefuse
  /\ UNCHANGED <<handlerVars, bufferVars, worker, phase, signalled, errors, failures>>

CloseCancels ==
  /\ phase = "closing" /\ ~accepting /\ ~cancelled /\ Worker!PromiseCancel
  /\ UNCHANGED <<handlerVars, bufferVars, worker, phase, signalled, errors, failures>>

\* Faulty: Close does not wait for the worker.
CloseWithoutJoin ==
  /\ phase = "closing" /\ ~accepting /\ cancelled
  /\ phase' = "draining"
  /\ UNCHANGED <<handlerVars, bufferVars, workerVars, worker, signalled, errors, failures>>

CloseJoins ==
  /\ phase = "closing" /\ ~accepting /\ cancelled /\ worker = "done"
  /\ phase' = "draining"
  /\ UNCHANGED <<handlerVars, bufferVars, workerVars, worker, signalled, errors, failures>>

\* flushPipeline: everything held back goes to the buffer.
FlushPipeline ==
  /\ phase = "draining" /\ phase' = "writing"
  /\ memory' = memory \cup
       UNION {Parts(k, Aggregator!AggregateTrades(pending[k])) :
                k \in {k \in Keys : pending[k] # << >>}}
  /\ pending' = [k \in Keys |-> << >>]
  /\ UNCHANGED <<marks, handled, handler, batch, rows, flusher, workerVars, worker, signalled,
                 errors, failures>>

\* flushBuckets: everything in the buffer goes to the database.
FlushBuckets == phase = "writing" /\ Detach("main", memory)

NothingToWrite ==
  /\ phase = "writing" /\ flusher = "none" /\ memory = {}
  /\ phase' = "cleaning"
  /\ UNCHANGED <<handlerVars, bufferVars, workerVars, worker, signalled, errors, failures>>

FlushBucketsSucceeds ==
  /\ Commit("main")
  /\ phase' = "cleaning"
  /\ UNCHANGED workerVars

\* The error does not keep the database from being closed.
FlushBucketsFails ==
  /\ Rollback("main")
  /\ phase' = "cleaning" /\ errors' = errors \cup {"buckets"}
  /\ UNCHANGED <<workerVars, worker>>

\* cleanup closes the database; run returns the first error.
Cleanup ==
  /\ phase = "cleaning" /\ phase' = "returned"
  /\ UNCHANGED <<handlerVars, bufferVars, workerVars, worker, signalled, errors, failures>>

WorkerStep ==
  \/ \E k \in Keys : TakeRequest(k)
  \/ WorkerFlush \/ NothingDue \/ WorkerSucceeds \/ WorkerStops

Shutdown ==
  \/ CloseRefuses \/ CloseCancels \/ CloseJoins
  \/ FlushPipeline \/ FlushBuckets \/ NothingToWrite \/ FlushBucketsSucceeds
  \/ Cleanup

Next ==
  \/ \E k \in Keys, time \in 1 .. MaxTime : Handle(k, time)
  \/ FlushBefore \/ Request
  \/ WorkerStep \/ WorkerFails
  \/ Signal \/ \E failed \in BOOLEAN : RunExchangesReturns(failed)
  \/ Shutdown \/ FlushBucketsFails

Spec == Init /\ [][Next]_vars

\* The worker's goroutine, the handler's calls and the shutdown go on, and
\* RunExchanges returns after a signal; trades, signals and successes are not
\* forced, but only so many transactions fail.
FairSpec ==
  /\ Spec
  /\ WF_vars(WorkerStep) /\ WF_vars(FlushBefore \/ Request) /\ WF_vars(Shutdown)
  /\ WF_vars(signalled /\ \E failed \in BOOLEAN : RunExchangesReturns(failed))

-----------------------------------------------------------------------------
(***************************************************************************)
(* Properties.                                                             *)
(***************************************************************************)

\* The trade that the handler has not returned from.
InHandler(t) ==
  handler.call # "none" /\ t[1] = handler.key /\ t[2] = Len(handled[t[1]])

\* A trade's minute is complete when it and a trade of a later minute have been
\* handled, with all three calls.
Completed(trade) ==
  /\ trade \in Handled /\ ~InHandler(trade)
  /\ \E t \in Handled : /\ t[1] = trade[1] /\ ~InHandler(t)
                        /\ TimeOf(trade) < Aggregator!MinuteFloor(TimeOf(t))

\* A trade of a complete minute, late ones included, is not held back by the
\* pipeline; and while it is not written a flush that will include it is owed
\* or under way, or run is on its way to the final flush: wherever between the
\* handler's calls the worker takes its request, looks, fails or succeeds.
CompletedIsOwed ==
  ~cancelled /\ accepting =>
    \A t \in Handled : Completed(t) =>
      \/ t \in batch \cup rows
      \/ /\ t \in memory
         /\ \/ TimeOf(t) < Aggregator!MinuteFloor(owed[t[1]])
            \/ /\ current = t[1] /\ flusher # "worker"
               /\ TimeOf(t) < Aggregator!MinuteFloor(watermark)

\* When the database is closed nobody is writing to it any more, and every
\* trade that was handled is in it, unless the final flush has returned an
\* error: whichever of them were held back by the pipeline, in the buffer, in a
\* flush or owed by the worker when the signal or the error came.
NothingLeftBehind ==
  phase = "returned" =>
    /\ batch = {} /\ current = NoKey
    /\ "buckets" \notin errors => Handled \subseteq rows

\* Trades of a complete minute are written, by the worker or by the final
\* flush, although transactions fail, unless that last one does.
CompletedIsWritten ==
  \A k \in Keys, n \in 1 .. MaxTrades :
    Completed(<<k, n>>) ~> (<<k, n>> \in rows \/ "buckets" \in errors)
=============================================================================
