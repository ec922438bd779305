----------------------------- MODULE FlushWorker -----------------------------
(***************************************************************************)
(* bucketFlushWorker (cmd/quanttick/bucket_flush_worker.go): a queue of    *)
(* flush requests, at most one per key, that the collector's handler fills *)
(* and one goroutine drains, with backoff after a failed flush.            *)
(*                                                                         *)
(* Two processes: the caller (Request and Close are called from the        *)
(* collector's goroutine, so never at once) and the worker (run).  What    *)
(* happens under w.mu is one step.  Instants are kept as the time left     *)
(* until them: wait is notBefore - now, 0 when notBefore is not after now; *)
(* Tick lets a unit of time pass.  A watermark is a timestamp >= 1.        *)
(***************************************************************************)
EXTENDS Integers, Sequences, SequencesExt

CONSTANTS
  Keys,          \* the bucketFlushKeys
  NoKey,         \* no flush under way
  MaxWatermark,  \* bound: watermarks are 1 .. MaxWatermark
  RetryBase,     \* the first retry delay, 250 ms in the code
  RetryCap,      \* the longest retry delay, 30 s in the code
  MaxFailures    \* bound: failures are counted up to here, where the delay
                 \* has reached RetryCap

ASSUME NoKeyAssumption == NoKey \notin Keys
ASSUME WatermarkAssumption == MaxWatermark \in Nat
ASSUME RetryAssumption ==
  /\ RetryBase \in Nat \ {0} /\ RetryCap \in Nat /\ RetryBase <= RetryCap
  /\ MaxFailures \in Nat \ {0}

VARIABLES
  pending,    \* Keys -> request; NoRequest when the key is not in w.pending
  order,      \* w.order
  wake,       \* a token is in w.wake
  accepting,  \* w.accepting
  cancelled,  \* the worker's context is done
  caller,     \* "idle", "signal" (a Request about to signal), "closing",
              \* "joining", "closed"
  worker,     \* "take", "wait" (for wake), "sleep" (for wake or the timer),
              \* "flush", "requeue", "done"
  timer,      \* time left on the timer of a sleeping worker
  current,    \* the key being flushed
  attempt     \* the request being flushed

queueVars == <<pending, order>>
callerVars == <<accepting, caller>>
workerVars == <<worker, timer, current, attempt>>
vars == <<queueVars, wake, cancelled, callerVars, workerVars>>

NoRequest == [timestamp |-> 0, failures |-> 0, wait |-> 0]
Fresh(timestamp) == [NoRequest EXCEPT !.timestamp = timestamp]
Later(t, u) == IF t > u THEN t ELSE u
Least(S) == CHOOSE x \in S : \A y \in S : x <= y

IsPending(k) == pending[k].timestamp # 0

\* Faulty: the random quarter is added.
RetryDelayAboveCap(failures) ==
  LET delay == Least({d \in RetryBase .. RetryCap :
                        d = RetryBase * 2^(failures - 1) \/ d = RetryCap})
  IN  delay .. delay + delay \div 4

\* bucketFlushRetryDelay: doubling from RetryBase up to RetryCap, less a
\* random quarter.
RetryDelay(failures) ==
  LET delay == Least({d \in RetryBase .. RetryCap :
                        d = RetryBase * 2^(failures - 1) \/ d = RetryCap})
  IN  delay - delay \div 4 .. delay

Init ==
  /\ pending = [k \in Keys |-> NoRequest]
  /\ order = << >>
  /\ wake = FALSE /\ cancelled = FALSE
  /\ accepting = TRUE /\ caller = "idle"
  /\ worker = "take" /\ timer = 0
  /\ current = NoKey /\ attempt = NoRequest

-----------------------------------------------------------------------------
(***************************************************************************)
(* The caller.                                                             *)
(***************************************************************************)

\* Faulty: the worker is not signalled.
RequestNewSilently(k, timestamp) ==
  /\ caller = "idle" /\ accepting /\ ~IsPending(k)
  /\ pending' = [pending EXCEPT ![k] = Fresh(timestamp)]
  /\ order' = Append(order, k)
  /\ UNCHANGED <<wake, cancelled, callerVars, workerVars>>

\* Request for a key that is not pending: queue it, and signal once unlocked.
RequestNew(k, timestamp) ==
  /\ caller = "idle" /\ accepting /\ ~IsPending(k)
  /\ pending' = [pending EXCEPT ![k] = Fresh(timestamp)]
  /\ order' = Append(order, k)
  /\ caller' = "signal"
  /\ UNCHANGED <<wake, cancelled, accepting, workerVars>>

\* Faulty: the new request starts without failures and backoff.
RequestLaterAfresh(k, timestamp) ==
  /\ caller = "idle" /\ accepting /\ IsPending(k)
  /\ timestamp > pending[k].timestamp
  /\ pending' = [pending EXCEPT ![k] = Fresh(timestamp)]
  /\ UNCHANGED <<order, wake, cancelled, callerVars, workerVars>>

\* Request with a later watermark for a key that is pending: the request
\* keeps its place, its failures and its backoff.
RequestLater(k, timestamp) ==
  /\ caller = "idle" /\ accepting /\ IsPending(k)
  /\ timestamp > pending[k].timestamp
  /\ pending' = [pending EXCEPT ![k].timestamp = timestamp]
  /\ UNCHANGED <<order, wake, cancelled, callerVars, workerVars>>

\* signal: the channel holds one token; a second one is dropped.
Signal ==
  /\ caller = "signal"
  /\ wake' = TRUE /\ caller' = "idle"
  /\ UNCHANGED <<queueVars, cancelled, accepting, workerVars>>

\* Close refuses further requests, ...
CloseRefuse ==
  /\ caller = "idle"
  /\ accepting' = FALSE /\ caller' = "closing"
  /\ UNCHANGED <<queueVars, wake, cancelled, workerVars>>

\* Faulty: Close does not cancel the worker.
CloseWithoutCancel ==
  /\ caller = "closing"
  /\ caller' = "joining"
  /\ UNCHANGED <<queueVars, wake, cancelled, accepting, workerVars>>

\* ... cancels the worker ...
CloseCancel ==
  /\ caller = "closing"
  /\ cancelled' = TRUE /\ caller' = "joining"
  /\ UNCHANGED <<queueVars, wake, accepting, workerVars>>

\* ... and waits for it.
CloseJoin ==
  /\ caller = "joining" /\ worker = "done"
  /\ caller' = "closed"
  /\ UNCHANGED <<queueVars, wake, cancelled, accepting, workerVars>>

\* The context the worker was started with ends: the process is told to stop.
Cancel ==
  /\ ~cancelled
  /\ cancelled' = TRUE
  /\ UNCHANGED <<queueVars, wake, callerVars, workerVars>>

-----------------------------------------------------------------------------
(***************************************************************************)
(* The worker.                                                             *)
(***************************************************************************)
Ready == {i \in DOMAIN order : pending[order[i]].wait = 0}

\* Faulty: the latest of the ready requests is taken.
TakeLatest ==
  /\ worker = "take" /\ Ready # {}
  /\ LET i == CHOOSE i \in Ready : \A j \in Ready : j <= i IN
       /\ current' = order[i]
       /\ attempt' = pending[order[i]]
       /\ pending' = [pending EXCEPT ![order[i]] = NoRequest]
       /\ order' = RemoveAt(order, i)
  /\ worker' = "flush"
  /\ UNCHANGED <<wake, cancelled, callerVars, timer>>

\* take: the first request in order whose backoff is over.
Take ==
  /\ worker = "take" /\ Ready # {}
  /\ LET i == Least(Ready) IN
       /\ current' = order[i]
       /\ attempt' = pending[order[i]]
       /\ pending' = [pending EXCEPT ![order[i]] = NoRequest]
       /\ order' = RemoveAt(order, i)
  /\ worker' = "flush"
  /\ UNCHANGED <<wake, cancelled, callerVars, timer>>

\* Nothing is pending: wait for a signal.
TakeNothing ==
  /\ worker = "take" /\ order = << >>
  /\ worker' = "wait"
  /\ UNCHANGED <<queueVars, wake, cancelled, callerVars, timer, current, attempt>>

\* All are backing off: sleep until the first of them may be tried again.
TakeLater ==
  /\ worker = "take" /\ order # << >> /\ Ready = {}
  /\ timer' = Least({pending[order[i]].wait : i \in DOMAIN order})
  /\ worker' = "sleep"
  /\ UNCHANGED <<queueVars, wake, cancelled, callerVars, current, attempt>>

\* The three cases of waitForWork's select.
WaitWoken ==
  /\ worker \in {"wait", "sleep"} /\ wake
  /\ wake' = FALSE /\ worker' = "take" /\ timer' = 0
  /\ UNCHANGED <<queueVars, cancelled, callerVars, current, attempt>>

WaitElapsed ==
  /\ worker = "sleep" /\ timer = 0
  /\ worker' = "take"
  /\ UNCHANGED <<queueVars, wake, cancelled, callerVars, timer, current, attempt>>

WaitCancelled ==
  /\ worker \in {"wait", "sleep"} /\ cancelled
  /\ worker' = "done" /\ timer' = 0
  /\ UNCHANGED <<queueVars, wake, cancelled, callerVars, current, attempt>>

\* FlushBefore returns without an error.
FlushSucceeds(k) ==
  /\ worker = "flush" /\ current = k
  /\ worker' = "take"
  /\ current' = NoKey /\ attempt' = NoRequest
  /\ UNCHANGED <<queueVars, wake, cancelled, callerVars, timer>>

\* FlushBefore fails or times out: count it, and decide when to retry.
FlushFails ==
  /\ worker = "flush" /\ ~cancelled
  /\ LET failures == IF attempt.failures < MaxFailures THEN attempt.failures + 1
                     ELSE MaxFailures
     IN  \E wait \in RetryDelay(failures) :
           attempt' = [attempt EXCEPT !.failures = failures, !.wait = wait]
  /\ worker' = "requeue"
  /\ UNCHANGED <<queueVars, wake, cancelled, callerVars, timer, current>>

\* FlushBefore fails and the worker has been cancelled: it ends.
FlushCancelled ==
  /\ worker = "flush" /\ cancelled
  /\ worker' = "done"
  /\ current' = NoKey /\ attempt' = NoRequest
  /\ UNCHANGED <<queueVars, wake, cancelled, callerVars, timer>>

\* Faulty: the failed request replaces what was requested meanwhile.
RequeuedOver ==
  /\ pending' = [pending EXCEPT ![current] = attempt]
  /\ order' = IF IsPending(current) THEN order ELSE Append(order, current)

\* Faulty: the key is queued again although it already is.
RequeuedTwice ==
  /\ pending' = [pending EXCEPT ![current] =
                   [timestamp |-> Later(attempt.timestamp, @.timestamp),
                    failures  |-> Later(attempt.failures, @.failures),
                    wait      |-> Later(attempt.wait, @.wait)]]
  /\ order' = Append(order, current)

\* requeue: at the end of the queue, or merged into what was requested while
\* the flush was under way.
Requeued ==
  /\ pending' = [pending EXCEPT ![current] =
                   [timestamp |-> Later(attempt.timestamp, @.timestamp),
                    failures  |-> Later(attempt.failures, @.failures),
                    wait      |-> Later(attempt.wait, @.wait)]]
  /\ order' = IF IsPending(current) THEN order ELSE Append(order, current)

Requeue ==
  /\ worker = "requeue"
  /\ IF accepting THEN Requeued ELSE UNCHANGED queueVars
  /\ worker' = "take"
  /\ current' = NoKey /\ attempt' = NoRequest
  /\ UNCHANGED <<wake, cancelled, callerVars, timer>>

-----------------------------------------------------------------------------
Elapse(t) == IF t = 0 THEN 0 ELSE t - 1

Tick ==
  /\ timer # 0 \/ attempt.wait # 0 \/ \E k \in Keys : pending[k].wait # 0
  /\ pending' = [k \in Keys |-> [pending[k] EXCEPT !.wait = Elapse(@)]]
  /\ timer' = Elapse(timer)
  /\ attempt' = [attempt EXCEPT !.wait = Elapse(@)]
  /\ UNCHANGED <<order, wake, cancelled, callerVars, worker, current>>

CallerStep ==
  \/ \E k \in Keys, timestamp \in 1 .. MaxWatermark :
       RequestNew(k, timestamp) \/ RequestLater(k, timestamp)
  \/ Signal \/ CloseRefuse \/ CloseCancel \/ CloseJoin

WorkerStep ==
  \/ Take \/ TakeNothing \/ TakeLater
  \/ WaitWoken \/ WaitElapsed \/ WaitCancelled
  \/ \E k \in Keys : FlushSucceeds(k)
  \/ FlushFails \/ FlushCancelled
  \/ Requeue

Next == CallerStep \/ Cancel \/ WorkerStep \/ Tick

Spec == Init /\ [][Next]_vars

\* The worker keeps running, FlushBefore returns (its context has a timeout),
\* time passes, and a caller that has entered Request or Close goes on.
\* Nothing is assumed of the store: every flush may fail.
FairSpec ==
  /\ Spec
  /\ WF_vars(WorkerStep) /\ WF_vars(Tick)
  /\ WF_vars(Signal) /\ WF_vars(CloseCancel) /\ WF_vars(CloseJoin)

-----------------------------------------------------------------------------
(***************************************************************************)
(* Properties.                                                             *)
(***************************************************************************)
Request == [timestamp : Nat, failures : 0 .. MaxFailures, wait : 0 .. RetryCap]

\* The type invariant.  RetryCap is "a firm upper bound" of every wait
\* (bucket_flush_worker.go:241), however requests that are backing off are
\* requeued, merged with others and slept for.
TypeOK ==
  /\ pending \in [Keys -> Request]
  /\ order \in Seq(Keys)
  /\ wake \in BOOLEAN /\ accepting \in BOOLEAN /\ cancelled \in BOOLEAN
  /\ caller \in {"idle", "signal", "closing", "joining", "closed"}
  /\ worker \in {"take", "wait", "sleep", "flush", "requeue", "done"}
  /\ timer \in 0 .. RetryCap
  /\ current \in Keys \cup {NoKey}
  /\ attempt \in Request

\* w.order lists each pending key once and nothing else, although requests,
\* takes and requeues touch the two separately: take never reads the zero
\* request of a key that is not in the map, and no pending key is forgotten.
OrderIsPending ==
  /\ \A i, j \in DOMAIN order : order[i] = order[j] => i = j
  /\ \A k \in Keys : IsPending(k) <=> \E i \in DOMAIN order : order[i] = k

\* A worker that waits is woken for what is pending: one that waits without a
\* timer has nothing pending, and the timer of one that sleeps is not later
\* than any pending retry, unless a signal is on its way to it.
NoLostWakeup ==
  wake \/ caller = "signal" \/
    /\ worker = "wait" => order = << >>
    /\ worker = "sleep" => \A k \in Keys : IsPending(k) => timer <= pending[k].wait

\* The worker implements the promise: coalescing, retries and requests made
\* while a flush is under way lose no watermark.
Promise == INSTANCE FlushPromise WITH
  owed <- [k \in Keys |-> pending[k].timestamp],
  watermark <- attempt.timestamp
PromiseKept == Promise!PromiseSpec

\* Every pending key is tried, even if the flushes of all other keys fail
\* forever and the handler keeps requesting them.
EveryRequestIsTried ==
  \A k \in Keys : IsPending(k) ~> (current = k \/ cancelled \/ ~accepting)

\* Close returns, whatever is pending, backing off or being flushed.
CloseReturns == caller = "closing" ~> caller = "closed"
=============================================================================
