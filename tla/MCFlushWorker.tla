---------------------------- MODULE MCFlushWorker ----------------------------
(***************************************************************************)
(* FlushWorker for TLC, with the history that the backoff property needs:  *)
(*   failed    consecutive failed flushes of a key, up to MaxFailures      *)
(*   penalty   time left of the delay decided after the last of them       *)
(***************************************************************************)
EXTENDS FlushWorker

VARIABLES failed, penalty

historyVars == <<vars, failed, penalty>>

HistoryInit ==
  /\ Init
  /\ failed = [k \in Keys |-> 0] /\ penalty = [k \in Keys |-> 0]

\* A flush of k has ended: with an error, or without.
HasFailed(k) == worker = "flush" /\ worker' = "requeue" /\ current = k
HasSucceeded(k) == worker = "flush" /\ worker' = "take" /\ current = k

HistoryNext ==
  \/ /\ CallerStep \/ Cancel \/ WorkerStep
     /\ failed' = [k \in Keys |->
          IF HasSucceeded(k) THEN 0
          ELSE IF HasFailed(k) /\ failed[k] < MaxFailures THEN failed[k] + 1
          ELSE failed[k]]
     /\ penalty' = [k \in Keys |->
          IF HasSucceeded(k) THEN 0
          ELSE IF HasFailed(k) THEN attempt'.wait ELSE penalty[k]]
  \/ /\ Tick
     /\ penalty' = [k \in Keys |-> Elapse(penalty[k])]
     /\ UNCHANGED failed

HistorySpec == HistoryInit /\ [][HistoryNext]_historyVars

\* The fairness of FlushWorker's FairSpec; Tick and WorkerStep leave the
\* history to HistoryNext.
FairHistorySpec ==
  /\ HistorySpec
  /\ WF_vars(WorkerStep) /\ WF_vars(Tick)
  /\ WF_vars(Signal) /\ WF_vars(CloseCancel) /\ WF_vars(CloseJoin)

\* No flush of a key starts before the delay after its last failure is over,
\* and the failures it carries are those since its last success, however many
\* requests for the key came in between.  Once Close has begun this no longer
\* holds: a failed flush is then not requeued, and a request made while it was
\* under way starts afresh, to be cancelled a moment later.
BackoffIsRespected ==
  [][worker = "take" /\ worker' = "flush" /\ accepting =>
       /\ penalty[current'] = 0
       /\ attempt'.failures = failed[current']]_historyVars
=============================================================================
