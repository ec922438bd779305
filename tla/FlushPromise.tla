---------------------------- MODULE FlushPromise -----------------------------
(***************************************************************************)
(* What the bucket flush worker promises the collector, without its queue, *)
(* its timers and its retries.                                             *)
(*                                                                         *)
(* A Request(k, t) asks for the buckets of key k older than t to be        *)
(* written.  owed[k] is the latest watermark that is still due (0: none).  *)
(* An attempt takes over all that is owed to its key; when it succeeds the *)
(* debt is paid, when it fails it is owed again, together with what has    *)
(* been requested meanwhile.  A watermark requested while an attempt is    *)
(* under way is never taken for paid by it.  Only a worker that is being   *)
(* stopped may drop a debt, for the final flush to pay.                    *)
(***************************************************************************)
EXTENDS Integers

CONSTANTS Keys, NoKey, MaxWatermark

VARIABLES owed, current, watermark, cancelled, accepting

promiseVars == <<owed, current, watermark, cancelled, accepting>>

Later(t, u) == IF t > u THEN t ELSE u

PromiseInit ==
  /\ owed = [k \in Keys |-> 0]
  /\ current = NoKey
  /\ watermark = 0
  /\ cancelled = FALSE
  /\ accepting = TRUE

PromiseRequest(k, t) ==
  /\ accepting
  /\ owed' = [owed EXCEPT ![k] = Later(@, t)]
  /\ UNCHANGED <<current, watermark, cancelled, accepting>>

PromiseBegin(k) ==
  /\ current = NoKey /\ owed[k] # 0
  /\ current' = k /\ watermark' = owed[k]
  /\ owed' = [owed EXCEPT ![k] = 0]
  /\ UNCHANGED <<cancelled, accepting>>

PromiseSucceed ==
  /\ current # NoKey
  /\ current' = NoKey /\ watermark' = 0
  /\ UNCHANGED <<owed, cancelled, accepting>>

PromiseFail ==
  /\ current # NoKey
  /\ current' = NoKey /\ watermark' = 0
  /\ owed' = [owed EXCEPT ![current] = Later(@, watermark)]
  /\ UNCHANGED <<cancelled, accepting>>

PromiseAbandon ==
  /\ cancelled \/ ~accepting
  /\ current # NoKey
  /\ current' = NoKey /\ watermark' = 0
  /\ UNCHANGED <<owed, cancelled, accepting>>

PromiseCancel == cancelled' = TRUE /\ UNCHANGED <<owed, current, watermark, accepting>>
PromiseRefuse == accepting' = FALSE /\ UNCHANGED <<owed, current, watermark, cancelled>>

PromiseNext ==
  \/ \E k \in Keys, t \in 1 .. MaxWatermark : PromiseRequest(k, t)
  \/ \E k \in Keys : PromiseBegin(k)
  \/ PromiseSucceed \/ PromiseFail \/ PromiseAbandon
  \/ PromiseCancel \/ PromiseRefuse

PromiseSpec == PromiseInit /\ [][PromiseNext]_promiseVars
=============================================================================
