-------------------------- MODULE FlushWorkerProofs --------------------------
(***************************************************************************)
(* Proofs about FlushWorker for any set of keys, any watermarks and any    *)
(* delays.                                                                 *)
(*                                                                         *)
(* The inductive invariant IInv adds AttemptIsCurrent to the invariants    *)
(* that are model-checked: Requeue queues current, which must therefore be *)
(* a key, and its watermark a real one, or OrderIsPending breaks.  The     *)
(* step lemmas split Next into the steps that touch the queue (RequestNew, *)
(* RequestLater, Take, Requeue, Tick) and QueueIdle, the others.           *)
(* HInv adds where the backoff of a key is kept to the history that        *)
(* MCFlushWorker adds to the worker.                                       *)
(***************************************************************************)
EXTENDS MCFlushWorker, TLAPS, WellFoundedInduction, SequenceTheorems

\* A set of naturals that is not empty has a least element, and Least is it.
LEMMA LeastOfNat ==
  ASSUME NEW S \in SUBSET Nat, S # {}
  PROVE  Least(S) \in S /\ \A x \in S : Least(S) <= x
<1>1. PICK m \in S : \A x \in S : <<x, m>> \notin OpToRel(<, Nat)
  BY NatLessThanWellFounded, WFMin
<1>2. \A x \in S : ~(x < m)
  <2> SUFFICES ASSUME NEW x \in S, x < m PROVE FALSE
    OBVIOUS
  <2>1. <<x, m>> \in Nat \X Nat
    OBVIOUS
  <2> QED BY <1>1, <2>1 DEF OpToRel
<1>3. \A x \in S : m <= x
  BY <1>2
<1> QED BY <1>3 DEF Least

\* RemoveAt takes one position out of a sequence and leaves the others.
LEMMA RemoveAtProperties ==
  ASSUME NEW S, NEW s \in Seq(S), NEW i \in 1 .. Len(s)
  PROVE  /\ RemoveAt(s, i) \in Seq(S)
         /\ Len(RemoveAt(s, i)) = Len(s) - 1
         /\ \A j \in 1 .. Len(s) - 1 :
              RemoveAt(s, i)[j] = IF j < i THEN s[j] ELSE s[j + 1]
<1> DEFINE front == SubSeq(s, 1, i - 1)
           back == SubSeq(s, i + 1, Len(s))
<1>1. Len(s) \in Nat /\ \A j \in 1 .. Len(s) : s[j] \in S
  BY LenProperties, ElementOfSeq
<1>2. /\ front \in Seq(S) /\ Len(front) = i - 1
      /\ \A j \in 1 .. i - 1 : front[j] = s[j]
  <2>1. \A j \in 1 .. i - 1 : s[j] \in S
    BY <1>1
  <2>2. /\ front \in Seq(S)
        /\ Len(front) = IF 1 <= i - 1 THEN i - 1 - 1 + 1 ELSE 0
        /\ \A j \in 1 .. i - 1 - 1 + 1 : front[j] = s[1 + j - 1]
    BY <2>1, <1>1, SubSeqProperties
  <2> QED BY <2>2, <1>1
<1>3. /\ back \in Seq(S) /\ Len(back) = Len(s) - i
      /\ \A j \in 1 .. Len(s) - i : back[j] = s[i + j]
  <2>1. \A j \in i + 1 .. Len(s) : s[j] \in S
    BY <1>1
  <2> QED BY <2>1, <1>1, SubSeqProperties
<1>4. /\ front \o back \in Seq(S)
      /\ Len(front \o back) = Len(front) + Len(back)
      /\ \A j \in 1 .. Len(front) + Len(back) : (front \o back)[j] =
           IF j <= Len(front) THEN front[j] ELSE back[j - Len(front)]
  BY <1>2, <1>3, ConcatProperties
<1>5. RemoveAt(s, i) = front \o back
  BY DEF RemoveAt
<1> HIDE DEF front, back
<1>6. ASSUME NEW j \in 1 .. Len(s) - 1
      PROVE  (front \o back)[j] = IF j < i THEN s[j] ELSE s[j + 1]
  <2>1. CASE j < i
    <3>1. j \in 1 .. i - 1 /\ j \in 1 .. Len(front) + Len(back) /\ j <= Len(front)
      BY <2>1, <1>1, <1>2, <1>3
    <3> QED BY <3>1, <2>1, <1>2, <1>4
  <2>2. CASE ~(j < i)
    <3> DEFINE n == j - (i - 1)
    <3>1. /\ n \in 1 .. Len(s) - i /\ i + n = j + 1
          /\ j \in 1 .. Len(front) + Len(back) /\ ~(j <= Len(front))
          /\ j - Len(front) = n
      BY <2>2, <1>1, <1>2, <1>3
    <3>2. (front \o back)[j] = back[n]
      BY <3>1, <1>4
    <3>3. back[n] = s[i + n]
      BY <3>1, <1>3
    <3> QED BY <3>1, <3>2, <3>3, <2>2
  <2> QED BY <2>1, <2>2
<1>7. Len(front \o back) = Len(s) - 1
  BY <1>1, <1>2, <1>3, <1>4
<1> QED BY <1>4, <1>5, <1>6, <1>7

-----------------------------------------------------------------------------
\* The worker holds a key and a request for it exactly between take and the
\* end of the flush or of the requeue.
AttemptIsCurrent ==
  /\ worker \in {"flush", "requeue"} <=> current # NoKey
  /\ current # NoKey <=> attempt.timestamp # 0

IInv == TypeOK /\ AttemptIsCurrent /\ OrderIsPending /\ NoLostWakeup

\* No delay is longer than RetryCap, whatever the powers of two are.
LEMMA RetryDelayType ==
  ASSUME NEW failures
  PROVE  RetryDelay(failures) \subseteq 0 .. RetryCap
<1> DEFINE D == {d \in RetryBase .. RetryCap :
                   d = RetryBase * 2^(failures - 1) \/ d = RetryCap}
<1>1. D \in SUBSET Nat /\ RetryCap \in D
  BY RetryAssumption
<1>2. Least(D) \in 0 .. RetryCap
  <2>1. D \subseteq 0 .. RetryCap
    BY RetryAssumption
  <2> HIDE DEF D
  <2> QED BY <1>1, <2>1, LeastOfNat
<1>3. ASSUME NEW delay \in 0 .. RetryCap
      PROVE  delay - delay \div 4 .. delay \subseteq 0 .. RetryCap
  <2>1. delay \in Nat /\ delay \div 4 \in Nat /\ delay \div 4 <= delay
    BY RetryAssumption
  <2> QED BY <1>3, <2>1, RetryAssumption
<1>4. RetryDelay(failures) = Least(D) - Least(D) \div 4 .. Least(D)
  BY DEF RetryDelay
<1> HIDE DEF D
<1> QED BY <1>2, <1>3, <1>4

\* What take does to the queue: the request it finds is pending and ready, the
\* key leaves the map and its place in the order, and the others keep theirs.
LEMMA TakeEffect ==
  ASSUME TypeOK, OrderIsPending, Take
  PROVE  \E i \in DOMAIN order :
           /\ current' = order[i] /\ order[i] \in Keys
           /\ attempt' = pending[order[i]]
           /\ pending[order[i]].timestamp # 0 /\ pending[order[i]].wait = 0
           /\ pending' = [pending EXCEPT ![order[i]] = NoRequest]
           /\ order' \in Seq(Keys) /\ Len(order') = Len(order) - 1
           /\ \A j \in 1 .. Len(order) - 1 :
                order'[j] = IF j < i THEN order[j] ELSE order[j + 1]
<1> DEFINE i == Least(Ready)
<1>1. DOMAIN order = 1 .. Len(order) /\ Len(order) \in Nat
  BY LenProperties DEF TypeOK
<1>2. Ready \in SUBSET Nat /\ Ready # {} /\ Ready \subseteq DOMAIN order
  BY <1>1 DEF Ready, Take
<1>3. i \in DOMAIN order /\ pending[order[i]].wait = 0
  <2>1. i \in Ready
    BY <1>2, LeastOfNat
  <2> QED BY <1>2, <2>1 DEF Ready
<1>4. /\ current' = order[i] /\ attempt' = pending[order[i]]
      /\ pending' = [pending EXCEPT ![order[i]] = NoRequest]
      /\ order' = RemoveAt(order, i)
  BY DEF Take
<1> HIDE DEF i
<1>5. order \in Seq(Keys) /\ order[i] \in Keys
  BY <1>1, <1>3, ElementOfSeq DEF TypeOK
<1>6. pending[order[i]].timestamp # 0
  <2>1. \A k \in Keys : IsPending(k) <=> \E j \in DOMAIN order : order[j] = k
    BY DEF OrderIsPending
  <2>2. IsPending(order[i])
    BY <1>3, <1>5, <2>1
  <2> QED BY <2>2 DEF IsPending
<1>7. /\ order' \in Seq(Keys) /\ Len(order') = Len(order) - 1
      /\ \A j \in 1 .. Len(order) - 1 :
           order'[j] = IF j < i THEN order[j] ELSE order[j + 1]
  <2>1. i \in 1 .. Len(order)
    BY <1>1, <1>3
  <2>2. /\ RemoveAt(order, i) \in Seq(Keys) /\ Len(RemoveAt(order, i)) = Len(order) - 1
        /\ \A j \in 1 .. Len(order) - 1 :
             RemoveAt(order, i)[j] = IF j < i THEN order[j] ELSE order[j + 1]
    BY <1>5, <2>1, RemoveAtProperties
  <2> QED BY <1>4, <2>2
<1> QED BY <1>3, <1>4, <1>5, <1>6, <1>7

-----------------------------------------------------------------------------
LEMMA ZeroIsBounded == 0 \in 0 .. MaxFailures /\ 0 \in 0 .. RetryCap
BY RetryAssumption

LEMMA InitInv == Init => IInv
<1> SUFFICES ASSUME Init PROVE IInv
  OBVIOUS
<1> USE DEF Init, NoRequest
<1>1. TypeOK
  <2>1. << >> \in Seq(Keys)
    OBVIOUS
  <2> QED BY <2>1, ZeroIsBounded DEF TypeOK, Request
<1>2. AttemptIsCurrent
  BY DEF AttemptIsCurrent
<1>3. OrderIsPending
  BY DEF OrderIsPending, IsPending
<1>4. NoLostWakeup
  BY DEF NoLostWakeup
<1> QED BY <1>1, <1>2, <1>3, <1>4 DEF IInv

\* The steps that leave the queue alone.
QueueIdle ==
  \/ Signal \/ CloseRefuse \/ CloseCancel \/ CloseJoin \/ Cancel
  \/ TakeNothing \/ TakeLater \/ WaitWoken \/ WaitElapsed \/ WaitCancelled
  \/ (\E k \in Keys : FlushSucceeds(k)) \/ FlushFails \/ FlushCancelled
  \/ (Requeue /\ ~accepting)

LEMMA NextCases ==
  ASSUME [Next]_vars
  PROVE  \/ \E k \in Keys, timestamp \in 1 .. MaxWatermark : RequestNew(k, timestamp)
         \/ \E k \in Keys, timestamp \in 1 .. MaxWatermark : RequestLater(k, timestamp)
         \/ QueueIdle
         \/ Take
         \/ Requeue /\ accepting
         \/ Tick
         \/ UNCHANGED vars
BY DEF Next, CallerStep, WorkerStep, QueueIdle

LEMMA QueueIdleUnchanged == QueueIdle => UNCHANGED queueVars
BY DEF QueueIdle, Signal, CloseRefuse, CloseCancel, CloseJoin, Cancel,
       TakeNothing, TakeLater, WaitWoken, WaitElapsed, WaitCancelled,
       FlushSucceeds, FlushFails, FlushCancelled, Requeue

LEMMA TypeStep == IInv /\ [Next]_vars => TypeOK'
<1> SUFFICES ASSUME IInv, [Next]_vars PROVE TypeOK'
  OBVIOUS
<1> USE RetryAssumption DEF TypeOK
<1>0. TypeOK /\ AttemptIsCurrent /\ OrderIsPending
  BY DEF IInv
<1>1. ASSUME NEW k \in Keys, NEW t \in 1 .. MaxWatermark, RequestNew(k, t)
      PROVE  TypeOK'
  <2>1. Fresh(t) \in Request
    BY WatermarkAssumption DEF Fresh, NoRequest, Request
  <2>2. pending' \in [Keys -> Request]
    BY <1>0, <1>1, <2>1 DEF RequestNew
  <2>3. order' \in Seq(Keys)
    BY <1>0, <1>1 DEF RequestNew
  <2> QED BY <1>0, <1>1, <2>2, <2>3 DEF RequestNew, workerVars
<1>2. ASSUME NEW k \in Keys, NEW t \in 1 .. MaxWatermark, RequestLater(k, t)
      PROVE  TypeOK'
  <2> DEFINE r == [pending[k] EXCEPT !.timestamp = t]
  <2>1. r \in Request
    <3>1. t \in Nat /\ pending[k] \in Request
      BY <1>0, WatermarkAssumption
    <3>2. ASSUME NEW q \in Request PROVE [q EXCEPT !.timestamp = t] \in Request
      BY <3>1 DEF Request
    <3> QED BY <3>1, <3>2
  <2>2. pending' = [pending EXCEPT ![k] = r]
    BY <1>2 DEF RequestLater
  <2>3. pending' \in [Keys -> Request]
    <3> HIDE DEF r
    <3> QED BY <1>0, <2>1, <2>2
  <2> QED BY <1>0, <1>2, <2>3 DEF RequestLater, workerVars, callerVars
<1>3. CASE QueueIdle
  <2>1. CASE Signal
    BY <1>0, <2>1 DEF Signal, queueVars, workerVars
  <2>2. CASE CloseRefuse
    BY <1>0, <2>2 DEF CloseRefuse, queueVars, workerVars
  <2>3. CASE CloseCancel
    BY <1>0, <2>3 DEF CloseCancel, queueVars, workerVars
  <2>4. CASE CloseJoin
    BY <1>0, <2>4 DEF CloseJoin, queueVars, workerVars
  <2>5. CASE Cancel
    BY <1>0, <2>5 DEF Cancel, queueVars, workerVars, callerVars
  <2>6. CASE TakeNothing
    BY <1>0, <2>6 DEF TakeNothing, queueVars, callerVars
  <2>7. CASE TakeLater
    <3> DEFINE waits == {pending[order[i]].wait : i \in DOMAIN order}
    <3>1. DOMAIN order = 1 .. Len(order) /\ Len(order) \in Nat \ {0}
      BY <1>0, <2>7, LenProperties, EmptySeq DEF TakeLater
    <3>2. \A i \in DOMAIN order : pending[order[i]].wait \in 0 .. RetryCap
      <4>1. \A i \in DOMAIN order : order[i] \in Keys
        BY <1>0, <3>1, ElementOfSeq
      <4> QED BY <1>0, <4>1 DEF Request
    <3>3. waits \in SUBSET Nat /\ waits \subseteq 0 .. RetryCap
      BY <3>2
    <3>4. waits # {}
      <4>1. 1 \in DOMAIN order
        BY <3>1
      <4> QED BY <4>1
    <3>5. Least(waits) \in 0 .. RetryCap
      <4> HIDE DEF waits
      <4> QED BY <3>3, <3>4, LeastOfNat
    <3> QED BY <1>0, <2>7, <3>5 DEF TakeLater, queueVars, callerVars
  <2>8. CASE WaitWoken
    BY <1>0, <2>8, ZeroIsBounded DEF WaitWoken, queueVars, callerVars
  <2>9. CASE WaitElapsed
    BY <1>0, <2>9 DEF WaitElapsed, queueVars, callerVars
  <2>10. CASE WaitCancelled
    BY <1>0, <2>10, ZeroIsBounded DEF WaitCancelled, queueVars, callerVars
  <2>11. CASE \E k \in Keys : FlushSucceeds(k)
    BY <1>0, <2>11 DEF FlushSucceeds, queueVars, callerVars, NoRequest, Request
  <2>12. CASE FlushFails
    <3> DEFINE counted == IF attempt.failures < MaxFailures
                          THEN attempt.failures + 1 ELSE MaxFailures
    <3>0. counted \in 0 .. MaxFailures
      BY <1>0, RetryAssumption DEF Request
    <3>1. PICK failures \in 0 .. MaxFailures : \E wait \in RetryDelay(failures) :
            attempt' = [attempt EXCEPT !.failures = failures, !.wait = wait]
      <4>1. \E wait \in RetryDelay(counted) :
              attempt' = [attempt EXCEPT !.failures = counted, !.wait = wait]
        BY <2>12 DEF FlushFails
      <4> HIDE DEF counted
      <4> QED BY <3>0, <4>1
    <3>2. PICK wait \in 0 .. RetryCap :
            attempt' = [attempt EXCEPT !.failures = failures, !.wait = wait]
      BY <3>1, RetryDelayType
    <3>3. attempt' \in Request
      BY <1>0, <3>2 DEF Request
    <3> QED BY <1>0, <2>12, <3>3 DEF FlushFails, queueVars, callerVars
  <2>13. CASE FlushCancelled
    BY <1>0, <2>13 DEF FlushCancelled, queueVars, callerVars, NoRequest, Request
  <2>14. CASE Requeue /\ ~accepting
    BY <1>0, <2>14 DEF Requeue, queueVars, callerVars, NoRequest, Request
  <2> QED BY <1>3, <2>1, <2>2, <2>3, <2>4, <2>5, <2>6, <2>7, <2>8, <2>9, <2>10,
             <2>11, <2>12, <2>13, <2>14 DEF QueueIdle
<1>4. CASE Take
  <2>1. PICK i \in DOMAIN order :
          /\ current' = order[i] /\ order[i] \in Keys
          /\ attempt' = pending[order[i]]
          /\ pending' = [pending EXCEPT ![order[i]] = NoRequest]
          /\ order' \in Seq(Keys)
    BY <1>0, <1>4, TakeEffect
  <2>2. pending' \in [Keys -> Request] /\ attempt' \in Request
    BY <1>0, <2>1 DEF NoRequest, Request
  <2> QED BY <1>0, <1>4, <2>1, <2>2 DEF Take, callerVars
<1>5. CASE Requeue /\ accepting
  <2>1. current \in Keys
    BY <1>0, <1>5 DEF Requeue, AttemptIsCurrent
  <2> DEFINE p == pending[current]
             r == [timestamp |-> Later(attempt.timestamp, p.timestamp),
                   failures  |-> Later(attempt.failures, p.failures),
                   wait      |-> Later(attempt.wait, p.wait)]
  <2>2. pending' \in [Keys -> Request]
    <3>1. r \in Request
      BY <1>0, <2>1 DEF Request, Later
    <3>2. pending' = [pending EXCEPT ![current] = r]
      BY <1>0, <1>5, <2>1 DEF Requeue, Requeued
    <3> HIDE DEF r
    <3> QED BY <1>0, <3>1, <3>2
  <2>3. order' \in Seq(Keys)
    BY <1>0, <1>5, <2>1 DEF Requeue, Requeued
  <2> QED BY <1>0, <1>5, <2>2, <2>3 DEF Requeue, callerVars, NoRequest, Request
<1>6. CASE Tick
  <2>1. \A t \in 0 .. RetryCap : Elapse(t) \in 0 .. RetryCap
    BY DEF Elapse
  <2>2. pending' \in [Keys -> Request] /\ attempt' \in Request /\ timer' \in 0 .. RetryCap
    BY <1>0, <1>6, <2>1 DEF Tick, Request
  <2> QED BY <1>0, <1>6, <2>2 DEF Tick, callerVars
<1>7. CASE UNCHANGED vars
  BY <1>0, <1>7 DEF vars, queueVars, workerVars, callerVars
<1> QED BY <1>1, <1>2, <1>3, <1>4, <1>5, <1>6, <1>7, NextCases

LEMMA AttemptStep == IInv /\ [Next]_vars => AttemptIsCurrent'
<1> SUFFICES ASSUME IInv, [Next]_vars PROVE AttemptIsCurrent'
  OBVIOUS
<1> USE DEF AttemptIsCurrent
<1>0. TypeOK /\ AttemptIsCurrent /\ OrderIsPending
  BY DEF IInv
<1>1. ASSUME NEW k \in Keys, NEW t \in 1 .. MaxWatermark,
             RequestNew(k, t) \/ RequestLater(k, t)
      PROVE  AttemptIsCurrent'
  BY <1>0, <1>1 DEF RequestNew, RequestLater, workerVars
<1>2. CASE QueueIdle
  <2>1. CASE Signal \/ CloseRefuse \/ CloseCancel \/ CloseJoin \/ Cancel
    BY <1>0, <2>1 DEF Signal, CloseRefuse, CloseCancel, CloseJoin, Cancel, workerVars
  <2>2. CASE TakeNothing \/ TakeLater \/ WaitWoken \/ WaitElapsed \/ WaitCancelled
    BY <1>0, <2>2 DEF TakeNothing, TakeLater, WaitWoken, WaitElapsed, WaitCancelled
  <2>3. CASE (\E k \in Keys : FlushSucceeds(k)) \/ FlushCancelled
    BY <1>0, <2>3 DEF FlushSucceeds, FlushCancelled, NoRequest
  <2>4. CASE FlushFails
    <3>1. attempt'.timestamp = attempt.timestamp
      BY <1>0, <2>4 DEF FlushFails, TypeOK, Request
    <3> QED BY <1>0, <2>4, <3>1 DEF FlushFails
  <2>5. CASE Requeue /\ ~accepting
    BY <1>0, <2>5 DEF Requeue, NoRequest
  <2> QED BY <1>2, <2>1, <2>2, <2>3, <2>4, <2>5 DEF QueueIdle
<1>3. CASE Take
  <2>1. current' \in Keys /\ attempt'.timestamp # 0
    BY <1>0, <1>3, TakeEffect
  <2> QED BY <1>3, <2>1, NoKeyAssumption DEF Take
<1>4. CASE Requeue /\ accepting
  BY <1>0, <1>4 DEF Requeue, NoRequest
<1>5. CASE Tick
  <2>1. attempt'.timestamp = attempt.timestamp
    BY <1>0, <1>5 DEF Tick, TypeOK, Request
  <2> QED BY <1>0, <1>5, <2>1 DEF Tick
<1>6. CASE UNCHANGED vars
  BY <1>0, <1>6 DEF vars, workerVars
<1> QED BY <1>1, <1>2, <1>3, <1>4, <1>5, <1>6, NextCases

\* Appending a key that is not in the order.
LEMMA AppendKey ==
  ASSUME TypeOK, OrderIsPending, NEW k \in Keys, ~IsPending(k),
         order' = Append(order, k), pending' \in [Keys -> Request],
         \A q \in Keys : IsPending(q)' <=> q = k \/ IsPending(q)
  PROVE  OrderIsPending'
<1>1. /\ Len(order) \in Nat /\ DOMAIN order = 1 .. Len(order)
      /\ \A i \in DOMAIN order : order[i] \in Keys
  BY LenProperties, ElementOfSeq DEF TypeOK
<1>2. /\ DOMAIN order' = 1 .. Len(order) + 1
      /\ \A i \in DOMAIN order : order'[i] = order[i]
      /\ order'[Len(order) + 1] = k
  BY <1>1, LenProperties DEF TypeOK
<1>3. \A i \in DOMAIN order : order[i] # k
  BY DEF OrderIsPending
<1>4. ASSUME NEW i \in DOMAIN order', NEW j \in DOMAIN order', order'[i] = order'[j]
      PROVE  i = j
  <2>1. i \in DOMAIN order \/ i = Len(order) + 1
    BY <1>1, <1>2
  <2>2. j \in DOMAIN order \/ j = Len(order) + 1
    BY <1>1, <1>2
  <2> QED BY <1>2, <1>3, <1>4, <2>1, <2>2 DEF OrderIsPending
<1>5. ASSUME NEW q \in Keys
      PROVE  IsPending(q)' <=> \E i \in DOMAIN order' : order'[i] = q
  <2>1. DOMAIN order' = DOMAIN order \cup {Len(order) + 1}
    BY <1>1, <1>2
  <2>2. (\E i \in DOMAIN order' : order'[i] = q)
          <=> q = k \/ \E i \in DOMAIN order : order[i] = q
    BY <2>1, <1>2
  <2> QED BY <2>2 DEF OrderIsPending
<1> QED BY <1>4, <1>5 DEF OrderIsPending

LEMMA OrderStep == IInv /\ [Next]_vars => OrderIsPending'
<1> SUFFICES ASSUME IInv, [Next]_vars PROVE OrderIsPending'
  OBVIOUS
<1>0. TypeOK /\ AttemptIsCurrent /\ OrderIsPending /\ TypeOK'
  BY TypeStep DEF IInv
<1>00. pending' \in [Keys -> Request] /\ pending \in [Keys -> Request]
  BY <1>0 DEF TypeOK
<1>1. ASSUME NEW k \in Keys, NEW t \in 1 .. MaxWatermark, RequestNew(k, t)
      PROVE  OrderIsPending'
  <2>1. \A q \in Keys : IsPending(q)' <=> q = k \/ IsPending(q)
    BY <1>1, <1>00, WatermarkAssumption DEF RequestNew, IsPending, Fresh, NoRequest
  <2> QED BY <1>0, <1>00, <1>1, <2>1, AppendKey DEF RequestNew
<1>2. ASSUME order' = order, \A q \in Keys : IsPending(q)' <=> IsPending(q)
      PROVE  OrderIsPending'
  BY <1>0, <1>2 DEF OrderIsPending
<1>3. ASSUME NEW k \in Keys, NEW t \in 1 .. MaxWatermark, RequestLater(k, t)
      PROVE  OrderIsPending'
  <2>1. \A q \in Keys : IsPending(q)' <=> IsPending(q)
    BY <1>3, <1>00, WatermarkAssumption DEF RequestLater, IsPending, Request
  <2> QED BY <1>2, <1>3, <2>1 DEF RequestLater
<1>4. CASE QueueIdle
  <2>1. UNCHANGED queueVars
    BY <1>4, QueueIdleUnchanged
  <2> QED BY <1>2, <2>1 DEF queueVars, IsPending
<1>5. CASE Take
  <2>1. PICK i \in DOMAIN order :
          /\ order[i] \in Keys
          /\ pending' = [pending EXCEPT ![order[i]] = NoRequest]
          /\ order' \in Seq(Keys) /\ Len(order') = Len(order) - 1
          /\ \A j \in 1 .. Len(order) - 1 :
               order'[j] = IF j < i THEN order[j] ELSE order[j + 1]
    BY <1>0, <1>5, TakeEffect
  <2>2. Len(order) \in Nat /\ DOMAIN order = 1 .. Len(order)
    BY <1>0, LenProperties DEF TypeOK
  <2>3. DOMAIN order' = 1 .. Len(order) - 1
    BY <2>1, LenProperties
  <2>4. \A q \in Keys : IsPending(q)' <=> q # order[i] /\ IsPending(q)
    BY <1>00, <2>1 DEF IsPending, NoRequest
  <2> DEFINE from(j) == IF j < i THEN j ELSE j + 1
  <2>5. \A j \in DOMAIN order' : /\ from(j) \in DOMAIN order
                                 /\ from(j) # i
                                 /\ order'[j] = order[from(j)]
    BY <2>1, <2>2, <2>3
  <2>6. \A j, l \in DOMAIN order' : from(j) = from(l) => j = l
    BY <2>2, <2>3
  <2>7. \A n \in DOMAIN order : n # i => \E j \in DOMAIN order' : from(j) = n
    <3> SUFFICES ASSUME NEW n \in DOMAIN order, n # i
                 PROVE  \E j \in DOMAIN order' : from(j) = n
      OBVIOUS
    <3>1. CASE n < i
      BY <3>1, <2>2, <2>3
    <3>2. CASE n > i
      <4>1. n - 1 \in DOMAIN order' /\ from(n - 1) = n
        BY <3>2, <2>2, <2>3
      <4> QED BY <4>1
    <3> QED BY <3>1, <3>2, <2>2
  <2> HIDE DEF from
  <2>8. \A j, l \in DOMAIN order' : order'[j] = order'[l] => j = l
    BY <1>0, <2>5, <2>6 DEF OrderIsPending
  <2>9. ASSUME NEW q \in Keys
        PROVE  IsPending(q)' <=> \E j \in DOMAIN order' : order'[j] = q
    <3>1. (\E j \in DOMAIN order' : order'[j] = q)
            <=> \E n \in DOMAIN order : n # i /\ order[n] = q
      BY <2>5, <2>7
    <3>2. (\E n \in DOMAIN order : n # i /\ order[n] = q)
            <=> q # order[i] /\ \E n \in DOMAIN order : order[n] = q
      BY <1>0 DEF OrderIsPending
    <3>3. IsPending(q) <=> \E n \in DOMAIN order : order[n] = q
      BY <1>0 DEF OrderIsPending
    <3> QED BY <2>4, <3>1, <3>2, <3>3
  <2> QED BY <2>8, <2>9 DEF OrderIsPending
<1>6. CASE Requeue /\ accepting
  <2>1. current \in Keys /\ attempt.timestamp # 0 /\ attempt.timestamp \in Nat
    BY <1>0, <1>6 DEF Requeue, AttemptIsCurrent, TypeOK, Request
  <2>2. \A q \in Keys : q # current => pending'[q] = pending[q]
    BY <1>6, <1>00, <2>1 DEF Requeue, Requeued
  <2>3. pending'[current].timestamp =
          Later(attempt.timestamp, pending[current].timestamp)
    BY <1>6, <1>00, <2>1 DEF Requeue, Requeued
  <2>4. pending[current].timestamp \in Nat
    BY <1>00, <2>1 DEF Request
  <2>5. pending'[current].timestamp # 0
    BY <2>1, <2>3, <2>4 DEF Later
  <2>6. \A q \in Keys : IsPending(q)' <=> q = current \/ IsPending(q)
    BY <2>1, <2>2, <2>5 DEF IsPending
  <2>7. CASE IsPending(current)
    <3>1. order' = order
      BY <1>6, <2>7 DEF Requeue, Requeued
    <3> QED BY <1>2, <2>6, <2>7, <3>1
  <2>8. CASE ~IsPending(current)
    <3>1. order' = Append(order, current)
      BY <1>6, <2>8 DEF Requeue, Requeued
    <3> QED BY <1>0, <1>00, <2>1, <2>6, <2>8, <3>1, AppendKey
  <2> QED BY <2>7, <2>8
<1>7. CASE Tick
  <2>1. \A q \in Keys : IsPending(q)' <=> IsPending(q)
    BY <1>7, <1>00 DEF Tick, IsPending, Request
  <2> QED BY <1>2, <1>7, <2>1 DEF Tick
<1>8. CASE UNCHANGED vars
  BY <1>2, <1>8 DEF vars, queueVars, IsPending
<1> QED BY <1>1, <1>3, <1>4, <1>5, <1>6, <1>7, <1>8, NextCases

LEMMA WakeStep == IInv /\ [Next]_vars => NoLostWakeup'
<1> SUFFICES ASSUME IInv, [Next]_vars PROVE NoLostWakeup'
  OBVIOUS
<1> USE DEF NoLostWakeup
<1>0. TypeOK /\ OrderIsPending /\ NoLostWakeup /\ TypeOK'
  BY TypeStep DEF IInv
<1>00. /\ pending \in [Keys -> Request] /\ pending' \in [Keys -> Request]
       /\ timer \in Nat /\ order \in Seq(Keys)
  BY <1>0 DEF TypeOK
<1>1. ASSUME NEW k \in Keys, NEW t \in 1 .. MaxWatermark, RequestNew(k, t)
      PROVE  NoLostWakeup'
  BY <1>1 DEF RequestNew
<1>2. ASSUME NEW k \in Keys, NEW t \in 1 .. MaxWatermark, RequestLater(k, t)
      PROVE  NoLostWakeup'
  <2>1. \A q \in Keys : pending'[q].wait = pending[q].wait
    BY <1>2, <1>00 DEF RequestLater, Request
  <2>2. \A q \in Keys : IsPending(q)' => IsPending(q)
    BY <1>2, <1>00 DEF RequestLater, IsPending, Request
  <2> QED BY <1>0, <1>2, <2>1, <2>2 DEF RequestLater, callerVars, workerVars
<1>3. CASE QueueIdle
  <2>1. CASE Signal
    BY <2>1 DEF Signal
  <2>2. CASE CloseRefuse \/ CloseCancel \/ CloseJoin \/ Cancel
    BY <1>0, <2>2
    DEF CloseRefuse, CloseCancel, CloseJoin, Cancel, queueVars, workerVars,
        callerVars, IsPending
  <2>3. CASE TakeNothing
    BY <2>3 DEF TakeNothing, queueVars
  <2>4. CASE TakeLater
    <3> DEFINE waits == {pending[order[i]].wait : i \in DOMAIN order}
    <3>1. \A i \in DOMAIN order : order[i] \in Keys
      BY <1>00, ElementOfSeq, LenProperties
    <3>2. waits \in SUBSET Nat
      BY <1>00, <3>1 DEF Request
    <3>3. ASSUME NEW k \in Keys, IsPending(k)
          PROVE  timer' <= pending[k].wait
      <4>1. PICK i \in DOMAIN order : order[i] = k
        BY <1>0, <3>3 DEF OrderIsPending
      <4>2. pending[k].wait \in waits
        BY <4>1
      <4>3. timer' = Least(waits)
        BY <2>4 DEF TakeLater
      <4> HIDE DEF waits
      <4> QED BY <3>2, <4>2, <4>3, LeastOfNat
    <3>4. worker' = "sleep" /\ pending' = pending
      BY <2>4 DEF TakeLater, queueVars
    <3> QED BY <3>3, <3>4 DEF IsPending
  <2>5. CASE WaitWoken \/ WaitElapsed \/ WaitCancelled
    BY <2>5 DEF WaitWoken, WaitElapsed, WaitCancelled
  <2>6. CASE \/ \E k \in Keys : FlushSucceeds(k)
             \/ FlushFails \/ FlushCancelled \/ Requeue
    BY <2>6 DEF FlushSucceeds, FlushFails, FlushCancelled, Requeue
  <2> QED BY <1>3, <2>1, <2>2, <2>3, <2>4, <2>5, <2>6 DEF QueueIdle
<1>4. CASE Take \/ Requeue
  BY <1>4 DEF Take, Requeue
<1>5. CASE Tick
  <2>1. \A t, u \in Nat : t <= u => Elapse(t) <= Elapse(u)
    BY DEF Elapse
  <2>2. \A q \in Keys : /\ IsPending(q)' <=> IsPending(q)
                        /\ pending'[q].wait = Elapse(pending[q].wait)
                        /\ pending[q].wait \in Nat
    BY <1>5, <1>00 DEF Tick, IsPending, Request
  <2> QED BY <1>0, <1>00, <1>5, <2>1, <2>2 DEF Tick, callerVars
<1>6. CASE UNCHANGED vars
  BY <1>0, <1>6 DEF vars, queueVars, workerVars, callerVars, IsPending
<1> QED BY <1>1, <1>2, <1>3, <1>4, <1>5, <1>6, NextCases

LEMMA NextInv == IInv /\ [Next]_vars => IInv'
BY TypeStep, AttemptStep, OrderStep, WakeStep DEF IInv

LEMMA Invariance == Spec => []IInv
<1>1. Init => IInv
  BY InitInv
<1>2. IInv /\ [Next]_vars => IInv'
  BY NextInv
<1> QED BY <1>1, <1>2, PTL DEF Spec

-----------------------------------------------------------------------------
\* Requests, takes, retries and requeues leave w.pending, w.order and the
\* request in flight well-formed, for any keys and any delays.
THEOREM TypeCorrect == Spec => []TypeOK
<1>1. IInv => TypeOK
  BY DEF IInv
<1> QED BY <1>1, Invariance, PTL

\* w.order and w.pending never disagree, for any number of keys.
THEOREM OrderCorrect == Spec => []OrderIsPending
<1>1. IInv => OrderIsPending
  BY DEF IInv
<1> QED BY <1>1, Invariance, PTL

\* No signal that matters is lost, for any number of keys and any delays.
THEOREM NoWakeupIsLost == Spec => []NoLostWakeup
<1>1. IInv => NoLostWakeup
  BY DEF IInv
<1> QED BY <1>1, Invariance, PTL

-----------------------------------------------------------------------------
LEMMA PromiseInitially == Init => Promise!PromiseInit
BY DEF Init, NoRequest, Promise!PromiseInit

LEMMA PromiseStep ==
  IInv /\ [Next]_vars => [Promise!PromiseNext]_(Promise!promiseVars)
<1> SUFFICES ASSUME IInv, [Next]_vars
             PROVE  [Promise!PromiseNext]_(Promise!promiseVars)
  OBVIOUS
<1> DEFINE owed == [k \in Keys |-> pending[k].timestamp]
<1>0. TypeOK /\ AttemptIsCurrent /\ OrderIsPending /\ TypeOK'
  BY TypeStep DEF IInv
<1>00. /\ pending \in [Keys -> Request] /\ pending' \in [Keys -> Request]
       /\ attempt \in Request
  BY <1>0 DEF TypeOK
<1>1. ASSUME NEW k \in Keys, NEW t \in 1 .. MaxWatermark,
             RequestNew(k, t) \/ RequestLater(k, t)
      PROVE  Promise!PromiseRequest(k, t)
  <2>1. t \in Nat /\ t > 0
    BY WatermarkAssumption
  <2>2. /\ pending'[k].timestamp = t
        /\ \A q \in Keys : q # k => pending'[q] = pending[q]
        /\ t > pending[k].timestamp
    BY <1>1, <1>00, <2>1 DEF RequestNew, RequestLater, Fresh, NoRequest, IsPending, Request
  <2>3. owed' = [owed EXCEPT ![k] = Promise!Later(@, t)]
    <3>1. pending[k].timestamp \in Nat
      BY <1>00 DEF Request
    <3>2. Promise!Later(pending[k].timestamp, t) = t
      BY <2>1, <2>2, <3>1 DEF Promise!Later
    <3>3. Promise!Later(owed[k], t) = pending'[k].timestamp
      BY <2>2, <3>2
    <3> QED BY <2>2, <3>3
  <2> QED BY <1>1, <2>3
      DEF RequestNew, RequestLater, workerVars, callerVars, Promise!PromiseRequest
<1>2. ASSUME UNCHANGED queueVars, UNCHANGED <<current, attempt, cancelled, accepting>>
      PROVE  UNCHANGED Promise!promiseVars
  BY <1>2 DEF queueVars, Promise!promiseVars
<1>3. CASE QueueIdle
  <2>0. UNCHANGED queueVars
    BY <1>3, QueueIdleUnchanged
  <2>1. CASE Signal \/ CloseJoin \/ TakeNothing \/ TakeLater \/ WaitWoken
               \/ WaitElapsed \/ WaitCancelled
    <3>1. UNCHANGED <<current, attempt, cancelled, accepting>>
      BY <2>1 DEF Signal, CloseJoin, TakeNothing, TakeLater, WaitWoken,
                  WaitElapsed, WaitCancelled, workerVars, callerVars
    <3> QED BY <1>2, <2>0, <3>1
  <2>2. CASE CloseRefuse
    <3>1. Promise!PromiseRefuse
      BY <2>2 DEF CloseRefuse, queueVars, workerVars, Promise!PromiseRefuse
    <3> QED BY <3>1 DEF Promise!PromiseNext
  <2>3. CASE CloseCancel \/ Cancel
    <3>1. Promise!PromiseCancel
      BY <2>3 DEF CloseCancel, Cancel, queueVars, workerVars, callerVars,
                  Promise!PromiseCancel
    <3> QED BY <3>1 DEF Promise!PromiseNext
  <2>4. CASE \E k \in Keys : FlushSucceeds(k)
    <3>1. Promise!PromiseSucceed
      BY <2>4, NoKeyAssumption DEF FlushSucceeds, NoRequest, queueVars, callerVars,
         Promise!PromiseSucceed
    <3> QED BY <3>1 DEF Promise!PromiseNext
  <2>5. CASE FlushFails
    <3>1. attempt'.timestamp = attempt.timestamp
      BY <2>5, <1>00 DEF FlushFails, Request
    <3> QED BY <2>5, <3>1 DEF FlushFails, queueVars, callerVars, Promise!promiseVars
  <2>6. CASE FlushCancelled \/ (Requeue /\ ~accepting)
    <3>1. current # NoKey
      BY <1>0, <2>6 DEF FlushCancelled, Requeue, AttemptIsCurrent
    <3>2. Promise!PromiseAbandon
      BY <2>0, <2>6, <3>1 DEF FlushCancelled, Requeue, NoRequest, queueVars,
         callerVars, Promise!PromiseAbandon
    <3> QED BY <3>2 DEF Promise!PromiseNext
  <2> QED BY <1>3, <2>1, <2>2, <2>3, <2>4, <2>5, <2>6 DEF QueueIdle
<1>4. CASE Take
  <2>1. PICK k \in Keys :
          /\ current' = k /\ attempt' = pending[k]
          /\ pending[k].timestamp # 0
          /\ pending' = [pending EXCEPT ![k] = NoRequest]
    BY <1>0, <1>4, TakeEffect
  <2>2. current = NoKey
    BY <1>0, <1>4 DEF Take, AttemptIsCurrent
  <2>3. owed' = [owed EXCEPT ![k] = 0]
    BY <2>1, <1>00 DEF NoRequest
  <2>4. Promise!PromiseBegin(k)
    BY <1>4, <2>1, <2>2, <2>3 DEF Take, callerVars, Promise!PromiseBegin
  <2> QED BY <2>4 DEF Promise!PromiseNext
<1>5. CASE Requeue /\ accepting
  <2>1. current \in Keys /\ current # NoKey
    BY <1>0, <1>5 DEF Requeue, AttemptIsCurrent, TypeOK
  <2>2. /\ pending'[current].timestamp =
             Later(attempt.timestamp, pending[current].timestamp)
        /\ \A q \in Keys : q # current => pending'[q] = pending[q]
    BY <1>5, <1>00, <2>1 DEF Requeue, Requeued
  <2>3. Later(attempt.timestamp, pending[current].timestamp) =
          Promise!Later(owed[current], attempt.timestamp)
    <3>1. attempt.timestamp \in Nat /\ pending[current].timestamp \in Nat
      BY <1>00, <2>1 DEF Request
    <3>2. owed[current] = pending[current].timestamp
      BY <2>1
    <3>3. \A t, u \in Nat : Later(t, u) = Promise!Later(u, t)
      BY DEF Later, Promise!Later
    <3> QED BY <3>1, <3>2, <3>3
  <2>4. owed' = [owed EXCEPT ![current] = Promise!Later(@, attempt.timestamp)]
    BY <2>1, <2>2, <2>3
  <2>5. Promise!PromiseFail
    BY <1>5, <2>1, <2>4 DEF Requeue, NoRequest, callerVars, Promise!PromiseFail
  <2> QED BY <2>5 DEF Promise!PromiseNext
<1>6. CASE Tick
  <2>1. /\ \A q \in Keys : pending'[q].timestamp = pending[q].timestamp
        /\ attempt'.timestamp = attempt.timestamp
    BY <1>6, <1>00 DEF Tick, Request
  <2> QED BY <1>6, <2>1 DEF Tick, callerVars, Promise!promiseVars
<1>7. CASE UNCHANGED vars
  BY <1>7, <1>2 DEF vars, workerVars, callerVars
<1> QED BY <1>1, <1>3, <1>4, <1>5, <1>6, <1>7, NextCases DEF Promise!PromiseNext

\* The worker implements FlushPromise: in every run, with any keys and delays,
\* no coalescing, retry or requeue loses a watermark that was requested.
THEOREM PromiseIsKept == Spec => PromiseKept
<1>1. Init => Promise!PromiseInit
  BY PromiseInitially
<1>2. IInv /\ [Next]_vars => [Promise!PromiseNext]_(Promise!promiseVars)
  BY PromiseStep
<1> QED BY <1>1, <1>2, Invariance, PTL DEF Spec, PromiseKept, Promise!PromiseSpec

-----------------------------------------------------------------------------
(***************************************************************************)
(* The backoff.  A request that waits carries the failures since the last  *)
(* success of its key and what is left of the last delay; while the key is *)
(* being flushed the attempt does, and what is requested meanwhile starts  *)
(* afresh, to be merged into it.                                           *)
(***************************************************************************)
UnderWay(k) == worker \in {"flush", "requeue"} /\ current = k
Afresh(k) == pending[k].failures = 0 /\ pending[k].wait = 0

Carried(k) ==
  /\ IsPending(k) \/ Afresh(k)
  /\ UnderWay(k) => /\ Afresh(k) /\ attempt.failures = failed[k]
                    /\ worker = "requeue" => attempt.wait = penalty[k]
  /\ ~UnderWay(k) => pending[k].failures = failed[k] /\ pending[k].wait = penalty[k]

HistoryTyped == failed \in [Keys -> 0 .. MaxFailures] /\ penalty \in [Keys -> Nat]

\* Until Close begins or the worker ends.
AllCarried == accepting /\ worker # "done" => \A k \in Keys : Carried(k)

HInv == IInv /\ HistoryTyped /\ AllCarried

LEMMA ProperCases ==
  ASSUME CallerStep \/ Cancel \/ WorkerStep
  PROVE  \/ \E k \in Keys, timestamp \in 1 .. MaxWatermark : RequestNew(k, timestamp)
         \/ \E k \in Keys, timestamp \in 1 .. MaxWatermark : RequestLater(k, timestamp)
         \/ QueueIdle
         \/ Take
         \/ Requeue /\ accepting
BY DEF CallerStep, WorkerStep, QueueIdle

\* What a step other than Tick makes of a key's history.
Recorded(k) ==
  /\ failed'[k] = IF HasSucceeded(k) THEN 0
                  ELSE IF HasFailed(k) /\ failed[k] < MaxFailures THEN failed[k] + 1
                  ELSE failed[k]
  /\ penalty'[k] = IF HasSucceeded(k) THEN 0
                   ELSE IF HasFailed(k) THEN attempt'.wait ELSE penalty[k]

LEMMA HistoryCases ==
  ASSUME [HistoryNext]_historyVars
  PROVE  /\ [Next]_vars
         /\ \/ /\ CallerStep \/ Cancel \/ WorkerStep
               /\ \A k \in Keys : Recorded(k)
            \/ /\ Tick
               /\ \A k \in Keys : failed'[k] = failed[k] /\ penalty'[k] = Elapse(penalty[k])
            \/ UNCHANGED historyVars
BY DEF HistoryNext, historyVars, Next, Recorded

\* Close and the end of the worker are final.
LEMMA StillOpen ==
  ASSUME TypeOK, [Next]_vars, accepting', worker' # "done"
  PROVE  accepting /\ worker # "done"
<1>1. CASE UNCHANGED workerVars /\ accepting' = accepting
  BY <1>1 DEF workerVars
<1>2. CASE CallerStep \/ Cancel
  BY <1>2 DEF CallerStep, Cancel, RequestNew, RequestLater, Signal, CloseRefuse, CloseCancel,
              CloseJoin, workerVars, callerVars
<1>3. CASE WorkerStep
  BY <1>3 DEF WorkerStep, Take, TakeNothing, TakeLater, WaitWoken, WaitElapsed, WaitCancelled,
              FlushSucceeds, FlushFails, FlushCancelled, Requeue, callerVars
<1>4. CASE Tick
  BY <1>4 DEF Tick, callerVars
<1>5. CASE UNCHANGED vars
  BY <1>5 DEF vars, workerVars, callerVars
<1> QED BY <1>2, <1>3, <1>4, <1>5 DEF Next

LEMMA HistoryTypedStep == HInv /\ [HistoryNext]_historyVars => HistoryTyped'
<1> SUFFICES ASSUME HInv, [HistoryNext]_historyVars PROVE HistoryTyped'
  OBVIOUS
<1>1. /\ \A k \in Keys : failed[k] \in 0 .. MaxFailures /\ penalty[k] \in Nat
      /\ attempt' \in Request /\ MaxFailures \in Nat
  BY HistoryCases, TypeStep, RetryAssumption DEF HInv, HistoryTyped, TypeOK
<1>2. ASSUME \A k \in Keys : Recorded(k), NEW k \in Keys
      PROVE  failed'[k] \in 0 .. MaxFailures /\ penalty'[k] \in Nat
  BY <1>1, <1>2 DEF Recorded, Request
<1>3. ASSUME NEW k \in Keys, failed'[k] = failed[k], penalty'[k] = Elapse(penalty[k])
      PROVE  failed'[k] \in 0 .. MaxFailures /\ penalty'[k] \in Nat
  BY <1>1, <1>3 DEF Elapse
<1>4. CASE UNCHANGED historyVars
  BY <1>4 DEF HInv, HistoryTyped, historyVars
<1>5. CASE HistoryNext
  <2>1. /\ failed' = [k \in Keys |-> failed'[k]]
        /\ penalty' = [k \in Keys |-> penalty'[k]]
    BY <1>5 DEF HistoryNext, HInv, HistoryTyped
  <2>2. \A k \in Keys : failed'[k] \in 0 .. MaxFailures /\ penalty'[k] \in Nat
    BY <1>2, <1>3, <1>4, HistoryCases DEF HistoryTyped
  <2> QED BY <2>1, <2>2 DEF HistoryTyped
<1> QED BY <1>4, <1>5

\* A step that leaves a key, its flush and its history alone.
LEMMA CarriedKept ==
  ASSUME NEW q \in Keys, Carried(q), pending'[q] = pending[q], attempt' = attempt,
         UnderWay(q)' <=> UnderWay(q), UnderWay(q) => worker' = worker,
         failed'[q] = failed[q], penalty'[q] = penalty[q]
  PROVE  Carried(q)'
BY DEF Carried, IsPending, Afresh

LEMMA CarriedStep == HInv /\ [HistoryNext]_historyVars => AllCarried'
<1> SUFFICES ASSUME HInv, [HistoryNext]_historyVars, accepting', worker' # "done", NEW q \in Keys
             PROVE  Carried(q)'
  BY DEF AllCarried
<1>0. /\ TypeOK /\ AttemptIsCurrent /\ OrderIsPending /\ HistoryTyped
      /\ accepting /\ worker # "done" /\ Carried(q) /\ [Next]_vars
  BY HistoryCases, StillOpen DEF HInv, IInv, AllCarried
<1>00. /\ pending \in [Keys -> Request] /\ attempt \in Request
       /\ failed[q] \in 0 .. MaxFailures /\ penalty[q] \in Nat /\ MaxFailures \in Nat
  BY <1>0, RetryAssumption DEF TypeOK, HistoryTyped
<1>q. pending[q] \in Request
  BY <1>00
<1>1. CASE UNCHANGED historyVars
  BY <1>0, <1>1, CarriedKept DEF historyVars, vars, queueVars, workerVars, UnderWay
<1>2. CASE Tick /\ failed'[q] = failed[q] /\ penalty'[q] = Elapse(penalty[q])
  <2>1. /\ pending'[q] = [pending[q] EXCEPT !.wait = Elapse(@)]
        /\ attempt' = [attempt EXCEPT !.wait = Elapse(@)]
        /\ worker' = worker /\ current' = current
    BY <1>2 DEF Tick
  <2>2. /\ pending'[q].wait = Elapse(pending[q].wait) /\ pending'[q].failures = pending[q].failures
        /\ pending'[q].timestamp = pending[q].timestamp
        /\ attempt'.wait = Elapse(attempt.wait) /\ attempt'.failures = attempt.failures
    BY <1>00, <1>q, <2>1 DEF Request
  <2>3. Elapse(0) = 0
    BY DEF Elapse
  <2> QED BY <1>0, <1>2, <2>1, <2>2, <2>3 DEF Carried, IsPending, Afresh, UnderWay
<1>3. CASE (CallerStep \/ Cancel \/ WorkerStep) /\ Recorded(q)
  <2>1. ASSUME worker' # "requeue", ~(worker = "flush" /\ worker' = "take")
        PROVE  failed'[q] = failed[q] /\ penalty'[q] = penalty[q]
    BY <1>3, <2>1 DEF Recorded, HasFailed, HasSucceeded
  <2>2. ASSUME NEW k \in Keys, NEW t \in 1 .. MaxWatermark, RequestNew(k, t) PROVE Carried(q)'
    <3>1. failed'[q] = failed[q] /\ penalty'[q] = penalty[q]
      BY <1>3, <2>2 DEF Recorded, HasFailed, HasSucceeded, RequestNew, workerVars
    <3>2. UNCHANGED <<worker, current, attempt>>
      BY <2>2 DEF RequestNew, workerVars
    <3>3. CASE q # k
      <4>1. pending'[q] = pending[q]
        BY <1>00, <2>2, <3>3 DEF RequestNew
      <4> QED BY <1>0, <3>1, <3>2, <4>1, CarriedKept DEF UnderWay
    <3>4. CASE q = k
      <4>1. /\ pending'[q].timestamp = t /\ pending'[q].failures = 0 /\ pending'[q].wait = 0
            /\ t # 0 /\ ~IsPending(q)
        BY <1>00, <2>2, <3>4 DEF RequestNew, Fresh, NoRequest
      <4>2. Afresh(q)
        BY <1>0, <4>1 DEF Carried
      <4> QED BY <1>0, <3>1, <3>2, <4>1, <4>2 DEF Carried, IsPending, Afresh, UnderWay
    <3> QED BY <3>3, <3>4
  <2>3. ASSUME NEW k \in Keys, NEW t \in 1 .. MaxWatermark, RequestLater(k, t) PROVE Carried(q)'
    <3>1. failed'[q] = failed[q] /\ penalty'[q] = penalty[q]
      BY <1>3, <2>3 DEF Recorded, HasFailed, HasSucceeded, RequestLater, workerVars
    <3>2. UNCHANGED <<worker, current, attempt>>
      BY <2>3 DEF RequestLater, workerVars
    <3>3. CASE q # k
      <4>1. pending'[q] = pending[q]
        BY <1>00, <2>3, <3>3 DEF RequestLater
      <4> QED BY <1>0, <3>1, <3>2, <4>1, CarriedKept DEF UnderWay
    <3>4. CASE q = k
      <4>1. /\ pending'[q].timestamp = t /\ pending'[q].failures = pending[q].failures
            /\ pending'[q].wait = pending[q].wait /\ t # 0
        BY <1>00, <1>q, <2>3, <3>4 DEF RequestLater, Request
      <4> QED BY <1>0, <3>1, <3>2, <4>1 DEF Carried, IsPending, Afresh, UnderWay
    <3> QED BY <3>3, <3>4
  <2>4. CASE QueueIdle
    <3>0. pending' = pending
      BY <2>4, QueueIdleUnchanged DEF queueVars
    <3>1. CASE Signal \/ CloseRefuse \/ CloseCancel \/ CloseJoin \/ Cancel
      <4>1. UNCHANGED <<worker, current, attempt>>
        BY <3>1 DEF Signal, CloseRefuse, CloseCancel, CloseJoin, Cancel, workerVars
      <4>2. failed'[q] = failed[q] /\ penalty'[q] = penalty[q]
        BY <1>3, <4>1 DEF Recorded, HasFailed, HasSucceeded
      <4> QED BY <1>0, <3>0, <4>1, <4>2, CarriedKept DEF UnderWay
    <3>2. CASE TakeNothing \/ TakeLater \/ WaitWoken \/ WaitElapsed \/ WaitCancelled
      <4>1. /\ UNCHANGED <<current, attempt>> /\ worker \in {"take", "wait", "sleep"}
            /\ worker' \in {"take", "wait", "sleep", "done"}
        BY <3>2 DEF TakeNothing, TakeLater, WaitWoken, WaitElapsed, WaitCancelled
      <4>2. ~UnderWay(q) /\ ~UnderWay(q)'
        BY <4>1 DEF UnderWay
      <4>3. failed'[q] = failed[q] /\ penalty'[q] = penalty[q]
        BY <2>1, <4>1
      <4> QED BY <1>0, <3>0, <4>1, <4>2, <4>3, CarriedKept
    <3>3. ASSUME NEW k \in Keys, FlushSucceeds(k) PROVE Carried(q)'
      <4>1. worker = "flush" /\ worker' = "take" /\ current = k /\ current' = NoKey
        BY <3>3 DEF FlushSucceeds
      <4>2. ~UnderWay(q)'
        BY <4>1 DEF UnderWay
      <4>3. CASE q = k
        <5>1. failed'[q] = 0 /\ penalty'[q] = 0 /\ Afresh(q)
          BY <1>0, <1>3, <4>1, <4>3 DEF Recorded, HasSucceeded, Carried, UnderWay
        <5> QED BY <3>0, <4>2, <5>1 DEF Carried, Afresh
      <4>4. CASE q # k
        <5>1. failed'[q] = failed[q] /\ penalty'[q] = penalty[q] /\ ~UnderWay(q)
          BY <1>3, <4>1, <4>4 DEF Recorded, HasSucceeded, HasFailed, UnderWay
        <5> QED BY <1>0, <3>0, <4>2, <5>1 DEF Carried, IsPending, Afresh
      <4> QED BY <4>3, <4>4
    <3>4. CASE FlushFails
      <4>1. worker = "flush" /\ worker' = "requeue" /\ current' = current
        BY <3>4 DEF FlushFails
      <4>2. attempt'.failures = IF attempt.failures < MaxFailures THEN attempt.failures + 1
                               ELSE MaxFailures
        BY <1>00, <3>4 DEF FlushFails, Request
      <4>3. CASE q = current
        <5>1. /\ penalty'[q] = attempt'.wait /\ UnderWay(q)
              /\ failed'[q] = IF failed[q] < MaxFailures THEN failed[q] + 1 ELSE failed[q]
          BY <1>3, <4>1, <4>3 DEF Recorded, HasFailed, HasSucceeded, UnderWay
        <5>2. Afresh(q) /\ attempt.failures = failed[q]
          BY <1>0, <5>1 DEF Carried
        <5>3. attempt'.failures = failed'[q]
          BY <1>00, <4>2, <5>1, <5>2
        <5>4. UnderWay(q)'
          BY <4>1, <4>3 DEF UnderWay
        <5> QED BY <3>0, <5>1, <5>2, <5>3, <5>4 DEF Carried, Afresh
      <4>4. CASE q # current
        <5>1. failed'[q] = failed[q] /\ penalty'[q] = penalty[q] /\ ~UnderWay(q) /\ ~UnderWay(q)'
          BY <1>3, <4>1, <4>4 DEF Recorded, HasSucceeded, HasFailed, UnderWay
        <5> QED BY <1>0, <3>0, <5>1 DEF Carried, IsPending, Afresh
      <4> QED BY <4>3, <4>4
    <3>5. CASE FlushCancelled \/ (Requeue /\ ~accepting)
      BY <1>0, <3>5 DEF FlushCancelled
    <3> QED BY <2>4, <3>1, <3>2, <3>3, <3>4, <3>5 DEF QueueIdle
  <2>5. CASE Take
    <3>1. PICK i \in DOMAIN order :
            /\ current' = order[i] /\ order[i] \in Keys /\ attempt' = pending[order[i]]
            /\ pending' = [pending EXCEPT ![order[i]] = NoRequest]
      BY <1>0, <2>5, TakeEffect
    <3>2. worker = "take" /\ worker' = "flush"
      BY <2>5 DEF Take
    <3>3. ~UnderWay(q) /\ (UnderWay(q)' <=> q = order[i])
      BY <3>1, <3>2 DEF UnderWay
    <3>4. failed'[q] = failed[q] /\ penalty'[q] = penalty[q]
      BY <2>1, <3>2
    <3>5. CASE q = order[i]
      <4>1. pending'[q] = NoRequest /\ attempt' = pending[q]
        BY <1>00, <3>1, <3>5
      <4>2. Afresh(q)'
        BY <4>1 DEF Afresh, NoRequest
      <4> QED BY <1>0, <3>2, <3>3, <3>4, <3>5, <4>1, <4>2 DEF Carried
    <3>6. CASE q # order[i]
      <4>1. pending'[q] = pending[q]
        BY <1>00, <3>1, <3>6
      <4> QED BY <1>0, <3>3, <3>4, <3>6, <4>1 DEF Carried, IsPending, Afresh
    <3> QED BY <3>5, <3>6
  <2>6. CASE Requeue /\ accepting
    <3>1. /\ worker = "requeue" /\ worker' = "take" /\ current' = NoKey
          /\ pending' = [pending EXCEPT ![current] =
                           [timestamp |-> Later(attempt.timestamp, @.timestamp),
                            failures  |-> Later(attempt.failures, @.failures),
                            wait      |-> Later(attempt.wait, @.wait)]]
      BY <2>6 DEF Requeue, Requeued
    <3>2. failed'[q] = failed[q] /\ penalty'[q] = penalty[q]
      BY <2>1, <3>1
    <3>3. ~UnderWay(q)'
      BY <3>1 DEF UnderWay
    <3>4. CASE q = current
      <4>1. Afresh(q) /\ attempt.failures = failed[q] /\ attempt.wait = penalty[q]
        BY <1>0, <3>1, <3>4 DEF Carried, UnderWay
      <4>2. /\ pending'[q].timestamp = Later(attempt.timestamp, pending[q].timestamp)
            /\ pending'[q].failures = Later(attempt.failures, pending[q].failures)
            /\ pending'[q].wait = Later(attempt.wait, pending[q].wait)
        BY <1>00, <3>1, <3>4
      <4>3. \A t \in Nat : Later(t, 0) = t
        BY DEF Later
      <4>4. pending'[q].failures = failed[q] /\ pending'[q].wait = penalty[q]
        BY <1>00, <4>1, <4>2, <4>3 DEF Afresh
      <4>5. pending'[q].timestamp # 0
        <5>1. attempt.timestamp \in Nat /\ attempt.timestamp # 0 /\ pending[q].timestamp \in Nat
          BY <1>0, <1>00, <1>q, <3>1 DEF AttemptIsCurrent, Request
        <5> QED BY <4>2, <5>1 DEF Later
      <4> QED BY <3>2, <3>3, <4>4, <4>5 DEF Carried, IsPending
    <3>5. CASE q # current
      <4>1. pending'[q] = pending[q] /\ ~UnderWay(q)
        BY <1>00, <3>1, <3>5 DEF UnderWay
      <4> QED BY <1>0, <3>2, <3>3, <4>1 DEF Carried, IsPending, Afresh
    <3> QED BY <3>4, <3>5
  <2> QED BY <1>3, <2>2, <2>3, <2>4, <2>5, <2>6, ProperCases
<1> QED BY <1>1, <1>2, <1>3, HistoryCases

LEMMA HistoryInvariance == HistorySpec => []HInv
<1>1. HistoryInit => HInv
  <2> SUFFICES ASSUME HistoryInit PROVE HInv
    OBVIOUS
  <2>1. HistoryTyped
    BY RetryAssumption DEF HistoryInit, HistoryTyped
  <2>2. ASSUME NEW k \in Keys PROVE Carried(k)
    BY DEF HistoryInit, Init, NoRequest, Carried, UnderWay, Afresh
  <2> QED BY <2>1, <2>2, InitInv DEF HistoryInit, HInv, AllCarried
<1>2. HInv /\ [HistoryNext]_historyVars => HInv'
  BY HistoryCases, NextInv, HistoryTypedStep, CarriedStep DEF HInv
<1> QED BY <1>1, <1>2, PTL DEF HistorySpec

\* Until Close begins, no flush of a key starts before the delay after its last
\* failure is over, and what it counts are the failures since the last success:
\* for any keys and delays, and whatever is requested while the key waits, is
\* flushed or is requeued (Request keeps the failures and the backoff of a
\* pending key; requeue merges, bucket_flush_worker.go).
THEOREM BackoffRespected == HistorySpec => BackoffIsRespected
<1>1. HInv /\ [HistoryNext]_historyVars =>
        [worker = "take" /\ worker' = "flush" /\ accepting =>
           /\ penalty[current'] = 0
           /\ attempt'.failures = failed[current']]_historyVars
  <2> SUFFICES ASSUME HInv, [HistoryNext]_historyVars, worker = "take", worker' = "flush", accepting
               PROVE  penalty[current'] = 0 /\ attempt'.failures = failed[current']
    OBVIOUS
  <2>1. Take
    <3>1. worker' # worker
      OBVIOUS
    <3>2. CallerStep \/ Cancel \/ WorkerStep
      BY <3>1, HistoryCases DEF Tick, historyVars, vars, workerVars
    <3>3. ~(CallerStep \/ Cancel)
      BY <3>1 DEF CallerStep, Cancel, RequestNew, RequestLater, Signal, CloseRefuse, CloseCancel,
                  CloseJoin, workerVars
    <3> QED BY <3>2, <3>3 DEF WorkerStep, TakeNothing, TakeLater, WaitWoken, WaitElapsed,
                              WaitCancelled, FlushSucceeds, FlushFails, FlushCancelled, Requeue
  <2>2. TypeOK /\ OrderIsPending /\ AllCarried
    BY DEF HInv, IInv
  <2>3. PICK i \in DOMAIN order :
          /\ current' = order[i] /\ order[i] \in Keys /\ attempt' = pending[order[i]]
          /\ pending[order[i]].wait = 0
    BY <2>1, <2>2, TakeEffect
  <2>4. Carried(order[i]) /\ ~UnderWay(order[i])
    BY <2>2, <2>3 DEF AllCarried, UnderWay
  <2> QED BY <2>3, <2>4 DEF Carried
<1> QED BY <1>1, HistoryInvariance, PTL DEF HistorySpec, BackoffIsRespected
=============================================================================
