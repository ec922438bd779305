------------------------ MODULE RecoveryLimitsProofs -------------------------
(***************************************************************************)
(* For any adapters, limits, delays and deadlines: the throttles of        *)
(* RecoveryLimits keep what servers demand, the limiter's budget stays     *)
(* exact, and no window's requests cost more than its capacity.            *)
(***************************************************************************)
EXTENDS RecoveryLimits, FiniteSetTheorems, SequenceTheorems, NaturalsInduction,
  WellFoundedInduction, TLAPS

Steps == {"idle", "throttle", "reserve", "embargo", "ready", "sent"}

\* The types of what the proof is about.
Timed ==
  /\ pc \in [Adapters -> Steps]
  /\ lastRequest \in [Adapters -> Nat] /\ nextRequest \in [Adapters -> Nat]
  /\ demanded \in [Adapters -> Nat] /\ refused \in [Adapters -> Nat]
  /\ embargo \in Nat /\ banned \in Nat

\* The throttles defer for at least as long as what they heed demanded.
Covered ==
  /\ banned <= embargo
  /\ \A a \in Adapters :
       refused[a] <= nextRequest[a] /\ (HeedsEveryAnswer => demanded[a] <= nextRequest[a])

\* An adapter past its throttle has nothing to wait for, and Hyperliquid, which
\* has no throttle, never has.
Past(a) == pc[a] \in {"reserve", "embargo", "ready", "sent"} \/ kind = "hyperliquid"
Cleared == \A a \in Adapters : Past(a) => nextRequest[a] = 0

IInv == Timed /\ Covered /\ Cleared

throttled == <<kind, nextRequest, embargo, demanded, refused, banned>>

-----------------------------------------------------------------------------
LEMMA InitHolds == Init => IInv
BY LimitsAssumption DEF Init, IInv, Timed, Covered, Cleared, Steps

\* What is over is demanded no more.
LEMMA NothingDemanded ==
  ASSUME IInv, NEW a \in Adapters, nextRequest[a] = 0
  PROVE  refused[a] = 0 /\ (HeedsEveryAnswer => demanded[a] = 0)
BY DEF IInv, Timed, Covered

\* A step of a that leaves all demands and delays as they are, and after which
\* a is past its throttle only if its delay is over.
LEMMA MovedHolds ==
  ASSUME IInv, NEW a \in Adapters, NEW step \in Steps,
         pc' = [pc EXCEPT ![a] = step] \/ UNCHANGED pc,
         step \in {"idle", "throttle"} \/ nextRequest[a] = 0,
         lastRequest' \in [Adapters -> Nat], UNCHANGED throttled
  PROVE  IInv'
<1>1. Timed' /\ Covered'
  BY DEF IInv, Timed, Covered, HeedsEveryAnswer, throttled
<1>2. Cleared'
  <2> SUFFICES ASSUME NEW b \in Adapters, Past(b)' PROVE nextRequest[b] = 0
    BY DEF Cleared, throttled
  <2> QED BY DEF IInv, Timed, Cleared, Past, throttled
<1> QED BY <1>1, <1>2 DEF IInv

\* An answer to a, after which a is not past its throttle, or is but has got
\* nothing to wait for: the throttle is deferred by what it heeds.
LEMMA DeferredHolds ==
  ASSUME IInv, NEW a \in Adapters, NEW delay \in Nat, Deferred(a, delay),
         demanded' \in [Adapters -> Nat], refused' \in [Adapters -> Nat],
         \A b \in Adapters \ {a} : demanded'[b] = demanded[b] /\ refused'[b] = refused[b],
         refused'[a] <= Larger(refused[a], delay),
         HeedsEveryAnswer => demanded'[a] <= Larger(demanded[a], delay),
         NEW step \in Steps, pc' = [pc EXCEPT ![a] = step],
         step \in {"idle", "throttle"} \/ (nextRequest[a] = 0 /\ delay = 0),
         kind = "hyperliquid" => delay = 0, UNCHANGED <<kind, lastRequest>>,
         embargo' \in Nat, banned' \in Nat, banned' <= embargo'
  PROVE  IInv'
<1> USE DEF Deferred, Defer, Larger
<1>1. Timed'
  <2>1. nextRequest' \in [Adapters -> Nat]
    BY DEF IInv, Timed
  <2> QED BY <2>1 DEF IInv, Timed
<1>2. Covered'
  <2> SUFFICES ASSUME NEW b \in Adapters
               PROVE  /\ refused'[b] <= nextRequest'[b]
                      /\ HeedsEveryAnswer => demanded'[b] <= nextRequest'[b]
    BY DEF Covered, HeedsEveryAnswer
  <2>1. /\ refused[b] \in Nat /\ demanded[b] \in Nat /\ nextRequest[b] \in Nat
        /\ refused'[b] \in Nat /\ demanded'[b] \in Nat
    BY DEF IInv, Timed
  <2>2. refused[b] <= nextRequest[b] /\ (HeedsEveryAnswer => demanded[b] <= nextRequest[b])
    BY DEF IInv, Covered
  <2>3. CASE b = a
    <3>1. nextRequest'[b] = Larger(nextRequest[b], delay)
      BY <2>3 DEF IInv, Timed
    <3> QED BY <2>1, <2>2, <2>3, <3>1
  <2>4. CASE b # a
    <3>1. nextRequest'[b] = nextRequest[b] /\ refused'[b] = refused[b] /\ demanded'[b] = demanded[b]
      BY <2>4 DEF IInv, Timed
    <3> QED BY <2>2, <3>1
  <2> QED BY <2>3, <2>4
<1>3. Cleared'
  <2> SUFFICES ASSUME NEW b \in Adapters, Past(b)' PROVE nextRequest'[b] = 0
    BY DEF Cleared
  <2> QED BY DEF IInv, Timed, Cleared, Past
<1> QED BY <1>1, <1>2, <1>3 DEF IInv

-----------------------------------------------------------------------------
\* The waits: who passes the last one has nothing to wait for any more.
LEMMA WaitHolds ==
  ASSUME IInv, NEW a \in Adapters, Wait(a)
  PROVE  IInv' /\ (pc[a] # "ready" /\ pc'[a] = "ready" => Allowed(a))
<1>1. CASE ThrottleWait(a)
  <2> DEFINE interval == IF kind = "paced" THEN MinInterval ELSE 0
             delay == Larger(nextRequest[a], Less(interval, lastRequest[a]))
             next == IF kind = "bybit" THEN "reserve" ELSE "ready"
  <2>1. delay = 0 => nextRequest[a] = 0
    BY LimitsAssumption DEF IInv, Timed, Larger, Less
  <2>2. lastRequest' \in [Adapters -> Nat]
    BY <1>1 DEF ThrottleWait, GoesOn, Sleeps, IInv, Timed
  <2>3. UNCHANGED throttled
    BY <1>1 DEF ThrottleWait, ghostVars, throttled
  <2>4. CASE delay = 0
    <3>1. pc' = [pc EXCEPT ![a] = next]
      BY <1>1, <2>4 DEF ThrottleWait, GoesOn
    <3>2. next \in Steps
      BY DEF Steps
    <3>3. IInv'
      BY <2>1, <2>2, <2>3, <2>4, <3>1, <3>2, MovedHolds
    <3>4. pc'[a] = "ready" => kind # "bybit"
      BY <3>1 DEF IInv, Timed
    <3> QED BY <2>1, <2>4, <3>3, <3>4, NothingDemanded DEF Allowed
  <2>5. CASE delay # 0
    <3>1. UNCHANGED pc
      BY <1>1, <2>5 DEF ThrottleWait, Sleeps
    <3>2. IInv'
      BY <2>2, <2>3, <3>1, MovedHolds DEF Steps
    <3> QED BY <3>1, <3>2
  <2> QED BY <2>4, <2>5
<1>2. CASE Reserve(a)
  <2>1. pc[a] = "reserve" /\ nextRequest[a] = 0
    BY <1>2 DEF Reserve, Awake, IInv, Cleared, Past
  <2>2. UNCHANGED <<lastRequest, throttled>>
    BY <1>2 DEF Reserve, throttleVars, throttled
  <2>3. \/ UNCHANGED pc
        \/ pc' = [pc EXCEPT ![a] = IF kind = "bybit" THEN "embargo" ELSE "ready"]
    BY <1>2 DEF Reserve, GoesOn, Sleeps
  <2>4. IInv'
    BY <2>1, <2>2, <2>3, MovedHolds DEF Steps, IInv, Timed
  <2>5. pc'[a] = "ready" => kind # "bybit"
    BY <2>1, <2>3 DEF IInv, Timed
  <2> QED BY <2>1, <2>4, <2>5, NothingDemanded DEF Allowed
<1>3. CASE EmbargoWait(a)
  <2>1. pc[a] = "embargo" /\ nextRequest[a] = 0
    BY <1>3 DEF EmbargoWait, Awake, IInv, Cleared, Past
  <2>2. UNCHANGED <<lastRequest, throttled>>
    BY <1>3 DEF EmbargoWait, throttleVars, ghostVars, throttled
  <2>3. UNCHANGED pc \/ (pc' = [pc EXCEPT ![a] = "ready"] /\ embargo = 0)
    BY <1>3 DEF EmbargoWait, GoesOn, Sleeps
  <2>4. IInv'
    BY <2>1, <2>2, <2>3, MovedHolds DEF Steps, IInv, Timed
  <2>5. embargo = 0 => banned = 0
    BY DEF IInv, Timed, Covered
  <2> QED BY <2>1, <2>3, <2>4, <2>5, NothingDemanded DEF Allowed
<1> QED BY <1>1, <1>2, <1>3 DEF Wait

\* A header's demand, heeded or not.
LEMMA ToldHolds ==
  ASSUME IInv, NEW a \in Adapters, NEW delay \in Nat, pc[a] = "sent", Told(a, delay),
         NEW step \in {"idle", FirstStep}, pc' = [pc EXCEPT ![a] = step],
         UNCHANGED <<kind, lastRequest, embargo, banned>>
  PROVE  IInv' /\ pc'[a] # "ready"
<1> DEFINE heeded == IF HeedsEveryAnswer THEN delay ELSE 0
<1>1. heeded \in Nat /\ Deferred(a, heeded) /\ UNCHANGED refused
  BY DEF Told
<1>2. demanded' = [demanded EXCEPT ![a] = Larger(@, delay)]
  BY DEF Told, Longest
<1>3. /\ demanded' \in [Adapters -> Nat] /\ demanded'[a] = Larger(demanded[a], delay)
      /\ \A b \in Adapters \ {a} : demanded'[b] = demanded[b]
  BY <1>2 DEF IInv, Timed, Larger
<1>4. kind = "hyperliquid" => heeded = 0 /\ nextRequest[a] = 0
  BY DEF HeedsEveryAnswer, IInv, Cleared, Past
<1>5. step \in Steps \ {"ready"} /\ (step \in {"idle", "throttle"} \/ kind = "hyperliquid")
  BY DEF FirstStep, Steps
<1>6. refused'[a] <= Larger(refused[a], heeded) /\ refused' \in [Adapters -> Nat]
  BY <1>1 DEF Larger, IInv, Timed
<1>7. HeedsEveryAnswer => demanded'[a] <= Larger(demanded[a], heeded)
  BY <1>3 DEF Larger, IInv, Timed
<1>8. embargo' \in Nat /\ banned' \in Nat /\ banned' <= embargo'
  BY DEF IInv, Timed, Covered
<1> HIDE DEF heeded
<1>9. IInv'
  BY <1>1, <1>3, <1>4, <1>5, <1>6, <1>7, <1>8, DeferredHolds
<1> QED BY <1>5, <1>9 DEF IInv, Timed

\* A rate limited answer, or a ban.
LEMMA RefusedHolds ==
  ASSUME IInv, NEW a \in Adapters, NEW delay \in Nat, Refused(a, delay),
         kind # "hyperliquid", NEW step \in {"idle", "throttle"},
         pc' = [pc EXCEPT ![a] = step], UNCHANGED <<kind, lastRequest>>,
         embargo' \in Nat, banned' \in Nat, banned' <= embargo'
  PROVE  IInv' /\ pc'[a] # "ready"
<1>1. /\ Deferred(a, delay)
      /\ demanded' = [demanded EXCEPT ![a] = Larger(@, delay)]
      /\ refused' = [refused EXCEPT ![a] = Larger(@, delay)]
  BY DEF Refused, Longest
<1>2. /\ demanded' \in [Adapters -> Nat] /\ demanded'[a] = Larger(demanded[a], delay)
      /\ refused' \in [Adapters -> Nat] /\ refused'[a] = Larger(refused[a], delay)
      /\ \A b \in Adapters \ {a} : demanded'[b] = demanded[b] /\ refused'[b] = refused[b]
  BY <1>1 DEF IInv, Timed, Larger
<1>3. Larger(demanded[a], delay) \in Nat /\ Larger(refused[a], delay) \in Nat
  BY DEF IInv, Timed, Larger
<1>4. demanded'[a] <= Larger(demanded[a], delay) /\ refused'[a] <= Larger(refused[a], delay)
  BY <1>2, <1>3
<1>5. IInv'
  BY <1>1, <1>2, <1>4, DeferredHolds DEF Steps
<1> QED BY <1>5 DEF IInv, Timed

\* The answers: what is heeded of them is covered before a can ask again.
LEMMA AnswerHolds ==
  ASSUME IInv, NEW a \in Adapters, Answer(a)
  PROVE  IInv' /\ pc'[a] # "ready"
<1>1. PICK delay \in Delays :
        \/ \E weight \in Weights : Answered(a, delay, weight)
        \/ RequestFails(a, delay) \/ RateLimited(a, delay) \/ Forbidden(a, delay)
  BY DEF Answer
<1>2. delay \in Nat /\ banned <= embargo
  BY LimitsAssumption DEF IInv, Covered
<1>3. CASE \E weight \in Weights : Answered(a, delay, weight)
  <2>1. PICK step \in {"idle", FirstStep} : pc' = [pc EXCEPT ![a] = step]
    BY <1>3 DEF Answered
  <2> QED BY <1>2, <1>3, <2>1, ToldHolds DEF Answered
<1>4. CASE RequestFails(a, delay)
  <2>1. PICK step \in {"idle", FirstStep} : pc' = [pc EXCEPT ![a] = step]
    BY <1>4 DEF RequestFails
  <2> QED BY <1>2, <1>4, <2>1, ToldHolds DEF RequestFails
<1>5. CASE RateLimited(a, delay)
  <2> DEFINE longer == IF delay = 0 THEN DefaultDelay ELSE delay
  <2>1. longer \in Nat
    BY <1>2, LimitsAssumption
  <2>2. /\ kind # "hyperliquid" /\ pc' = [pc EXCEPT ![a] = "throttle"]
        /\ Refused(a, longer) /\ UNCHANGED <<kind, lastRequest, embargo, banned>>
    BY <1>5 DEF RateLimited
  <2> HIDE DEF longer
  <2> QED BY <1>2, <2>1, <2>2, RefusedHolds DEF IInv, Timed
<1>6. CASE Forbidden(a, delay)
  <2> DEFINE ban == Larger(delay, BanDelay)
  <2>1. ban \in Nat
    BY <1>2, LimitsAssumption DEF Larger
  <2>2. /\ kind # "hyperliquid" /\ pc' = [pc EXCEPT ![a] = "idle"]
        /\ Refused(a, ban) /\ UNCHANGED <<kind, lastRequest>>
        /\ embargo' = Larger(embargo, ban) /\ banned' = Larger(banned, ban)
    BY <1>6 DEF Forbidden, Defer
  <2> HIDE DEF ban
  <2>3. embargo' \in Nat /\ banned' \in Nat /\ banned' <= embargo'
    BY <1>2, <2>1, <2>2 DEF IInv, Timed, Larger
  <2> QED BY <2>1, <2>2, <2>3, RefusedHolds
<1> QED BY <1>1, <1>3, <1>4, <1>5, <1>6

\* The other steps of an adapter.
LEMMA OtherHolds ==
  ASSUME IInv, NEW a \in Adapters, Begin(a) \/ WaitFails(a) \/ Do(a)
  PROVE  IInv' /\ pc'[a] # "ready"
<1>1. UNCHANGED <<lastRequest, throttled>>
  BY DEF Begin, WaitFails, Do, throttleVars, ghostVars, throttled
<1>2. PICK step \in Steps \ {"ready"} : pc' = [pc EXCEPT ![a] = step]
  BY DEF Begin, WaitFails, Do, FirstStep, Steps
<1>3. step \in {"idle", "throttle"} \/ nextRequest[a] = 0
  <2>1. CASE Begin(a)
    BY <1>2, <2>1 DEF Begin, FirstStep, IInv, Timed, Cleared, Past
  <2>2. CASE WaitFails(a)
    BY <1>2, <2>2 DEF WaitFails, IInv, Timed
  <2>3. CASE Do(a)
    BY <1>2, <2>3 DEF Do, IInv, Timed, Cleared, Past
  <2> QED BY <2>1, <2>2, <2>3
<1>4. IInv'
  BY <1>1, <1>2, <1>3, MovedHolds DEF IInv, Timed
<1> QED BY <1>2, <1>4 DEF IInv, Timed

\* Everything counts down together.
LEMMA TickHolds ==
  ASSUME IInv, Tick
  PROVE  IInv' /\ UNCHANGED pc
<1> USE DEF Less
<1>1. UNCHANGED <<kind, pc>>
  BY DEF Tick
<1>2. lastRequest' \in [Adapters -> Nat]
  BY DEF Tick, IInv, Timed
<1>3. /\ nextRequest' = [a \in Adapters |-> Less(nextRequest[a], 1)]
      /\ demanded' = [a \in Adapters |-> Less(demanded[a], 1)]
      /\ refused' = [a \in Adapters |-> Less(refused[a], 1)]
      /\ embargo' = Less(embargo, 1) /\ banned' = Less(banned, 1)
  BY DEF Tick
<1>4. Timed'
  BY <1>1, <1>2, <1>3 DEF IInv, Timed
<1>5. Covered'
  BY <1>1, <1>3 DEF IInv, Timed, Covered, HeedsEveryAnswer
<1>6. Cleared'
  BY <1>1, <1>3 DEF IInv, Timed, Cleared, Past
<1> QED BY <1>1, <1>4, <1>5, <1>6 DEF IInv

\* Nobody but a moves in a step of a.
LEMMA OnlyMoves ==
  ASSUME IInv, NEW a \in Adapters, NEW b \in Adapters, b # a,
         Begin(a) \/ Wait(a) \/ WaitFails(a) \/ Do(a) \/ Answer(a)
  PROVE  pc'[b] = pc[b]
<1>1. UNCHANGED pc \/ \E step \in Steps : pc' = [pc EXCEPT ![a] = step]
  BY DEF Begin, Wait, ThrottleWait, Reserve, EmbargoWait, GoesOn, Sleeps, WaitFails, Do,
         Answer, Answered, RateLimited, Forbidden, RequestFails, FirstStep, Steps
<1> QED BY <1>1 DEF IInv, Timed

-----------------------------------------------------------------------------
Sent(a) == pc[a] # "ready" /\ pc'[a] = "ready" => Allowed(a)

LEMMA StepHolds == IInv /\ [Next]_vars => IInv' /\ \A a \in Adapters : Sent(a)
<1> SUFFICES ASSUME IInv, [Next]_vars PROVE IInv' /\ \A a \in Adapters : Sent(a)
  OBVIOUS
<1>1. ASSUME NEW a \in Adapters,
             Begin(a) \/ Wait(a) \/ WaitFails(a) \/ Do(a) \/ Answer(a)
      PROVE  IInv' /\ \A b \in Adapters : Sent(b)
  <2>1. IInv' /\ Sent(a)
    BY <1>1, WaitHolds, AnswerHolds, OtherHolds DEF Sent
  <2>2. ASSUME NEW b \in Adapters, b # a PROVE Sent(b)
    BY <1>1, <2>2, OnlyMoves DEF Sent
  <2> QED BY <2>1, <2>2
<1>2. CASE Tick
  BY <1>2, TickHolds DEF Sent
<1>3. CASE UNCHANGED vars
  <2>1. UNCHANGED <<pc, lastRequest, throttled>>
    BY <1>3 DEF vars, adapterVars, throttleVars, ghostVars, throttled
  <2> QED BY <2>1
    DEF IInv, Timed, Covered, Cleared, Past, HeedsEveryAnswer, Sent, throttled
<1> QED BY <1>1, <1>2, <1>3 DEF Next

\* The invariant: an adapter that is past its throttle has nothing more to wait
\* for, and the throttles defer for as long as what they heed demanded
\* (recovery.go:159).
THEOREM ThrottlesCover == Spec => []IInv
<1>1. Init => IInv
  BY InitHolds
<1>2. IInv /\ [Next]_vars => IInv'
  BY StepHolds
<1> QED BY <1>1, <1>2, PTL DEF Spec

\* No request passes the last wait before the delays its adapter heeds are over:
\* of rate limited answers (coinbase_recovery.go:76), on Bybit and Binance of all
\* answers (binance_recovery.go:87), and on Bybit of a ban of the IP that another
\* adapter has incurred (bybit_recovery.go:260).
THEOREM DelaysKept == Spec => DelaysAreKept
<1>1. IInv /\ [Next]_vars =>
        [\A a \in Adapters : pc[a] # "ready" /\ pc'[a] = "ready" => Allowed(a)]_vars
  BY StepHolds DEF Sent
<1> QED BY <1>1, ThrottlesCover, PTL DEF Spec, DelaysAreKept

-----------------------------------------------------------------------------
(***************************************************************************)
(* The weight of entries.                                                  *)
(***************************************************************************)
Entry == [of : Adapters \cup {Nobody}, weight : 0 .. Capacity, age : 0 .. Window]
Units(entries) ==
  {unit \in (DOMAIN entries) \X (1 .. Capacity) : unit[2] <= entries[unit[1]].weight}

LEMMA EntryFacts ==
  ASSUME NEW entries \in Seq(Entry)
  PROVE  /\ Len(entries) \in Nat /\ DOMAIN entries = 1 .. Len(entries)
         /\ \A n \in DOMAIN entries : entries[n] \in Entry
         /\ \A n \in DOMAIN entries :
              entries[n].weight \in 0 .. Capacity /\ entries[n].age \in 0 .. Window
<1>1. \A n \in DOMAIN entries : entries[n] \in Entry
  BY ElementOfSeq, LenProperties
<1>2. \A e \in Entry : e.weight \in 0 .. Capacity /\ e.age \in 0 .. Window
  BY DEF Entry
<1> QED BY <1>1, <1>2, LenProperties

LEMMA WeightType ==
  ASSUME NEW entries \in Seq(Entry)
  PROVE  /\ IsFiniteSet(Units(entries)) /\ WeightOf(entries) = Cardinality(Units(entries))
         /\ WeightOf(entries) \in Nat
<1>1. IsFiniteSet(DOMAIN entries)
  BY EntryFacts, FS_Interval
<1>2. IsFiniteSet(1 .. Capacity)
  BY LimitsAssumption, FS_Interval
<1>3. IsFiniteSet((DOMAIN entries) \X (1 .. Capacity))
  BY <1>1, <1>2, FS_Product
<1>4. IsFiniteSet(Units(entries))
  BY <1>3, FS_Subset DEF Units
<1>5. WeightOf(entries) = Cardinality(Units(entries))
  BY DEF WeightOf, Units
<1> QED BY <1>4, <1>5, FS_CardinalityType

\* More weight, entry by entry.
LEMMA WeightGrows ==
  ASSUME NEW low \in Seq(Entry), NEW high \in Seq(Entry), Len(low) = Len(high),
         \A n \in DOMAIN low : low[n].weight <= high[n].weight
  PROVE  WeightOf(low) <= WeightOf(high)
<1>1. DOMAIN low = DOMAIN high
  BY EntryFacts
<1>2. Units(low) \subseteq Units(high)
  <2> SUFFICES ASSUME NEW n \in DOMAIN low, NEW u \in 1 .. Capacity, u <= low[n].weight
               PROVE  u <= high[n].weight
    BY <1>1 DEF Units
  <2>1. low[n].weight \in Nat /\ high[n].weight \in Nat
    BY <1>1, EntryFacts, LimitsAssumption
  <2>2. u \in Int /\ low[n].weight <= high[n].weight
    BY LimitsAssumption
  <2> QED BY <2>1, <2>2
<1> QED BY <1>2, WeightType, FS_Subset

\* The same weight, entry by entry.
LEMMA WeightKept ==
  ASSUME NEW left \in Seq(Entry), NEW right \in Seq(Entry), Len(left) = Len(right),
         \A n \in DOMAIN left : left[n].weight = right[n].weight
  PROVE  WeightOf(left) = WeightOf(right)
<1>1. DOMAIN left = DOMAIN right
  BY EntryFacts
<1>2. Units(left) = Units(right)
  BY <1>1 DEF Units
<1> QED BY <1>2, WeightType

\* What is made of two parts weighs as much as they do.
LEMMA WeightAdds ==
  ASSUME NEW front \in Seq(Entry), NEW back \in Seq(Entry), NEW whole \in Seq(Entry),
         Len(whole) = Len(front) + Len(back),
         \A n \in 1 .. Len(front) : whole[n] = front[n],
         \A n \in 1 .. Len(back) : whole[Len(front) + n] = back[n]
  PROVE  WeightOf(whole) = WeightOf(front) + WeightOf(back)
<1> DEFINE k == Len(front)
           Late == {unit \in Units(whole) : unit[1] > k}
           Shift == [unit \in Units(back) |-> <<unit[1] + k, unit[2]>>]
<1>1. /\ k \in Nat /\ Len(back) \in Nat
      /\ DOMAIN front = 1 .. k /\ DOMAIN back = 1 .. Len(back)
      /\ DOMAIN whole = 1 .. k + Len(back)
  BY EntryFacts
<1>2. Units(front) = {unit \in Units(whole) : unit[1] <= k}
  BY <1>1 DEF Units
<1>3. \A unit \in Units(whole) : unit[1] \in Nat
  BY <1>1 DEF Units
<1>4. Units(whole) = Units(front) \cup Late /\ Units(front) \cap Late = {}
  BY <1>1, <1>2, <1>3
<1>5. IsFiniteSet(Units(front)) /\ IsFiniteSet(Units(whole)) /\ IsFiniteSet(Units(back))
  BY WeightType
<1>6. IsFiniteSet(Late)
  BY <1>5, FS_Subset
<1>7. Shift \in Bijection(Units(back), Late)
  <2>1. ASSUME NEW unit \in Units(back)
        PROVE  /\ unit = <<unit[1], unit[2]>> /\ unit[1] \in 1 .. Len(back)
               /\ Shift[unit] \in Late
    <3>1. PICK n \in 1 .. Len(back), u \in 1 .. Capacity : unit = <<n, u>> /\ u <= back[n].weight
      BY <1>1 DEF Units
    <3>2. n + k \in DOMAIN whole /\ whole[n + k] = back[n] /\ n + k > k
      BY <1>1
    <3>3. Shift[unit] = <<n + k, u>>
      BY <3>1
    <3> HIDE DEF Shift
    <3>4. Shift[unit] \in Units(whole)
      BY <3>1, <3>2, <3>3 DEF Units
    <3> QED BY <3>1, <3>2, <3>3, <3>4
  <2>2. ASSUME NEW v \in Units(back), NEW w \in Units(back), Shift[v] = Shift[w]
        PROVE  v = w
    <3>1. v[1] + k = w[1] + k /\ v[2] = w[2]
      BY <2>2
    <3>2. v[1] \in Nat /\ w[1] \in Nat
      <4>1. v[1] \in 1 .. Len(back) /\ w[1] \in 1 .. Len(back)
        BY <2>1
      <4> QED BY <4>1, <1>1
    <3> HIDE DEF k
    <3>3. v[1] = w[1]
      BY <1>1, <3>1, <3>2
    <3> QED BY <2>1, <3>1, <3>3
  <2>3. ASSUME NEW unit \in Late PROVE \E v \in Units(back) : Shift[v] = unit
    <3>1. PICK n \in DOMAIN whole, u \in 1 .. Capacity :
            unit = <<n, u>> /\ u <= whole[n].weight /\ n > k
      BY DEF Units
    <3>2. n - k \in 1 .. Len(back) /\ whole[k + (n - k)] = back[n - k] /\ k + (n - k) = n
      BY <1>1, <3>1
    <3>3. <<n - k, u>> \in Units(back)
      BY <1>1, <3>1, <3>2 DEF Units
    <3>4. Shift[<<n - k, u>>] = <<(n - k) + k, u>>
      BY <3>3
    <3> QED BY <1>1, <3>1, <3>3, <3>4
  <2> HIDE DEF Late
  <2>4. Shift \in [Units(back) -> Late]
    BY <2>1
  <2> HIDE DEF Shift
  <2>5. Shift \in Injection(Units(back), Late)
    BY <2>2, <2>4 DEF Injection, IsInjective
  <2>6. Shift \in Surjection(Units(back), Late)
    BY <2>3, <2>4 DEF Surjection
  <2> QED BY <2>5, <2>6 DEF Bijection
<1>8. Cardinality(Late) = Cardinality(Units(back))
  BY <1>5, <1>7, FS_Bijection DEF ExistsBijection
<1>9. Cardinality(Units(whole)) = Cardinality(Units(front)) + Cardinality(Late)
  <2>1. Cardinality({}) = 0
    BY FS_EmptySet
  <2> HIDE DEF Late
  <2>2. Cardinality(Units(whole)) =
          Cardinality(Units(front)) + Cardinality(Late) - Cardinality(Units(front) \cap Late)
    BY <1>4, <1>5, <1>6, FS_Union
  <2>3. Cardinality(Units(front)) \in Nat /\ Cardinality(Late) \in Nat
    BY <1>5, <1>6, FS_CardinalityType
  <2>4. Cardinality(Units(front) \cap Late) = 0
    BY <1>4, <2>1
  <2> QED BY <2>2, <2>3, <2>4
<1> QED BY <1>8, <1>9, WeightType

LEMMA WeightOfOne ==
  ASSUME NEW entry \in Entry
  PROVE  <<entry>> \in Seq(Entry) /\ WeightOf(<<entry>>) = entry.weight
<1>1. <<entry>> \in Seq(Entry) /\ DOMAIN <<entry>> = {1} /\ <<entry>>[1] = entry
  OBVIOUS
<1>2. entry.weight \in Nat /\ entry.weight <= Capacity /\ Capacity \in Nat
  BY LimitsAssumption DEF Entry
<1> DEFINE w == entry.weight
           U == Units(<<entry>>)
           F == [u \in 1 .. w |-> <<1, u>>]
<1>3. U = {<<1, u>> : u \in 1 .. w}
  BY <1>1, <1>2 DEF Units
<1> HIDE DEF U, w
<1>4. F \in Bijection(1 .. w, U)
  BY <1>3 DEF Bijection, Injection, IsInjective, Surjection
<1>5. w \in Nat
  BY <1>2 DEF w
<1>6. IsFiniteSet(1 .. w) /\ Cardinality(1 .. w) = w
  BY <1>5, FS_Interval
<1>7. Cardinality(U) = w
  BY <1>4, <1>6, FS_Bijection DEF ExistsBijection
<1> QED BY <1>1, <1>7, WeightType DEF U, w

-----------------------------------------------------------------------------
(***************************************************************************)
(* What is in the window.                                                  *)
(***************************************************************************)
LEMMA LeastOfNaturals ==
  ASSUME NEW S \in SUBSET Nat, S # {}
  PROVE  Min(S) \in S /\ \A j \in S : Min(S) <= j
<1>1. PICK i \in S : \A j \in S : ~(<<j, i>> \in OpToRel(<, Nat))
  BY NatLessThanWellFounded, WFMin
<1>2. \A j \in S : ~(j < i)
  BY <1>1 DEF OpToRel
<1>3. \E m \in S : \A j \in S : m <= j
  BY <1>2
<1> QED BY <1>3 DEF Min

LEMMA FirstFacts ==
  ASSUME NEW u \in Seq(Entry), NEW first, first = FirstInWindow(u)
  PROVE  /\ first \in 1 .. Len(u) + 1
         /\ \A n \in 1 .. first - 1 : n \in DOMAIN u /\ u[n].age >= Window
         /\ first <= Len(u) => u[first].age < Window
<1> DEFINE S == {n \in DOMAIN u : u[n].age < Window} \cup {Len(u) + 1}
<1>1. Len(u) \in Nat /\ DOMAIN u = 1 .. Len(u)
  BY EntryFacts
<1>2. S \in SUBSET (1 .. Len(u) + 1) /\ S \in SUBSET Nat /\ S # {}
  BY <1>1
<1>3. first \in S /\ \A j \in S : first <= j
  BY <1>2, LeastOfNaturals DEF FirstInWindow
<1>4. first \in 1 .. Len(u) + 1
  BY <1>2, <1>3
<1>5. \A n \in DOMAIN u : u[n].age \in Nat /\ Window \in Nat
  BY EntryFacts, LimitsAssumption
<1>6. ASSUME NEW n \in 1 .. first - 1 PROVE n \in DOMAIN u /\ u[n].age >= Window
  <2>1. n \in DOMAIN u /\ ~(first <= n)
    BY <1>1, <1>4
  <2>2. ~(u[n].age < Window)
    BY <1>3, <2>1
  <2> QED BY <1>5, <2>1, <2>2
<1>7. ASSUME first <= Len(u) PROVE u[first].age < Window
  <2>1. first # Len(u) + 1
    BY <1>1, <1>4, <1>7
  <2> QED BY <1>3, <2>1
<1> QED BY <1>4, <1>6, <1>7

LEMMA FirstIs ==
  ASSUME NEW u \in Seq(Entry), NEW first \in 1 .. Len(u) + 1,
         \A n \in 1 .. first - 1 : u[n].age >= Window,
         first <= Len(u) => u[first].age < Window
  PROVE  FirstInWindow(u) = first
<1> DEFINE f == FirstInWindow(u)
<1>1. Len(u) \in Nat /\ DOMAIN u = 1 .. Len(u) /\ Window \in Nat
  BY EntryFacts, LimitsAssumption
<1>2. /\ f \in 1 .. Len(u) + 1
      /\ \A n \in 1 .. f - 1 : n \in DOMAIN u /\ u[n].age >= Window
      /\ f <= Len(u) => u[f].age < Window
  BY FirstFacts
<1>3. \A n \in DOMAIN u : u[n].age \in Nat
  BY EntryFacts, LimitsAssumption
<1> HIDE DEF f
<1>4. ~(f < first)
  <2> SUFFICES ASSUME f < first PROVE FALSE
    OBVIOUS
  <2>1. f \in 1 .. first - 1 /\ f \in DOMAIN u /\ f <= Len(u)
    BY <1>1, <1>2
  <2> QED BY <1>1, <1>2, <1>3, <2>1
<1>5. ~(first < f)
  <2> SUFFICES ASSUME first < f PROVE FALSE
    OBVIOUS
  <2>1. first \in 1 .. f - 1 /\ first \in DOMAIN u /\ first <= Len(u)
    BY <1>1, <1>2
  <2> QED BY <1>1, <1>2, <1>3, <2>1
<1> QED BY <1>1, <1>2, <1>4, <1>5 DEF f

\* prune divides the entries into what has expired and the rest.
LEMMA InWindowFacts ==
  ASSUME NEW u \in Seq(Entry), NEW k, k = FirstInWindow(u) - 1
  PROVE  /\ k \in 0 .. Len(u)
         /\ InWindow(u) \in Seq(Entry) /\ Len(InWindow(u)) = Len(u) - k
         /\ \A n \in 1 .. Len(u) - k : InWindow(u)[n] = u[k + n]
         /\ WeightOf(u) = WeightOf(SubSeq(u, 1, FirstInWindow(u) - 1)) + WeightOf(InWindow(u))
         /\ WeightOf(SubSeq(u, 1, FirstInWindow(u) - 1)) \in Nat
<1> DEFINE first == FirstInWindow(u)
           front == SubSeq(u, 1, first - 1)
<1>1. Len(u) \in Nat /\ DOMAIN u = 1 .. Len(u) /\ \A n \in 1 .. Len(u) : u[n] \in Entry
  BY EntryFacts
<1>2. first \in 1 .. Len(u) + 1
  BY FirstFacts
<1>k. k = first - 1
  OBVIOUS
<1> HIDE DEF first
<1>3. front \in Seq(Entry) /\ Len(front) = k /\ \A n \in 1 .. k : front[n] = u[n]
  <2>1. first - 1 \in Int /\ \A n \in 1 .. first - 1 : u[n] \in Entry
    BY <1>1, <1>2
  <2>2. /\ front \in Seq(Entry)
        /\ Len(front) = IF 1 <= first - 1 THEN first - 1 - 1 + 1 ELSE 0
        /\ \A n \in 1 .. first - 1 - 1 + 1 : front[n] = u[1 + n - 1]
    BY <2>1, SubSeqProperties
  <2> HIDE DEF front
  <2> QED BY <1>k, <1>1, <1>2, <2>2
<1>4. /\ SubSeq(u, first, Len(u)) \in Seq(Entry) /\ Len(SubSeq(u, first, Len(u))) = Len(u) - k
      /\ \A n \in 1 .. Len(u) - k : SubSeq(u, first, Len(u))[n] = u[k + n]
  <2>1. \A n \in first .. Len(u) : u[n] \in Entry
    BY <1>1, <1>2
  <2> DEFINE back == SubSeq(u, first, Len(u))
  <2>2. /\ back \in Seq(Entry)
        /\ Len(back) = IF first <= Len(u) THEN Len(u) - first + 1 ELSE 0
        /\ \A n \in 1 .. Len(u) - first + 1 : back[n] = u[first + n - 1]
    BY <1>1, <1>2, <2>1, SubSeqProperties
  <2> HIDE DEF back
  <2>3. /\ back \in Seq(Entry) /\ Len(back) = Len(u) - k
        /\ \A n \in 1 .. Len(u) - k : back[n] = u[k + n]
    <3>1. /\ Len(u) - first + 1 = Len(u) - k
          /\ Len(u) - k = IF first <= Len(u) THEN Len(u) - first + 1 ELSE 0
      BY <1>k, <1>1, <1>2
    <3>2. \A n \in 1 .. Len(u) - k : first + n - 1 = k + n
      BY <1>k, <1>1, <1>2
    <3> QED BY <2>2, <3>1, <3>2
  <2> QED BY <2>3 DEF back
<1>5. InWindow(u) = SubSeq(u, first, Len(u))
  BY DEF InWindow, first
<1> HIDE DEF front
<1>6. WeightOf(u) = WeightOf(front) + WeightOf(InWindow(u))
  <2>1. k \in Nat /\ Len(u) = Len(front) + Len(InWindow(u))
    BY <1>k, <1>1, <1>2, <1>3, <1>4, <1>5
  <2>2. \A n \in 1 .. Len(InWindow(u)) : u[Len(front) + n] = InWindow(u)[n]
    BY <1>3, <1>4, <1>5, <2>1
  <2>3. \A n \in 1 .. Len(front) : u[n] = front[n]
    BY <1>3
  <2>4. InWindow(u) \in Seq(Entry)
    BY <1>4, <1>5
  <2> QED BY <1>3, <2>1, <2>2, <2>3, <2>4, WeightAdds
<1>7. k \in 0 .. Len(u)
  BY <1>k, <1>1, <1>2
<1>8. WeightOf(front) \in Nat
  BY <1>3, WeightType
<1> QED BY <1>4, <1>5, <1>6, <1>7, <1>8 DEF first, front

Young(u) == \A n \in DOMAIN u : u[n].age < Window
Sorted(u) == \A m, n \in DOMAIN u : m < n => u[n].age <= u[m].age

LEMMA YoungStay ==
  ASSUME NEW u \in Seq(Entry), Young(u)
  PROVE  FirstInWindow(u) = 1 /\ InWindow(u) = u
<1>1. Len(u) \in Nat /\ DOMAIN u = 1 .. Len(u)
  BY EntryFacts
<1>2. FirstInWindow(u) = 1
  BY <1>1, FirstIs DEF Young
<1>3. SubSeq(u, 1, Len(u)) = u
  BY <1>1, SubSeqFull
<1> QED BY <1>2, <1>3 DEF InWindow

LEMMA InWindowYoung ==
  ASSUME NEW u \in Seq(Entry), Sorted(u)
  PROVE  Young(InWindow(u)) /\ Sorted(InWindow(u))
<1> DEFINE k == FirstInWindow(u) - 1
<1>1. /\ k \in 0 .. Len(u) /\ InWindow(u) \in Seq(Entry) /\ Len(InWindow(u)) = Len(u) - k
      /\ \A n \in 1 .. Len(u) - k : InWindow(u)[n] = u[k + n]
  BY InWindowFacts
<1>2. /\ Len(u) \in Nat /\ DOMAIN u = 1 .. Len(u) /\ Window \in Nat
      /\ \A n \in DOMAIN u : u[n].age \in Nat
  BY EntryFacts, LimitsAssumption
<1>3. DOMAIN InWindow(u) = 1 .. Len(u) - k
  BY <1>1, EntryFacts
<1>4. k + 1 <= Len(u) => u[k + 1].age < Window
  BY FirstFacts, <1>1, <1>2
<1> HIDE DEF k
<1>5. \A n \in 1 .. Len(u) - k : k + n \in DOMAIN u /\ k + 1 \in DOMAIN u /\ k + 1 <= k + n
  BY <1>1, <1>2
<1>6. ASSUME NEW n \in 1 .. Len(u) - k PROVE InWindow(u)[n].age < Window
  <2>1. k + n \in DOMAIN u /\ k + 1 \in DOMAIN u
    BY <1>5
  <2>2. k + n = k + 1 \/ k + 1 < k + n
    BY <1>1, <1>2
  <2>3. u[k + n].age \in Nat /\ u[k + 1].age \in Nat
    BY <1>2, <2>1
  <2>4. u[k + n].age <= u[k + 1].age
    BY <2>1, <2>2, <2>3 DEF Sorted
  <2>5. k + 1 <= Len(u)
    BY <1>1, <1>2, <2>1
  <2>6. u[k + n].age < Window
    BY <1>2, <1>4, <2>3, <2>4, <2>5
  <2> QED BY <1>1, <2>6
<1>7. ASSUME NEW m \in 1 .. Len(u) - k, NEW n \in 1 .. Len(u) - k, m < n
      PROVE  InWindow(u)[n].age <= InWindow(u)[m].age
  <2>1. k + m < k + n
    BY <1>1, <1>2, <1>7
  <2> QED BY <1>1, <1>5, <2>1 DEF Sorted
<1> QED BY <1>3, <1>6, <1>7 DEF Young, Sorted

-----------------------------------------------------------------------------
(***************************************************************************)
(* The limiter's reservations, beside what requests have cost the server.  *)
(***************************************************************************)

\* An adapter holds one reservation at most, with the weight reserved.
Single(u) == \A m, n \in DOMAIN u : u[m].of = u[n].of /\ u[n].of # Nobody => m = n
Priced(u) == \A n \in DOMAIN u : u[n].of # Nobody => u[n].weight = Cost

\* From place k on, every reservation is that of a charge, which costs no more.
Covers(u, k, c) ==
  /\ Len(u) = k + Len(c)
  /\ \A n \in DOMAIN c : /\ c[n].age = u[k + n].age /\ c[n].of = u[k + n].of
                         /\ c[n].weight <= u[k + n].weight

Ledger(u, c) ==
  /\ u \in Seq(Entry) /\ c \in Seq(Entry)
  /\ Sorted(u) /\ Single(u) /\ Priced(u) /\ Covers(u, FirstInWindow(u) - 1, c)

LEMMA CostFacts == Cost \in 1 .. Capacity /\ Cost \in Nat \ {0} /\ Capacity \in Nat
BY LimitsAssumption DEF Cost

\* What is charged weighs no more than what is reserved.
LEMMA ChargesCovered ==
  ASSUME NEW u, NEW c, Ledger(u, c)
  PROVE  WeightOf(c) <= WeightOf(u) /\ WeightOf(c) \in Nat /\ WeightOf(u) \in Nat
<1> DEFINE k == FirstInWindow(u) - 1
<1>1. u \in Seq(Entry) /\ c \in Seq(Entry) /\ Covers(u, k, c)
  BY DEF Ledger
<1>2. /\ k \in 0 .. Len(u) /\ InWindow(u) \in Seq(Entry) /\ Len(InWindow(u)) = Len(u) - k
      /\ \A n \in 1 .. Len(u) - k : InWindow(u)[n] = u[k + n]
      /\ WeightOf(u) = WeightOf(SubSeq(u, 1, FirstInWindow(u) - 1)) + WeightOf(InWindow(u))
      /\ WeightOf(SubSeq(u, 1, FirstInWindow(u) - 1)) \in Nat
  BY <1>1, InWindowFacts
<1>3. Len(u) \in Nat /\ Len(c) \in Nat /\ DOMAIN c = 1 .. Len(c)
  BY <1>1, EntryFacts
<1> HIDE DEF k
<1>4. Len(c) = Len(u) - k
  BY <1>1, <1>2, <1>3 DEF Covers
<1>5. \A n \in DOMAIN c : c[n].weight <= InWindow(u)[n].weight
  BY <1>1, <1>2, <1>3, <1>4 DEF Covers
<1>6. WeightOf(c) <= WeightOf(InWindow(u))
  BY <1>1, <1>2, <1>4, <1>5, WeightGrows
<1> QED BY <1>1, <1>2, <1>6, WeightType

\* Pruning.
LEMMA PruneKeeps ==
  ASSUME NEW u, NEW c, Ledger(u, c)
  PROVE  /\ Ledger(InWindow(u), c) /\ Young(InWindow(u))
         /\ WeightOf(InWindow(u)) = WeightOf(u) - WeightOf(SubSeq(u, 1, FirstInWindow(u) - 1))
         /\ WeightOf(InWindow(u)) \in Nat /\ WeightOf(InWindow(u)) <= WeightOf(u)
         /\ Len(InWindow(u)) = Len(c)
         /\ \A n \in DOMAIN InWindow(u) : InWindow(u)[n].of = c[n].of
         /\ \A n \in DOMAIN InWindow(u) : \E m \in DOMAIN u : InWindow(u)[n] = u[m]
<1> DEFINE k == FirstInWindow(u) - 1
           v == InWindow(u)
<1>1. /\ u \in Seq(Entry) /\ c \in Seq(Entry) /\ Covers(u, k, c)
      /\ Sorted(u) /\ Single(u) /\ Priced(u)
  BY DEF Ledger
<1>2. /\ k \in 0 .. Len(u) /\ v \in Seq(Entry) /\ Len(v) = Len(u) - k
      /\ \A n \in 1 .. Len(u) - k : v[n] = u[k + n]
      /\ WeightOf(u) = WeightOf(SubSeq(u, 1, FirstInWindow(u) - 1)) + WeightOf(v)
      /\ WeightOf(SubSeq(u, 1, FirstInWindow(u) - 1)) \in Nat
  BY <1>1, InWindowFacts
<1>3. Young(v) /\ Sorted(v)
  BY <1>1, InWindowYoung
<1>4. FirstInWindow(v) = 1
  BY <1>2, <1>3, YoungStay
<1>5. WeightOf(v) \in Nat /\ WeightOf(u) \in Nat
  BY <1>1, <1>2, WeightType
<1>6. /\ Len(u) \in Nat /\ DOMAIN u = 1 .. Len(u) /\ Len(c) \in Nat /\ DOMAIN c = 1 .. Len(c)
      /\ DOMAIN v = 1 .. Len(v)
  BY <1>1, <1>2, EntryFacts
<1> HIDE DEF k, v
<1>7. \A n \in DOMAIN v : k + n \in DOMAIN u /\ v[n] = u[k + n]
  BY <1>2, <1>6
<1>8. Len(v) = Len(c)
  BY <1>1, <1>2, <1>6 DEF Covers
<1>9. Single(v)
  <2> SUFFICES ASSUME NEW m \in DOMAIN v, NEW n \in DOMAIN v,
                      v[m].of = v[n].of, v[n].of # Nobody
               PROVE  m = n
    BY DEF Single
  <2>1. k + m = k + n
    BY <1>1, <1>7 DEF Single
  <2> QED BY <2>1, <1>2, <1>6
<1>10. Priced(v)
  BY <1>1, <1>7 DEF Priced
<1>11. \A n \in DOMAIN c : /\ c[n].age = v[n].age /\ c[n].of = v[n].of
                          /\ c[n].weight <= v[n].weight
  BY <1>1, <1>6, <1>7, <1>8 DEF Covers
<1>12. Covers(v, FirstInWindow(v) - 1, c)
  <2>1. FirstInWindow(v) - 1 = 0 /\ Len(v) = 0 + Len(c) /\ \A n \in DOMAIN c : 0 + n = n
    BY <1>4, <1>6, <1>8
  <2> QED BY <1>11, <2>1 DEF Covers
<1>13. Ledger(v, c)
  BY <1>1, <1>2, <1>3, <1>9, <1>10, <1>12 DEF Ledger
<1>14. WeightOf(v) = WeightOf(u) - WeightOf(SubSeq(u, 1, FirstInWindow(u) - 1)) /\ WeightOf(v) <= WeightOf(u)
  BY <1>2, <1>5
<1>15. \A n \in DOMAIN v : v[n].of = c[n].of
  BY <1>6, <1>8, <1>11
<1>16. \A n \in DOMAIN v : \E m \in DOMAIN u : v[n] = u[m]
  BY <1>7
<1> QED BY <1>3, <1>5, <1>8, <1>13, <1>14, <1>15, <1>16 DEF v

\* Changes that leave every entry in its place, at its age: some adapter may
\* hold its reservation no more, and charges follow.
Revised(u, v) ==
  /\ v \in Seq(Entry) /\ Len(v) = Len(u)
  /\ \A n \in DOMAIN u : v[n].age = u[n].age
Released(u, v) ==
  \A n \in DOMAIN u : v[n].of = Nobody \/ (v[n].of = u[n].of /\ v[n].weight = u[n].weight)
Follows(u, c, v, d) ==
  \A m \in DOMAIN u : \A n \in DOMAIN c :
    u[m].of = c[n].of /\ c[n].weight <= u[m].weight =>
      d[n].of = v[m].of /\ d[n].weight <= v[m].weight

LEMMA ChangeKeeps ==
  ASSUME NEW u, NEW c, NEW v, NEW d, Ledger(u, c),
         Revised(u, v), Revised(c, d), Released(u, v), Follows(u, c, v, d)
  PROVE  Ledger(v, d)
<1> DEFINE k == FirstInWindow(u) - 1
<1>1. /\ u \in Seq(Entry) /\ c \in Seq(Entry) /\ Covers(u, k, c)
      /\ Sorted(u) /\ Single(u) /\ Priced(u)
  BY DEF Ledger
<1>2. /\ Len(u) \in Nat /\ DOMAIN u = 1 .. Len(u) /\ Len(c) \in Nat /\ DOMAIN c = 1 .. Len(c)
      /\ DOMAIN v = DOMAIN u /\ DOMAIN d = DOMAIN c
      /\ v \in Seq(Entry) /\ d \in Seq(Entry) /\ Len(v) = Len(u) /\ Len(d) = Len(c)
  BY <1>1, EntryFacts DEF Revised
<1>3. FirstInWindow(v) = FirstInWindow(u)
  <2> DEFINE first == FirstInWindow(u)
  <2>1. /\ first \in 1 .. Len(u) + 1
        /\ \A n \in 1 .. first - 1 : n \in DOMAIN u /\ u[n].age >= Window
        /\ first <= Len(u) => u[first].age < Window
    BY <1>1, FirstFacts
  <2> HIDE DEF first
  <2>2. first <= Len(u) => first \in DOMAIN u
    BY <1>2, <2>1
  <2>3. FirstInWindow(v) = first
    BY <1>2, <2>1, <2>2, FirstIs DEF Revised
  <2> QED BY <2>3 DEF first
<1>4. k \in 0 .. Len(u)
  BY <1>1, InWindowFacts
<1> HIDE DEF k
<1>5. Sorted(v)
  BY <1>1, <1>2 DEF Sorted, Revised
<1>6. Single(v)
  BY <1>1, <1>2 DEF Single, Released
<1>7. Priced(v)
  BY <1>1, <1>2 DEF Priced, Released
<1>8. Covers(v, k, d)
  <2>1. \A n \in DOMAIN c : k + n \in DOMAIN u
    BY <1>1, <1>2, <1>4 DEF Covers
  <2> QED BY <1>1, <1>2, <2>1 DEF Covers, Revised, Follows
<1> QED BY <1>2, <1>3, <1>5, <1>6, <1>7, <1>8 DEF Ledger, k

\* A reservation that is made.
LEMMA AppendKeeps ==
  ASSUME NEW u, NEW c, Ledger(u, c), Young(u), NEW a \in Adapters, Held(u, a) = {},
         NEW new, new = [of |-> a, weight |-> Cost, age |-> 0],
         NEW free, free = [of |-> a, weight |-> 0, age |-> 0]
  PROVE  /\ Ledger(Append(u, new), Append(c, free))
         /\ WeightOf(Append(u, new)) = WeightOf(u) + Cost
<1> DEFINE v == Append(u, new)
           d == Append(c, free)
<1>1. /\ u \in Seq(Entry) /\ c \in Seq(Entry) /\ Covers(u, FirstInWindow(u) - 1, c)
      /\ Sorted(u) /\ Single(u) /\ Priced(u)
  BY DEF Ledger
<1>2. new \in Entry /\ free \in Entry /\ new.weight = Cost /\ new.age = 0 /\ new.of = a
      /\ free.weight = 0 /\ free.age = 0 /\ free.of = a
  BY CostFacts, LimitsAssumption DEF Entry
<1>3. /\ Len(u) \in Nat /\ DOMAIN u = 1 .. Len(u) /\ Len(c) \in Nat /\ DOMAIN c = 1 .. Len(c)
      /\ \A n \in DOMAIN u : u[n].age \in Nat
  BY <1>1, EntryFacts, LimitsAssumption
<1>4. /\ v \in Seq(Entry) /\ Len(v) = Len(u) + 1 /\ v[Len(u) + 1] = new
      /\ \A n \in 1 .. Len(u) : v[n] = u[n]
      /\ d \in Seq(Entry) /\ Len(d) = Len(c) + 1 /\ d[Len(c) + 1] = free
      /\ \A n \in 1 .. Len(c) : d[n] = c[n]
  BY <1>1, <1>2, AppendProperties
<1>5. DOMAIN v = DOMAIN u \cup {Len(u) + 1} /\ DOMAIN d = DOMAIN c \cup {Len(c) + 1}
  <2>1. DOMAIN v = 1 .. Len(v) /\ DOMAIN d = 1 .. Len(d)
    BY <1>4, EntryFacts
  <2> HIDE DEF v, d
  <2> QED BY <1>3, <1>4, <2>1
<1> HIDE DEF v, d
<1>6. Young(v)
  BY <1>2, <1>3, <1>4, <1>5, LimitsAssumption DEF Young
<1>7. FirstInWindow(v) = 1 /\ FirstInWindow(u) = 1
  BY <1>1, <1>4, <1>6, YoungStay
<1>8. Sorted(v)
  <2> SUFFICES ASSUME NEW m \in DOMAIN v, NEW n \in DOMAIN v, m < n
               PROVE  v[n].age <= v[m].age
    BY DEF Sorted
  <2>1. m \in DOMAIN u
    BY <1>3, <1>5
  <2>2. CASE n \in DOMAIN u
    BY <1>1, <1>3, <1>4, <2>1, <2>2 DEF Sorted
  <2>3. CASE n = Len(u) + 1
    BY <1>2, <1>3, <1>4, <2>1, <2>3
  <2> QED BY <1>5, <2>2, <2>3
<1>9. \A n \in DOMAIN u : u[n].of # a
  BY DEF Held
<1>10. Single(v)
  BY <1>1, <1>2, <1>3, <1>4, <1>5, <1>9 DEF Single
<1>11. Priced(v)
  BY <1>1, <1>2, <1>3, <1>4, <1>5 DEF Priced
<1>12. Len(u) = Len(c) /\ \A n \in DOMAIN c : /\ c[n].age = u[n].age /\ c[n].of = u[n].of
                                           /\ c[n].weight <= u[n].weight
  <2>1. FirstInWindow(u) - 1 = 0 /\ \A n \in DOMAIN c : 0 + n = n
    BY <1>3, <1>7
  <2> QED BY <1>1, <1>3, <2>1 DEF Covers
<1>13. \A n \in DOMAIN d : /\ d[n].age = v[n].age /\ d[n].of = v[n].of
                          /\ d[n].weight <= v[n].weight
  BY <1>2, <1>3, <1>4, <1>5, <1>12, CostFacts
<1>14. Covers(v, FirstInWindow(v) - 1, d)
  <2>1. FirstInWindow(v) - 1 = 0 /\ Len(v) = 0 + Len(d) /\ \A n \in DOMAIN d : 0 + n = n
    BY <1>3, <1>4, <1>5, <1>7, <1>12
  <2> QED BY <1>13, <2>1 DEF Covers
<1>15. Ledger(v, d)
  BY <1>4, <1>8, <1>10, <1>11, <1>14 DEF Ledger
<1>16. WeightOf(v) = WeightOf(u) + WeightOf(<<new>>)
  <2>1. <<new>> \in Seq(Entry) /\ Len(<<new>>) = 1 /\ <<new>>[1] = new
    BY <1>2
  <2>2. Len(v) = Len(u) + Len(<<new>>) /\ \A n \in 1 .. Len(<<new>>) : v[Len(u) + n] = <<new>>[n]
    BY <1>3, <1>4, <2>1
  <2> QED BY <1>1, <1>4, <2>1, <2>2, WeightAdds
<1>17. WeightOf(v) = WeightOf(u) + Cost
  BY <1>2, <1>16, WeightOfOne
<1> QED BY <1>15, <1>17 DEF v, d

\* A reservation that is given back.
LEMMA WithoutFacts ==
  ASSUME NEW u \in Seq(Entry), NEW n \in DOMAIN u
  PROVE  /\ Without(u, n) \in Seq(Entry) /\ Len(Without(u, n)) = Len(u) - 1
         /\ \A m \in 1 .. n - 1 : Without(u, n)[m] = u[m]
         /\ \A m \in n .. Len(u) - 1 : Without(u, n)[m] = u[m + 1]
         /\ WeightOf(Without(u, n)) = WeightOf(u) - u[n].weight
         /\ WeightOf(u) \in Nat /\ u[n].weight \in Nat
<1> DEFINE front == SubSeq(u, 1, n - 1)
           back == SubSeq(u, n + 1, Len(u))
           v == Without(u, n)
<1>1. Len(u) \in Nat /\ DOMAIN u = 1 .. Len(u) /\ \A m \in 1 .. Len(u) : u[m] \in Entry
  BY EntryFacts
<1>2. n \in 1 .. Len(u)
  BY <1>1
<1>3. front \in Seq(Entry) /\ Len(front) = n - 1 /\ \A m \in 1 .. n - 1 : front[m] = u[m]
  <2>1. /\ front \in Seq(Entry)
        /\ Len(front) = IF 1 <= n - 1 THEN n - 1 - 1 + 1 ELSE 0
        /\ \A m \in 1 .. n - 1 - 1 + 1 : front[m] = u[1 + m - 1]
    BY <1>1, <1>2, SubSeqProperties
  <2> HIDE DEF front
  <2> QED BY <1>1, <1>2, <2>1
<1>4. back \in Seq(Entry) /\ Len(back) = Len(u) - n /\ \A m \in 1 .. Len(u) - n : back[m] = u[n + m]
  <2>1. /\ back \in Seq(Entry)
        /\ Len(back) = IF n + 1 <= Len(u) THEN Len(u) - (n + 1) + 1 ELSE 0
        /\ \A m \in 1 .. Len(u) - (n + 1) + 1 : back[m] = u[(n + 1) + m - 1]
    BY <1>1, <1>2, SubSeqProperties
  <2> HIDE DEF back
  <2>2. \A m \in 1 .. Len(u) - n : (n + 1) + m - 1 = n + m
    BY <1>1, <1>2
  <2>3. Len(u) - (n + 1) + 1 = Len(u) - n /\ (n + 1 <= Len(u) \/ Len(u) - n = 0)
    BY <1>1, <1>2
  <2> QED BY <2>1, <2>2, <2>3
<1>5. v = front \o back
  BY DEF Without
<1> HIDE DEF v, front, back
<1>6. /\ v \in Seq(Entry) /\ Len(v) = Len(front) + Len(back)
      /\ \A m \in 1 .. Len(front) : v[m] = front[m]
      /\ \A m \in 1 .. Len(back) : v[Len(front) + m] = back[m]
  <2>1. /\ v \in Seq(Entry) /\ Len(v) = Len(front) + Len(back)
        /\ \A i \in 1 .. Len(front) + Len(back) :
             v[i] = IF i <= Len(front) THEN front[i] ELSE back[i - Len(front)]
    BY <1>3, <1>4, <1>5, ConcatProperties
  <2>2. Len(front) \in Nat /\ Len(back) \in Nat
    BY <1>3, <1>4, EntryFacts
  <2>3. \A m \in 1 .. Len(front) : v[m] = front[m]
    BY <2>1, <2>2
  <2>4. ASSUME NEW m \in 1 .. Len(back) PROVE v[Len(front) + m] = back[m]
    <3>1. /\ Len(front) + m \in 1 .. Len(front) + Len(back) /\ ~(Len(front) + m <= Len(front))
          /\ Len(front) + m - Len(front) = m
      BY <2>2
    <3> QED BY <2>1, <3>1
  <2> QED BY <2>1, <2>3, <2>4
<1>7. WeightOf(v) = WeightOf(front) + WeightOf(back)
  BY <1>3, <1>4, <1>6, WeightAdds
<1>8. WeightOf(u) = WeightOf(front) + u[n].weight + WeightOf(back)
  <2> DEFINE one == <<u[n]>>
             rest == Append(front, u[n])
  <2>1. one \in Seq(Entry) /\ Len(one) = 1 /\ one[1] = u[n] /\ WeightOf(one) = u[n].weight
    BY <1>1, <1>2, WeightOfOne
  <2>2. /\ rest \in Seq(Entry) /\ Len(rest) = n /\ rest[n] = u[n]
        /\ \A m \in 1 .. n - 1 : rest[m] = front[m]
    BY <1>1, <1>2, <1>3, AppendProperties
  <2> HIDE DEF one, rest
  <2>3. WeightOf(rest) = WeightOf(front) + WeightOf(one)
    <3>1. \A m \in 1 .. Len(one) : rest[Len(front) + m] = one[m]
      BY <1>2, <1>3, <2>1, <2>2
    <3>2. Len(rest) = Len(front) + Len(one)
      BY <1>2, <1>3, <2>1, <2>2
    <3>3. \A m \in 1 .. Len(front) : rest[m] = front[m]
      BY <1>3, <2>2
    <3> QED BY <1>3, <2>1, <2>2, <3>1, <3>2, <3>3, WeightAdds
  <2>4. WeightOf(u) = WeightOf(rest) + WeightOf(back)
    <3>1. Len(u) = Len(rest) + Len(back)
      BY <1>1, <1>2, <1>4, <2>2
    <3>2. \A m \in 1 .. Len(rest) : u[m] = rest[m]
      BY <1>1, <1>2, <1>3, <2>2
    <3>3. \A m \in 1 .. Len(back) : u[Len(rest) + m] = back[m]
      BY <1>4, <2>2
    <3> QED BY <1>4, <2>2, <3>1, <3>2, <3>3, WeightAdds
  <2> QED BY <2>1, <2>3, <2>4
<1>9. Len(v) = Len(u) - 1
  BY <1>1, <1>2, <1>3, <1>4, <1>6
<1>10. \A m \in 1 .. n - 1 : v[m] = u[m]
  BY <1>3, <1>6
<1>11. ASSUME NEW m \in n .. Len(u) - 1 PROVE v[m] = u[m + 1]
  <2>1. PICK j \in Int : j = m - (n - 1)
    BY <1>2
  <2>2. j \in 1 .. Len(u) - n /\ Len(front) + j = m /\ n + j = m + 1
    <3>1. Len(u) \in Nat /\ n \in Nat /\ m \in Int /\ n <= m /\ m <= Len(u) - 1
      BY <1>1, <1>2
    <3>2. Len(front) = n - 1
      BY <1>3
    <3> QED BY <2>1, <3>1, <3>2
  <2>3. v[Len(front) + j] = back[j] /\ back[j] = u[n + j]
    BY <1>4, <1>6, <2>2
  <2> QED BY <2>2, <2>3
<1>12. WeightOf(front) \in Nat /\ WeightOf(back) \in Nat /\ u[n].weight \in Nat /\ WeightOf(u) \in Nat
  <2>1. WeightOf(front) \in Nat
    BY <1>3, WeightType
  <2>2. WeightOf(back) \in Nat
    BY <1>4, WeightType
  <2>3. WeightOf(u) \in Nat
    BY WeightType
  <2>4. u[n].weight \in Nat
    BY EntryFacts, LimitsAssumption
  <2> QED BY <2>1, <2>2, <2>3, <2>4
<1>13. WeightOf(v) = WeightOf(u) - u[n].weight
  BY <1>7, <1>8, <1>12
<1> QED BY <1>6, <1>9, <1>10, <1>11, <1>12, <1>13 DEF v

\* A reservation that is taken back leaves the window, and so does its charge.
LEMMA RemoveKeeps ==
  ASSUME NEW u, NEW c, Ledger(u, c), Young(u), NEW n \in DOMAIN u
  PROVE  /\ n \in DOMAIN c /\ Ledger(Without(u, n), Without(c, n))
         /\ \A m \in DOMAIN Without(u, n) : \E l \in DOMAIN u \ {n} : Without(u, n)[m] = u[l]
<1> DEFINE v == Without(u, n)
           d == Without(c, n)
<1>1. /\ u \in Seq(Entry) /\ c \in Seq(Entry) /\ Covers(u, FirstInWindow(u) - 1, c)
      /\ Sorted(u) /\ Single(u) /\ Priced(u)
  BY DEF Ledger
<1>2. FirstInWindow(u) = 1
  BY <1>1, YoungStay
<1>3. /\ Len(u) \in Nat /\ DOMAIN u = 1 .. Len(u) /\ Len(c) \in Nat /\ DOMAIN c = 1 .. Len(c)
  BY <1>1, EntryFacts
<1>4. Len(u) = Len(c) /\ \A m \in DOMAIN c : /\ c[m].age = u[m].age /\ c[m].of = u[m].of
                                           /\ c[m].weight <= u[m].weight
  <2>1. FirstInWindow(u) - 1 = 0 /\ \A m \in DOMAIN c : 0 + m = m
    BY <1>2, <1>3
  <2> QED BY <1>1, <1>3, <2>1 DEF Covers
<1>5. n \in DOMAIN c /\ DOMAIN c = DOMAIN u /\ n \in 1 .. Len(u)
  BY <1>3, <1>4
<1>6. /\ v \in Seq(Entry) /\ Len(v) = Len(u) - 1
      /\ \A m \in 1 .. n - 1 : v[m] = u[m]
      /\ \A m \in n .. Len(u) - 1 : v[m] = u[m + 1]
  <2>1. u \in Seq(Entry)
    BY <1>1
  <2>2. /\ Without(u, n) \in Seq(Entry) /\ Len(Without(u, n)) = Len(u) - 1
        /\ \A m \in 1 .. n - 1 : Without(u, n)[m] = u[m]
        /\ \A m \in n .. Len(u) - 1 : Without(u, n)[m] = u[m + 1]
    BY <2>1, WithoutFacts
  <2> QED BY <2>2
<1>7. /\ d \in Seq(Entry) /\ Len(d) = Len(u) - 1
      /\ \A m \in 1 .. n - 1 : d[m] = c[m]
      /\ \A m \in n .. Len(u) - 1 : d[m] = c[m + 1]
  BY <1>1, <1>4, <1>5, WithoutFacts
<1>8. DOMAIN v = 1 .. Len(u) - 1 /\ DOMAIN d = 1 .. Len(u) - 1
  BY <1>6, <1>7, EntryFacts
<1> HIDE DEF v, d
<1> DEFINE at(m) == IF m < n THEN m ELSE m + 1
<1>9. \A m \in 1 .. Len(u) - 1 : /\ at(m) \in DOMAIN u /\ at(m) # n
                                /\ v[m] = u[at(m)] /\ d[m] = c[at(m)]
  <2> SUFFICES ASSUME NEW m \in 1 .. Len(u) - 1
               PROVE  /\ at(m) \in DOMAIN u /\ at(m) # n
                      /\ v[m] = u[at(m)] /\ d[m] = c[at(m)]
    OBVIOUS
  <2>1. CASE m < n
    <3>1. m \in 1 .. n - 1 /\ m \in 1 .. Len(u) /\ m # n
      BY <1>3, <1>5, <2>1
    <3> QED BY <1>3, <1>6, <1>7, <2>1, <3>1
  <2>2. CASE ~(m < n)
    <3>1. m \in n .. Len(u) - 1 /\ m + 1 \in 1 .. Len(u) /\ m + 1 # n
      BY <1>3, <1>5, <2>2
    <3> QED BY <1>3, <1>6, <1>7, <2>2, <3>1
  <2> QED BY <2>1, <2>2
<1>10. \A l, m \in 1 .. Len(u) - 1 : (l < m => at(l) < at(m)) /\ (at(l) = at(m) => l = m)
  BY <1>3, <1>5
<1> HIDE DEF at
<1>11. Sorted(v)
  BY <1>1, <1>8, <1>9, <1>10 DEF Sorted
<1>12. Single(v)
  <2> SUFFICES ASSUME NEW l \in 1 .. Len(u) - 1, NEW m \in 1 .. Len(u) - 1,
                      v[l].of = v[m].of, v[m].of # Nobody
               PROVE  l = m
    BY <1>8 DEF Single
  <2>1. at(l) = at(m)
    BY <1>1, <1>9 DEF Single
  <2> QED BY <1>10, <2>1
<1>13. Priced(v)
  BY <1>1, <1>8, <1>9 DEF Priced
<1>14. Young(v)
  BY <1>8, <1>9 DEF Young
<1>15. FirstInWindow(v) - 1 = 0
  BY <1>6, <1>14, YoungStay
<1>16. Covers(v, 0, d)
  <2>1. Len(v) = 0 + Len(d) /\ \A m \in DOMAIN d : 0 + m = m
    BY <1>3, <1>6, <1>7, <1>8
  <2>2. \A m \in DOMAIN d : /\ d[m].age = v[m].age /\ d[m].of = v[m].of
                           /\ d[m].weight <= v[m].weight
    BY <1>4, <1>5, <1>8, <1>9
  <2> QED BY <2>1, <2>2 DEF Covers
<1>17. Ledger(v, d)
  BY <1>6, <1>7, <1>11, <1>12, <1>13, <1>15, <1>16 DEF Ledger
<1>18. \A m \in DOMAIN v : \E l \in DOMAIN u \ {n} : v[m] = u[l]
  BY <1>8, <1>9
<1> QED BY <1>5, <1>17, <1>18 DEF v, d

LEMMA EntriesFromFunction ==
  ASSUME NEW n \in Nat, NEW f \in [1 .. n -> Entry]
  PROVE  f \in Seq(Entry) /\ Len(f) = n
BY SeqDef

\* Less weight at one place.
LEMMA WeightLowered ==
  ASSUME NEW u \in Seq(Entry), NEW v \in Seq(Entry), Len(u) = Len(v), NEW n \in DOMAIN u,
         \A m \in DOMAIN u \ {n} : v[m] = u[m]
  PROVE  WeightOf(v) = WeightOf(u) - u[n].weight + v[n].weight
<1>1. Len(u) \in Nat /\ DOMAIN u = 1 .. Len(u) /\ DOMAIN v = 1 .. Len(u)
  BY EntryFacts
<1>2. n \in 1 .. Len(u)
  BY <1>1
<1>3. /\ Without(u, n) \in Seq(Entry) /\ Len(Without(u, n)) = Len(u) - 1
      /\ \A m \in 1 .. n - 1 : Without(u, n)[m] = u[m]
      /\ \A m \in n .. Len(u) - 1 : Without(u, n)[m] = u[m + 1]
      /\ WeightOf(Without(u, n)) = WeightOf(u) - u[n].weight
      /\ WeightOf(u) \in Nat /\ u[n].weight \in Nat
  BY WithoutFacts
<1>4. /\ Without(v, n) \in Seq(Entry) /\ Len(Without(v, n)) = Len(u) - 1
      /\ \A m \in 1 .. n - 1 : Without(v, n)[m] = v[m]
      /\ \A m \in n .. Len(u) - 1 : Without(v, n)[m] = v[m + 1]
      /\ WeightOf(Without(v, n)) = WeightOf(v) - v[n].weight
      /\ WeightOf(v) \in Nat /\ v[n].weight \in Nat
  <2>1. n \in DOMAIN v /\ Len(v) = Len(u)
    BY <1>1
  <2> QED BY <2>1, WithoutFacts
<1>5. DOMAIN Without(u, n) = 1 .. Len(u) - 1
  BY <1>3, EntryFacts
<1>6. \A m \in 1 .. Len(u) - 1 : Without(v, n)[m] = Without(u, n)[m]
  <2> SUFFICES ASSUME NEW m \in 1 .. Len(u) - 1 PROVE Without(v, n)[m] = Without(u, n)[m]
    OBVIOUS
  <2>1. CASE m < n
    <3>1. m \in 1 .. n - 1 /\ m \in DOMAIN u \ {n}
      BY <1>1, <1>2, <2>1
    <3> QED BY <1>3, <1>4, <3>1
  <2>2. CASE ~(m < n)
    <3>1. m \in n .. Len(u) - 1 /\ m + 1 \in DOMAIN u \ {n}
      BY <1>1, <1>2, <2>2
    <3> QED BY <1>3, <1>4, <3>1
  <2> QED BY <2>1, <2>2
<1>7. WeightOf(Without(v, n)) = WeightOf(Without(u, n))
  BY <1>3, <1>4, <1>5, <1>6, WeightKept
<1> QED BY <1>3, <1>4, <1>7

LEMMA ClosedFacts ==
  ASSUME NEW u \in Seq(Entry), NEW a \in Adapters
  PROVE  /\ Closed(u, a) \in Seq(Entry) /\ Len(Closed(u, a)) = Len(u)
         /\ DOMAIN Closed(u, a) = DOMAIN u
         /\ \A n \in DOMAIN u :
              /\ Closed(u, a)[n].age = u[n].age /\ Closed(u, a)[n].weight = u[n].weight
              /\ Closed(u, a)[n].of = IF u[n].of = a THEN Nobody ELSE u[n].of
         /\ WeightOf(Closed(u, a)) = WeightOf(u)
<1> DEFINE v == Closed(u, a)
<1>1. Len(u) \in Nat /\ DOMAIN u = 1 .. Len(u) /\ \A n \in DOMAIN u : u[n] \in Entry
  BY EntryFacts
<1>2. v = [n \in DOMAIN u |-> IF u[n].of = a THEN [u[n] EXCEPT !.of = Nobody] ELSE u[n]]
  BY DEF Closed
<1>3. ASSUME NEW n \in DOMAIN u
      PROVE  /\ v[n] \in Entry /\ v[n].age = u[n].age /\ v[n].weight = u[n].weight
             /\ v[n].of = IF u[n].of = a THEN Nobody ELSE u[n].of
  <2>1. v[n] = IF u[n].of = a THEN [u[n] EXCEPT !.of = Nobody] ELSE u[n]
    BY <1>2
  <2>2. u[n] \in Entry
    BY <1>1
  <2> HIDE DEF v
  <2> QED BY <2>1, <2>2 DEF Entry
<1>4. v \in [1 .. Len(u) -> Entry]
  BY <1>1, <1>2, <1>3
<1> HIDE DEF v
<1>5. v \in Seq(Entry) /\ Len(v) = Len(u) /\ DOMAIN v = DOMAIN u
  BY <1>1, <1>4, EntriesFromFunction
<1>6. WeightOf(v) = WeightOf(u)
  BY <1>3, <1>5, WeightKept
<1> QED BY <1>3, <1>5, <1>6 DEF v

LEMMA ChargeFacts ==
  ASSUME charges \in Seq(Entry), NEW a \in Adapters, NEW weight \in 0 .. Capacity
  PROVE  /\ Charge(a, weight) \in Seq(Entry) /\ Len(Charge(a, weight)) = Len(charges)
         /\ DOMAIN Charge(a, weight) = DOMAIN charges
         /\ \A n \in DOMAIN charges :
              /\ Charge(a, weight)[n].age = charges[n].age
              /\ Charge(a, weight)[n].of = charges[n].of
              /\ Charge(a, weight)[n].weight = IF charges[n].of = a THEN weight ELSE charges[n].weight
<1> DEFINE v == Charge(a, weight)
<1>1. /\ Len(charges) \in Nat /\ DOMAIN charges = 1 .. Len(charges)
      /\ \A n \in DOMAIN charges : charges[n] \in Entry
  BY EntryFacts
<1>2. v = [n \in DOMAIN charges |->
             IF charges[n].of = a THEN [charges[n] EXCEPT !.weight = weight] ELSE charges[n]]
  BY DEF Charge
<1>3. ASSUME NEW n \in DOMAIN charges
      PROVE  /\ v[n] \in Entry /\ v[n].age = charges[n].age /\ v[n].of = charges[n].of
             /\ v[n].weight = IF charges[n].of = a THEN weight ELSE charges[n].weight
  <2>1. v[n] = IF charges[n].of = a THEN [charges[n] EXCEPT !.weight = weight] ELSE charges[n]
    BY <1>2
  <2>2. charges[n] \in Entry
    BY <1>1
  <2> HIDE DEF v
  <2> QED BY <2>1, <2>2 DEF Entry
<1>4. v \in [1 .. Len(charges) -> Entry]
  BY <1>1, <1>2, <1>3
<1> HIDE DEF v
<1>5. v \in Seq(Entry) /\ Len(v) = Len(charges) /\ DOMAIN v = DOMAIN charges
  BY <1>1, <1>4, EntriesFromFunction
<1> QED BY <1>3, <1>5 DEF v

\* What a request that is over has cost.
LEMMA ChargedFacts ==
  ASSUME charges \in Seq(Entry), NEW a \in Adapters, NEW weight \in 0 .. Capacity,
         NEW d, d = Closed(Charge(a, weight), a)
  PROVE  /\ d \in Seq(Entry) /\ Len(d) = Len(charges) /\ DOMAIN d = DOMAIN charges
         /\ \A n \in DOMAIN charges :
              /\ d[n].age = charges[n].age
              /\ d[n].of = IF charges[n].of = a THEN Nobody ELSE charges[n].of
              /\ d[n].weight = IF charges[n].of = a THEN weight ELSE charges[n].weight
<1> DEFINE b == Charge(a, weight)
<1>1. /\ b \in Seq(Entry) /\ Len(b) = Len(charges) /\ DOMAIN b = DOMAIN charges
      /\ \A n \in DOMAIN charges :
           /\ b[n].age = charges[n].age /\ b[n].of = charges[n].of
           /\ b[n].weight = IF charges[n].of = a THEN weight ELSE charges[n].weight
  BY ChargeFacts
<1> HIDE DEF b
<1>2. d = Closed(b, a)
  BY DEF b
<1>3. /\ d \in Seq(Entry) /\ Len(d) = Len(b) /\ DOMAIN d = DOMAIN b
      /\ \A n \in DOMAIN b :
           /\ d[n].age = b[n].age /\ d[n].weight = b[n].weight
           /\ d[n].of = IF b[n].of = a THEN Nobody ELSE b[n].of
  BY <1>1, <1>2, ClosedFacts
<1> QED BY <1>1, <1>3

\* A request is over, and cost what was reserved for it, or less.
LEMMA CloseKeeps ==
  ASSUME Ledger(usage, charges), NEW a \in Adapters, NEW weight \in 0 .. Cost
  PROVE  Ledger(Closed(usage, a), Closed(Charge(a, weight), a))
<1> DEFINE v == Closed(usage, a)
           d == Closed(Charge(a, weight), a)
<1>1. usage \in Seq(Entry) /\ charges \in Seq(Entry) /\ Priced(usage)
  BY DEF Ledger
<1>2. weight \in 0 .. Capacity
  BY CostFacts
<1>3. /\ v \in Seq(Entry) /\ Len(v) = Len(usage)
      /\ \A n \in DOMAIN usage :
           /\ v[n].age = usage[n].age /\ v[n].weight = usage[n].weight
           /\ v[n].of = IF usage[n].of = a THEN Nobody ELSE usage[n].of
  BY <1>1, ClosedFacts
<1>4. /\ d \in Seq(Entry) /\ Len(d) = Len(charges)
      /\ \A n \in DOMAIN charges :
           /\ d[n].age = charges[n].age
           /\ d[n].of = IF charges[n].of = a THEN Nobody ELSE charges[n].of
           /\ d[n].weight = IF charges[n].of = a THEN weight ELSE charges[n].weight
  BY <1>1, <1>2, ChargedFacts
<1> HIDE DEF v, d
<1>5. ASSUME NEW m \in DOMAIN usage, NEW n \in DOMAIN charges,
             usage[m].of = charges[n].of, charges[n].weight <= usage[m].weight
      PROVE  d[n].of = v[m].of /\ d[n].weight <= v[m].weight
  <2>1. CASE usage[m].of = a
    <3>1. usage[m].weight = Cost
      BY <1>1, <2>1, NobodyAssumption DEF Priced
    <3>2. charges[n].of = a
      BY <1>5, <2>1
    <3>3. d[n].weight = weight /\ d[n].of = Nobody
      BY <1>4, <3>2
    <3>4. v[m].weight = Cost /\ v[m].of = Nobody
      BY <1>3, <2>1, <3>1
    <3>5. weight <= Cost
      BY CostFacts
    <3> QED BY <3>3, <3>4, <3>5
  <2>2. CASE usage[m].of # a
    BY <1>3, <1>4, <1>5, <2>2
  <2> QED BY <2>1, <2>2
<1>6. Follows(usage, charges, v, d)
  BY <1>5 DEF Follows
<1>7. Ledger(v, d)
  <2>1. Revised(usage, v) /\ Revised(charges, d)
    BY <1>3, <1>4 DEF Revised
  <2>2. Released(usage, v)
    BY <1>3 DEF Released
  <2> QED BY <1>6, <2>1, <2>2, ChangeKeeps
<1> QED BY <1>7 DEF v, d

\* A part of a reservation that is given back, when the request has cost less.
PartBack(u, n, part) == [u EXCEPT ![n].weight = @ - part, ![n].of = Nobody]

LEMMA PartKeeps ==
  ASSUME NEW u, Ledger(u, charges), NEW a \in Adapters, NEW n \in DOMAIN u, u[n].of = a,
         NEW part \in 1 .. Cost - 1,
         NEW v, v = PartBack(u, n, part)
  PROVE  /\ Ledger(v, Closed(Charge(a, Cost - part), a))
         /\ WeightOf(v) = WeightOf(u) - part /\ WeightOf(u) \in Nat
         /\ DOMAIN v = DOMAIN u
         /\ \A m \in DOMAIN u : v[m].of = IF u[m].of = a THEN Nobody ELSE u[m].of
<1> DEFINE d == Closed(Charge(a, Cost - part), a)
<1>1. u \in Seq(Entry) /\ charges \in Seq(Entry) /\ Priced(u) /\ Single(u)
  BY DEF Ledger
<1>2. Cost - part \in 0 .. Capacity /\ part \in Nat /\ part <= Cost /\ Cost \in Nat
  BY CostFacts
<1>3. /\ Len(u) \in Nat /\ DOMAIN u = 1 .. Len(u) /\ \A m \in DOMAIN u : u[m] \in Entry
  BY <1>1, EntryFacts
<1>4. u[n].weight = Cost /\ a # Nobody
  BY <1>1, NobodyAssumption DEF Priced
<1>5. u[n] \in Entry
  BY <1>3
<1>6. /\ v[n] = [u[n] EXCEPT !.weight = Cost - part, !.of = Nobody]
      /\ \A m \in DOMAIN u \ {n} : v[m] = u[m]
      /\ DOMAIN v = DOMAIN u
  <2> DEFINE e == [u[n] EXCEPT !.weight = u[n].weight - part, !.of = Nobody]
  <2>1. v = [u EXCEPT ![n] = e]
    BY DEF PartBack
  <2> HIDE DEF e
  <2>2. v[n] = e /\ (\A m \in DOMAIN u \ {n} : v[m] = u[m]) /\ DOMAIN v = DOMAIN u
    BY <2>1
  <2> QED BY <1>4, <2>2 DEF e
<1>7. /\ v[n] \in Entry /\ v[n].age = u[n].age /\ v[n].weight = Cost - part /\ v[n].of = Nobody
  BY <1>2, <1>5, <1>6 DEF Entry
<1>8. v \in Seq(Entry) /\ Len(v) = Len(u)
  <2>1. v = [m \in 1 .. Len(u) |-> v[m]]
    BY <1>3, <1>6 DEF PartBack
  <2>2. \A m \in 1 .. Len(u) : v[m] \in Entry
    BY <1>3, <1>6, <1>7
  <2>3. v \in [1 .. Len(u) -> Entry]
    BY <2>1, <2>2
  <2> QED BY <1>3, <2>3, EntriesFromFunction
<1>9. /\ d \in Seq(Entry) /\ Len(d) = Len(charges) /\ DOMAIN d = DOMAIN charges
      /\ \A m \in DOMAIN charges :
           /\ d[m].age = charges[m].age
           /\ d[m].of = IF charges[m].of = a THEN Nobody ELSE charges[m].of
           /\ d[m].weight = IF charges[m].of = a THEN Cost - part ELSE charges[m].weight
  BY <1>1, <1>2, ChargedFacts
<1> HIDE DEF d
<1>10. \A m \in DOMAIN u : u[m].of = a => m = n
  BY <1>1, <1>4 DEF Single
<1>11. Revised(u, v) /\ Revised(charges, d)
  BY <1>6, <1>7, <1>8, <1>9 DEF Revised
<1>12. Released(u, v)
  BY <1>6, <1>7 DEF Released
<1>13. Follows(u, charges, v, d)
  <2> SUFFICES ASSUME NEW m \in DOMAIN u, NEW l \in DOMAIN charges,
                      u[m].of = charges[l].of, charges[l].weight <= u[m].weight
               PROVE  d[l].of = v[m].of /\ d[l].weight <= v[m].weight
    BY DEF Follows
  <2>1. CASE u[m].of = a
    <3>1. m = n /\ charges[l].of = a
      BY <1>10, <2>1
    <3>2. d[l].of = Nobody /\ d[l].weight = Cost - part
      BY <1>9, <3>1
    <3> QED BY <1>2, <1>7, <3>1, <3>2
  <2>2. CASE u[m].of # a
    <3>1. m # n /\ charges[l].of # a
      BY <2>2
    <3> QED BY <1>6, <1>9, <3>1
  <2> QED BY <2>1, <2>2
<1>14. Ledger(v, d)
  BY <1>11, <1>12, <1>13, ChangeKeeps
<1>15. WeightOf(v) = WeightOf(u) - part /\ WeightOf(u) \in Nat
  <2>1. WeightOf(v) = WeightOf(u) - u[n].weight + v[n].weight
    <3>1. Len(v) = Len(u) /\ v \in Seq(Entry) /\ u \in Seq(Entry)
      BY <1>1, <1>8
    <3>2. \A m \in DOMAIN u \ {n} : v[m] = u[m]
      BY <1>6
    <3> QED BY <3>1, <3>2, WeightLowered
  <2>2. WeightOf(u) \in Nat
    BY <1>1, WeightType
  <2> QED BY <1>2, <1>4, <1>7, <2>1, <2>2
<1>16. \A m \in DOMAIN u : v[m].of = IF u[m].of = a THEN Nobody ELSE u[m].of
  BY <1>6, <1>7, <1>10
<1> QED BY <1>6, <1>14, <1>15, <1>16 DEF d

LEMMA OlderFacts ==
  ASSUME NEW u \in Seq(Entry)
  PROVE  /\ Older(u) \in Seq(Entry) /\ Len(Older(u)) = Len(u) /\ DOMAIN Older(u) = DOMAIN u
         /\ \A n \in DOMAIN u :
              /\ Older(u)[n].of = u[n].of /\ Older(u)[n].weight = u[n].weight
              /\ Older(u)[n].age = IF u[n].age < Window THEN u[n].age + 1 ELSE u[n].age
         /\ WeightOf(Older(u)) = WeightOf(u)
<1> DEFINE v == Older(u)
<1>1. Len(u) \in Nat /\ DOMAIN u = 1 .. Len(u) /\ \A n \in DOMAIN u : u[n] \in Entry
  BY EntryFacts
<1>2. v = [n \in DOMAIN u |-> [u[n] EXCEPT !.age = IF @ < Window THEN @ + 1 ELSE @]]
  BY DEF Older
<1>3. ASSUME NEW n \in DOMAIN u
      PROVE  /\ v[n] \in Entry /\ v[n].of = u[n].of /\ v[n].weight = u[n].weight
             /\ v[n].age = IF u[n].age < Window THEN u[n].age + 1 ELSE u[n].age
  <2>1. v[n] = [u[n] EXCEPT !.age = IF u[n].age < Window THEN u[n].age + 1 ELSE u[n].age]
    BY <1>2
  <2>2. u[n] \in Entry /\ u[n].age \in 0 .. Window /\ Window \in Nat
    BY <1>1, EntryFacts, LimitsAssumption
  <2>3. (IF u[n].age < Window THEN u[n].age + 1 ELSE u[n].age) \in 0 .. Window
    BY <2>2
  <2> HIDE DEF v
  <2> QED BY <2>1, <2>2, <2>3 DEF Entry
<1>4. v \in [1 .. Len(u) -> Entry]
  BY <1>1, <1>2, <1>3
<1> HIDE DEF v
<1>5. v \in Seq(Entry) /\ Len(v) = Len(u) /\ DOMAIN v = DOMAIN u
  BY <1>1, <1>4, EntriesFromFunction
<1>6. WeightOf(v) = WeightOf(u)
  BY <1>3, <1>5, WeightKept
<1> QED BY <1>3, <1>5, <1>6 DEF v

\* Time passes, and charges leave the window with their reservations.
LEMMA AgeKeeps ==
  ASSUME NEW u, NEW c, Ledger(u, c)
  PROVE  Ledger(Older(u), InWindow(Older(c)))
<1> DEFINE v == Older(u)
           b == Older(c)
           d == InWindow(b)
           k == FirstInWindow(u) - 1
           j == FirstInWindow(b) - 1
<1>1. /\ u \in Seq(Entry) /\ c \in Seq(Entry) /\ Covers(u, k, c)
      /\ Sorted(u) /\ Single(u) /\ Priced(u)
  BY DEF Ledger
<1>2. /\ v \in Seq(Entry) /\ Len(v) = Len(u) /\ DOMAIN v = DOMAIN u
      /\ \A n \in DOMAIN u :
           /\ v[n].of = u[n].of /\ v[n].weight = u[n].weight
           /\ v[n].age = IF u[n].age < Window THEN u[n].age + 1 ELSE u[n].age
  BY <1>1, OlderFacts
<1>3. /\ b \in Seq(Entry) /\ Len(b) = Len(c) /\ DOMAIN b = DOMAIN c
      /\ \A n \in DOMAIN c :
           /\ b[n].of = c[n].of /\ b[n].weight = c[n].weight
           /\ b[n].age = IF c[n].age < Window THEN c[n].age + 1 ELSE c[n].age
  BY <1>1, OlderFacts
<1>4. /\ j \in 0 .. Len(b) /\ d \in Seq(Entry) /\ Len(d) = Len(b) - j
      /\ \A n \in 1 .. Len(b) - j : d[n] = b[j + n]
  <2>1. b \in Seq(Entry)
    BY <1>3
  <2> HIDE DEF b
  <2> QED BY <2>1, InWindowFacts
<1>5. /\ Len(u) \in Nat /\ DOMAIN u = 1 .. Len(u) /\ Len(c) \in Nat /\ DOMAIN c = 1 .. Len(c)
      /\ Window \in Nat /\ \A n \in DOMAIN u : u[n].age \in Nat
  BY <1>1, EntryFacts, LimitsAssumption
<1>6. k \in 0 .. Len(u)
  BY <1>1, InWindowFacts
<1>7. /\ \A n \in 1 .. k : n \in DOMAIN u /\ u[n].age >= Window
      /\ \A n \in 1 .. j : n \in DOMAIN b /\ b[n].age >= Window
      /\ j + 1 <= Len(b) => b[j + 1].age < Window
  <2>1. /\ \A n \in 1 .. FirstInWindow(u) - 1 : n \in DOMAIN u /\ u[n].age >= Window
    BY <1>1, FirstFacts
  <2>2. /\ FirstInWindow(b) \in 1 .. Len(b) + 1
        /\ \A n \in 1 .. FirstInWindow(b) - 1 : n \in DOMAIN b /\ b[n].age >= Window
        /\ FirstInWindow(b) <= Len(b) => b[FirstInWindow(b)].age < Window
    BY <1>3, FirstFacts
  <2>3. j + 1 = FirstInWindow(b)
    BY <1>3, <1>5, <2>2
  <2> QED BY <2>1, <2>2, <2>3
<1> HIDE DEF v, b, d, k, j
<1>8. Len(u) = k + Len(c) /\ \A n \in DOMAIN c : /\ k + n \in DOMAIN u
                                              /\ v[k + n].age = b[n].age /\ v[k + n].of = b[n].of
                                              /\ b[n].weight <= v[k + n].weight
  <2>1. Len(u) = k + Len(c)
    BY <1>1 DEF Covers
  <2>2. ASSUME NEW n \in DOMAIN c
        PROVE  /\ k + n \in DOMAIN u
               /\ v[k + n].age = b[n].age /\ v[k + n].of = b[n].of
               /\ b[n].weight <= v[k + n].weight
    <3>1. k + n \in DOMAIN u
      BY <1>5, <1>6, <2>1
    <3> QED BY <1>1, <1>2, <1>3, <3>1 DEF Covers
  <2> QED BY <2>1, <2>2
<1>lengths. Len(v) = k + j + Len(d)
  <2>1. Len(v) = Len(u) /\ Len(u) = k + Len(c) /\ Len(b) = Len(c) /\ Len(d) = Len(b) - j
    BY <1>2, <1>3, <1>4, <1>8
  <2> QED BY <1>4, <1>5, <1>6, <2>1
<1>9. FirstInWindow(v) = k + j + 1
  <2>1. k + j + 1 \in 1 .. Len(v) + 1
    BY <1>2, <1>3, <1>4, <1>5, <1>6, <1>8
  <2>2. ASSUME NEW n \in 1 .. (k + j + 1) - 1 PROVE v[n].age >= Window
    <3>1. CASE n <= k
      <4>1. n \in 1 .. k
        BY <1>4, <1>6, <3>1
      <4>2. n \in DOMAIN u /\ u[n].age >= Window /\ u[n].age \in Nat
        BY <1>5, <1>7, <4>1
      <4> QED BY <1>2, <1>5, <4>2
    <3>2. CASE ~(n <= k)
      <4>1. PICK m \in Int : m = n - k
        BY <1>4, <1>6
      <4>2. m \in 1 .. j /\ k + m = n
        BY <1>3, <1>4, <1>5, <1>6, <3>2, <4>1
      <4>3. m \in DOMAIN c /\ b[m].age >= Window
        BY <1>3, <1>7, <4>2
      <4> QED BY <1>8, <4>2, <4>3
    <3> QED BY <3>1, <3>2
  <2>3. k + j + 1 <= Len(v) => v[k + j + 1].age < Window
    <3> SUFFICES ASSUME k + j + 1 <= Len(v) PROVE v[k + j + 1].age < Window
      OBVIOUS
    <3>1. j + 1 <= Len(b) /\ j + 1 \in DOMAIN c /\ k + (j + 1) = k + j + 1
      BY <1>2, <1>3, <1>4, <1>5, <1>6, <1>8
    <3> QED BY <1>7, <1>8, <3>1
  <2> DEFINE first == k + j + 1
  <2>4. /\ first \in 1 .. Len(v) + 1
        /\ \A n \in 1 .. first - 1 : v[n].age >= Window
        /\ first <= Len(v) => v[first].age < Window
    <3>1. \A n \in 1 .. first - 1 : v[n].age >= Window
      BY <2>2
    <3> QED BY <2>1, <2>3, <3>1
  <2> HIDE DEF first
  <2>5. FirstInWindow(v) = first
    BY <1>2, <2>4, FirstIs
  <2> QED BY <2>5 DEF first
<1>10. Sorted(v)
  <2> SUFFICES ASSUME NEW m \in DOMAIN u, NEW n \in DOMAIN u, m < n
               PROVE  v[n].age <= v[m].age
    BY <1>2 DEF Sorted
  <2>1. u[n].age <= u[m].age /\ u[n].age \in Nat /\ u[m].age \in Nat
    BY <1>1, <1>5 DEF Sorted
  <2>2. /\ v[n].age = IF u[n].age < Window THEN u[n].age + 1 ELSE u[n].age
        /\ v[m].age = IF u[m].age < Window THEN u[m].age + 1 ELSE u[m].age
    BY <1>2
  <2>3. Window \in Nat
    BY <1>5
  <2> QED BY <2>1, <2>2, <2>3
<1>11. Single(v) /\ Priced(v)
  BY <1>1, <1>2 DEF Single, Priced
<1>12. Covers(v, k + j, d)
  <2>1. Len(v) = k + j + Len(d)
    BY <1>lengths
  <2>2. DOMAIN d = 1 .. Len(b) - j
    BY <1>4, EntryFacts
  <2>3. ASSUME NEW n \in DOMAIN d
        PROVE  /\ d[n].age = v[k + j + n].age /\ d[n].of = v[k + j + n].of
               /\ d[n].weight <= v[k + j + n].weight
    <3>1. d[n] = b[j + n]
      BY <1>4, <2>2
    <3>2. j + n \in DOMAIN c /\ k + (j + n) = k + j + n
      BY <1>3, <1>4, <1>5, <1>6, <2>2
    <3> QED BY <1>8, <3>1, <3>2
  <2> QED BY <2>1, <2>3 DEF Covers
<1>13. FirstInWindow(v) - 1 = k + j
  BY <1>3, <1>4, <1>5, <1>6, <1>9
<1> QED BY <1>2, <1>4, <1>10, <1>11, <1>12, <1>13 DEF Ledger, v, d, b

-----------------------------------------------------------------------------
(***************************************************************************)
(* The limiter.                                                            *)
(***************************************************************************)
Holders(u) == {u[n].of : n \in DOMAIN u} \ {Nobody}
Holding == {"embargo", "ready", "sent"}

\* Only who has passed reserve holds a reservation, and only who waits sleeps.
Limits ==
  /\ Ledger(usage, charges) /\ BudgetIsExact
  /\ \A a \in Adapters : a \in Holders(usage) => pc[a] \in Holding
  /\ \A a \in Adapters : pc[a] \in {"idle", "ready", "sent"} => sleeping[a] = 0
  /\ DOMAIN sleeping = Adapters

LEMMA LedgerMoves ==
  ASSUME Ledger(usage', charges'), UNCHANGED kind
  PROVE  Ledger(usage, charges)'
BY DEF Ledger, Priced, Single, Sorted, Covers, Cost

LEMMA InitLimits == Init => Limits
<1> SUFFICES ASSUME Init PROVE Limits
  OBVIOUS
<1>1. usage = << >> /\ charges = << >> /\ used = 0
  BY DEF Init
<1>2. /\ usage \in Seq(Entry) /\ Len(usage) = 0 /\ DOMAIN usage = {}
      /\ charges \in Seq(Entry) /\ Len(charges) = 0 /\ DOMAIN charges = {}
  BY <1>1
<1>3. Young(usage)
  BY <1>2 DEF Young
<1>4. FirstInWindow(usage) - 1 = 0
  <2>1. FirstInWindow(usage) = 1
    BY <1>2, <1>3, YoungStay
  <2> QED BY <2>1
<1>5. Ledger(usage, charges)
  <2>1. Sorted(usage) /\ Single(usage) /\ Priced(usage)
    BY <1>2 DEF Sorted, Single, Priced
  <2>2. Covers(usage, 0, charges)
    BY <1>2 DEF Covers
  <2> QED BY <1>2, <1>4, <2>1, <2>2 DEF Ledger
<1>6. BudgetIsExact
  <2>1. Units(usage) = {}
    BY <1>2 DEF Units
  <2>2. WeightOf(usage) = 0
    BY <2>1, FS_EmptySet DEF WeightOf, Units
  <2> QED BY <1>1, <2>2, CostFacts DEF BudgetIsExact
<1>7. Holders(usage) = {}
  BY <1>2 DEF Holders
<1> QED BY <1>5, <1>6, <1>7 DEF Init, Limits

\* A step of a.
LEMMA LimitsMove ==
  ASSUME Limits, NEW a \in Adapters, UNCHANGED kind,
         \A b \in Adapters \ {a} : pc'[b] = pc[b] /\ sleeping'[b] = sleeping[b],
         DOMAIN sleeping' = Adapters,
         pc'[a] \in {"idle", "ready", "sent"} => sleeping'[a] = 0,
         Ledger(usage', charges'), used' = WeightOf(usage'), used' <= Capacity,
         Holders(usage') \subseteq Holders(usage) \cup {a},
         a \in Holders(usage') => pc'[a] \in Holding
  PROVE  Limits'
<1>1. Ledger(usage, charges)'
  BY LedgerMoves
<1>2. BudgetIsExact'
  BY DEF BudgetIsExact, WeightOf
<1>3. Holders(usage)' = Holders(usage')
  BY DEF Holders
<1>4. \A b \in Adapters : b \in Holders(usage)' => pc'[b] \in Holding
  BY <1>3 DEF Limits
<1>5. \A b \in Adapters : pc'[b] \in {"idle", "ready", "sent"} => sleeping'[b] = 0
  BY DEF Limits
<1> QED BY <1>1, <1>2, <1>4, <1>5 DEF Limits

\* What pruning leaves.
LEMMA PrunedFacts ==
  ASSUME Limits
  PROVE  /\ Ledger(Pruned, charges) /\ Young(Pruned) /\ Pruned \in Seq(Entry)
         /\ UsedAfterPrune = WeightOf(Pruned) /\ UsedAfterPrune \in Nat
         /\ UsedAfterPrune <= Capacity
         /\ Holders(Pruned) \subseteq Holders(usage)
         /\ \A a : Held(charges, a) = Held(Pruned, a)
<1>1. /\ Ledger(Pruned, charges) /\ Young(Pruned)
      /\ WeightOf(Pruned) = WeightOf(usage) - WeightOf(SubSeq(usage, 1, FirstInWindow(usage) - 1))
      /\ WeightOf(Pruned) \in Nat /\ WeightOf(Pruned) <= WeightOf(usage)
      /\ Len(Pruned) = Len(charges)
      /\ \A n \in DOMAIN Pruned : Pruned[n].of = charges[n].of
      /\ \A n \in DOMAIN Pruned : \E m \in DOMAIN usage : Pruned[n] = usage[m]
  <2>1. Ledger(usage, charges)
    BY DEF Limits
  <2> QED BY <2>1, PruneKeeps DEF Pruned
<1>2. used = WeightOf(usage) /\ used <= Capacity
  BY DEF Limits, BudgetIsExact
<1>3. Pruned \in Seq(Entry) /\ charges \in Seq(Entry)
  BY <1>1 DEF Ledger
<1>4. UsedAfterPrune = WeightOf(Pruned)
  BY <1>1, <1>2 DEF UsedAfterPrune
<1>5. WeightOf(usage) \in Nat
  <2>1. usage \in Seq(Entry)
    BY DEF Limits, Ledger
  <2> QED BY <2>1, WeightType
<1>6. UsedAfterPrune <= Capacity
  BY <1>1, <1>2, <1>4, <1>5, CostFacts
<1>7. Holders(Pruned) \subseteq Holders(usage)
  BY <1>1 DEF Holders
<1>8. DOMAIN Pruned = DOMAIN charges
  BY <1>1, <1>3, EntryFacts
<1>9. \A a : Held(charges, a) = Held(Pruned, a)
  BY <1>1, <1>8 DEF Held
<1> QED BY <1>1, <1>3, <1>4, <1>6, <1>7, <1>9

\* Who is not past reserve holds nothing.
LEMMA HoldsNothing ==
  ASSUME Limits, NEW a \in Adapters, pc[a] \notin Holding
  PROVE  a \notin Holders(usage) /\ Held(Pruned, a) = {}
<1>1. a \notin Holders(usage)
  BY DEF Limits
<1>2. a \notin Holders(Pruned)
  BY <1>1, PrunedFacts
<1> QED BY <1>1, <1>2, NobodyAssumption DEF Holders, Held

LEMMA OneSleeps ==
  ASSUME IInv, Limits, NEW a \in Adapters,
         Begin(a) \/ Wait(a) \/ WaitFails(a) \/ Do(a) \/ Answer(a)
  PROVE  /\ UNCHANGED kind
         /\ \A b \in Adapters \ {a} : pc'[b] = pc[b] /\ sleeping'[b] = sleeping[b]
         /\ DOMAIN sleeping' = Adapters
<1>1. UNCHANGED kind /\ (UNCHANGED sleeping \/ \E delay : sleeping' = [sleeping EXCEPT ![a] = delay])
  BY DEF Begin, Wait, ThrottleWait, Reserve, EmbargoWait, GoesOn, Sleeps, WaitFails, Do,
         Answer, Answered, RateLimited, Forbidden, RequestFails
<1>2. \A b \in Adapters \ {a} : pc'[b] = pc[b]
  BY OnlyMoves
<1>3. DOMAIN sleeping = Adapters
  BY DEF Limits
<1> QED BY <1>1, <1>2, <1>3

\* A step with which the limiter has nothing to do, of an adapter that holds
\* nothing or goes on holding.
LEMMA AsideKeeps ==
  ASSUME IInv, Limits, NEW a \in Adapters,
         Begin(a) \/ ThrottleWait(a) \/ EmbargoWait(a) \/ (WaitFails(a) /\ pc[a] # "embargo")
  PROVE  Limits'
<1>1. UNCHANGED <<usage, used, charges>>
  BY DEF Begin, ThrottleWait, EmbargoWait, WaitFails, limiterVars, ghostVars
<1>2. pc[a] \notin Holding \/ pc'[a] \in Holding
  BY DEF Begin, ThrottleWait, EmbargoWait, Awake, GoesOn, Sleeps, WaitFails, Holding, Limits,
         IInv, Timed
<1>3. pc'[a] \in {"idle", "ready", "sent"} => sleeping'[a] = 0
  BY DEF Begin, ThrottleWait, EmbargoWait, Awake, GoesOn, Sleeps, WaitFails, FirstStep, Limits,
         IInv, Timed
<1>4. /\ Ledger(usage', charges') /\ used' = WeightOf(usage') /\ used' <= Capacity
      /\ Holders(usage') = Holders(usage)
  BY <1>1 DEF Limits, BudgetIsExact
<1>5. a \in Holders(usage') => pc'[a] \in Holding
  BY <1>2, <1>4 DEF Limits
<1>6. /\ UNCHANGED kind /\ DOMAIN sleeping' = Adapters
      /\ \A b \in Adapters \ {a} : pc'[b] = pc[b] /\ sleeping'[b] = sleeping[b]
  BY OneSleeps DEF Wait
<1> QED BY <1>3, <1>4, <1>5, <1>6, LimitsMove

\* What is reserved fits.
LEMMA ReserveKeeps ==
  ASSUME IInv, Limits, NEW a \in Adapters, Reserve(a)
  PROVE  Limits'
<1>1. /\ UNCHANGED kind /\ DOMAIN sleeping' = Adapters
      /\ \A b \in Adapters \ {a} : pc'[b] = pc[b] /\ sleeping'[b] = sleeping[b]
  BY OneSleeps DEF Wait
<1>2. /\ Ledger(Pruned, charges) /\ Young(Pruned) /\ Pruned \in Seq(Entry)
      /\ UsedAfterPrune = WeightOf(Pruned) /\ UsedAfterPrune \in Nat
      /\ UsedAfterPrune <= Capacity
      /\ Holders(Pruned) \subseteq Holders(usage)
  BY PrunedFacts
<1>3. pc[a] = "reserve" /\ sleeping[a] = 0
  BY DEF Reserve, Awake
<1>4. a \notin Holders(usage) /\ Held(Pruned, a) = {}
  BY <1>3, HoldsNothing DEF Holding
<1>5. CASE UsedAfterPrune + Cost <= Capacity
  <2> DEFINE new == [of |-> a, weight |-> Cost, age |-> 0]
             free == [of |-> a, weight |-> 0, age |-> 0]
  <2>1. /\ usage' = Append(Pruned, new) /\ used' = UsedAfterPrune + Cost
        /\ charges' = Append(charges, free)
    BY <1>5 DEF Reserve
  <2>2. pc'[a] \in {"embargo", "ready"} /\ sleeping'[a] = 0
    BY <1>3, <1>5 DEF Reserve, GoesOn, IInv, Timed
  <2>3. Ledger(usage', charges') /\ WeightOf(usage') = WeightOf(Pruned) + Cost
    BY <1>2, <1>4, <2>1, AppendKeeps
  <2>4. Holders(usage') \subseteq Holders(usage) \cup {a}
    <3>1. ASSUME NEW n \in DOMAIN usage'
          PROVE  usage'[n] = new \/ (n \in DOMAIN Pruned /\ usage'[n] = Pruned[n])
      BY <1>2, <2>1
    <3>2. new.of = a
      OBVIOUS
    <3> HIDE DEF new
    <3> QED BY <1>2, <3>1, <3>2 DEF Holders
  <2> QED BY <1>1, <1>2, <1>5, <2>1, <2>2, <2>3, <2>4, LimitsMove DEF Holding
<1>6. CASE ~(UsedAfterPrune + Cost <= Capacity)
  <2>1. usage' = Pruned /\ used' = UsedAfterPrune /\ charges' = charges /\ pc' = pc
    BY <1>6 DEF Reserve, Sleeps
  <2> QED BY <1>1, <1>2, <1>3, <1>4, <2>1, LimitsMove
<1> QED BY <1>5, <1>6

\* The entry an adapter holds, if it holds one.
LEMMA TheOneHeld ==
  ASSUME NEW u, NEW c, Ledger(u, c), NEW a \in Adapters, Held(u, a) # {}
  PROVE  /\ Min(Held(u, a)) \in DOMAIN u /\ u[Min(Held(u, a))].of = a
         /\ u[Min(Held(u, a))].weight = Cost
         /\ \A m \in DOMAIN u : u[m].of = a => m = Min(Held(u, a))
<1>1. u \in Seq(Entry) /\ Single(u) /\ Priced(u)
  BY DEF Ledger
<1>2. Held(u, a) \in SUBSET Nat
  <2>1. DOMAIN u = 1 .. Len(u) /\ Len(u) \in Nat
    BY <1>1, EntryFacts
  <2> QED BY <2>1 DEF Held
<1>3. Min(Held(u, a)) \in Held(u, a)
  BY <1>2, LeastOfNaturals
<1>4. Min(Held(u, a)) \in DOMAIN u /\ u[Min(Held(u, a))].of = a
  BY <1>3 DEF Held
<1> QED BY <1>1, <1>4, NobodyAssumption DEF Single, Priced

\* A reservation is given back when the embargo is not waited out.
LEMMA WaitFailsKeeps ==
  ASSUME IInv, Limits, NEW a \in Adapters, WaitFails(a), pc[a] = "embargo"
  PROVE  Limits'
<1>1. /\ UNCHANGED kind /\ DOMAIN sleeping' = Adapters
      /\ \A b \in Adapters \ {a} : pc'[b] = pc[b] /\ sleeping'[b] = sleeping[b]
  BY OneSleeps
<1>2. /\ Ledger(Pruned, charges) /\ Young(Pruned) /\ Pruned \in Seq(Entry)
      /\ UsedAfterPrune = WeightOf(Pruned) /\ UsedAfterPrune \in Nat
      /\ UsedAfterPrune <= Capacity
      /\ Holders(Pruned) \subseteq Holders(usage)
      /\ Held(charges, a) = Held(Pruned, a)
  BY PrunedFacts
<1>3. /\ sleeping'[a] = 0 /\ pc'[a] = "idle" /\ Refund(a, Cost)
      /\ charges' = IF Held(charges, a) = {} THEN charges
                    ELSE Without(charges, Min(Held(charges, a)))
  BY DEF WaitFails, IInv, Timed, Limits
<1>4. Cost > 0 /\ Cost # 0 /\ Cost \in Nat
  BY CostFacts
<1>5. CASE Held(Pruned, a) = {}
  <2>1. usage' = Pruned /\ used' = UsedAfterPrune /\ charges' = charges
    BY <1>2, <1>3, <1>4, <1>5 DEF Refund
  <2>2. a \notin Holders(usage')
    BY <1>5, <2>1 DEF Holders, Held
  <2> QED BY <1>1, <1>2, <1>3, <2>1, <2>2, LimitsMove
<1>6. CASE Held(Pruned, a) # {}
  <2> DEFINE n == Min(Held(Pruned, a))
  <2>1. /\ n \in DOMAIN Pruned /\ Pruned[n].of = a /\ Pruned[n].weight = Cost
        /\ \A m \in DOMAIN Pruned : Pruned[m].of = a => m = n
    BY <1>2, <1>6, TheOneHeld
  <2>2. /\ usage' = Lowered(Pruned, n, Cost) /\ used' = UsedAfterPrune - Cost
        /\ charges' = Without(charges, n)
    BY <1>2, <1>3, <1>4, <1>6 DEF Refund
  <2> HIDE DEF n
  <2>3. usage' = Without(Pruned, n)
    BY <2>1, <2>2 DEF Lowered
  <2>4. /\ Ledger(Without(Pruned, n), Without(charges, n))
        /\ \A m \in DOMAIN Without(Pruned, n) :
             \E l \in DOMAIN Pruned \ {n} : Without(Pruned, n)[m] = Pruned[l]
    BY <1>2, <2>1, RemoveKeeps
  <2>5. /\ WeightOf(Without(Pruned, n)) = WeightOf(Pruned) - Cost
    BY <1>2, <2>1, WithoutFacts
  <2>6. used' = WeightOf(usage') /\ used' <= Capacity
    BY <1>2, <1>4, <2>2, <2>3, <2>5, CostFacts
  <2>7. Holders(usage') \subseteq Holders(Pruned) /\ a \notin Holders(usage')
    BY <2>1, <2>3, <2>4 DEF Holders
  <2> QED BY <1>1, <1>2, <1>3, <2>2, <2>3, <2>4, <2>6, <2>7, LimitsMove
<1> QED BY <1>5, <1>6

\* A request that is made is charged, and one that is not keeps its reservation.
LEMMA DoKeeps ==
  ASSUME IInv, Limits, NEW a \in Adapters, Do(a)
  PROVE  Limits'
<1>1. /\ UNCHANGED kind /\ DOMAIN sleeping' = Adapters
      /\ \A b \in Adapters \ {a} : pc'[b] = pc[b] /\ sleeping'[b] = sleeping[b]
  BY OneSleeps
<1>2. /\ Ledger(usage, charges) /\ usage \in Seq(Entry) /\ charges \in Seq(Entry)
      /\ Priced(usage) /\ used = WeightOf(usage) /\ used <= Capacity
  BY DEF Limits, BudgetIsExact, Ledger
<1>3. sleeping'[a] = 0 /\ used' = used
  BY DEF Do, Limits
<1>4. CASE patience[a] = 0
  <2>1. usage' = Closed(usage, a) /\ charges' = Closed(charges, a)
    BY <1>4 DEF Do
  <2>2. /\ usage' \in Seq(Entry) /\ Len(usage') = Len(usage) /\ DOMAIN usage' = DOMAIN usage
        /\ \A n \in DOMAIN usage :
             /\ usage'[n].age = usage[n].age /\ usage'[n].weight = usage[n].weight
             /\ usage'[n].of = IF usage[n].of = a THEN Nobody ELSE usage[n].of
        /\ WeightOf(usage') = WeightOf(usage)
    BY <1>2, <2>1, ClosedFacts
  <2>3. /\ charges' \in Seq(Entry) /\ Len(charges') = Len(charges)
        /\ \A n \in DOMAIN charges :
             /\ charges'[n].age = charges[n].age /\ charges'[n].weight = charges[n].weight
             /\ charges'[n].of = IF charges[n].of = a THEN Nobody ELSE charges[n].of
    BY <1>2, <2>1, ClosedFacts
  <2>4. Revised(usage, usage') /\ Revised(charges, charges') /\ Released(usage, usage')
    BY <2>2, <2>3 DEF Revised, Released
  <2>5. Follows(usage, charges, usage', charges')
    BY <2>2, <2>3 DEF Follows
  <2>6. Ledger(usage', charges')
    BY <1>2, <2>4, <2>5, ChangeKeeps
  <2>7. Holders(usage') \subseteq Holders(usage) /\ a \notin Holders(usage')
    BY <2>2, NobodyAssumption DEF Holders
  <2> QED BY <1>1, <1>2, <1>3, <2>2, <2>6, <2>7, LimitsMove
<1>5. CASE patience[a] # 0
  <2>1. usage' = usage /\ charges' = Charge(a, Cost) /\ pc'[a] = "sent"
    BY <1>5 DEF Do, IInv, Timed
  <2>2. /\ charges' \in Seq(Entry) /\ Len(charges') = Len(charges)
        /\ \A n \in DOMAIN charges :
             /\ charges'[n].age = charges[n].age /\ charges'[n].of = charges[n].of
             /\ charges'[n].weight = IF charges[n].of = a THEN Cost ELSE charges[n].weight
    <3>1. Cost \in 0 .. Capacity
      BY CostFacts
    <3> QED BY <1>2, <2>1, <3>1, ChargeFacts
  <2>3. Revised(usage, usage) /\ Revised(charges, charges') /\ Released(usage, usage)
    BY <1>2, <2>2 DEF Revised, Released
  <2>4. Follows(usage, charges, usage, charges')
    <3> SUFFICES ASSUME NEW m \in DOMAIN usage, NEW n \in DOMAIN charges,
                        usage[m].of = charges[n].of, charges[n].weight <= usage[m].weight
                 PROVE  charges'[n].of = usage[m].of /\ charges'[n].weight <= usage[m].weight
      BY DEF Follows
    <3>1. CASE charges[n].of = a
      <4>1. usage[m].weight = Cost /\ charges'[n].weight = Cost
        BY <1>2, <2>2, <3>1, NobodyAssumption DEF Priced
      <4> QED BY <2>2, <4>1, CostFacts
    <3>2. CASE charges[n].of # a
      BY <2>2, <3>2
    <3> QED BY <3>1, <3>2
  <2>5. Ledger(usage, charges')
    BY <1>2, <2>3, <2>4, ChangeKeeps
  <2> QED BY <1>1, <1>2, <1>3, <2>1, <2>5, LimitsMove DEF Holding
<1> QED BY <1>4, <1>5

\* A request that is over, with nothing given back.
LEMMA OverKeeps ==
  ASSUME IInv, Limits, NEW a \in Adapters, Answer(a), NEW weight \in 0 .. Cost,
         usage' = Closed(usage, a), Charged(a, weight), UNCHANGED used
  PROVE  Limits'
<1>1. /\ UNCHANGED kind /\ DOMAIN sleeping' = Adapters
      /\ \A b \in Adapters \ {a} : pc'[b] = pc[b] /\ sleeping'[b] = sleeping[b]
  BY OneSleeps
<1>2. Ledger(usage, charges) /\ usage \in Seq(Entry) /\ used = WeightOf(usage) /\ used <= Capacity
  BY DEF Limits, BudgetIsExact, Ledger
<1>3. sleeping'[a] = 0
  BY DEF Answer, Answered, RateLimited, Forbidden, RequestFails, Limits
<1>4. Ledger(usage', charges')
  BY <1>2, CloseKeeps DEF Charged
<1>5. /\ WeightOf(usage') = WeightOf(usage) /\ DOMAIN usage' = DOMAIN usage
      /\ \A n \in DOMAIN usage :
           usage'[n].of = IF usage[n].of = a THEN Nobody ELSE usage[n].of
  BY <1>2, ClosedFacts
<1>6. Holders(usage') \subseteq Holders(usage) /\ a \notin Holders(usage')
  BY <1>5, NobodyAssumption DEF Holders
<1> QED BY <1>1, <1>2, <1>3, <1>4, <1>5, <1>6, LimitsMove

\* A request that has cost less than was reserved gives the rest back.
LEMMA RestKeeps ==
  ASSUME IInv, Limits, NEW a \in Adapters, Answer(a), NEW weight \in 1 .. Cost,
         Refund(a, Cost - weight), Charged(a, weight)
  PROVE  Limits'
<1>1. /\ UNCHANGED kind /\ DOMAIN sleeping' = Adapters
      /\ \A b \in Adapters \ {a} : pc'[b] = pc[b] /\ sleeping'[b] = sleeping[b]
  BY OneSleeps
<1>2. sleeping'[a] = 0
  BY DEF Answer, Answered, RateLimited, Forbidden, RequestFails, Limits
<1>3. /\ Ledger(Pruned, charges) /\ Young(Pruned) /\ Pruned \in Seq(Entry)
      /\ UsedAfterPrune = WeightOf(Pruned) /\ UsedAfterPrune \in Nat
      /\ UsedAfterPrune <= Capacity
      /\ Holders(Pruned) \subseteq Holders(usage)
      /\ Held(charges, a) = Held(Pruned, a)
  BY PrunedFacts
<1>4. Cost \in Nat /\ Cost <= Capacity /\ weight \in 0 .. Capacity /\ weight \in 0 .. Cost
  BY CostFacts
<1>5. charges' = Closed(Charge(a, weight), a)
  BY DEF Charged
<1>6. CASE Cost - weight = 0
  BY <1>4, <1>6, OverKeeps DEF Refund
<1>7. CASE Cost - weight > 0 /\ Held(Pruned, a) = {}
  <2>1. usage' = Pruned /\ used' = UsedAfterPrune
    BY <1>7 DEF Refund
  <2>2. charges \in Seq(Entry)
    BY <1>3 DEF Ledger
  <2>3. /\ charges' \in Seq(Entry) /\ Len(charges') = Len(charges)
        /\ \A n \in DOMAIN charges :
             /\ charges'[n].age = charges[n].age
             /\ charges'[n].of = IF charges[n].of = a THEN Nobody ELSE charges[n].of
             /\ charges'[n].weight = IF charges[n].of = a THEN weight ELSE charges[n].weight
    BY <1>4, <1>5, <2>2, ChargedFacts
  <2>4. \A n \in DOMAIN charges : charges[n].of # a
    BY <1>3, <1>7 DEF Held
  <2>5. Revised(Pruned, Pruned) /\ Revised(charges, charges') /\ Released(Pruned, Pruned)
    BY <1>3, <2>3 DEF Revised, Released
  <2>6. Follows(Pruned, charges, Pruned, charges')
    BY <2>3, <2>4 DEF Follows
  <2>7. Ledger(usage', charges')
    BY <1>3, <2>1, <2>5, <2>6, ChangeKeeps
  <2>8. a \notin Holders(usage')
    BY <1>7, <2>1 DEF Holders, Held
  <2> QED BY <1>1, <1>2, <1>3, <2>1, <2>7, <2>8, LimitsMove
<1>8. CASE Cost - weight > 0 /\ Held(Pruned, a) # {}
  <2> DEFINE n == Min(Held(Pruned, a))
             part == Cost - weight
             v == PartBack(Pruned, n, part)
  <2>1. /\ n \in DOMAIN Pruned /\ Pruned[n].of = a /\ Pruned[n].weight = Cost
        /\ \A m \in DOMAIN Pruned : Pruned[m].of = a => m = n
    BY <1>3, <1>8, TheOneHeld
  <2>2. usage' = Lowered(Pruned, n, part) /\ used' = UsedAfterPrune - part
    BY <1>8 DEF Refund
  <2>3. part \in 1 .. Cost - 1 /\ part # Cost /\ Cost - part = weight /\ part \in Nat
    BY <1>4, <1>8
  <2> HIDE DEF n, part
  <2>4. usage' = v
    BY <2>1, <2>2, <2>3 DEF Lowered, PartBack
  <2>v. v = PartBack(Pruned, n, part)
    OBVIOUS
  <2> HIDE DEF v
  <2>5. /\ Ledger(v, Closed(Charge(a, Cost - part), a))
        /\ WeightOf(v) = WeightOf(Pruned) - part /\ WeightOf(Pruned) \in Nat
        /\ DOMAIN v = DOMAIN Pruned
        /\ \A m \in DOMAIN Pruned : v[m].of = IF Pruned[m].of = a THEN Nobody ELSE Pruned[m].of
    BY <1>3, <2>1, <2>3, <2>v, PartKeeps
  <2>6. Ledger(usage', charges')
    BY <1>5, <2>3, <2>4, <2>5
  <2>7. used' = WeightOf(usage') /\ used' <= Capacity
    BY <1>3, <1>4, <2>2, <2>3, <2>4, <2>5, CostFacts
  <2>8. Holders(usage') \subseteq Holders(Pruned) /\ a \notin Holders(usage')
    BY <2>4, <2>5, NobodyAssumption DEF Holders
  <2> QED BY <1>1, <1>2, <1>3, <2>6, <2>7, <2>8, LimitsMove
<1> QED BY <1>4, <1>6, <1>7, <1>8

LEMMA AnswerKeeps ==
  ASSUME IInv, Limits, NEW a \in Adapters, Answer(a)
  PROVE  Limits'
<1>1. ASSUME NEW delay \in Delays, NEW weight \in Weights, Answered(a, delay, weight)
      PROVE  Limits'
  <2>1. CASE kind = "hyperliquid"
    <3>1. Refund(a, Cost - weight) /\ Charged(a, weight)
      BY <1>1, <2>1 DEF Answered
    <3>2. weight \in 1 .. Cost
      BY <2>1, LimitsAssumption DEF Cost
    <3> QED BY <3>1, <3>2, RestKeeps
  <2>2. CASE kind # "hyperliquid"
    <3>1. /\ weight = Cost /\ usage' = Closed(usage, a) /\ UNCHANGED used /\ Charged(a, weight)
      BY <1>1, <2>2 DEF Answered
    <3> QED BY <3>1, OverKeeps, CostFacts
  <2> QED BY <2>1, <2>2
<1>2. ASSUME NEW delay \in Delays,
             RequestFails(a, delay) \/ RateLimited(a, delay) \/ Forbidden(a, delay)
      PROVE  Limits'
  <2>1. usage' = Closed(usage, a) /\ UNCHANGED used /\ Charged(a, Cost)
    BY <1>2 DEF RequestFails, RateLimited, Forbidden
  <2> QED BY <2>1, OverKeeps, CostFacts
<1> QED BY <1>1, <1>2 DEF Answer

LEMMA TickKeeps ==
  ASSUME IInv, Limits, Tick
  PROVE  Limits'
<1>1. /\ UNCHANGED kind /\ UNCHANGED pc /\ UNCHANGED used
      /\ usage' = Older(usage) /\ charges' = InWindow(Older(charges))
      /\ sleeping' = [a \in Adapters |->
           IF patience[a] = 0 THEN sleeping[a] ELSE Less(sleeping[a], 1)]
  BY DEF Tick
<1>2. Ledger(usage, charges) /\ usage \in Seq(Entry) /\ used = WeightOf(usage) /\ used <= Capacity
  BY DEF Limits, BudgetIsExact, Ledger
<1>3. Ledger(usage', charges')
  BY <1>1, <1>2, AgeKeeps
<1>4. Ledger(usage, charges)'
  BY <1>1, <1>3, LedgerMoves
<1>5. /\ WeightOf(usage') = WeightOf(usage) /\ DOMAIN usage' = DOMAIN usage
      /\ \A n \in DOMAIN usage : usage'[n].of = usage[n].of
  BY <1>1, <1>2, OlderFacts
<1>6. BudgetIsExact'
  BY <1>1, <1>2, <1>5 DEF BudgetIsExact, WeightOf
<1>7. Holders(usage)' = Holders(usage)
  BY <1>5 DEF Holders
<1>8. \A a \in Adapters : pc[a] \in {"idle", "ready", "sent"} => sleeping'[a] = 0
  BY <1>1 DEF Limits, Less
<1> QED BY <1>1, <1>4, <1>6, <1>7, <1>8 DEF Limits

LEMMA StepKeeps == IInv /\ Limits /\ [Next]_vars => Limits'
<1> SUFFICES ASSUME IInv, Limits, [Next]_vars PROVE Limits'
  OBVIOUS
<1>1. ASSUME NEW a \in Adapters,
             Begin(a) \/ Wait(a) \/ WaitFails(a) \/ Do(a) \/ Answer(a)
      PROVE  Limits'
  BY <1>1, AsideKeeps, ReserveKeeps, WaitFailsKeeps, DoKeeps, AnswerKeeps DEF Wait
<1>2. CASE Tick
  BY <1>2, TickKeeps
<1>3. CASE UNCHANGED vars
  <2>1. UNCHANGED <<kind, pc, sleeping, usage, used, charges>>
    BY <1>3 DEF vars, adapterVars, limiterVars, ghostVars
  <2>2. Ledger(usage, charges)'
    BY <2>1, LedgerMoves DEF Limits
  <2> QED BY <2>1, <2>2 DEF Limits, BudgetIsExact, WeightOf, Holders
<1> QED BY <1>1, <1>2, <1>3 DEF Next

\* The invariant: reservations are in order, one at most of an adapter, at the
\* price reserved, and what a request has cost stands under its own.
THEOREM LimitsKept == Spec => [](IInv /\ Limits)
<1>1. Init => Limits
  BY InitLimits
<1> QED BY <1>1, StepKeeps, ThrottlesCover, PTL DEF Spec

\* The weight in use is that of the reservations, and within the capacity,
\* however pruning and late refunds meet (recovery.go:81-151).
THEOREM BudgetExact == Spec => []BudgetIsExact
<1>1. Limits => BudgetIsExact
  BY DEF Limits
<1> QED BY <1>1, LimitsKept, PTL

\* What was sent in a window has not cost the server more than the capacity
\* (recovery.go:96-115, hyperliquid_recovery.go:80-93).
THEOREM WindowKept == Spec => []WindowIsKept
<1>1. ASSUME Limits PROVE WindowIsKept
  <2>1. WeightOf(charges) <= WeightOf(usage) /\ WeightOf(charges) \in Nat /\ WeightOf(usage) \in Nat
    BY <1>1, ChargesCovered DEF Limits
  <2>2. WeightOf(usage) <= Capacity
    BY <1>1 DEF Limits, BudgetIsExact
  <2> QED BY <2>1, <2>2, CostFacts DEF WindowIsKept
<1> QED BY <1>1, LimitsKept, PTL
=============================================================================
