--------------------------- MODULE RecoveryLimits ----------------------------
(***************************************************************************)
(* How adapters hold back the REST requests of a recovery (recovery.go).   *)
(*   restThrottle          requests at least an interval apart, and not    *)
(*                         before the server allows                        *)
(*   requestWindowLimiter  weight reserved in a sliding window, of which   *)
(*                         a request that is not made, or costs less than  *)
(*                         was reserved, gives back                        *)
(* Four kinds of use:                                                      *)
(*   "bybit"        several adapters, each with a throttle, share a window *)
(*                  limiter and the throttle of the embargo of their IP    *)
(*   "hyperliquid"  one adapter with a window limiter                      *)
(*   "binance"      one adapter with a throttle that has no interval       *)
(*   "paced"        one adapter with a throttle that has one: Coinbase,    *)
(*                  Deribit, Bitfinex and Phoenix                          *)
(* What a server demands in a header is heeded on every answer by Bybit    *)
(* and Binance, on HTTP 429 alone by the paced venues, and never by        *)
(* Hyperliquid.  An adapter makes one request after the other.  Its        *)
(* recovery has a deadline, which ends every wait and every request.       *)
(*                                                                         *)
(* Times are relative: a delay counts down and an age counts up to what it *)
(* is compared with, so that time is unbounded and the states are finite.  *)
(* What happens under a lock is one step; time may pass between two steps. *)
(***************************************************************************)
EXTENDS Integers, Sequences, FiniteSetsExt

CONSTANTS
  Kinds,         \* the kinds of use to choose from
  Adapters,
  Capacity, Window,
  Reserved,      \* weight reserved for a request; on Bybit it is 1
  Weights,       \* what a request may cost
  MinInterval,   \* of a paced throttle
  Delays,        \* what a server may demand in a header, 0 if nothing
  DefaultDelay,  \* after a rate limited request if its answer demands nothing
  BanDelay,      \* the least delay after HTTP 403
  Patience       \* the time a recovery has

ASSUME LimitsAssumption ==
  /\ Kinds \subseteq {"bybit", "hyperliquid", "binance", "paced"}
  /\ {Capacity, Window, Reserved, DefaultDelay, BanDelay} \subseteq Nat \ {0}
  /\ Reserved <= Capacity /\ Weights \subseteq 1 .. Reserved
  /\ {MinInterval, Patience} \subseteq Nat /\ Delays \subseteq Nat

VARIABLES
  kind,         \* chosen once and for all, and with it
  adapters,     \* the adapters that are there
  pc,           \* adapter -> "idle", "throttle", "reserve", "embargo", "ready", "sent"
  sleeping,     \* adapter -> how long it still sleeps
  patience,     \* adapter -> what is left of its recovery's time
  lastRequest,  \* adapter -> age of its throttle's lastRequest, up to MinInterval
  nextRequest,  \* adapter -> time to its throttle's nextRequest
  embargo,      \* time to the nextRequest of the throttle that is shared
  usage,        \* windowUsage: [of, weight, age], oldest first; of is the adapter
                \* that holds the reservation, Nobody when none does any more
  used,         \* weight in use
  demanded,     \* ghost: adapter -> how long the demands of all answers still last
  refused,      \* ghost: adapter -> how long those of rate limited answers still last
  banned,       \* ghost: how long the last bans of the IP still last
  charges       \* ghost: what the requests of the last window have cost the server,
                \* [of, weight, age] with the age of their reservation; 0 until sent

throttleVars == <<lastRequest, nextRequest, embargo>>
limiterVars == <<usage, used>>
adapterVars == <<pc, sleeping, patience>>
ghostVars == <<demanded, refused, banned, charges>>
vars == <<kind, adapters, adapterVars, throttleVars, limiterVars, ghostVars>>

Nobody == "nobody"
ASSUME NobodyAssumption == Nobody \notin Adapters

Larger(m, n) == IF m > n THEN m ELSE n
Less(m, n) == IF m > n THEN m - n ELSE 0

\* The units of weight in the entries.
WeightOf(entries) ==
  Cardinality({unit \in (DOMAIN entries) \X (1 .. Capacity) :
                 unit[2] <= entries[unit[1]].weight})

Init ==
  /\ kind \in Kinds
  /\ adapters = IF kind = "bybit" THEN Adapters ELSE {CHOOSE a \in Adapters : TRUE}
  /\ pc = [a \in Adapters |-> "idle"]
  /\ sleeping = [a \in Adapters |-> 0] /\ patience = [a \in Adapters |-> 0]
  /\ lastRequest = [a \in Adapters |-> MinInterval]
  /\ nextRequest = [a \in Adapters |-> 0] /\ embargo = 0
  /\ usage = << >> /\ used = 0
  /\ demanded = [a \in Adapters |-> 0] /\ refused = [a \in Adapters |-> 0]
  /\ banned = 0 /\ charges = << >>

-----------------------------------------------------------------------------
\* The weight reserved for a request, and its first step.
Cost == IF kind = "bybit" THEN 1 ELSE Reserved
FirstStep == IF kind = "hyperliquid" THEN "reserve" ELSE "throttle"

\* A recovery begins.
Begin(a) ==
  /\ a \in adapters /\ pc[a] = "idle"
  /\ pc' = [pc EXCEPT ![a] = FirstStep]
  /\ patience' = [patience EXCEPT ![a] = Patience]
  /\ UNCHANGED <<kind, adapters, sleeping, throttleVars, limiterVars, ghostVars>>

Awake(a, step) == pc[a] = step /\ sleeping[a] = 0
GoesOn(a, step) == pc' = [pc EXCEPT ![a] = step] /\ UNCHANGED sleeping
Sleeps(a, delay) == sleeping' = [sleeping EXCEPT ![a] = delay] /\ UNCHANGED pc

\* restThrottle.wait of the adapter's throttle.
ThrottleWait(a) ==
  LET interval == IF kind = "paced" THEN MinInterval ELSE 0
      delay == Larger(nextRequest[a], Less(interval, lastRequest[a]))
  IN  /\ Awake(a, "throttle")
      /\ IF delay = 0
           THEN /\ GoesOn(a, IF kind = "bybit" THEN "reserve" ELSE "ready")
                /\ lastRequest' = [lastRequest EXCEPT ![a] = 0]
           ELSE Sleeps(a, delay) /\ UNCHANGED lastRequest
      /\ UNCHANGED <<kind, adapters, patience, nextRequest, embargo, limiterVars, ghostVars>>

\* Entries expire from the oldest on.
FirstInWindow(entries) ==
  Min({n \in DOMAIN entries : entries[n].age < Window} \cup {Len(entries) + 1})
InWindow(entries) == SubSeq(entries, FirstInWindow(entries), Len(entries))

\* What prune leaves.
Pruned == InWindow(usage)
UsedAfterPrune == used - WeightOf(SubSeq(usage, 1, FirstInWindow(usage) - 1))

\* The time until enough of the usage has left the window.
ReserveDelay ==
  LET needed == UsedAfterPrune + Cost - Capacity
      enough == {n \in DOMAIN Pruned : WeightOf(SubSeq(Pruned, 1, n)) >= needed}
      first == CHOOSE n \in enough : \A l \in enough : n <= l
  IN  Window - Pruned[first].age

\* One turn of reserve.
Reserve(a) ==
  /\ Awake(a, "reserve")
  /\ IF UsedAfterPrune + Cost <= Capacity
       THEN /\ usage' = Append(Pruned, [of |-> a, weight |-> Cost, age |-> 0])
            /\ used' = UsedAfterPrune + Cost
            /\ charges' = Append(charges, [of |-> a, weight |-> 0, age |-> 0])
            /\ GoesOn(a, IF kind = "bybit" THEN "embargo" ELSE "ready")
       ELSE /\ usage' = Pruned /\ used' = UsedAfterPrune
            /\ Sleeps(a, ReserveDelay) /\ UNCHANGED charges
  /\ UNCHANGED <<kind, adapters, patience, throttleVars, demanded, refused, banned>>

\* restThrottle.wait of the embargo.
EmbargoWait(a) ==
  /\ Awake(a, "embargo")
  /\ IF embargo = 0 THEN GoesOn(a, "ready") ELSE Sleeps(a, embargo)
  /\ UNCHANGED <<kind, adapters, patience, throttleVars, limiterVars, ghostVars>>

\* Nobody refunds this reservation any more.
Closed(entries, a) ==
  [n \in DOMAIN entries |-> IF entries[n].of = a THEN [entries[n] EXCEPT !.of = Nobody]
                                                 ELSE entries[n]]

Held(entries, a) == {n \in DOMAIN entries : entries[n].of = a}
Without(entries, n) == SubSeq(entries, 1, n - 1) \o SubSeq(entries, n + 1, Len(entries))
Lowered(entries, n, weight) ==
  IF entries[n].weight = weight THEN Without(entries, n)
  ELSE [entries EXCEPT ![n].weight = @ - weight, ![n].of = Nobody]

\* Faulty: what has left the window is given back again.
RefundUnconditionally(a, weight) ==
  /\ used' = UsedAfterPrune - weight
  /\ usage' = IF Held(Pruned, a) = {} THEN Pruned ELSE Lowered(Pruned, Min(Held(Pruned, a)), weight)

\* refund of a part of a's reservation, if that is still in the window.
Refund(a, weight) ==
  \/ weight = 0 /\ usage' = Closed(usage, a) /\ UNCHANGED used
  \/ weight > 0 /\ Held(Pruned, a) = {} /\ usage' = Pruned /\ used' = UsedAfterPrune
  \/ /\ weight > 0 /\ Held(Pruned, a) # {}
     /\ usage' = Lowered(Pruned, Min(Held(Pruned, a)), weight)
     /\ used' = UsedAfterPrune - weight

\* The deadline ends a wait; a reservation is given back.
WaitFails(a) ==
  /\ sleeping[a] > 0 /\ patience[a] = 0
  /\ pc' = [pc EXCEPT ![a] = "idle"] /\ sleeping' = [sleeping EXCEPT ![a] = 0]
  /\ IF pc[a] = "embargo"
       THEN /\ Refund(a, Cost)
            /\ charges' = IF Held(charges, a) = {} THEN charges
                          ELSE Without(charges, Min(Held(charges, a)))
       ELSE UNCHANGED <<limiterVars, charges>>
  /\ UNCHANGED <<kind, adapters, patience, throttleVars, demanded, refused, banned>>

\* What a's request costs.
Charge(a, weight) ==
  [n \in DOMAIN charges |-> IF charges[n].of = a THEN [charges[n] EXCEPT !.weight = weight]
                                                 ELSE charges[n]]

\* HTTPClient.Do sends the request, unless the deadline has passed.
Do(a) ==
  /\ pc[a] = "ready"
  /\ IF patience[a] = 0
       THEN /\ pc' = [pc EXCEPT ![a] = "idle"]
            /\ usage' = Closed(usage, a) /\ charges' = Closed(charges, a)
       ELSE /\ pc' = [pc EXCEPT ![a] = "sent"] /\ UNCHANGED usage
            /\ charges' = Charge(a, Cost)
  /\ UNCHANGED <<kind, adapters, sleeping, patience, throttleVars, used,
                 demanded, refused, banned>>

-----------------------------------------------------------------------------
\* Faulty: the last demand counts, not the longest.
DeferLast(next, delay) == IF delay > 0 THEN delay ELSE next

\* deferFor.
Defer(next, delay) == Larger(next, delay)

\* The adapter's throttle waits.
Deferred(a, delay) == nextRequest' = [nextRequest EXCEPT ![a] = Defer(@, delay)]

\* The server demands a delay in an answer.
Longest(ghost, a, delay) == [ghost EXCEPT ![a] = Larger(@, delay)]

\* The delay is heeded on answers that are not rate limited.
HeedsEveryAnswer == kind \in {"bybit", "binance"}
Told(a, delay) ==
  /\ demanded' = Longest(demanded, a, delay) /\ UNCHANGED refused
  /\ Deferred(a, IF HeedsEveryAnswer THEN delay ELSE 0)

\* The request is over, and has cost weight.
Charged(a, weight) == charges' = Closed(Charge(a, weight), a)

\* Faulty: what the request has cost is given back, not the rest.
AnsweredRefunded(a, delay, weight) ==
  /\ pc[a] = "sent"
  /\ \E step \in {"idle", FirstStep} : pc' = [pc EXCEPT ![a] = step]
  /\ IF kind = "hyperliquid" THEN Refund(a, weight)
     ELSE weight = Cost /\ usage' = Closed(usage, a) /\ UNCHANGED used
  /\ Told(a, delay) /\ Charged(a, weight)
  /\ UNCHANGED <<kind, adapters, sleeping, patience, lastRequest, embargo, banned>>

\* A usable answer, after which the recovery goes on or ends.  On Hyperliquid
\* the rows tell what the request has cost.
Answered(a, delay, weight) ==
  /\ pc[a] = "sent"
  /\ \E step \in {"idle", FirstStep} : pc' = [pc EXCEPT ![a] = step]
  /\ IF kind = "hyperliquid" THEN Refund(a, Cost - weight)
     ELSE weight = Cost /\ usage' = Closed(usage, a) /\ UNCHANGED used
  /\ Told(a, delay) /\ Charged(a, weight)
  /\ UNCHANGED <<kind, adapters, sleeping, patience, lastRequest, embargo, banned>>

\* No answer, one whose header cannot be read, or an error: on Hyperliquid that
\* is HTTP 429 too.  It ends the recovery of the symbol, and Bybit's altogether;
\* nothing is given back.
RequestFails(a, delay) ==
  /\ pc[a] = "sent"
  /\ \/ pc' = [pc EXCEPT ![a] = "idle"]
     \/ kind # "bybit" /\ pc' = [pc EXCEPT ![a] = FirstStep]
  /\ Told(a, delay) /\ usage' = Closed(usage, a) /\ Charged(a, Cost)
  /\ UNCHANGED <<kind, adapters, sleeping, patience, lastRequest, embargo, used, banned>>

\* A rate limited answer, or a ban, makes the throttle of any venue wait.
Refused(a, delay) ==
  /\ Deferred(a, delay)
  /\ demanded' = Longest(demanded, a, delay) /\ refused' = Longest(refused, a, delay)

\* Faulty: with the request the deadline is renewed.
RateLimitedAfresh(a, delay) ==
  /\ pc[a] = "sent" /\ kind # "hyperliquid"
  /\ pc' = [pc EXCEPT ![a] = "throttle"]
  /\ patience' = [patience EXCEPT ![a] = Patience]
  /\ Refused(a, IF delay = 0 THEN DefaultDelay ELSE delay)
  /\ usage' = Closed(usage, a) /\ Charged(a, Cost)
  /\ UNCHANGED <<kind, adapters, sleeping, lastRequest, embargo, used, banned>>

\* HTTP 429, Binance's 418, or Bybit's 10006: the request is made again.
RateLimited(a, delay) ==
  /\ pc[a] = "sent" /\ kind # "hyperliquid"
  /\ pc' = [pc EXCEPT ![a] = "throttle"]
  /\ Refused(a, IF delay = 0 THEN DefaultDelay ELSE delay)
  /\ usage' = Closed(usage, a) /\ Charged(a, Cost)
  /\ UNCHANGED <<kind, adapters, sleeping, patience, lastRequest, embargo, used, banned>>

\* Bybit's HTTP 403: no adapter makes requests for a while.
Forbidden(a, delay) ==
  LET ban == Larger(delay, BanDelay)
  IN  /\ pc[a] = "sent" /\ kind = "bybit"
      /\ pc' = [pc EXCEPT ![a] = "idle"]
      /\ Refused(a, ban)
      /\ embargo' = Defer(embargo, ban) /\ banned' = Larger(banned, ban)
      /\ usage' = Closed(usage, a) /\ Charged(a, Cost)
      /\ UNCHANGED <<kind, adapters, sleeping, patience, lastRequest, used>>

\* Time passes.  A sleeper whose deadline has passed is sure to fail.
Older(entries) == [n \in DOMAIN entries |->
  [entries[n] EXCEPT !.age = IF @ < Window THEN @ + 1 ELSE @]]
Tick ==
  /\ sleeping' = [a \in Adapters |->
       IF patience[a] = 0 THEN sleeping[a] ELSE Less(sleeping[a], 1)]
  /\ patience' = [a \in Adapters |-> Less(patience[a], 1)]
  /\ lastRequest' = [a \in Adapters |-> IF lastRequest[a] < MinInterval
                                         THEN lastRequest[a] + 1 ELSE lastRequest[a]]
  /\ nextRequest' = [a \in Adapters |-> Less(nextRequest[a], 1)]
  /\ embargo' = Less(embargo, 1)
  /\ usage' = Older(usage)
  /\ demanded' = [a \in Adapters |-> Less(demanded[a], 1)]
  /\ refused' = [a \in Adapters |-> Less(refused[a], 1)]
  /\ banned' = Less(banned, 1)
  /\ charges' = InWindow(Older(charges))
  /\ UNCHANGED <<kind, adapters, pc, used>>

Wait(a) == ThrottleWait(a) \/ Reserve(a) \/ EmbargoWait(a)
Answer(a) ==
  \E delay \in Delays :
    \/ \E weight \in Weights : Answered(a, delay, weight)
    \/ RequestFails(a, delay) \/ RateLimited(a, delay) \/ Forbidden(a, delay)

Next ==
  \/ \E a \in Adapters : Begin(a) \/ Wait(a) \/ WaitFails(a) \/ Do(a) \/ Answer(a)
  \/ Tick

Spec == Init /\ [][Next]_vars

\* Time passes, an adapter goes on when it is awake, deadlines take effect, and
\* a request is answered or fails.  No recovery need begin.
FairSpec ==
  /\ Spec
  /\ WF_vars(Tick)
  /\ \A a \in Adapters :
       WF_vars(Wait(a)) /\ WF_vars(WaitFails(a)) /\ WF_vars(Do(a)) /\ WF_vars(Answer(a))

-----------------------------------------------------------------------------
(***************************************************************************)
(* Properties.                                                             *)
(***************************************************************************)

\* The weight in use is that of the reservations, whatever is pruned and given
\* back, late or not, and within the capacity: none is lost, which would block
\* recoveries for good, and none freed twice.
BudgetIsExact == used = WeightOf(usage) /\ used <= Capacity

\* What the requests sent have cost stays within the capacity, for as long as
\* the window in which they were reserved; a request that was given back has
\* not been sent.
WindowIsKept == WeightOf(charges) <= Capacity

\* No request is sent off before the delay of a rate limited answer is over:
\* what its header demanded, or the default.  Bybit and Binance keep what any
\* answer of their server demanded, and on Bybit the ban of the IP, by whichever
\* adapter it was incurred.  Requests past the last wait are exempt: a ban cannot
\* call them back.  Hyperliquid keeps no such delay, and the paced venues only
\* those of HTTP 429 (coinbase_recovery.go:76): of them nothing more is said.
Allowed(a) ==
  /\ kind # "hyperliquid" => refused[a] = 0
  /\ HeedsEveryAnswer => demanded[a] = 0
  /\ kind = "bybit" => banned = 0
DelaysAreKept ==
  [][\A a \in Adapters : pc[a] # "ready" /\ pc'[a] = "ready" => Allowed(a)]_vars

\* Every recovery ends, whatever the server answers and however the others
\* compete with it.
EveryRecoveryEnds == \A a \in Adapters : pc[a] # "idle" ~> pc[a] = "idle"
=============================================================================
