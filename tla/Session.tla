------------------------------ MODULE Session -------------------------------
(***************************************************************************)
(* What the exchange adapters have in common.  One goroutine runs session  *)
(* after session; in a session it                                          *)
(*   dials and subscribes, buffering trades until the acknowledgement,     *)
(*   starts a reader that queues live trades,                              *)
(*   recovers, over REST, what each symbol missed since its last trade,    *)
(*   emits recovered, buffered and live trades, in this order, until the   *)
(*   reader has ended and its queue is empty.                              *)
(* Some adapters bound what is buffered and queued by the slots of a       *)
(* tradeBacklog, some remember the ids they have seen; the venue's module  *)
(* adds what is its own.                                                   *)
(*                                                                         *)
(* The exchange is one sequence, market; market[i] is the symbol of trade  *)
(* i, and a symbol's trades have consecutive ids.  Trades are denoted by   *)
(* their place in market, which is also their timestamp; where a venue     *)
(* divides time, into seconds or milliseconds, market[i] may also be Tick, *)
(* with which the next one begins.  The exchange pushes trades to a        *)
(* subscribed connection; wire is what it has pushed and the adapter has   *)
(* not read.  A push may be lost or out of order, an answer to a REST      *)
(* request may lack a trade, and a request may fail.                       *)
(*                                                                         *)
(* Left out: delays between sessions and requests (RecoveryLimits), which  *)
(* postpone steps, and the errors' way to the caller (FanIn).              *)
(***************************************************************************)
EXTENDS Integers, Sequences, FiniteSetsExt

CONSTANTS
  Symbols,      \* the adapter's symbols, numbered in their order
  BufferLimit,  \* trades buffered or queued
  PageLimit,    \* trades in a REST answer
  MaxPages,     \* REST requests for one symbol
  SeenLimit,    \* ids remembered, of all symbols together
  Traded,       \* bound: the symbols that are traded
  MaxMarket,    \* bound: trades
  MaxTicks,     \* bound: ticks that nobody waits for
  MaxBreaks,    \* bound: connections that break or time out
  MaxFaults,    \* bound: faulty pushes and faulty REST answers
  Disordered    \* a push may be out of order

ASSUME SessionAssumption ==
  /\ Symbols \subseteq Nat \ {0} /\ Disordered \in BOOLEAN /\ Traded \subseteq Symbols
  /\ {BufferLimit, PageLimit, MaxPages, SeenLimit} \subseteq Nat \ {0}
  /\ {MaxMarket, MaxTicks, MaxBreaks, MaxFaults} \subseteq Nat

VARIABLES
  market,     \* symbol of each trade, oldest first, and ticks
  link,       \* "down", "requested", "subscribed", "acknowledged", "broken"
  wire,       \* trades, or Ack, on their way to the adapter
  phase,      \* "down", "awaiting", "recovering", "emitting"
  buffered,   \* trades read before the acknowledgement
  reader,     \* "off", "reading", "done"
  stream,     \* the reader's queue
  backlog,    \* slots of the tradeBacklog in use (Binance has none)
  todo,       \* symbols still to be recovered; the first one is under way
  pages,      \* requests made for it
  after,      \* Coinbase, Bitfinex: where the last page began; 0: no page yet
  rows,       \* trades recovered for it so far
  recovered,  \* trades recovered for all symbols, not yet emitted
  lastIDs,    \* symbol -> id of the last trade emitted, or the greatest; 0 if none
  seen,       \* seenTradeIDs: the last trades added, oldest first
  emitted,    \* ghost: [trade, sequential] in the order of emission
  givenUp,    \* ghost: symbols whose recovery has given up, mostly with an error
  uncovered,  \* ghost: trades that no part of a recovery asks for
  disturbed,  \* ghost: symbols with a faulty push or an incomplete answer
  breaks, faults

exchangeVars == <<market, link, wire>>
readVars == <<buffered, reader, stream>>
requestVars == <<pages, after, rows>>
recoveryVars == <<todo, requestVars, recovered, givenUp, uncovered>>
emitVars == <<lastIDs, seen, emitted>>
faultVars == <<faults, disturbed>>
boundVars == <<breaks, faultVars>>
sessionVars == <<exchangeVars, phase, readVars, backlog, recoveryVars, emitVars, boundVars>>

Ack == 0
Tick == 0
Trades == {i \in DOMAIN market : market[i] # Tick}
AllOf(s) == {i \in DOMAIN market : market[i] = s}
Id(i) == Cardinality({j \in AllOf(market[i]) : j <= i})
Moment(i) == Cardinality({j \in 1 .. i : market[j] = Tick})
Now == Moment(Len(market))

Init ==
  /\ market = << >> /\ link = "down" /\ wire = << >>
  /\ phase = "down" /\ buffered = << >> /\ reader = "off" /\ stream = << >>
  /\ backlog = 0
  /\ todo = {} /\ pages = 0 /\ after = 0 /\ rows = {} /\ recovered = {}
  /\ lastIDs = [s \in Symbols |-> 0] /\ seen = << >> /\ emitted = << >>
  /\ givenUp = {} /\ uncovered = {}
  /\ disturbed = {} /\ breaks = 0 /\ faults = 0

-----------------------------------------------------------------------------
(***************************************************************************)
(* The exchange.                                                           *)
(***************************************************************************)

\* The wires after a faulty push of trade i: it is lost, or overtakes another.
Mispushed(i) ==
  {wire} \cup
  {SubSeq(wire, 1, Len(wire) - 1) \o <<i, wire[n]>> :
     n \in IF Disordered THEN {Len(wire)} \ {0} ELSE {}}

\* A message is pushed to a subscribed connection; when it is mispushed, the
\* feed of the affected symbols is not what it should be.
Push(message, mispushed, affected) ==
  \/ link \notin {"subscribed", "acknowledged"} /\ UNCHANGED <<wire, faultVars>>
  \/ link \in {"subscribed", "acknowledged"}
     /\ \/ wire' = Append(wire, message) /\ UNCHANGED faultVars
        \/ /\ faults < MaxFaults /\ faults' = faults + 1
           /\ disturbed' = disturbed \cup affected
           /\ wire' \in mispushed

Happens(s) ==
  /\ s \in Traded /\ Cardinality(Trades) < MaxMarket
  /\ market' = Append(market, s)

TradeHappens(s) ==
  /\ Happens(s) /\ Push(Len(market) + 1, Mispushed(Len(market) + 1), {s})
  /\ UNCHANGED <<link, phase, readVars, backlog, recoveryVars, emitVars, breaks>>

TimePasses(awaited) ==
  /\ Trades # {}  \* what was before does not matter
  /\ Now < MaxTicks \/ awaited
  /\ market' = Append(market, Tick)
  /\ UNCHANGED <<link, wire, phase, readVars, backlog, recoveryVars, emitVars, boundVars>>

\* From now on trades are pushed, after those in replay.
Accept(replay) ==
  /\ link = "requested"
  /\ link' = "subscribed" /\ wire' = replay
  /\ UNCHANGED <<market, phase, readVars, backlog, recoveryVars, emitVars, boundVars>>

Acknowledge ==
  /\ link = "subscribed"
  /\ link' = "acknowledged" /\ wire' = Append(wire, Ack)
  /\ UNCHANGED <<market, phase, readVars, backlog, recoveryVars, emitVars, boundVars>>

\* The connection ends, or a message on it makes the adapter end it; some of
\* what was on its way never arrives.
Break ==
  /\ link \notin {"down", "broken"} /\ breaks < MaxBreaks
  /\ breaks' = breaks + 1 /\ link' = "broken"
  /\ \E n \in 0 .. Len(wire) : wire' = SubSeq(wire, 1, n)
  /\ UNCHANGED <<market, phase, readVars, backlog, recoveryVars, emitVars, faultVars>>

-----------------------------------------------------------------------------
(***************************************************************************)
(* The session up to the recovery.                                         *)
(***************************************************************************)
\* Faulty: no session follows one that has emitted trades.
DialOnce ==
  /\ phase = "down" /\ emitted = << >>
  /\ phase' = "awaiting" /\ link' = "requested"
  /\ UNCHANGED <<market, wire, readVars, backlog, recoveryVars, emitVars, boundVars>>

Dial ==
  /\ phase = "down"
  /\ phase' = "awaiting" /\ link' = "requested"
  /\ UNCHANGED <<market, wire, readVars, backlog, recoveryVars, emitVars, boundVars>>

\* run returns: the connection is closed and what was not emitted forgotten.
EndSession ==
  /\ phase' = "down" /\ link' = "down" /\ wire' = << >>
  /\ buffered' = << >> /\ reader' = "off" /\ stream' = << >>

\* A trade before the acknowledgement is buffered, if there is room.
AwaitTrade ==
  /\ phase = "awaiting" /\ wire # << >> /\ Head(wire) # Ack
  /\ IF Len(buffered) < BufferLimit
       THEN /\ buffered' = Append(buffered, Head(wire)) /\ wire' = Tail(wire)
            /\ UNCHANGED <<link, phase, reader, stream>>
       ELSE EndSession
  /\ UNCHANGED <<market, backlog, recoveryVars, emitVars, boundVars>>

\* The acknowledgement starts the reader, and the recovery of every symbol
\* that has a last trade.
AwaitAck ==
  /\ phase = "awaiting" /\ wire # << >> /\ Head(wire) = Ack
  /\ wire' = Tail(wire)
  /\ phase' = "recovering" /\ reader' = "reading"
  /\ todo' = {s \in Symbols : lastIDs[s] # 0}
  /\ UNCHANGED <<market, link, buffered, stream, requestVars, recovered, givenUp, uncovered,
                 emitVars, boundVars>>

\* The connection broke, or the acknowledgement takes too long.
AwaitFails ==
  /\ phase = "awaiting"
  /\ \/ link = "broken" /\ wire = << >> /\ UNCHANGED breaks
     \/ link # "broken" /\ breaks < MaxBreaks /\ breaks' = breaks + 1
  /\ EndSession
  /\ UNCHANGED <<market, backlog, recoveryVars, emitVars, faultVars>>

\* Faulty: the buffered trades take no slots.
AwaitWithoutSlots ==
  \/ AwaitTrade \/ AwaitFails
  \/ AwaitAck /\ backlog' = 0

\* The buffered trades take their slots in the backlog.
AwaitWithBacklog ==
  \/ AwaitTrade \/ AwaitFails
  \/ AwaitAck /\ backlog' = Len(buffered)

-----------------------------------------------------------------------------
(***************************************************************************)
(* The reader.                                                             *)
(***************************************************************************)
CanRead == reader = "reading" /\ wire # << >>

QueueTrade ==
  /\ stream' = Append(stream, Head(wire)) /\ wire' = Tail(wire)
  /\ UNCHANGED <<link, reader>>

\* There is no room: the reader closes the connection and ends.
Overflow ==
  /\ reader' = "done" /\ link' = "down" /\ wire' = << >>
  /\ UNCHANGED stream

ReadFails ==
  /\ reader = "reading" /\ link = "broken" /\ wire = << >>
  /\ reader' = "done"
  /\ UNCHANGED <<exchangeVars, phase, buffered, stream, backlog, recoveryVars,
                 emitVars, boundVars>>

\* A trade is queued if it gets a slot.
ReadWithBacklog ==
  \/ /\ CanRead
     /\ IF backlog < BufferLimit
          THEN QueueTrade /\ backlog' = backlog + 1
          ELSE Overflow /\ UNCHANGED backlog
     /\ UNCHANGED <<market, phase, buffered, recoveryVars, emitVars, boundVars>>
  \/ ReadFails

\* Faulty: trades are queued without limit.
UnboundedReader ==
  \/ /\ CanRead /\ QueueTrade
     /\ UNCHANGED <<market, phase, buffered, backlog, recoveryVars, emitVars, boundVars>>
  \/ ReadFails

\* Without a backlog a full channel ends the reader; but run may have taken one
\* more trade out of it, which is being emitted.
ReadIntoChannel ==
  \/ /\ CanRead
     /\ \/ \/ Len(stream) < BufferLimit
           \/ Len(stream) = BufferLimit /\ phase = "emitting" /\ recovered = {} /\ buffered = << >>
          /\ QueueTrade
        \/ Len(stream) >= BufferLimit /\ Overflow
     /\ UNCHANGED <<market, phase, buffered, backlog, recoveryVars, emitVars, boundVars>>
  \/ ReadFails

-----------------------------------------------------------------------------
(***************************************************************************)
(* The recovery, symbol after symbol.                                      *)
(***************************************************************************)
Recovering(s) == phase = "recovering" /\ s \in todo /\ \A t \in todo : s <= t

\* The answers to a request for trades of s: all there are, or all but one.
Answers(s) == {AllOf(s)} \cup {AllOf(s) \ {i} : i \in AllOf(s)}

\* An answer costs a fault unless it is complete.
Answered(s, answer) ==
  \/ answer = AllOf(s) /\ UNCHANGED faultVars
  \/ /\ answer # AllOf(s) /\ faults < MaxFaults
     /\ faults' = faults + 1 /\ disturbed' = disturbed \cup {s}

\* found is contiguous from the cursor on.
FollowsCursor(s, found) == {Id(i) : i \in found} = lastIDs[s] + 1 .. lastIDs[s] + Cardinality(found)

\* Where a page is the newest trades.
Newest(found) == {i \in found : Cardinality({j \in found : j > i}) < PageLimit}

\* Where pages go forward: the first trades of an answer that are not older
\* than the next one expected, and those of them that come as expected.
Expected(s) == lastIDs[s] + 1 + Cardinality(rows)
NotOlder(s, answer) == {i \in answer : Id(i) >= Expected(s)}
ForwardPage(s, answer) ==
  {i \in NotOlder(s, answer) : Cardinality({j \in NotOlder(s, answer) : j < i}) < PageLimit}
AsExpected(s, page) ==
  {i \in page : Id(i) = Expected(s) + Cardinality({j \in page : j < i})}

NextSymbol(s) == todo' = todo \ {s} /\ pages' = 0 /\ after' = 0 /\ rows' = {}

SymbolRecovered(s, found) ==
  /\ NextSymbol(s)
  /\ recovered' = recovered \cup found
  /\ UNCHANGED <<givenUp, uncovered>>

\* Faulty: one symbol's error gives up what was found for the others.
SymbolFailedForAll(s, kept) ==
  /\ NextSymbol(s)
  /\ recovered' = kept
  /\ givenUp' = givenUp \cup {s} /\ UNCHANGED uncovered

\* The error is joined to those of the other symbols; some venues keep what
\* they have found.
SymbolFailed(s, kept) ==
  /\ NextSymbol(s)
  /\ recovered' = recovered \cup kept
  /\ givenUp' = givenUp \cup {s} /\ UNCHANGED uncovered

\* The symbol's next page is asked for, unless that was the last one.
NextPage(s, found, oldest, kept) ==
  IF pages + 1 = MaxPages THEN SymbolFailed(s, kept)
  ELSE /\ pages' = pages + 1 /\ after' = oldest /\ rows' = found
       /\ UNCHANGED <<todo, recovered, givenUp, uncovered>>

RequestFails(s, kept) ==
  /\ Recovering(s) /\ faults < MaxFaults
  /\ faults' = faults + 1 /\ UNCHANGED disturbed
  /\ SymbolFailed(s, kept)
  /\ UNCHANGED <<exchangeVars, phase, readVars, backlog, emitVars, breaks>>

RecoveryDone ==
  /\ phase = "recovering" /\ todo = {}
  /\ phase' = "emitting"
  /\ UNCHANGED <<exchangeVars, readVars, backlog, recoveryVars, emitVars, boundVars>>

-----------------------------------------------------------------------------
(***************************************************************************)
(* Emission: recovered trades sorted by time, then buffered, then live.    *)
(***************************************************************************)
TakeRecovered(i) ==
  /\ phase = "emitting" /\ i \in recovered /\ \A j \in recovered : i <= j
  /\ recovered' = recovered \ {i}
  /\ UNCHANGED <<exchangeVars, phase, readVars, todo, requestVars, givenUp, uncovered,
                 boundVars>>

TakeBuffered(i) ==
  /\ phase = "emitting" /\ recovered = {}
  /\ buffered # << >> /\ i = Head(buffered)
  /\ buffered' = Tail(buffered)
  /\ UNCHANGED <<exchangeVars, phase, reader, stream, recoveryVars, boundVars>>

TakeLive(i) ==
  /\ phase = "emitting" /\ recovered = {} /\ buffered = << >>
  /\ stream # << >> /\ i = Head(stream)
  /\ stream' = Tail(stream)
  /\ UNCHANGED <<exchangeVars, phase, buffered, reader, recoveryVars, boundVars>>

\* seenTradeIDs.Add of a trade that is new.
Remember(i) ==
  LET all == Append(seen, i)
  IN  seen' = SubSeq(all, IF Len(all) > SeenLimit THEN 2 ELSE 1, Len(all))

\* What the feed does not number is never sequential.
EmitUnnumbered(i) == emitted' = Append(emitted, [trade |-> i, sequential |-> FALSE])

\* emitSeenTrade.
EmitSeenTrade(i) ==
  IF \E n \in DOMAIN seen : seen[n] = i THEN UNCHANGED emitVars
  ELSE /\ Remember(i) /\ EmitUnnumbered(i)
       /\ lastIDs' = [lastIDs EXCEPT ![market[i]] = Id(i)]

\* The trade is sequential when it follows the symbol's last one.
Emit(i) ==
  emitted' = Append(emitted, [trade |-> i,
    sequential |-> lastIDs[market[i]] # 0 /\ Id(i) = lastIDs[market[i]] + 1])

\* Faulty: recovered trades are not remembered.
EmitUnremembered(i) ==
  IF \E n \in DOMAIN seen : seen[n] = i THEN UNCHANGED emitVars
  ELSE /\ IF i \in recovered THEN UNCHANGED seen ELSE Remember(i)
       /\ Emit(i)
       /\ lastIDs' = [lastIDs EXCEPT ![market[i]] = IF Id(i) > @ THEN Id(i) ELSE @]

\* A trade is emitted unless it is among the last ones seen.
EmitUnseen(i) ==
  IF \E n \in DOMAIN seen : seen[n] = i THEN UNCHANGED emitVars
  ELSE /\ Remember(i)
       /\ Emit(i)
       /\ lastIDs' = [lastIDs EXCEPT ![market[i]] = IF Id(i) > @ THEN Id(i) ELSE @]

\* Recovered trades have no slot; the others release theirs.
EmitWithBacklog ==
  \E i \in Trades :
    /\ \/ TakeRecovered(i) /\ UNCHANGED backlog
       \/ (TakeBuffered(i) \/ TakeLive(i)) /\ backlog' = backlog - 1
    /\ EmitUnseen(i)

SessionOver ==
  /\ phase = "emitting" /\ recovered = {} /\ buffered = << >> /\ stream = << >>
  /\ reader = "done"
  /\ EndSession
  /\ UNCHANGED <<market, backlog, recoveryVars, emitVars, boundVars>>
=============================================================================
