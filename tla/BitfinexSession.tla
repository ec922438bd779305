--------------------------- MODULE BitfinexSession ---------------------------
(***************************************************************************)
(* The Bitfinex adapter.  A trade is pushed twice: as it is executed, "te", *)
(* and later with its final values, "tu".  The former give the order in    *)
(* which trades are emitted, the latter what is emitted; a trade that has  *)
(* no "tu" yet holds back those behind it.  Messages are buffered and      *)
(* queued as they come and parsed on emission.  The message i is the "te"  *)
(* of trade i, -i its "tu".  Ids grow but have gaps: a trade is sequential *)
(* unless it is the symbol's first or follows a recovery that failed.      *)
(* Recovery pages backwards; a tick is a millisecond, and a page ends      *)
(* before the oldest millisecond of the one before.                        *)
(***************************************************************************)
EXTENDS Session, SequencesExt

VARIABLES
  confirming,  \* trades executed whose "tu" the exchange has yet to push
  order,       \* pendingOrder: symbol -> trades in the order of their "te"
  confirmed,   \* pendingUpdates: trades whose "tu" has been stored
  gaps         \* recoveryGaps: symbols whose next trade is not sequential

pairVars == <<order, confirmed, gaps>>
bitfinexVars == <<confirming, pairVars>>

-----------------------------------------------------------------------------
\* The exchange.  A "te" is not lost, nor does it overtake another; a "tu" may
\* be lost and come in any order.
TradeExecuted(s) ==
  /\ Happens(s) /\ Push(Len(market) + 1, {}, {})
  /\ confirming' = confirming \cup {Len(market) + 1}
  /\ UNCHANGED <<link, phase, readVars, backlog, recoveryVars, emitVars, breaks, pairVars>>

TradeUpdated(i) ==
  /\ i \in confirming /\ confirming' = confirming \ {i}
  /\ Push(-i, {wire}, {})
  /\ UNCHANGED <<market, link, phase, readVars, backlog, recoveryVars, emitVars, breaks,
                 pairVars>>

-----------------------------------------------------------------------------
\* A page of recoverSymbol.  Trades of its oldest millisecond that the page had
\* no room for are not asked for again.
RecoverPage(s, answer) ==
  LET within == {i \in answer : after = 0 \/ Moment(i) + 1 < after}
      page == Newest(within)
      oldest == CHOOSE i \in page : \A j \in page : i <= j
      found == rows \cup {i \in page : Id(i) > lastIDs[s]}
  IN  IF \E i \in page : Id(i) = lastIDs[s]
        THEN SymbolRecovered(s, found) /\ UNCHANGED gaps
      ELSE IF page = {} \/ pages + 1 = MaxPages
        THEN SymbolFailed(s, {}) /\ gaps' = gaps \cup {s}
      ELSE /\ pages' = pages + 1 /\ after' = Moment(oldest) + 1 /\ rows' = found
           /\ uncovered' = uncovered \cup {i \in within \ page : Moment(i) = Moment(oldest)}
           /\ UNCHANGED <<todo, recovered, givenUp, gaps>>

RecoverTrades ==
  \/ \E s \in Symbols : \E answer \in Answers(s) :
       /\ Recovering(s)
       /\ Answered(s, answer) /\ RecoverPage(s, answer)
       /\ UNCHANGED <<exchangeVars, phase, readVars, backlog, emitVars, breaks, order, confirmed>>
  \/ \E s \in Symbols :
       RequestFails(s, {}) /\ gaps' = gaps \cup {s} /\ UNCHANGED <<order, confirmed>>
  \/ RecoveryDone /\ UNCHANGED pairVars

-----------------------------------------------------------------------------
Known(i) == lastIDs[market[i]] # 0 /\ Id(i) <= lastIDs[market[i]]

\* enqueueBitfinexTrade and storeBitfinexTradeUpdate.
Enqueued(i) ==
  IF Known(i) \/ \E n \in DOMAIN order[market[i]] : order[market[i]][n] = i
    THEN order[market[i]] ELSE Append(order[market[i]], i)
Stored(i) == IF Known(i) THEN confirmed ELSE confirmed \cup {i}

\* bitfinexTradeIsSequential.
IsSequential(s, previous, id) == s \notin gaps /\ previous # 0 /\ id > previous

\* The trades at the head of s's queue that are confirmed are emitted.
EmitReady(s, queue, stored) ==
  LET ready == SelectInSeq(Append(queue, Tick), LAMBDA i : i \notin stored) - 1
      event(n) == [trade |-> queue[n], sequential |->
        IF n = 1 THEN IsSequential(s, lastIDs[s], Id(queue[1]))
                 ELSE Id(queue[n]) > Id(queue[n - 1])]
  IN  /\ order' = [order EXCEPT ![s] = SubSeq(queue, ready + 1, Len(queue))]
      /\ confirmed' = stored \ {queue[n] : n \in 1 .. ready}
      /\ emitted' = emitted \o [n \in 1 .. ready |-> event(n)]
      /\ IF ready = 0 THEN UNCHANGED <<lastIDs, gaps>>
         ELSE lastIDs' = [lastIDs EXCEPT ![s] = Id(queue[ready])] /\ gaps' = gaps \ {s}
      /\ UNCHANGED seen

\* emitMessageTrades.
EmitMessage(m) ==
  \/ m > 0 /\ EmitReady(market[m], Enqueued(m), confirmed)
  \/ m < 0 /\ EmitReady(market[-m], order[market[-m]], Stored(-m))

\* emitRecoveredTrade.
EmitRecovered(i) ==
  LET s == market[i]
  IN  IF Known(i) THEN UNCHANGED <<emitVars, pairVars>>
      ELSE /\ emitted' = Append(emitted,
                [trade |-> i, sequential |-> IsSequential(s, lastIDs[s], Id(i))])
           /\ lastIDs' = [lastIDs EXCEPT ![s] = Id(i)] /\ gaps' = gaps \ {s}
           /\ UNCHANGED <<seen, order, confirmed>>

EmitTrades ==
  \E i \in Trades :
    \/ TakeRecovered(i) /\ EmitRecovered(i) /\ UNCHANGED backlog
    \/ \E m \in {i, -i} :
         (TakeBuffered(m) \/ TakeLive(m)) /\ EmitMessage(m) /\ backlog' = backlog - 1

\* run returns; the next one begins with resetSessionState.
SessionReset ==
  /\ SessionOver
  /\ order' = [s \in Symbols |-> << >>] /\ confirmed' = {} /\ gaps' = {}

-----------------------------------------------------------------------------
AwaitSubscription == AwaitWithBacklog /\ UNCHANGED pairVars
TradeReader == ReadWithBacklog /\ UNCHANGED bitfinexVars

Subscribe ==
  \/ (Accept(<< >>) \/ Acknowledge) /\ UNCHANGED bitfinexVars
  \/ \E i \in Trades : TradeUpdated(i)
Run ==
  /\ \/ RecoverTrades \/ EmitTrades \/ AwaitSubscription \/ SessionReset
     \/ Dial /\ UNCHANGED pairVars
  /\ UNCHANGED confirming
Next ==
  \/ \E s \in Symbols : TradeExecuted(s)
  \/ (TimePasses(FALSE) \/ Break) /\ UNCHANGED bitfinexVars
  \/ Subscribe \/ Run \/ TradeReader
=============================================================================
