------------------------- MODULE HyperliquidSession --------------------------
(***************************************************************************)
(* The Hyperliquid adapter.  Trades are not numbered.  Recovery makes one  *)
(* request per symbol, for its latest trades; when the last one emitted is *)
(* not among them it returns nothing, and no error either, and leaves what *)
(* was missed to the snapshot of the latest trades that the exchange pushes *)
(* on subscription.  There is no backlog: what bounds memory is the        *)
(* capacity of the reader's channel.                                       *)
(***************************************************************************)
EXTENDS Session

\* The snapshot of the latest n trades.
Snapshot(n) == [k \in 1 .. n |-> Len(market) - n + k]

\* The answer of recoverSymbol.
RecoverPage(s, answer) ==
  LET page == Newest(answer)
  IN  IF \E i \in page : Id(i) = lastIDs[s]
        THEN SymbolRecovered(s, {i \in page : Id(i) > lastIDs[s]})
        ELSE SymbolFailed(s, {})

RecoverTrades ==
  \/ \E s \in Symbols : \E answer \in Answers(s) :
       /\ Recovering(s)
       /\ Answered(s, answer) /\ RecoverPage(s, answer)
       /\ UNCHANGED <<exchangeVars, phase, readVars, backlog, emitVars, breaks>>
  \/ \E s \in Symbols : RequestFails(s, {})
  \/ RecoveryDone

AwaitSubscription ==
  \/ AwaitTrade \/ AwaitFails
  \/ AwaitAck /\ UNCHANGED backlog

TradeReader == ReadIntoChannel

EmitTrades ==
  \E i \in Trades :
    /\ TakeRecovered(i) \/ TakeBuffered(i) \/ TakeLive(i)
    /\ EmitSeenTrade(i)
    /\ UNCHANGED backlog

Subscribe ==
  \/ \E n \in {0, PageLimit} : n <= Len(market) /\ Accept(Snapshot(n))
  \/ Acknowledge
Run == Dial \/ AwaitSubscription \/ RecoverTrades \/ EmitTrades \/ SessionOver
Next == (\E s \in Symbols : TradeHappens(s)) \/ Break \/ Subscribe \/ Run \/ TradeReader
=============================================================================
