--------------------------- MODULE DeribitSession ----------------------------
(***************************************************************************)
(* The Deribit adapter.  Recovery pages forward from the trade after the   *)
(* last one emitted, as long as the answers say that there is more, and    *)
(* keeps what it has found when it fails.  A message may carry several     *)
(* trades, which the adapter sorts and queues one by one: they are pushed  *)
(* one by one here.                                                        *)
(***************************************************************************)
EXTENDS Session

\* A page of recoverSymbol.  An empty page, or one after which there is no
\* more, ends it.
RecoverPage(s, answer) ==
  LET page == ForwardPage(s, answer)
      good == AsExpected(s, page)
      more == page # NotOlder(s, answer)
  IN  IF good # page THEN SymbolFailed(s, rows \cup good)
      ELSE IF ~more THEN SymbolRecovered(s, rows \cup page)
      ELSE NextPage(s, rows \cup page, 0, rows \cup page)

RecoverTrades ==
  \/ \E s \in Symbols : \E answer \in Answers(s) :
       /\ Recovering(s)
       /\ Answered(s, answer) /\ RecoverPage(s, answer)
       /\ UNCHANGED <<exchangeVars, phase, readVars, backlog, emitVars, breaks>>
  \/ \E s \in Symbols : RequestFails(s, rows)
  \/ RecoveryDone

AwaitSubscription == AwaitWithBacklog
TradeReader == ReadWithBacklog
EmitTrades == EmitWithBacklog

Subscribe == Accept(<< >>) \/ Acknowledge
Run == Dial \/ AwaitSubscription \/ RecoverTrades \/ EmitTrades \/ SessionOver
Next == (\E s \in Symbols : TradeHappens(s)) \/ Break \/ Subscribe \/ Run \/ TradeReader
=============================================================================
