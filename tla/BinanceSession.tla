--------------------------- MODULE BinanceSession ----------------------------
(***************************************************************************)
(* The Binance adapters, spot and futures.  Recovery pages forward from    *)
(* the trade after the last one emitted until a page is not full, and      *)
(* keeps what it has found when it fails.  A trade is emitted if its id is *)
(* greater than the symbol's last one; the flag that parsing has given it  *)
(* is replaced then.  There is no backlog: what bounds memory is the       *)
(* capacity of the reader's channel, besides the trade that is just being  *)
(* emitted.  That an announced shutdown of the server skips the backoff    *)
(* makes no difference here.                                               *)
(***************************************************************************)
EXTENDS Session

\* Faulty: the symbol's last id advances when a trade is buffered.
AwaitAdvancing ==
  \/ /\ phase = "awaiting" /\ wire # << >> /\ Head(wire) # Ack
     /\ Len(buffered) < BufferLimit
     /\ buffered' = Append(buffered, Head(wire)) /\ wire' = Tail(wire)
     /\ lastIDs' = [lastIDs EXCEPT ![market[Head(wire)]] = Id(Head(wire))]
     /\ UNCHANGED <<market, link, phase, reader, stream, backlog, recoveryVars,
                    seen, emitted, boundVars>>
  \/ AwaitFails
  \/ AwaitAck /\ UNCHANGED backlog

AwaitSubscription ==
  \/ AwaitTrade \/ AwaitFails
  \/ AwaitAck /\ UNCHANGED backlog

TradeReader == ReadIntoChannel

\* A page of recoverFuturesSymbol and recoverSpotSymbol.
RecoverPage(s, answer) ==
  LET page == ForwardPage(s, answer)
      good == AsExpected(s, page)
  IN  IF good # page THEN SymbolFailed(s, rows \cup good)
      ELSE IF Cardinality(page) < PageLimit THEN SymbolRecovered(s, rows \cup page)
      ELSE NextPage(s, rows \cup page, 0, rows \cup page)

RecoverTrades ==
  \/ \E s \in Symbols : \E answer \in Answers(s) :
       /\ Recovering(s)
       /\ Answered(s, answer) /\ RecoverPage(s, answer)
       /\ UNCHANGED <<exchangeVars, phase, readVars, backlog, emitVars, breaks>>
  \/ \E s \in Symbols : RequestFails(s, rows)
  \/ RecoveryDone

\* emitParsedTrade.
EmitParsedTrade(i) ==
  IF lastIDs[market[i]] # 0 /\ Id(i) <= lastIDs[market[i]] THEN UNCHANGED emitVars
  ELSE Emit(i) /\ lastIDs' = [lastIDs EXCEPT ![market[i]] = Id(i)] /\ UNCHANGED seen

EmitTrades ==
  \E i \in Trades :
    /\ TakeRecovered(i) \/ TakeBuffered(i) \/ TakeLive(i)
    /\ EmitParsedTrade(i)
    /\ UNCHANGED backlog

Subscribe == Accept(<< >>) \/ Acknowledge
Run == Dial \/ AwaitSubscription \/ RecoverTrades \/ EmitTrades \/ SessionOver
Next == (\E s \in Symbols : TradeHappens(s)) \/ Break \/ Subscribe \/ Run \/ TradeReader
=============================================================================
