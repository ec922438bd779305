--------------------------- MODULE SessionsProofs ----------------------------
(***************************************************************************)
(* The adapters of all seven venues, for any symbols, buffers, pages and   *)
(* bounds.  Their state is well-formed, and the slots of the backlog are   *)
(* those of the trades in memory (the channel).  A recovery hands over     *)
(* what follows the last trade without a hole where trades are numbered,   *)
(* a gap shows in IsSequential on every venue but Bitfinex, and Binance,   *)
(* which compares ids with the last, emits no trade twice (emission and    *)
(* recovery).                                                              *)
(*                                                                         *)
(* A venue's module is an instance, with its own copy of what it takes     *)
(* from Session.  The first part says, for each venue, what its steps are  *)
(* in terms of Session and of a few operators that are the venue's own.    *)
(***************************************************************************)
EXTENDS Sessions, FiniteSetTheorems, SequenceTheorems, TLAPS

-----------------------------------------------------------------------------
(***************************************************************************)
(* The steps of the venues.                                                *)
(***************************************************************************)

\* A trade happens, whatever bounds the market.
TradeComes(s) ==
  /\ s \in Symbols /\ market' = Append(market, s)
  /\ Push(Len(market) + 1, Mispushed(Len(market) + 1), {s})
  /\ UNCHANGED <<link, phase, readVars, backlog, recoveryVars, emitVars, breaks>>

\* The steps that no venue has changed.
SharedStep ==
  \/ \E s \in Symbols : TradeComes(s)
  \/ Break \/ Acknowledge \/ Dial \/ SessionOver

\* The answer to a request for s is dealt with by page.
PageTaken(page(_, _)) ==
  \E s \in Symbols : \E answer \in Answers(s) :
    /\ Recovering(s)
    /\ Answered(s, answer) /\ page(s, answer)
    /\ UNCHANGED <<exchangeVars, phase, readVars, backlog, emitVars, breaks>>

\* Where the adapter has no backlog.
AwaitWithoutBacklog == AwaitTrade \/ AwaitFails \/ (AwaitAck /\ UNCHANGED backlog)
Takes(i) == TakeRecovered(i) \/ TakeBuffered(i) \/ TakeLive(i)
EmitParsedTrade(i) ==
  IF lastIDs[market[i]] # 0 /\ Id(i) <= lastIDs[market[i]] THEN UNCHANGED emitVars
  ELSE Emit(i) /\ lastIDs' = [lastIDs EXCEPT ![market[i]] = Id(i)] /\ UNCHANGED seen
Snapshot(n) == [k \in 1 .. n |-> Len(market) - n + k]

LEMMA CoinbaseSteps ==
  ASSUME Coinbase!Next
  PROVE  \/ SharedStep
         \/ Accept(Coinbase!LastMatches)
         \/ AwaitWithBacklog \/ ReadWithBacklog \/ EmitWithBacklog
         \/ PageTaken(Coinbase!RecoverPage)
         \/ \E s \in Symbols : RequestFails(s, {})
         \/ RecoveryDone
<1> USE DEF Coinbase!readVars, readVars, Coinbase!recoveryVars, recoveryVars,
            Coinbase!requestVars, requestVars, Coinbase!emitVars, emitVars,
            Coinbase!faultVars, faultVars, Coinbase!boundVars, boundVars,
            Coinbase!exchangeVars, exchangeVars,
            Coinbase!Trades, Trades, Coinbase!Tick, Tick, Coinbase!Ack, Ack,
            Coinbase!AllOf, AllOf
<1>1. \A S : Coinbase!Cardinality(S) = Cardinality(S)
  BY DEF Coinbase!Cardinality, Cardinality
<1>2. \A i : Coinbase!Id(i) = Id(i)
  BY <1>1 DEF Coinbase!Id, Id
<1>3. \A s \in Symbols : Coinbase!TradeHappens(s) => TradeComes(s)
  BY DEF Coinbase!TradeHappens, Coinbase!Happens, Coinbase!Push, Coinbase!Mispushed,
         TradeComes, Push, Mispushed
<1>4. Coinbase!Break => Break
  BY DEF Coinbase!Break, Break
<1>5. Coinbase!Subscribe => Accept(Coinbase!LastMatches) \/ Acknowledge
  BY DEF Coinbase!Subscribe, Coinbase!Accept, Accept, Coinbase!Acknowledge, Acknowledge
<1>6. Coinbase!Dial => Dial
  BY DEF Coinbase!Dial, Dial
<1>7. Coinbase!EndSession <=> EndSession
  BY DEF Coinbase!EndSession, EndSession
<1>8. Coinbase!SessionOver => SessionOver
  BY <1>7 DEF Coinbase!SessionOver, SessionOver
<1>9. Coinbase!AwaitSubscription => AwaitWithBacklog
  BY <1>7 DEF Coinbase!AwaitSubscription, Coinbase!AwaitWithBacklog, AwaitWithBacklog,
       Coinbase!AwaitTrade, AwaitTrade, Coinbase!AwaitFails, AwaitFails,
       Coinbase!AwaitAck, AwaitAck
<1>10. Coinbase!TradeReader => ReadWithBacklog
  BY DEF Coinbase!TradeReader, Coinbase!ReadWithBacklog, ReadWithBacklog,
       Coinbase!CanRead, CanRead, Coinbase!QueueTrade, QueueTrade, Coinbase!Overflow, Overflow,
       Coinbase!ReadFails, ReadFails
<1>11. \A i : /\ Coinbase!TakeRecovered(i) <=> TakeRecovered(i)
              /\ Coinbase!TakeBuffered(i) <=> TakeBuffered(i)
              /\ Coinbase!TakeLive(i) <=> TakeLive(i)
              /\ Coinbase!EmitUnseen(i) <=> EmitUnseen(i)
  BY <1>2 DEF Coinbase!TakeRecovered, TakeRecovered, Coinbase!TakeBuffered, TakeBuffered,
       Coinbase!TakeLive, TakeLive, Coinbase!EmitUnseen, EmitUnseen,
       Coinbase!Remember, Remember, Coinbase!Emit, Emit
<1>12. Coinbase!EmitTrades => EmitWithBacklog
  BY <1>11 DEF Coinbase!EmitTrades, Coinbase!EmitWithBacklog, EmitWithBacklog
<1>13. Coinbase!RecoverTrades =>
         \/ PageTaken(Coinbase!RecoverPage)
         \/ \E s \in Symbols : RequestFails(s, {})
         \/ RecoveryDone
  BY DEF Coinbase!RecoverTrades, PageTaken, Coinbase!Answers, Answers,
       Coinbase!Recovering, Recovering, Coinbase!Answered, Answered,
       Coinbase!RequestFails, RequestFails, Coinbase!SymbolFailed, SymbolFailed,
       Coinbase!NextSymbol, NextSymbol, Coinbase!RecoveryDone, RecoveryDone
<1> QED
  BY <1>3, <1>4, <1>5, <1>6, <1>8, <1>9, <1>10, <1>12, <1>13
  DEF Coinbase!Next, Coinbase!Run, SharedStep

LEMMA DeribitSteps ==
  ASSUME Deribit!Next
  PROVE  \/ SharedStep
         \/ Accept(<< >>)
         \/ AwaitWithBacklog \/ ReadWithBacklog \/ EmitWithBacklog
         \/ PageTaken(Deribit!RecoverPage)
         \/ \E s \in Symbols : RequestFails(s, rows)
         \/ RecoveryDone
<1> USE DEF Deribit!readVars, readVars, Deribit!recoveryVars, recoveryVars,
            Deribit!requestVars, requestVars, Deribit!emitVars, emitVars,
            Deribit!faultVars, faultVars, Deribit!boundVars, boundVars,
            Deribit!exchangeVars, exchangeVars,
            Deribit!Trades, Trades, Deribit!Tick, Tick, Deribit!Ack, Ack,
            Deribit!AllOf, AllOf
<1>1. \A S : Deribit!Cardinality(S) = Cardinality(S)
  BY DEF Deribit!Cardinality, Cardinality
<1>2. \A i : Deribit!Id(i) = Id(i)
  BY <1>1 DEF Deribit!Id, Id
<1>3. \A s \in Symbols : Deribit!TradeHappens(s) => TradeComes(s)
  BY DEF Deribit!TradeHappens, Deribit!Happens, Deribit!Push, Deribit!Mispushed,
         TradeComes, Push, Mispushed
<1>4. Deribit!Break => Break
  BY DEF Deribit!Break, Break
<1>5. Deribit!Subscribe => Accept(<< >>) \/ Acknowledge
  BY DEF Deribit!Subscribe, Deribit!Accept, Accept, Deribit!Acknowledge, Acknowledge
<1>6. Deribit!Dial => Dial
  BY DEF Deribit!Dial, Dial
<1>7. Deribit!EndSession <=> EndSession
  BY DEF Deribit!EndSession, EndSession
<1>8. Deribit!SessionOver => SessionOver
  BY <1>7 DEF Deribit!SessionOver, SessionOver
<1>9. Deribit!AwaitSubscription => AwaitWithBacklog
  BY <1>7 DEF Deribit!AwaitSubscription, Deribit!AwaitWithBacklog, AwaitWithBacklog,
       Deribit!AwaitTrade, AwaitTrade, Deribit!AwaitFails, AwaitFails,
       Deribit!AwaitAck, AwaitAck
<1>10. Deribit!TradeReader => ReadWithBacklog
  BY DEF Deribit!TradeReader, Deribit!ReadWithBacklog, ReadWithBacklog,
       Deribit!CanRead, CanRead, Deribit!QueueTrade, QueueTrade, Deribit!Overflow, Overflow,
       Deribit!ReadFails, ReadFails
<1>11. \A i : /\ Deribit!TakeRecovered(i) <=> TakeRecovered(i)
              /\ Deribit!TakeBuffered(i) <=> TakeBuffered(i)
              /\ Deribit!TakeLive(i) <=> TakeLive(i)
              /\ Deribit!EmitUnseen(i) <=> EmitUnseen(i)
  BY <1>2 DEF Deribit!TakeRecovered, TakeRecovered, Deribit!TakeBuffered, TakeBuffered,
       Deribit!TakeLive, TakeLive, Deribit!EmitUnseen, EmitUnseen,
       Deribit!Remember, Remember, Deribit!Emit, Emit
<1>12. Deribit!EmitTrades => EmitWithBacklog
  BY <1>11 DEF Deribit!EmitTrades, Deribit!EmitWithBacklog, EmitWithBacklog
<1>13. Deribit!RecoverTrades =>
         \/ PageTaken(Deribit!RecoverPage)
         \/ \E s \in Symbols : RequestFails(s, rows)
         \/ RecoveryDone
  BY DEF Deribit!RecoverTrades, PageTaken, Deribit!Answers, Answers,
       Deribit!Recovering, Recovering, Deribit!Answered, Answered,
       Deribit!RequestFails, RequestFails, Deribit!SymbolFailed, SymbolFailed,
       Deribit!NextSymbol, NextSymbol, Deribit!RecoveryDone, RecoveryDone
<1> QED
  BY <1>3, <1>4, <1>5, <1>6, <1>8, <1>9, <1>10, <1>12, <1>13
  DEF Deribit!Next, Deribit!Run, SharedStep

LEMMA BinanceSteps ==
  ASSUME Binance!Next
  PROVE  \/ SharedStep
         \/ Accept(<< >>)
         \/ AwaitWithoutBacklog \/ ReadIntoChannel
         \/ \E i \in Trades : Takes(i) /\ EmitParsedTrade(i) /\ UNCHANGED backlog
         \/ PageTaken(Binance!RecoverPage)
         \/ \E s \in Symbols : RequestFails(s, rows)
         \/ RecoveryDone
<1> USE DEF Binance!readVars, readVars, Binance!recoveryVars, recoveryVars,
            Binance!requestVars, requestVars, Binance!emitVars, emitVars,
            Binance!faultVars, faultVars, Binance!boundVars, boundVars,
            Binance!exchangeVars, exchangeVars,
            Binance!Trades, Trades, Binance!Tick, Tick, Binance!Ack, Ack,
            Binance!AllOf, AllOf
<1>1. \A S : Binance!Cardinality(S) = Cardinality(S)
  BY DEF Binance!Cardinality, Cardinality
<1>2. \A i : Binance!Id(i) = Id(i)
  BY <1>1 DEF Binance!Id, Id
<1>3. \A s \in Symbols : Binance!TradeHappens(s) => TradeComes(s)
  BY DEF Binance!TradeHappens, Binance!Happens, Binance!Push, Binance!Mispushed,
         TradeComes, Push, Mispushed
<1>4. Binance!Break => Break
  BY DEF Binance!Break, Break
<1>5. Binance!Subscribe => Accept(<< >>) \/ Acknowledge
  BY DEF Binance!Subscribe, Binance!Accept, Accept, Binance!Acknowledge, Acknowledge
<1>6. Binance!Dial => Dial
  BY DEF Binance!Dial, Dial
<1>7. Binance!EndSession <=> EndSession
  BY DEF Binance!EndSession, EndSession
<1>8. Binance!SessionOver => SessionOver
  BY <1>7 DEF Binance!SessionOver, SessionOver
<1>9. Binance!AwaitSubscription => AwaitWithoutBacklog
  BY <1>7 DEF Binance!AwaitSubscription, AwaitWithoutBacklog,
       Binance!AwaitTrade, AwaitTrade, Binance!AwaitFails, AwaitFails,
       Binance!AwaitAck, AwaitAck
<1>10. Binance!TradeReader => ReadIntoChannel
  BY DEF Binance!TradeReader, Binance!ReadIntoChannel, ReadIntoChannel,
       Binance!CanRead, CanRead, Binance!QueueTrade, QueueTrade, Binance!Overflow, Overflow,
       Binance!ReadFails, ReadFails
<1>11. \A i : /\ Binance!TakeRecovered(i) <=> TakeRecovered(i)
              /\ Binance!TakeBuffered(i) <=> TakeBuffered(i)
              /\ Binance!TakeLive(i) <=> TakeLive(i)
  BY DEF Binance!TakeRecovered, TakeRecovered, Binance!TakeBuffered, TakeBuffered,
       Binance!TakeLive, TakeLive
<1>12. Binance!EmitTrades => \E i \in Trades : Takes(i) /\ EmitParsedTrade(i) /\ UNCHANGED backlog
  BY <1>2, <1>11 DEF Binance!EmitTrades, Takes, Binance!EmitParsedTrade, EmitParsedTrade,
       Binance!Emit, Emit
<1>13. Binance!RecoverTrades =>
         \/ PageTaken(Binance!RecoverPage)
         \/ \E s \in Symbols : RequestFails(s, rows)
         \/ RecoveryDone
  BY DEF Binance!RecoverTrades, PageTaken, Binance!Answers, Answers,
       Binance!Recovering, Recovering, Binance!Answered, Answered,
       Binance!RequestFails, RequestFails, Binance!SymbolFailed, SymbolFailed,
       Binance!NextSymbol, NextSymbol, Binance!RecoveryDone, RecoveryDone
<1> QED
  BY <1>3, <1>4, <1>5, <1>6, <1>8, <1>9, <1>10, <1>12, <1>13
  DEF Binance!Next, Binance!Run, SharedStep

LEMMA HyperliquidSteps ==
  ASSUME Hyperliquid!Next
  PROVE  \/ SharedStep
         \/ \E n \in {0, PageLimit} : n <= Len(market) /\ Accept(Snapshot(n))
         \/ AwaitWithoutBacklog \/ ReadIntoChannel
         \/ \E i \in Trades : Takes(i) /\ EmitSeenTrade(i) /\ UNCHANGED backlog
         \/ PageTaken(Hyperliquid!RecoverPage)
         \/ \E s \in Symbols : RequestFails(s, {})
         \/ RecoveryDone
<1> USE DEF Hyperliquid!readVars, readVars, Hyperliquid!recoveryVars, recoveryVars,
            Hyperliquid!requestVars, requestVars, Hyperliquid!emitVars, emitVars,
            Hyperliquid!faultVars, faultVars, Hyperliquid!boundVars, boundVars,
            Hyperliquid!exchangeVars, exchangeVars,
            Hyperliquid!Trades, Trades, Hyperliquid!Tick, Tick, Hyperliquid!Ack, Ack,
            Hyperliquid!AllOf, AllOf
<1>1. \A S : Hyperliquid!Cardinality(S) = Cardinality(S)
  BY DEF Hyperliquid!Cardinality, Cardinality
<1>2. \A i : Hyperliquid!Id(i) = Id(i)
  BY <1>1 DEF Hyperliquid!Id, Id
<1>3. \A s \in Symbols : Hyperliquid!TradeHappens(s) => TradeComes(s)
  BY DEF Hyperliquid!TradeHappens, Hyperliquid!Happens, Hyperliquid!Push, Hyperliquid!Mispushed,
         TradeComes, Push, Mispushed
<1>4. Hyperliquid!Break => Break
  BY DEF Hyperliquid!Break, Break
<1>5. Hyperliquid!Subscribe =>
        \/ \E n \in {0, PageLimit} : n <= Len(market) /\ Accept(Snapshot(n))
        \/ Acknowledge
  BY DEF Hyperliquid!Subscribe, Hyperliquid!Accept, Accept, Hyperliquid!Acknowledge, Acknowledge, Hyperliquid!Snapshot, Snapshot
<1>6. Hyperliquid!Dial => Dial
  BY DEF Hyperliquid!Dial, Dial
<1>7. Hyperliquid!EndSession <=> EndSession
  BY DEF Hyperliquid!EndSession, EndSession
<1>8. Hyperliquid!SessionOver => SessionOver
  BY <1>7 DEF Hyperliquid!SessionOver, SessionOver
<1>9. Hyperliquid!AwaitSubscription => AwaitWithoutBacklog
  BY <1>7 DEF Hyperliquid!AwaitSubscription, AwaitWithoutBacklog,
       Hyperliquid!AwaitTrade, AwaitTrade, Hyperliquid!AwaitFails, AwaitFails,
       Hyperliquid!AwaitAck, AwaitAck
<1>10. Hyperliquid!TradeReader => ReadIntoChannel
  BY DEF Hyperliquid!TradeReader, Hyperliquid!ReadIntoChannel, ReadIntoChannel,
       Hyperliquid!CanRead, CanRead, Hyperliquid!QueueTrade, QueueTrade, Hyperliquid!Overflow, Overflow,
       Hyperliquid!ReadFails, ReadFails
<1>11. \A i : /\ Hyperliquid!TakeRecovered(i) <=> TakeRecovered(i)
              /\ Hyperliquid!TakeBuffered(i) <=> TakeBuffered(i)
              /\ Hyperliquid!TakeLive(i) <=> TakeLive(i)
  BY DEF Hyperliquid!TakeRecovered, TakeRecovered, Hyperliquid!TakeBuffered, TakeBuffered,
       Hyperliquid!TakeLive, TakeLive
<1>12. Hyperliquid!EmitTrades => \E i \in Trades : Takes(i) /\ EmitSeenTrade(i) /\ UNCHANGED backlog
  BY <1>2, <1>11 DEF Hyperliquid!EmitTrades, Takes, Hyperliquid!EmitSeenTrade, EmitSeenTrade,
       Hyperliquid!Remember, Remember, Hyperliquid!EmitUnnumbered, EmitUnnumbered
<1>13. Hyperliquid!RecoverTrades =>
         \/ PageTaken(Hyperliquid!RecoverPage)
         \/ \E s \in Symbols : RequestFails(s, {})
         \/ RecoveryDone
  BY DEF Hyperliquid!RecoverTrades, PageTaken, Hyperliquid!Answers, Answers,
       Hyperliquid!Recovering, Recovering, Hyperliquid!Answered, Answered,
       Hyperliquid!RequestFails, RequestFails, Hyperliquid!SymbolFailed, SymbolFailed,
       Hyperliquid!NextSymbol, NextSymbol, Hyperliquid!RecoveryDone, RecoveryDone
<1> QED
  BY <1>3, <1>4, <1>5, <1>6, <1>8, <1>9, <1>10, <1>12, <1>13
  DEF Hyperliquid!Next, Hyperliquid!Run, SharedStep

\* The steps of a recovery of Bybit: an answer, the end of a pass, the end.
BybitAnswer ==
  \E s \in Symbols : \E answer \in Answers(s) :
    /\ Bybit!Asking(s)
    /\ Answered(s, answer) /\ Bybit!RecoverPage(s, answer)
    /\ UNCHANGED <<exchangeVars, phase, readVars, backlog, todo, pages, after, recovered,
                   uncovered, emitVars, breaks>>
BybitPass ==
  /\ phase = "recovering"
  /\ \E done, again : Bybit!PassEnds(done, again)
  /\ UNCHANGED <<exchangeVars, reader, backlog, emitVars, boundVars>>
BybitEnd ==
  /\ phase = "recovering"
  /\ Bybit!RecoveryEnds
  /\ UNCHANGED <<exchangeVars, reader, backlog, emitVars, disturbed>>
EmitSeenWithBacklog ==
  \E i \in Trades :
    /\ \/ TakeRecovered(i) /\ UNCHANGED backlog
       \/ (TakeBuffered(i) \/ TakeLive(i)) /\ backlog' = backlog - 1
    /\ EmitSeenTrade(i)

LEMMA BybitSteps ==
  ASSUME Bybit!Next
  PROVE  \/ /\ SharedStep \/ Accept(<< >>) \/ AwaitWithBacklog \/ ReadWithBacklog
               \/ EmitSeenWithBacklog \/ RecoveryDone
            /\ UNCHANGED asked
         \/ BybitAnswer \/ BybitPass \/ BybitEnd
<1> USE DEF Bybit!readVars, readVars, Bybit!recoveryVars, recoveryVars,
            Bybit!requestVars, requestVars, Bybit!emitVars, emitVars,
            Bybit!faultVars, faultVars, Bybit!boundVars, boundVars,
            Bybit!exchangeVars, exchangeVars,
            Bybit!Trades, Trades, Bybit!Tick, Tick, Bybit!Ack, Ack,
            Bybit!AllOf, AllOf
<1>1. \A S : Bybit!Cardinality(S) = Cardinality(S)
  BY DEF Bybit!Cardinality, Cardinality
<1>2. \A i : Bybit!Id(i) = Id(i)
  BY <1>1 DEF Bybit!Id, Id
<1>3. \A s \in Symbols : Bybit!TradeHappens(s) => TradeComes(s)
  BY DEF Bybit!TradeHappens, Bybit!Happens, Bybit!Push, Bybit!Mispushed,
         TradeComes, Push, Mispushed
<1>4. Bybit!Break => Break
  BY DEF Bybit!Break, Break
<1>5. Bybit!Subscribe => (Accept(<< >>) \/ Acknowledge) /\ UNCHANGED asked
  BY DEF Bybit!Subscribe, Bybit!Accept, Accept, Bybit!Acknowledge, Acknowledge
<1>6. Bybit!Dial => Dial
  BY DEF Bybit!Dial, Dial
<1>7. Bybit!EndSession <=> EndSession
  BY DEF Bybit!EndSession, EndSession
<1>8. Bybit!SessionOver => SessionOver
  BY <1>7 DEF Bybit!SessionOver, SessionOver
<1>9. Bybit!AwaitSubscription => AwaitWithBacklog
  BY <1>7 DEF Bybit!AwaitSubscription, Bybit!AwaitWithBacklog, AwaitWithBacklog,
       Bybit!AwaitTrade, AwaitTrade, Bybit!AwaitFails, AwaitFails,
       Bybit!AwaitAck, AwaitAck
<1>10. Bybit!TradeReader => ReadWithBacklog /\ UNCHANGED asked
  BY DEF Bybit!TradeReader, Bybit!ReadWithBacklog, ReadWithBacklog,
       Bybit!CanRead, CanRead, Bybit!QueueTrade, QueueTrade, Bybit!Overflow, Overflow,
       Bybit!ReadFails, ReadFails
<1>11. \A i : /\ Bybit!TakeRecovered(i) <=> TakeRecovered(i)
              /\ Bybit!TakeBuffered(i) <=> TakeBuffered(i)
              /\ Bybit!TakeLive(i) <=> TakeLive(i)
              /\ Bybit!EmitSeenTrade(i) <=> EmitSeenTrade(i)
  BY <1>2 DEF Bybit!TakeRecovered, TakeRecovered, Bybit!TakeBuffered, TakeBuffered,
       Bybit!TakeLive, TakeLive, Bybit!EmitSeenTrade, EmitSeenTrade,
       Bybit!Remember, Remember, Bybit!EmitUnnumbered, EmitUnnumbered
<1>12. Bybit!EmitTrades => EmitSeenWithBacklog
  BY <1>11 DEF Bybit!EmitTrades, EmitSeenWithBacklog
<1>13. Bybit!RecoverTrades =>
         BybitAnswer \/ BybitPass \/ BybitEnd \/ (RecoveryDone /\ UNCHANGED asked)
  BY DEF Bybit!RecoverTrades, BybitAnswer, BybitPass, BybitEnd, Bybit!Answers, Answers,
       Bybit!Answered, Answered, Bybit!RecoveryDone, RecoveryDone
<1> QED
  BY <1>3, <1>4, <1>5, <1>6, <1>8, <1>9, <1>10, <1>12, <1>13
  DEF Bybit!Next, Bybit!Run, SharedStep

\* On Phoenix and Bitfinex time passes.
TickComes ==
  /\ market' = Append(market, Tick)
  /\ UNCHANGED <<link, wire, phase, readVars, backlog, recoveryVars, emitVars, boundVars>>

\* The steps of Phoenix that are its own.
PhoenixAck ==
  /\ phase = "awaiting" /\ wire # << >> /\ Head(wire) = Ack
  /\ wire' = Tail(wire)
  /\ phase' = "recovering" /\ reader' = "reading" /\ todo' = Phoenix!Anchored
  /\ backlog' = Len(buffered)
  /\ until' = Max({Now} \cup {Moment(Phoenix!Anchor(s)) + 1 : s \in Phoenix!Anchored})
  /\ uncovered' \subseteq uncovered
  /\ UNCHANGED <<market, link, buffered, stream, requestVars, recovered, givenUp,
                 resumeAt, emitVars, boundVars>>
PhoenixAnswer ==
  \E s \in Symbols : \E answer \in Answers(s) :
    /\ Recovering(s)
    /\ Answered(s, answer) /\ Phoenix!RecoverPage(s, answer)
    /\ UNCHANGED <<exchangeVars, phase, readVars, backlog, emitVars, breaks, until, resumeAt>>
PhoenixWaitFails ==
  /\ phase = "recovering"
  /\ givenUp' = givenUp \cup todo /\ todo' = {}
  /\ UNCHANGED <<exchangeVars, phase, readVars, backlog, requestVars, recovered, uncovered,
                 emitVars, faultVars, until, resumeAt>>
PhoenixDone ==
  /\ RecoveryDone
  /\ resumeAt' = [s \in Symbols |->
       IF s \in Phoenix!Anchored THEN Moment(Phoenix!LastAfterRecovery(s)) + 1 ELSE 0]
  /\ UNCHANGED until
PhoenixEmits ==
  /\ \E i \in Trades :
       \/ TakeRecovered(i) /\ Phoenix!EmitTrade(i) /\ UNCHANGED backlog
       \/ (TakeBuffered(i) \/ TakeLive(i)) /\ Phoenix!EmitLive(i) /\ backlog' = backlog - 1
  /\ UNCHANGED <<until, resumeAt>>

LEMMA PhoenixSteps ==
  ASSUME Phoenix!Next
  PROVE  \/ /\ SharedStep \/ TickComes \/ Phoenix!AcceptNow \/ AwaitTrade
               \/ AwaitFails \/ ReadWithBacklog \/ \E s \in Symbols : RequestFails(s, {})
            /\ UNCHANGED <<until, resumeAt>>
         \/ PhoenixAck \/ PhoenixAnswer \/ PhoenixWaitFails \/ PhoenixDone \/ PhoenixEmits
<1> USE DEF Phoenix!readVars, readVars, Phoenix!recoveryVars, recoveryVars,
            Phoenix!requestVars, requestVars, Phoenix!emitVars, emitVars,
            Phoenix!faultVars, faultVars, Phoenix!boundVars, boundVars,
            Phoenix!exchangeVars, exchangeVars, Phoenix!handoffVars,
            Phoenix!Trades, Trades, Phoenix!Tick, Tick, Phoenix!Ack, Ack,
            Phoenix!AllOf, AllOf
<1>1. \A S : Phoenix!Cardinality(S) = Cardinality(S)
  BY DEF Phoenix!Cardinality, Cardinality
<1>2. /\ \A i : Phoenix!Id(i) = Id(i) /\ Phoenix!Moment(i) = Moment(i)
      /\ Phoenix!Now = Now
      /\ \A S : Phoenix!Max(S) = Max(S)
  BY <1>1 DEF Phoenix!Id, Id, Phoenix!Moment, Moment, Phoenix!Now, Now, Phoenix!Max, Max
<1>3. \A s \in Symbols : Phoenix!TradeHappens(s) => TradeComes(s)
  BY DEF Phoenix!TradeHappens, Phoenix!Happens, Phoenix!Push, Phoenix!Mispushed,
         TradeComes, Push, Mispushed
<1>4. Phoenix!Break => Break
  BY DEF Phoenix!Break, Break
<1>5. Phoenix!SecondPasses => TickComes
  BY DEF Phoenix!SecondPasses, Phoenix!TimePasses, TickComes
<1>6. Phoenix!Subscribe =>
        (Phoenix!AcceptNow \/ Acknowledge \/ TickComes) /\ UNCHANGED <<until, resumeAt>>
  BY <1>5 DEF Phoenix!Subscribe, Phoenix!Acknowledge, Acknowledge
<1>7. Phoenix!EndSession <=> EndSession
  BY DEF Phoenix!EndSession, EndSession
<1>8. Phoenix!Dial => Dial
  BY DEF Phoenix!Dial, Dial
<1>9. Phoenix!SessionOver => SessionOver
  BY <1>7 DEF Phoenix!SessionOver, SessionOver
<1>10. Phoenix!AwaitSubscription =>
         \/ (AwaitTrade \/ AwaitFails) /\ UNCHANGED <<backlog, until, resumeAt>>
         \/ PhoenixAck
  BY <1>2, <1>7 DEF Phoenix!AwaitSubscription, PhoenixAck,
       Phoenix!AwaitTrade, AwaitTrade, Phoenix!AwaitFails, AwaitFails
<1>11. Phoenix!TradeReader => ReadWithBacklog /\ UNCHANGED <<until, resumeAt>>
  BY DEF Phoenix!TradeReader, Phoenix!ReadWithBacklog, ReadWithBacklog,
       Phoenix!CanRead, CanRead, Phoenix!QueueTrade, QueueTrade, Phoenix!Overflow, Overflow,
       Phoenix!ReadFails, ReadFails
<1>12. Phoenix!EmitTrades => PhoenixEmits
  BY DEF Phoenix!EmitTrades, PhoenixEmits, Phoenix!TakeRecovered, TakeRecovered,
       Phoenix!TakeBuffered, TakeBuffered, Phoenix!TakeLive, TakeLive
<1>13. Phoenix!RecoveryDone <=> RecoveryDone
  BY DEF Phoenix!RecoveryDone, RecoveryDone
<1>14. Phoenix!RecoverTrades =>
         \/ (\E s \in Symbols : RequestFails(s, {})) /\ UNCHANGED <<until, resumeAt>>
         \/ PhoenixAnswer \/ PhoenixWaitFails \/ PhoenixDone
  BY <1>2, <1>13 DEF Phoenix!RecoverTrades, PhoenixAnswer, PhoenixWaitFails, PhoenixDone,
       Phoenix!WaitFails, Phoenix!Answers, Answers,
       Phoenix!Recovering, Recovering, Phoenix!Answered, Answered,
       Phoenix!RequestFails, RequestFails, Phoenix!SymbolFailed, SymbolFailed,
       Phoenix!NextSymbol, NextSymbol
<1> QED
  BY <1>3, <1>4, <1>5, <1>6, <1>8, <1>9, <1>10, <1>11, <1>12, <1>14
  DEF Phoenix!Next, Phoenix!Run, SharedStep

\* The steps of Bitfinex that are its own.
Executed(s) ==
  /\ s \in Symbols /\ market' = Append(market, s)
  /\ Push(Len(market) + 1, {}, {})
  /\ confirming' = confirming \cup {Len(market) + 1}
  /\ UNCHANGED <<link, phase, readVars, backlog, recoveryVars, emitVars, breaks,
                 order, confirmed, gaps>>
Updated(i) ==
  /\ i \in confirming /\ confirming' = confirming \ {i}
  /\ Push(-i, {wire}, {})
  /\ UNCHANGED <<market, link, phase, readVars, backlog, recoveryVars, emitVars, breaks,
                 order, confirmed, gaps>>
BitfinexAnswer ==
  \E s \in Symbols : \E answer \in Answers(s) :
    /\ Recovering(s)
    /\ Answered(s, answer) /\ Bitfinex!RecoverPage(s, answer)
    /\ UNCHANGED <<exchangeVars, phase, readVars, backlog, emitVars, breaks, order, confirmed,
                   confirming>>
BitfinexRequestFails ==
  \E s \in Symbols :
    /\ RequestFails(s, {}) /\ gaps' = gaps \cup {s}
    /\ UNCHANGED <<order, confirmed, confirming>>
BitfinexEmits ==
  /\ \E i \in Trades :
       \/ TakeRecovered(i) /\ Bitfinex!EmitRecovered(i) /\ UNCHANGED backlog
       \/ \E m \in {i, -i} :
            /\ TakeBuffered(m) \/ TakeLive(m)
            /\ Bitfinex!EmitMessage(m) /\ backlog' = backlog - 1
  /\ UNCHANGED confirming
BitfinexReset ==
  /\ SessionOver
  /\ order' = [s \in Symbols |-> << >>] /\ confirmed' = {} /\ gaps' = {}
  /\ UNCHANGED confirming

LEMMA BitfinexSteps ==
  ASSUME Bitfinex!Next
  PROVE  \/ /\ Break \/ Acknowledge \/ Dial \/ TickComes \/ Accept(<< >>)
               \/ AwaitWithBacklog \/ ReadWithBacklog \/ RecoveryDone
            /\ UNCHANGED <<confirming, order, confirmed, gaps>>
         \/ (\E s \in Symbols : Executed(s)) \/ (\E i \in Trades : Updated(i))
         \/ BitfinexAnswer \/ BitfinexRequestFails \/ BitfinexEmits \/ BitfinexReset
<1> USE DEF Bitfinex!readVars, readVars, Bitfinex!recoveryVars, recoveryVars,
            Bitfinex!requestVars, requestVars, Bitfinex!emitVars, emitVars,
            Bitfinex!faultVars, faultVars, Bitfinex!boundVars, boundVars,
            Bitfinex!exchangeVars, exchangeVars, Bitfinex!pairVars, Bitfinex!bitfinexVars,
            Bitfinex!Trades, Trades, Bitfinex!Tick, Tick, Bitfinex!Ack, Ack,
            Bitfinex!AllOf, AllOf
<1>1. \A s \in Symbols : Bitfinex!TradeExecuted(s) => Executed(s)
  BY DEF Bitfinex!TradeExecuted, Bitfinex!Happens, Bitfinex!Push, Executed, Push
<1>2. \A i : Bitfinex!TradeUpdated(i) => Updated(i)
  BY DEF Bitfinex!TradeUpdated, Bitfinex!Push, Updated, Push
<1>3. Bitfinex!Break => Break
  BY DEF Bitfinex!Break, Break
<1>4. Bitfinex!TimePasses(FALSE) => TickComes
  BY DEF Bitfinex!TimePasses, TickComes
<1>5. Bitfinex!Subscribe =>
        \/ (Accept(<< >>) \/ Acknowledge) /\ UNCHANGED <<confirming, order, confirmed, gaps>>
        \/ \E i \in Trades : Updated(i)
  BY <1>2 DEF Bitfinex!Subscribe, Bitfinex!Accept, Accept, Bitfinex!Acknowledge, Acknowledge
<1>6. Bitfinex!Dial => Dial
  BY DEF Bitfinex!Dial, Dial
<1>7. Bitfinex!EndSession <=> EndSession
  BY DEF Bitfinex!EndSession, EndSession
<1>8. Bitfinex!SessionReset /\ UNCHANGED confirming => BitfinexReset
  BY <1>7 DEF Bitfinex!SessionReset, BitfinexReset, Bitfinex!SessionOver, SessionOver
<1>9. Bitfinex!AwaitSubscription => AwaitWithBacklog /\ UNCHANGED <<order, confirmed, gaps>>
  BY <1>7 DEF Bitfinex!AwaitSubscription, Bitfinex!AwaitWithBacklog, AwaitWithBacklog,
       Bitfinex!AwaitTrade, AwaitTrade, Bitfinex!AwaitFails, AwaitFails,
       Bitfinex!AwaitAck, AwaitAck
<1>10. Bitfinex!TradeReader =>
         ReadWithBacklog /\ UNCHANGED <<confirming, order, confirmed, gaps>>
  BY DEF Bitfinex!TradeReader, Bitfinex!ReadWithBacklog, ReadWithBacklog,
       Bitfinex!CanRead, CanRead, Bitfinex!QueueTrade, QueueTrade,
       Bitfinex!Overflow, Overflow, Bitfinex!ReadFails, ReadFails
<1>11. Bitfinex!EmitTrades /\ UNCHANGED confirming => BitfinexEmits
  BY DEF Bitfinex!EmitTrades, BitfinexEmits, Bitfinex!TakeRecovered, TakeRecovered,
       Bitfinex!TakeBuffered, TakeBuffered, Bitfinex!TakeLive, TakeLive
<1>12. Bitfinex!RecoverTrades /\ UNCHANGED confirming =>
         \/ BitfinexAnswer \/ BitfinexRequestFails
         \/ RecoveryDone /\ UNCHANGED <<confirming, order, confirmed, gaps>>
  BY DEF Bitfinex!RecoverTrades, BitfinexAnswer, BitfinexRequestFails,
       Bitfinex!RecoveryDone, RecoveryDone, Bitfinex!Answers, Answers,
       Bitfinex!Recovering, Recovering, Bitfinex!Answered, Answered,
       Bitfinex!RequestFails, RequestFails, Bitfinex!SymbolFailed, SymbolFailed,
       Bitfinex!NextSymbol, NextSymbol
<1> QED
  BY <1>1, <1>2, <1>3, <1>4, <1>5, <1>6, <1>8, <1>9, <1>10, <1>11, <1>12
  DEF Bitfinex!Next, Bitfinex!Run

-----------------------------------------------------------------------------
(***************************************************************************)
(* The market only grows.                                                  *)
(***************************************************************************)
Grows == market' = market \/ \E x \in Symbols \cup {Tick} : market' = Append(market, x)

MarketTyped == market \in Seq(Symbols \cup {Tick})

LEMMA MarketFacts ==
  ASSUME MarketTyped
  PROVE  /\ DOMAIN market = 1 .. Len(market) /\ Len(market) \in Nat
         /\ \A i \in DOMAIN market : market[i] \in Symbols \cup {Tick}
         /\ Trades \subseteq Nat /\ Ack \notin Trades /\ Ack \notin Messages
         /\ Messages \subseteq Int
         /\ \A i \in Trades : market[i] \in Symbols /\ i \in AllOf(market[i])
         /\ \A s \in Symbols : AllOf(s) \subseteq Trades
         /\ \A i : IsFiniteSet({j \in AllOf(market[i]) : j <= i}) /\ Id(i) \in Nat
         /\ \A i \in Trades : Id(i) # 0
         /\ \A i \in DOMAIN market : Moment(i) \in Nat
         /\ Now \in Nat
<1>1. /\ DOMAIN market = 1 .. Len(market) /\ Len(market) \in Nat
      /\ \A i \in DOMAIN market : market[i] \in Symbols \cup {Tick}
  BY DEF MarketTyped
<1>2. Trades \subseteq Nat /\ Ack \notin Trades
  BY <1>1 DEF Trades, Ack
<1>3. Ack \notin Messages /\ Messages \subseteq Int
  <2>1. \A i \in Trades : i \in Int /\ i # 0 /\ -i \in Int /\ -i # 0
    BY <1>2 DEF Ack
  <2> QED BY <2>1 DEF Messages, Ack
<1>4. \A i \in Trades : market[i] \in Symbols /\ i \in AllOf(market[i])
  BY <1>1 DEF Trades, AllOf
<1>5. \A s \in Symbols : AllOf(s) \subseteq Trades
  BY SessionAssumption DEF AllOf, Trades, Tick
<1>6. ASSUME NEW i
      PROVE  IsFiniteSet({j \in AllOf(market[i]) : j <= i}) /\ Id(i) \in Nat
  <2>1. IsFiniteSet(1 .. Len(market))
    BY <1>1, FS_Interval
  <2>2. {j \in AllOf(market[i]) : j <= i} \subseteq 1 .. Len(market)
    BY <1>1 DEF AllOf
  <2>3. IsFiniteSet({j \in AllOf(market[i]) : j <= i})
    BY <2>1, <2>2, FS_Subset
  <2> QED BY <2>3, FS_CardinalityType DEF Id
<1>7. ASSUME NEW i \in Trades PROVE Id(i) # 0
  <2>1. i \in {j \in AllOf(market[i]) : j <= i}
    BY <1>2, <1>4
  <2>2. {j \in AllOf(market[i]) : j <= i} # {}
    BY <2>1
  <2> QED BY <1>6, <2>2, FS_EmptySet DEF Id
<1>8. ASSUME NEW i \in DOMAIN market \cup {Len(market)} PROVE Moment(i) \in Nat
  <2>1. IsFiniteSet(1 .. i)
    BY <1>1, FS_Interval
  <2>2. IsFiniteSet({j \in 1 .. i : market[j] = Tick})
    BY <2>1, FS_Subset
  <2> QED BY <2>2, FS_CardinalityType DEF Moment
<1>9. Now \in Nat
  BY <1>8 DEF Now
<1> QED BY <1>1, <1>2, <1>3, <1>4, <1>5, <1>6, <1>7, <1>8, <1>9

LEMMA MarketGrows ==
  ASSUME MarketTyped, Grows
  PROVE  /\ MarketTyped'
         /\ \A i \in DOMAIN market : i \in DOMAIN market' /\ market'[i] = market[i]
         /\ Trades \subseteq Trades' /\ Messages \subseteq Messages'
         /\ \A s : AllOf(s) = AllOf(s)' \cap DOMAIN market
         /\ \A s : AllOf(s) \subseteq AllOf(s)'
         /\ \A s : \A j \in AllOf(s)' \ AllOf(s) : \A i \in DOMAIN market : i < j
         /\ \A i \in DOMAIN market : Id(i)' = Id(i)
         /\ \A i \in DOMAIN market : Moment(i)' = Moment(i)
<1>1. /\ MarketTyped'
      /\ DOMAIN market = 1 .. Len(market) /\ Len(market) \in Nat
      /\ DOMAIN market' = 1 .. Len(market') /\ Len(market') \in Nat
      /\ Len(market) <= Len(market')
      /\ \A i \in DOMAIN market : i \in DOMAIN market' /\ market'[i] = market[i]
  BY DEF MarketTyped, Grows
<1>2. Trades \subseteq Trades'
  BY <1>1 DEF Trades
<1>3. Messages \subseteq Messages'
  BY <1>2 DEF Messages
<1>4. \A s : AllOf(s) = AllOf(s)' \cap DOMAIN market
  BY <1>1 DEF AllOf
<1>5. \A s : \A j \in AllOf(s)' \ AllOf(s) : \A i \in DOMAIN market : i < j
  BY <1>1 DEF AllOf
<1>6. ASSUME NEW i \in DOMAIN market PROVE Id(i)' = Id(i) /\ Moment(i)' = Moment(i)
  <2>1. {j \in AllOf(market[i])' : j <= i} = {j \in AllOf(market[i]) : j <= i}
    BY <1>1, <1>4 DEF AllOf
  <2>2. {j \in 1 .. i : market'[j] = Tick} = {j \in 1 .. i : market[j] = Tick}
    BY <1>1
  <2>4. {j \in {j \in DOMAIN market' : market'[j] = market'[i]} : j <= i}
          = {j \in AllOf(market[i]) : j <= i}
    BY <1>1 DEF AllOf
  <2> QED BY <2>2, <2>4 DEF Id, Moment, AllOf
<1> QED BY <1>1, <1>2, <1>3, <1>4, <1>5, <1>6

-----------------------------------------------------------------------------
(***************************************************************************)
(* The connection, the buffered trades, the reader's queue and the slots.  *)
(* Whatever the venue, a step does one of a few things to them.            *)
(***************************************************************************)
HasSlots == venue \notin {"binance", "hyperliquid"}

\* The acknowledgement comes once, in the phase that awaits it.
WireSound ==
  /\ link \in {"down", "requested", "subscribed", "acknowledged", "broken"}
  /\ phase \in {"down", "awaiting", "recovering", "emitting"}
  /\ wire \in Seq(Messages \cup {Ack})
  /\ link \in {"requested", "subscribed"} => phase = "awaiting"
  /\ phase = "down" => link = "down"
  /\ link \in {"down", "requested"} => wire = << >>
  /\ phase # "awaiting" \/ link = "subscribed" => \A n \in DOMAIN wire : wire[n] # Ack
  /\ \A m, n \in DOMAIN wire : wire[m] = Ack /\ wire[n] = Ack => m = n

\* A session that has not begun holds nothing.
HeldSound ==
  /\ reader \in {"off", "reading", "done"}
  /\ buffered \in Seq(Messages) /\ stream \in Seq(Messages)
  /\ Len(buffered) <= BufferLimit /\ Len(stream) <= BufferLimit + 1
  /\ backlog \in 0 .. BufferLimit
  /\ phase = "down" => buffered = << >>
  /\ phase \in {"down", "awaiting"} => stream = << >> /\ reader = "off"

ChannelInv == WireSound /\ HeldSound /\ SlotsAreExact

Overtaken(m) == SubSeq(wire, 1, Len(wire) - 1) \o <<m, wire[Len(wire)]>>

\* The exchange pushes, accepts, acknowledges or breaks off.
Feeds ==
  /\ UNCHANGED <<phase, readVars, backlog>>
  /\ \/ UNCHANGED <<link, wire>>
     \/ /\ link \in {"subscribed", "acknowledged"} /\ UNCHANGED link
        /\ \E m \in Messages' :
             wire' = Append(wire, m) \/ (wire # << >> /\ wire' = Overtaken(m))
     \/ link = "requested" /\ link' = "subscribed" /\ wire' \in Seq(Messages)
     \/ link = "subscribed" /\ link' = "acknowledged" /\ wire' = Append(wire, Ack)
     \/ /\ link \notin {"down", "broken"} /\ link' = "broken"
        /\ \E n \in 0 .. Len(wire) : wire' = SubSeq(wire, 1, n)
Dials ==
  /\ phase = "down" /\ phase' = "awaiting" /\ link' = "requested"
  /\ UNCHANGED <<wire, readVars, backlog>>
Buffers ==
  /\ phase = "awaiting" /\ wire # << >> /\ Head(wire) # Ack /\ Len(buffered) < BufferLimit
  /\ buffered' = Append(buffered, Head(wire)) /\ wire' = Tail(wire)
  /\ UNCHANGED <<link, phase, reader, stream, backlog>>
Starts ==
  /\ phase = "awaiting" /\ wire # << >> /\ Head(wire) = Ack
  /\ wire' = Tail(wire) /\ phase' = "recovering" /\ reader' = "reading"
  /\ backlog' = IF HasSlots THEN Len(buffered) ELSE backlog
  /\ UNCHANGED <<link, buffered, stream>>
Queues ==
  /\ reader = "reading" /\ wire # << >> /\ QueueTrade
  /\ IF HasSlots THEN backlog < BufferLimit /\ backlog' = backlog + 1
     ELSE Len(stream) <= BufferLimit /\ UNCHANGED backlog
  /\ UNCHANGED <<phase, buffered>>
Overflows ==
  /\ reader = "reading" /\ Overflow
  /\ UNCHANGED <<phase, buffered, backlog>>
ReaderEnds ==
  /\ reader = "reading" /\ reader' = "done"
  /\ UNCHANGED <<link, wire, phase, buffered, stream, backlog>>
HandsOver ==
  /\ phase = "recovering" /\ phase' \in {"recovering", "emitting"}
  /\ \/ UNCHANGED <<buffered, stream>>
     \/ HasSlots /\ buffered' = buffered \o stream /\ stream' = << >>
  /\ UNCHANGED <<link, wire, reader, backlog>>
TakesOne ==
  /\ phase = "emitting"
  /\ \/ buffered # << >> /\ buffered' = Tail(buffered) /\ UNCHANGED stream
     \/ stream # << >> /\ stream' = Tail(stream) /\ UNCHANGED buffered
  /\ backlog' = IF HasSlots THEN backlog - 1 ELSE backlog
  /\ UNCHANGED <<link, wire, phase, reader>>
Ends == EndSession /\ UNCHANGED backlog

ChannelStep ==
  \/ Feeds \/ Dials \/ Buffers \/ Starts \/ Queues \/ Overflows \/ ReaderEnds
  \/ HandsOver \/ TakesOne \/ Ends

LEMMA WiderSeq ==
  ASSUME NEW S, NEW T, S \subseteq T, NEW q \in Seq(S)
  PROVE  q \in Seq(T)
<1>1. Len(q) \in Nat /\ q \in [1 .. Len(q) -> S]
  OBVIOUS
<1>2. q \in [1 .. Len(q) -> T]
  BY <1>1
<1> QED BY <1>1, <1>2

LEMMA OvertakenFacts ==
  ASSUME NEW S, wire \in Seq(S), wire # << >>, NEW m \in S
  PROVE  /\ Overtaken(m) \in Seq(S)
         /\ Len(Overtaken(m)) = Len(wire) + 1
         /\ \A n \in 1 .. Len(wire) - 1 : Overtaken(m)[n] = wire[n]
         /\ Overtaken(m)[Len(wire)] = m
         /\ Overtaken(m)[Len(wire) + 1] = wire[Len(wire)]
<1> DEFINE a == SubSeq(wire, 1, Len(wire) - 1)
           b == <<m, wire[Len(wire)]>>
           k == Len(wire) - 1
<1>1. k \in Nat /\ Len(wire) = k + 1 /\ wire[Len(wire)] \in S
      /\ \A n \in 1 .. k : wire[n] \in S
  OBVIOUS
<1>2. b \in Seq(S) /\ Len(b) = 2 /\ b[1] = m /\ b[2] = wire[Len(wire)]
  BY <1>1
<1>3. k \in Int /\ 1 \in Int /\ k - 1 + 1 = k
  BY <1>1
<1>4. Overtaken(m) = a \o b /\ a = SubSeq(wire, 1, k)
  BY DEF Overtaken
<1> HIDE DEF a, b, k
<1>5. a \in Seq(S) /\ Len(a) = k
  BY <1>1, <1>3, <1>4, SubSeqProperties
<1>6. \A n \in 1 .. k : a[n] = wire[n]
  <2>1. \A n \in 1 .. k - 1 + 1 : a[n] = wire[1 + n - 1]
    BY <1>1, <1>3, <1>4, SubSeqProperties
  <2> QED BY <1>1, <2>1
<1>7. /\ a \o b \in Seq(S) /\ Len(a \o b) = Len(a) + Len(b)
      /\ \A n \in 1 .. Len(a) + Len(b) :
           (a \o b)[n] = IF n <= Len(a) THEN a[n] ELSE b[n - Len(a)]
  BY <1>2, <1>5, ConcatProperties
<1>8. Len(a) + Len(b) = k + 2
  BY <1>1, <1>2, <1>5
<1>9. /\ \A n \in 1 .. k + 2 : (a \o b)[n] = IF n <= k THEN a[n] ELSE b[n - k]
      /\ \A n \in 1 .. k : n \in 1 .. k + 2 /\ n <= k
      /\ k + 1 \in 1 .. k + 2 /\ ~(k + 1 <= k) /\ (k + 1) - k = 1
      /\ k + 2 \in 1 .. k + 2 /\ ~(k + 2 <= k) /\ (k + 2) - k = 2
  BY <1>1, <1>5, <1>7, <1>8
<1>10. /\ \A n \in 1 .. k : (a \o b)[n] = a[n]
       /\ (a \o b)[k + 1] = b[1] /\ (a \o b)[k + 2] = b[2]
  BY <1>9
<1>11. Len(wire) + 1 = k + 2 /\ Len(wire) - 1 = k
  BY <1>1
<1> QED BY <1>1, <1>2, <1>4, <1>6, <1>7, <1>8, <1>10, <1>11

LEMMA ChannelsTyped ==
  ASSUME MarketTyped, WireSound, HeldSound, Grows
  PROVE  /\ wire \in Seq(Messages' \cup {Ack})
         /\ buffered \in Seq(Messages') /\ stream \in Seq(Messages')
         /\ Ack \notin Messages' /\ Messages \subseteq Messages'
         /\ BufferLimit \in Nat \ {0}
<1>1. Messages \subseteq Messages' /\ Messages \cup {Ack} \subseteq Messages' \cup {Ack}
  BY MarketGrows
<1>2. wire \in Seq(Messages' \cup {Ack})
  BY <1>1, WiderSeq DEF WireSound, HeldSound
<1>3. buffered \in Seq(Messages')
  BY <1>1, WiderSeq DEF WireSound, HeldSound
<1>4. stream \in Seq(Messages')
  BY <1>1, WiderSeq DEF WireSound, HeldSound
<1>5. MarketTyped'
  BY MarketGrows
<1>6. Ack \notin Messages'
  <2>1. \A i \in DOMAIN market' : i \in Nat \ {0} /\ -i # 0
    BY <1>5 DEF MarketTyped
  <2>2. \A i \in Trades' : i \in Nat \ {0} /\ -i # 0
    BY <2>1 DEF Trades
  <2> QED BY <2>2 DEF Messages, Ack
<1>7. BufferLimit \in Nat \ {0}
  BY SessionAssumption
<1> QED BY <1>1, <1>2, <1>3, <1>4, <1>6, <1>7

LEMMA WireKept ==
  ASSUME MarketTyped, WireSound, HeldSound, Grows, ChannelStep
  PROVE  WireSound'
<1> DEFINE M == Messages' \cup {Ack}
           W == /\ wire' \in Seq(M)
                /\ link' \in {"down", "requested"} => wire' = << >>
                /\ phase' # "awaiting" \/ link' = "subscribed" =>
                     \A n \in DOMAIN wire' : wire'[n] # Ack
                /\ \A m, n \in DOMAIN wire' : wire'[m] = Ack /\ wire'[n] = Ack => m = n
<1>1. wire \in Seq(M) /\ Ack \notin Messages' /\ Messages \subseteq Messages'
  BY ChannelsTyped
<1>2. Len(wire) \in Nat /\ DOMAIN wire = 1 .. Len(wire)
  BY <1>1
<1>3. wire # << >> => /\ Head(wire) \in M /\ Head(wire) = wire[1] /\ Tail(wire) \in Seq(M)
                      /\ Len(Tail(wire)) = Len(wire) - 1 /\ Len(wire) > 0
                      /\ DOMAIN Tail(wire) = 1 .. Len(wire) - 1
                      /\ \A n \in 1 .. Len(wire) - 1 : Tail(wire)[n] = wire[n + 1]
  BY <1>1, HeadTailProperties
<1>4. \A m, n \in 1 .. Len(wire) : wire[m] = Ack /\ wire[n] = Ack => m = n
  BY <1>2 DEF WireSound
<1>5. \A m, n \in DOMAIN << >> : m = n
  OBVIOUS
<1>6. phase # "awaiting" \/ link = "subscribed" => \A n \in 1 .. Len(wire) : wire[n] # Ack
  BY <1>2 DEF WireSound
<1>7. CASE Feeds
  <2> USE <1>7 DEF Feeds
  <2>1. CASE UNCHANGED <<link, wire>>
    BY <1>1, <2>1 DEF WireSound, readVars
  <2>2. ASSUME link \in {"subscribed", "acknowledged"}, UNCHANGED link,
               NEW m \in Messages', wire' = Append(wire, m)
        PROVE  WireSound'
    <3>1. /\ wire' \in Seq(M) /\ Len(wire') = Len(wire) + 1
          /\ \A n \in 1 .. Len(wire) : wire'[n] = wire[n]
          /\ wire'[Len(wire) + 1] # Ack
      BY <1>1, <2>2, AppendProperties
    <3>2. DOMAIN wire' = 1 .. Len(wire) + 1
      BY <1>2, <3>1
    <3>3. \A n \in 1 .. Len(wire) + 1 : wire'[n] = Ack => n \in 1 .. Len(wire) /\ wire[n] = Ack
      BY <1>2, <3>1
    <3> QED BY <1>4, <1>6, <2>2, <3>1, <3>2, <3>3 DEF WireSound, readVars
  <2>3. ASSUME link \in {"subscribed", "acknowledged"}, UNCHANGED link,
               NEW m \in Messages', wire # << >>, wire' = Overtaken(m)
        PROVE  WireSound'
    <3>1. /\ wire' \in Seq(M) /\ Len(wire') = Len(wire) + 1
          /\ \A n \in 1 .. Len(wire) - 1 : wire'[n] = wire[n]
          /\ wire'[Len(wire)] = m
          /\ wire'[Len(wire) + 1] = wire[Len(wire)]
      BY <1>1, <2>3, OvertakenFacts
    <3>0. m # Ack
      BY <1>1, <2>3
    <3>2. DOMAIN wire' = 1 .. Len(wire) + 1
      BY <1>2, <3>1
    <3>3. \A n \in 1 .. Len(wire) + 1 : wire'[n] = Ack =>
            \/ n < Len(wire) /\ wire[n] = Ack
            \/ n = Len(wire) + 1 /\ wire[Len(wire)] = Ack
      BY <1>2, <3>0, <3>1
    <3>4. \A k, n \in DOMAIN wire' : wire'[k] = Ack /\ wire'[n] = Ack => k = n
      BY <1>2, <1>3, <1>4, <2>3, <3>2, <3>3
    <3>5. phase' # "awaiting" \/ link' = "subscribed" => \A n \in DOMAIN wire' : wire'[n] # Ack
      BY <1>2, <1>3, <1>6, <2>3, <3>2, <3>3
    <3> QED BY <2>3, <3>1, <3>4, <3>5 DEF WireSound, readVars
  <2>4. CASE link = "requested" /\ link' = "subscribed" /\ wire' \in Seq(Messages)
    <3>1. wire' \in Seq(M)
      BY <1>1, <2>4, WiderSeq
    <3>2. \A n \in DOMAIN wire' : wire'[n] # Ack
      BY <1>1, <2>4
    <3> QED BY <2>4, <3>1, <3>2 DEF WireSound, readVars
  <2>5. CASE link = "subscribed" /\ link' = "acknowledged" /\ wire' = Append(wire, Ack)
    <3>1. /\ wire' \in Seq(M) /\ Len(wire') = Len(wire) + 1
          /\ \A n \in 1 .. Len(wire) : wire'[n] = wire[n]
      BY <1>1, <2>5, AppendProperties
    <3>2. DOMAIN wire' = 1 .. Len(wire) + 1
      BY <1>2, <3>1
    <3>3. \A n \in 1 .. Len(wire) + 1 : wire'[n] = Ack => n = Len(wire) + 1
      BY <1>2, <1>6, <2>5, <3>1
    <3> QED BY <2>5, <3>1, <3>2, <3>3 DEF WireSound, readVars
  <2>6. ASSUME link \notin {"down", "broken"}, link' = "broken",
               NEW n \in 0 .. Len(wire), wire' = SubSeq(wire, 1, n)
        PROVE  WireSound'
    <3>1. \A i \in 1 .. n : wire[i] \in M
      BY <1>1, <1>2
    <3>2. n \in Int /\ 1 \in Int
      BY <1>2
    <3>3. /\ wire' \in Seq(M) /\ Len(wire') = (IF 1 <= n THEN n - 1 + 1 ELSE 0)
          /\ \A i \in 1 .. n - 1 + 1 : wire'[i] = wire[1 + i - 1]
      BY <2>6, <3>1, <3>2, SubSeqProperties
    <3>4. Len(wire') = n /\ DOMAIN wire' = 1 .. n /\ \A i \in 1 .. n : wire'[i] = wire[i]
      BY <1>2, <3>3
    <3>5. 1 .. n \subseteq 1 .. Len(wire)
      BY <1>2
    <3> QED BY <1>4, <1>6, <2>6, <3>3, <3>4, <3>5 DEF WireSound, readVars
  <2> QED BY <2>1, <2>2, <2>3, <2>4, <2>5, <2>6
<1>8. CASE Dials
  BY <1>1, <1>8 DEF Dials, WireSound
<1>9. ASSUME wire # << >>, wire' = Tail(wire), UNCHANGED link,
             \/ UNCHANGED phase
             \/ Head(wire) = Ack /\ phase = "awaiting" /\ phase' = "recovering"
      PROVE  WireSound'
  <2>1. \A n \in 1 .. Len(wire) - 1 : n + 1 \in 1 .. Len(wire)
    BY <1>2
  <2>2. \A m, n \in DOMAIN wire' : wire'[m] = Ack /\ wire'[n] = Ack => m = n
    BY <1>3, <1>4, <1>9, <2>1
  <2>3. CASE UNCHANGED phase
    BY <1>3, <1>6, <1>9, <2>1, <2>2, <2>3 DEF WireSound
  <2>4. CASE Head(wire) = Ack /\ phase = "awaiting" /\ phase' = "recovering"
    <3>1. \A n \in 1 .. Len(wire) - 1 : wire[n + 1] # Ack
      BY <1>2, <1>3, <1>4, <1>9, <2>1, <2>4
    <3>2. link # "subscribed"
      BY <1>2, <1>3, <1>6, <1>9, <2>4
    <3>3. link # "requested"
      BY <1>9 DEF WireSound
    <3> QED BY <1>3, <1>9, <2>2, <2>4, <3>1, <3>2, <3>3 DEF WireSound
  <2> QED BY <1>9, <2>3, <2>4
<1>10. CASE Buffers \/ Queues \/ Starts
  BY <1>9, <1>10 DEF Buffers, Queues, QueueTrade, Starts
<1>11. CASE Overflows
  BY <1>1, <1>5, <1>11 DEF Overflows, Overflow, WireSound, HeldSound
<1>12. CASE Ends
  BY <1>1, <1>5, <1>12 DEF Ends, EndSession, WireSound
<1>13. CASE ReaderEnds \/ TakesOne
  BY <1>1, <1>13 DEF ReaderEnds, TakesOne, WireSound
<1>14. CASE HandsOver
  BY <1>1, <1>14 DEF HandsOver, WireSound
<1> QED
  BY <1>7, <1>8, <1>10, <1>11, <1>12, <1>13, <1>14 DEF ChannelStep

LEMMA HeldKept ==
  ASSUME MarketTyped, ChannelInv, Grows, UNCHANGED venue, ChannelStep
  PROVE  HeldSound' /\ SlotsAreExact'
<1> DEFINE N == Messages'
<1>1. /\ buffered \in Seq(N) /\ stream \in Seq(N) /\ wire \in Seq(N \cup {Ack})
      /\ BufferLimit \in Nat \ {0}
  BY ChannelsTyped DEF ChannelInv
<1>2. HasSlots' = HasSlots
  BY DEF HasSlots
<1>3. WireSound /\ HeldSound /\ (HasSlots /\ phase \in {"recovering", "emitting"} =>
                                   backlog = Len(buffered) + Len(stream))
  BY DEF ChannelInv, SlotsAreExact, HasSlots
<1>4. Len(buffered) \in Nat /\ Len(stream) \in Nat /\ backlog \in Nat /\ backlog <= BufferLimit
  BY <1>1, <1>3 DEF HeldSound
<1>5. wire # << >> => Head(wire) \in N \cup {Ack} /\ Head(wire) = wire[1] /\ 1 \in DOMAIN wire
  BY <1>1
<1>6. << >> \in Seq(N) /\ Len(<< >>) = 0
  OBVIOUS
<1>7. SlotsAreExact' <=> (HasSlots /\ phase' \in {"recovering", "emitting"} =>
                            backlog' = Len(buffered') + Len(stream'))
  BY <1>2 DEF SlotsAreExact, HasSlots
<1> HIDE DEF N
<1>8. CASE Feeds
  BY <1>1, <1>3, <1>7, <1>8 DEF Feeds, readVars, HeldSound, N
<1>9. CASE Dials
  BY <1>1, <1>3, <1>7, <1>9 DEF Dials, readVars, HeldSound, N
<1>10. CASE Buffers
  <2>1. Head(wire) \in N
    BY <1>5, <1>10 DEF Buffers
  <2>2. buffered' \in Seq(N) /\ Len(buffered') = Len(buffered) + 1
    BY <1>1, <1>10, <2>1, AppendProperties DEF Buffers
  <2> QED BY <1>1, <1>3, <1>4, <1>7, <1>10, <2>2 DEF Buffers, HeldSound, N
<1>11. CASE Starts
  BY <1>1, <1>3, <1>4, <1>6, <1>7, <1>11 DEF Starts, HeldSound, N
<1>12. CASE Queues
  <2>1. phase # "awaiting" /\ phase # "down"
    BY <1>3, <1>12 DEF Queues, HeldSound
  <2>2. Head(wire) \in N
    BY <1>3, <1>5, <1>12, <2>1 DEF Queues, WireSound
  <2>3. stream' \in Seq(N) /\ Len(stream') = Len(stream) + 1
    BY <1>1, <1>12, <2>2, AppendProperties DEF Queues, QueueTrade
  <2>4. phase \in {"recovering", "emitting"}
    BY <1>3, <2>1 DEF WireSound
  <2>5. Len(stream') <= BufferLimit + 1 /\ backlog' \in 0 .. BufferLimit
    BY <1>1, <1>3, <1>4, <1>12, <2>3, <2>4 DEF Queues
  <2>6. HasSlots => backlog' = Len(buffered') + Len(stream')
    BY <1>3, <1>4, <1>12, <2>3, <2>4 DEF Queues
  <2> QED
    BY <1>1, <1>3, <1>7, <1>12, <2>1, <2>3, <2>5, <2>6 DEF Queues, QueueTrade, HeldSound, N
<1>13. CASE Overflows
  BY <1>1, <1>3, <1>7, <1>13 DEF Overflows, Overflow, HeldSound, N
<1>14. CASE ReaderEnds
  BY <1>1, <1>3, <1>7, <1>14 DEF ReaderEnds, HeldSound, N
<1>15. CASE HandsOver
  <2>1. CASE UNCHANGED <<buffered, stream>>
    BY <1>1, <1>3, <1>7, <1>15, <2>1 DEF HandsOver, HeldSound, N
  <2>2. CASE HasSlots /\ buffered' = buffered \o stream /\ stream' = << >>
    <3>1. buffered' \in Seq(N) /\ Len(buffered') = Len(buffered) + Len(stream)
      BY <1>1, <2>2, ConcatProperties
    <3>2. backlog = Len(buffered) + Len(stream)
      BY <1>3, <1>15, <2>2 DEF HandsOver
    <3> QED BY <1>1, <1>3, <1>4, <1>6, <1>7, <1>15, <2>2, <3>1, <3>2 DEF HandsOver, HeldSound, N
  <2> QED BY <1>15, <2>1, <2>2 DEF HandsOver
<1>16. CASE TakesOne
  <2> DEFINE OneBuffered == buffered # << >> /\ buffered' = Tail(buffered) /\ UNCHANGED stream
             OneQueued == stream # << >> /\ stream' = Tail(stream) /\ UNCHANGED buffered
  <2>3. /\ phase' = "emitting" /\ reader' = reader /\ reader \in {"off", "reading", "done"}
        /\ OneBuffered \/ OneQueued
    BY <1>3, <1>16 DEF TakesOne, HeldSound
  <2>4. Len(buffered) <= BufferLimit /\ Len(stream) <= BufferLimit + 1
    BY <1>3 DEF HeldSound
  <2>5. ASSUME buffered' \in Seq(N), stream' \in Seq(N),
               Len(buffered') <= BufferLimit, Len(stream') <= BufferLimit + 1,
               backlog' \in 0 .. BufferLimit,
               HasSlots => backlog' = Len(buffered') + Len(stream')
        PROVE  HeldSound' /\ SlotsAreExact'
    <3>1. HeldSound'
      BY <2>3, <2>5 DEF HeldSound, N
    <3> QED BY <1>7, <2>5, <3>1
  <2>1. CASE buffered # << >> /\ buffered' = Tail(buffered) /\ UNCHANGED stream
    <3>1. buffered' \in Seq(N) /\ Len(buffered') = Len(buffered) - 1 /\ Len(buffered) > 0
      BY <1>1, <2>1, HeadTailProperties
    <3>2. /\ HasSlots => backlog' = Len(buffered') + Len(stream')
          /\ backlog' \in 0 .. BufferLimit
      <4>1. CASE HasSlots
        <5>1. phase = "emitting" /\ backlog' = backlog - 1
          BY <1>16, <4>1 DEF TakesOne
        <5>2. backlog = Len(buffered) + Len(stream)
          BY <1>3, <4>1, <5>1
        <5>3. backlog' = Len(buffered') + Len(stream')
          BY <1>4, <2>1, <3>1, <5>1, <5>2
        <5>4. backlog' \in 0 .. BufferLimit
          BY <1>1, <1>4, <3>1, <5>1, <5>2
        <5> QED BY <5>3, <5>4
      <4>2. CASE ~HasSlots
        BY <1>1, <1>4, <1>16, <4>2 DEF TakesOne
      <4> QED BY <4>1, <4>2
    <3>3. Len(buffered') <= BufferLimit /\ Len(stream') <= BufferLimit + 1
      BY <1>1, <1>4, <2>4, <2>1, <3>1
    <3>4. stream' \in Seq(N)
      BY <1>1, <2>1
    <3> QED BY <2>5, <3>1, <3>2, <3>3, <3>4
  <2>2. CASE stream # << >> /\ stream' = Tail(stream) /\ UNCHANGED buffered
    <3>1. stream' \in Seq(N) /\ Len(stream') = Len(stream) - 1 /\ Len(stream) > 0
      BY <1>1, <2>2, HeadTailProperties
    <3>2. /\ HasSlots => backlog' = Len(buffered') + Len(stream')
          /\ backlog' \in 0 .. BufferLimit
      <4>1. CASE HasSlots
        <5>1. phase = "emitting" /\ backlog' = backlog - 1
          BY <1>16, <4>1 DEF TakesOne
        <5>2. backlog = Len(buffered) + Len(stream)
          BY <1>3, <4>1, <5>1
        <5>3. backlog' = Len(buffered') + Len(stream')
          BY <1>4, <2>2, <3>1, <5>1, <5>2
        <5>4. backlog' \in 0 .. BufferLimit
          BY <1>1, <1>4, <3>1, <5>1, <5>2
        <5> QED BY <5>3, <5>4
      <4>2. CASE ~HasSlots
        BY <1>1, <1>4, <1>16, <4>2 DEF TakesOne
      <4> QED BY <4>1, <4>2
    <3>3. Len(buffered') <= BufferLimit /\ Len(stream') <= BufferLimit + 1
      BY <1>1, <1>4, <2>4, <2>2, <3>1
    <3>4. buffered' \in Seq(N)
      BY <1>1, <2>2
    <3> QED BY <2>5, <3>1, <3>2, <3>3, <3>4
  <2> QED BY <2>1, <2>2, <2>3
<1>17. CASE Ends
  BY <1>1, <1>3, <1>4, <1>6, <1>7, <1>17 DEF Ends, EndSession, HeldSound, N
<1> QED
  BY <1>8, <1>9, <1>10, <1>11, <1>12, <1>13, <1>14, <1>15, <1>16, <1>17 DEF ChannelStep

LEMMA ChannelKept ==
  ASSUME MarketTyped, ChannelInv, Grows, UNCHANGED venue, ChannelStep
  PROVE  ChannelInv'
<1>1. WireSound /\ HeldSound
  BY DEF ChannelInv
<1> QED BY <1>1, WireKept, HeldKept DEF ChannelInv

-----------------------------------------------------------------------------
(***************************************************************************)
(* Ranks: what Id is among the trades of a symbol.                         *)
(***************************************************************************)
Rank(S, i) == Cardinality({j \in S : j <= i})

LEMMA RankFacts ==
  ASSUME NEW S \in SUBSET Nat, IsFiniteSet(S)
  PROVE  /\ \A i \in S : Rank(S, i) \in 1 .. Cardinality(S)
         /\ \A i, j \in S : i < j => Rank(S, i) < Rank(S, j)
         /\ \A i, j \in S : Rank(S, i) <= Rank(S, j) => i <= j
         /\ \A n \in 1 .. Cardinality(S) : \E i \in S : Rank(S, i) = n
<1> DEFINE B(i) == {j \in S : j <= i}
           n == Cardinality(S)
           rank == [i \in S |-> Rank(S, i)]
<1>0. \A i \in S : i \in Nat
  OBVIOUS
<1>1. n \in Nat
  BY FS_CardinalityType
<1>2. ASSUME NEW i \in S
      PROVE  IsFiniteSet(B(i)) /\ Rank(S, i) = Cardinality(B(i)) /\ Rank(S, i) \in 1 .. n
  <2>1. B(i) \in SUBSET S /\ {i} \in SUBSET B(i)
    OBVIOUS
  <2>2. Rank(S, i) = Cardinality(B(i))
    BY DEF Rank
  <2> HIDE DEF B
  <2>3. IsFiniteSet(B(i)) /\ Cardinality(B(i)) <= n
    BY <2>1, FS_Subset
  <2>4. Cardinality({i}) = 1 /\ Cardinality({i}) <= Cardinality(B(i))
    BY <2>1, <2>3, FS_Subset, FS_Singleton
  <2>5. Cardinality(B(i)) \in Nat
    BY <2>3, FS_CardinalityType
  <2> QED BY <1>1, <2>2, <2>3, <2>4, <2>5
<1>3. ASSUME NEW i \in S, NEW j \in S, i < j
      PROVE  Rank(S, i) < Rank(S, j)
  <2>1. B(i) \in SUBSET B(j) /\ j \in B(j) /\ j \notin B(i)
    <3>1. i \in Nat /\ j \in Nat /\ i < j /\ j \in S
      BY <1>0, <1>3
    <3>2. \A k \in S : k <= i => k <= j
      BY <1>0, <3>1
    <3>3. j <= j /\ ~(j <= i)
      BY <3>1
    <3> QED BY <3>1, <3>2, <3>3
  <2> HIDE DEF B
  <2>2. IsFiniteSet(B(j)) /\ IsFiniteSet(B(i))
    BY <1>2
  <2>3. Cardinality(B(i)) <= Cardinality(B(j)) /\ (Cardinality(B(j)) = Cardinality(B(i)) => B(j) = B(i))
    BY <2>1, <2>2, FS_Subset
  <2> QED BY <1>1, <1>2, <2>1, <2>3
<1>8. \A i \in S : Rank(S, i) \in Nat
  <2>1. \A i \in S : Rank(S, i) \in 1 .. n
    BY <1>2
  <2> HIDE DEF n
  <2> QED BY <1>1, <2>1
<1>4. \A i, j \in S : Rank(S, i) <= Rank(S, j) => i <= j
  <2> SUFFICES ASSUME NEW i \in S, NEW j \in S, j < i PROVE Rank(S, j) < Rank(S, i)
    BY <1>0, <1>8
  <2> QED BY <1>3
<1>5. rank \in Injection(S, 1 .. n)
  <2>1. rank \in [S -> 1 .. n]
    BY <1>2
  <2>2. \A i, j \in S : i # j => Rank(S, i) # Rank(S, j)
    <3> SUFFICES ASSUME NEW i \in S, NEW j \in S, i # j PROVE Rank(S, i) # Rank(S, j)
      OBVIOUS
    <3>1. i < j \/ j < i
      BY <1>0
    <3>2. Rank(S, i) < Rank(S, j) \/ Rank(S, j) < Rank(S, i)
      BY <1>3, <3>1
    <3> QED BY <1>8, <3>2
  <2>3. \A i, j \in S : rank[i] = rank[j] => i = j
    BY <2>2
  <2> QED BY <2>1, <2>3 DEF Injection, IsInjective
<1>6. rank \in Surjection(S, 1 .. n)
  <2>1. IsFiniteSet(1 .. n) /\ Cardinality(1 .. n) = n
    BY <1>1, FS_Interval
  <2> HIDE DEF rank
  <2> QED BY <1>5, <2>1, FS_Injection
<1>7. \A k \in 1 .. n : \E i \in S : Rank(S, i) = k
  BY <1>6 DEF Surjection
<1> QED BY <1>2, <1>3, <1>4, <1>7

LEMMA MaxFacts ==
  ASSUME NEW S \in SUBSET Nat, IsFiniteSet(S), S # {}
  PROVE  Max(S) \in S /\ \A j \in S : j <= Max(S)
<1> DEFINE n == Cardinality(S)
<1>1. n \in Nat /\ n # 0
  BY FS_CardinalityType, FS_EmptySet
<1>2. n \in 1 .. n
  BY <1>1
<1>3. PICK i \in S : Rank(S, i) = n
  BY <1>2, RankFacts
<1>4. \A j \in S : Rank(S, j) \in 1 .. n
  BY RankFacts
<1>5. \A j \in S : Rank(S, j) <= Rank(S, i)
  BY <1>1, <1>3, <1>4
<1>6. \A j \in S : j <= i
  BY <1>5, RankFacts
<1> QED BY <1>6 DEF Max

LEMMA MinFacts ==
  ASSUME NEW S \in SUBSET Nat, IsFiniteSet(S), S # {}
  PROVE  Min(S) \in S /\ \A j \in S : Min(S) <= j
<1> DEFINE n == Cardinality(S)
<1>1. n \in Nat /\ n # 0
  BY FS_CardinalityType, FS_EmptySet
<1>2. 1 \in 1 .. n
  BY <1>1
<1>3. PICK i \in S : Rank(S, i) = 1
  BY <1>2, RankFacts
<1>4. \A j \in S : Rank(S, j) \in 1 .. n
  BY RankFacts
<1>5. \A j \in S : Rank(S, i) <= Rank(S, j)
  BY <1>1, <1>3, <1>4
<1>6. \A j \in S : i <= j
  BY <1>5, RankFacts
<1> QED BY <1>6 DEF Min

\* The ids of a symbol's trades are their ranks.
LEMMA IdFacts ==
  ASSUME MarketTyped, NEW s
  PROVE  /\ AllOf(s) \subseteq Nat /\ IsFiniteSet(AllOf(s))
         /\ \A i \in AllOf(s) : market[i] = s /\ Id(i) = Rank(AllOf(s), i)
         /\ \A i \in AllOf(s) : Id(i) \in Nat /\ Id(i) \in 1 .. Cardinality(AllOf(s))
         /\ \A i, j \in AllOf(s) : i < j => Id(i) < Id(j)
         /\ \A i, j \in AllOf(s) : Id(i) <= Id(j) => i <= j
         /\ \A i, j \in AllOf(s) : Id(i) = Id(j) => i = j
         /\ \A n \in 1 .. Cardinality(AllOf(s)) : \E i \in AllOf(s) : Id(i) = n
<1>1. AllOf(s) \in SUBSET Nat /\ AllOf(s) \subseteq 1 .. Len(market) /\ Len(market) \in Nat
  BY DEF MarketTyped, AllOf
<1>2. IsFiniteSet(AllOf(s))
  <2>1. IsFiniteSet(1 .. Len(market))
    BY <1>1, FS_Interval
  <2> QED BY <1>1, <2>1, FS_Subset
<1>3. \A i \in AllOf(s) : market[i] = s /\ Id(i) = Rank(AllOf(s), i)
  BY DEF AllOf, Id, Rank
<1> HIDE DEF AllOf
<1>4. /\ \A i \in AllOf(s) : Id(i) \in Nat /\ Id(i) \in 1 .. Cardinality(AllOf(s))
      /\ \A i, j \in AllOf(s) : i < j => Id(i) < Id(j)
      /\ \A i, j \in AllOf(s) : Id(i) <= Id(j) => i <= j
      /\ \A n \in 1 .. Cardinality(AllOf(s)) : \E i \in AllOf(s) : Id(i) = n
  BY <1>1, <1>2, <1>3, RankFacts
<1>5. \A i, j \in AllOf(s) : Id(i) = Id(j) => i = j
  <2> SUFFICES ASSUME NEW i \in AllOf(s), NEW j \in AllOf(s), Id(i) = Id(j) PROVE i = j
    OBVIOUS
  <2>1. i <= j /\ j <= i
    BY <1>4
  <2> QED BY <1>1, <2>1
<1> QED BY <1>1, <1>2, <1>3, <1>4, <1>5

-----------------------------------------------------------------------------
(***************************************************************************)
(* The steps of Session are channel steps.                                 *)
(***************************************************************************)

\* A last_match replay is a sequence of trades.
LEMMA LastMatchesTyped ==
  ASSUME MarketTyped
  PROVE  Coinbase!LastMatches \in Seq(Messages)
<1> DEFINE traded == {t \in Symbols : AllOf(t) # {}}
           last == {Coinbase!Max(Coinbase!AllOf(s)) : s \in {t \in Symbols : Coinbase!AllOf(t) # {}}}
           n == Cardinality(last)
<1>1. \A S : Coinbase!Cardinality(S) = Cardinality(S)
  BY DEF Coinbase!Cardinality, Cardinality
<1>2. (\A s : Coinbase!AllOf(s) = AllOf(s)) /\ (\A S : Coinbase!Max(S) = Max(S))
  BY DEF Coinbase!AllOf, AllOf, Coinbase!Max, Max
<1>3. Coinbase!LastMatches =
        [k \in 1 .. Coinbase!Cardinality(last) |->
           CHOOSE i \in last : Coinbase!Cardinality({j \in last : j <= i}) = k]
  BY DEF Coinbase!LastMatches
<1>4. \A s \in traded : Max(AllOf(s)) \in AllOf(s)
  <2> SUFFICES ASSUME NEW s \in traded PROVE Max(AllOf(s)) \in AllOf(s)
    OBVIOUS
  <2>1. AllOf(s) \in SUBSET Nat /\ IsFiniteSet(AllOf(s)) /\ AllOf(s) # {}
    BY IdFacts
  <2> QED BY <2>1, MaxFacts
<1>5. last \subseteq Trades
  <2>1. last = {Max(AllOf(s)) : s \in traded}
    BY <1>2
  <2> HIDE DEF last
  <2> QED BY <1>4, <2>1, MarketFacts
<1>6. last \in SUBSET Nat /\ last \subseteq 1 .. Len(market) /\ Len(market) \in Nat
  BY <1>5, MarketFacts DEF Trades
<1> HIDE DEF last
<1>7. IsFiniteSet(last)
  <2>1. IsFiniteSet(1 .. Len(market))
    BY <1>6, FS_Interval
  <2> QED BY <1>6, <2>1, FS_Subset
<1>8. ASSUME NEW k \in 1 .. n
      PROVE  (CHOOSE i \in last : Coinbase!Cardinality({j \in last : j <= i}) = k) \in Messages
  <2>1. PICK i \in last : Rank(last, i) = k
    BY <1>6, <1>7, RankFacts
  <2>2. Coinbase!Cardinality({j \in last : j <= i}) = k
    BY <1>1, <2>1 DEF Rank
  <2>3. (CHOOSE c \in last : Coinbase!Cardinality({j \in last : j <= c}) = k) \in last
    BY <2>2
  <2> QED BY <1>5, <2>3 DEF Messages
<1>9. n \in Nat
  BY <1>7, FS_CardinalityType
<1>10. Coinbase!LastMatches \in [1 .. n -> Messages]
  <2>1. Coinbase!Cardinality(last) = n
    BY <1>1
  <2> HIDE DEF n
  <2> QED BY <1>3, <1>8, <2>1
<1> HIDE DEF n
<1> QED BY <1>9, <1>10

LEMMA SharedStepChannels ==
  ASSUME MarketTyped, SharedStep
  PROVE  Grows /\ ChannelStep
<1>1. ASSUME NEW s \in Symbols, TradeComes(s) PROVE Grows /\ Feeds
  <2> DEFINE i == Len(market) + 1
  <2>1. Grows
    BY <1>1 DEF TradeComes, Grows
  <2>2. i \in Messages'
    <3>1. i \in DOMAIN market' /\ market'[i] = s
      BY <1>1 DEF TradeComes, MarketTyped
    <3>2. s # Tick
      BY SessionAssumption DEF Tick
    <3> QED BY <3>1, <3>2 DEF Messages, Trades
  <2>3. UNCHANGED <<link, phase, buffered, reader, stream, backlog>>
    BY <1>1 DEF TradeComes, readVars
  <2>4. \/ wire' = wire
        \/ /\ link \in {"subscribed", "acknowledged"}
           /\ \/ wire' = Append(wire, i)
              \/ wire # << >> /\ wire' = Overtaken(i)
    <3> HIDE DEF i
    <3>1. Push(i, Mispushed(i), {s})
      BY <1>1 DEF TradeComes, i
    <3>2. ASSUME wire' \in Mispushed(i), wire' # wire
          PROVE  wire # << >> /\ wire' = Overtaken(i)
      <4>1. PICK n \in IF Disordered THEN {Len(wire)} \ {0} ELSE {} :
              wire' = SubSeq(wire, 1, Len(wire) - 1) \o <<i, wire[n]>>
        BY <3>2 DEF Mispushed
      <4>2. n = Len(wire) /\ Len(wire) # 0
        BY <4>1
      <4> QED BY <4>1, <4>2 DEF Overtaken
    <3> QED BY <3>1, <3>2 DEF Push
  <2> QED BY <2>1, <2>2, <2>3, <2>4 DEF Feeds, readVars
<1>2. CASE Break
  BY <1>2 DEF Break, Grows, Feeds, ChannelStep
<1>3. CASE Acknowledge
  BY <1>3 DEF Acknowledge, Grows, Feeds, ChannelStep
<1>4. CASE Dial
  BY <1>4 DEF Dial, Grows, Dials, ChannelStep
<1>5. CASE SessionOver
  BY <1>5 DEF SessionOver, Grows, Ends, ChannelStep
<1> QED BY <1>1, <1>2, <1>3, <1>4, <1>5 DEF SharedStep, ChannelStep

LEMMA AwaitChannels ==
  ASSUME HeldSound,
         AwaitTrade \/ AwaitFails \/ (AwaitAck /\ backlog' = IF HasSlots THEN Len(buffered) ELSE backlog)
  PROVE  Grows /\ ChannelStep
<1>1. CASE AwaitTrade
  BY <1>1 DEF AwaitTrade, Grows, ChannelStep, Buffers, Ends, EndSession
<1>2. CASE AwaitFails
  BY <1>2 DEF AwaitFails, Grows, ChannelStep, Ends
<1>3. CASE AwaitAck /\ backlog' = IF HasSlots THEN Len(buffered) ELSE backlog
  BY <1>3 DEF AwaitAck, Grows, ChannelStep, Starts
<1> QED BY <1>1, <1>2, <1>3

LEMMA ReadChannels ==
  ASSUME HeldSound,
         \/ HasSlots /\ ReadWithBacklog
         \/ ~HasSlots /\ ReadIntoChannel
  PROVE  Grows /\ ChannelStep
<1>1. CASE ReadFails
  BY <1>1 DEF ReadFails, exchangeVars, Grows, ChannelStep, ReaderEnds
<1>2. Len(stream) \in Nat /\ BufferLimit \in Nat
  BY SessionAssumption DEF HeldSound
<1>3. CASE HasSlots /\ ReadWithBacklog
  BY <1>1, <1>3 DEF ReadWithBacklog, CanRead, Grows, ChannelStep, Queues, Overflows
<1>4. CASE ~HasSlots /\ ReadIntoChannel
  BY <1>1, <1>2, <1>4 DEF ReadIntoChannel, CanRead, Grows, ChannelStep, Queues, Overflows
<1> QED BY <1>3, <1>4

\* A trade is taken from what was recovered, buffered or queued.
LEMMA TakeChannels ==
  ASSUME NEW i,
         \/ TakeRecovered(i) /\ UNCHANGED backlog
         \/ /\ TakeBuffered(i) \/ TakeLive(i)
            /\ backlog' = IF HasSlots THEN backlog - 1 ELSE backlog
  PROVE  Grows /\ ChannelStep
<1>1. CASE TakeRecovered(i) /\ UNCHANGED backlog
  BY <1>1 DEF TakeRecovered, exchangeVars, readVars, Grows, ChannelStep, Feeds
<1>2. CASE /\ TakeBuffered(i) \/ TakeLive(i)
           /\ backlog' = IF HasSlots THEN backlog - 1 ELSE backlog
  BY <1>2 DEF TakeBuffered, TakeLive, exchangeVars, Grows, ChannelStep, TakesOne
<1> QED BY <1>1, <1>2

\* Requests and their answers leave the channels alone.
LEMMA AsideChannels ==
  ASSUME UNCHANGED <<exchangeVars, phase, readVars, backlog>>
  PROVE  Grows /\ ChannelStep
BY DEF exchangeVars, Grows, ChannelStep, Feeds

LEMMA DoneChannels ==
  ASSUME RecoveryDone
  PROVE  Grows /\ ChannelStep
BY DEF RecoveryDone, exchangeVars, readVars, Grows, ChannelStep, HandsOver

LEMMA AcceptChannels ==
  ASSUME NEW replay \in Seq(Messages), Accept(replay)
  PROVE  Grows /\ ChannelStep
BY DEF Accept, Grows, ChannelStep, Feeds

\* Whatever the venue, a step lets the market grow and is a channel step.  The
\* snapshot of Hyperliquid is one of trades because its market has no ticks.
Timed == {"phoenix", "bitfinex"}
Untimed == venue \notin Timed => \A i \in DOMAIN market : market[i] # Tick

LEMMA StepChannels ==
  ASSUME MarketTyped, ChannelInv, Untimed, venue \in Venues, Next
  PROVE  Grows /\ ChannelStep
<1>1. WireSound /\ HeldSound
  BY DEF ChannelInv
<1>2. << >> \in Seq(Messages)
  OBVIOUS
<1>3. CASE venue = "coinbase" /\ Coinbase!Next
  <2>1. HasSlots
    BY <1>3 DEF HasSlots
  <2>2. CASE AwaitWithBacklog
    BY <1>1, <2>1, <2>2, AwaitChannels DEF AwaitWithBacklog
  <2>3. CASE EmitWithBacklog
    BY <2>1, <2>3, TakeChannels DEF EmitWithBacklog
  <2>4. CASE PageTaken(Coinbase!RecoverPage) \/ \E s \in Symbols : RequestFails(s, {})
    BY <2>4, AsideChannels DEF PageTaken, RequestFails
  <2> QED
    BY <1>1, <1>3, <2>1, <2>2, <2>3, <2>4, CoinbaseSteps, SharedStepChannels, AcceptChannels,
       LastMatchesTyped, ReadChannels, DoneChannels
<1>4. CASE venue = "deribit" /\ Deribit!Next
  <2>1. HasSlots
    BY <1>4 DEF HasSlots
  <2>2. CASE AwaitWithBacklog
    BY <1>1, <2>1, <2>2, AwaitChannels DEF AwaitWithBacklog
  <2>3. CASE EmitWithBacklog
    BY <2>1, <2>3, TakeChannels DEF EmitWithBacklog
  <2>4. CASE PageTaken(Deribit!RecoverPage) \/ \E s \in Symbols : RequestFails(s, rows)
    BY <2>4, AsideChannels DEF PageTaken, RequestFails
  <2> QED
    BY <1>1, <1>2, <1>4, <2>1, <2>2, <2>3, <2>4, DeribitSteps, SharedStepChannels,
       AcceptChannels, ReadChannels, DoneChannels
<1>5. CASE venue = "binance" /\ Binance!Next
  <2>1. ~HasSlots
    BY <1>5 DEF HasSlots
  <2>2. CASE AwaitWithoutBacklog
    BY <1>1, <2>1, <2>2, AwaitChannels DEF AwaitWithoutBacklog
  <2>3. CASE \E i \in Trades : Takes(i) /\ EmitParsedTrade(i) /\ UNCHANGED backlog
    BY <2>1, <2>3, TakeChannels DEF Takes
  <2>4. CASE PageTaken(Binance!RecoverPage) \/ \E s \in Symbols : RequestFails(s, rows)
    BY <2>4, AsideChannels DEF PageTaken, RequestFails
  <2> QED
    BY <1>1, <1>2, <1>5, <2>1, <2>2, <2>3, <2>4, BinanceSteps, SharedStepChannels,
       AcceptChannels, ReadChannels, DoneChannels
<1>6. CASE venue = "hyperliquid" /\ Hyperliquid!Next
  <2>1. ~HasSlots
    BY <1>6 DEF HasSlots
  <2>2. CASE AwaitWithoutBacklog
    BY <1>1, <2>1, <2>2, AwaitChannels DEF AwaitWithoutBacklog
  <2>3. CASE \E i \in Trades : Takes(i) /\ EmitSeenTrade(i) /\ UNCHANGED backlog
    BY <2>1, <2>3, TakeChannels DEF Takes
  <2>4. CASE PageTaken(Hyperliquid!RecoverPage) \/ \E s \in Symbols : RequestFails(s, {})
    BY <2>4, AsideChannels DEF PageTaken, RequestFails
  <2>5. ASSUME NEW n \in {0, PageLimit}, n <= Len(market)
        PROVE  Snapshot(n) \in Seq(Messages)
    <3>1. n \in Nat /\ Len(market) \in Nat
      BY SessionAssumption DEF MarketTyped
    <3>2. \A k \in 1 .. n : Len(market) - n + k \in DOMAIN market
      BY <2>5, <3>1 DEF MarketTyped
    <3>3. \A k \in 1 .. n : Len(market) - n + k \in Messages
      BY <1>6, <3>2 DEF Messages, Trades, Untimed, Timed
    <3> QED BY <3>1, <3>3 DEF Snapshot
  <2> QED
    BY <1>1, <1>2, <1>6, <2>1, <2>2, <2>3, <2>4, <2>5, HyperliquidSteps, SharedStepChannels,
       AcceptChannels, ReadChannels, DoneChannels
<1>7. CASE venue = "bybit" /\ Bybit!Next
  <2>1. HasSlots
    BY <1>7 DEF HasSlots
  <2>2. CASE AwaitWithBacklog
    BY <1>1, <2>1, <2>2, AwaitChannels DEF AwaitWithBacklog
  <2>3. CASE EmitSeenWithBacklog
    BY <2>1, <2>3, TakeChannels DEF EmitSeenWithBacklog
  <2>4. CASE BybitAnswer
    BY <2>4, AsideChannels DEF BybitAnswer
  <2>5. CASE BybitPass
    BY <2>1, <2>5 DEF BybitPass, Bybit!PassEnds, Bybit!Drain, exchangeVars, Grows, ChannelStep,
                      HandsOver
  <2>6. CASE BybitEnd
    BY <2>1, <2>6 DEF BybitEnd, Bybit!RecoveryEnds, Bybit!Drain, exchangeVars, Grows,
                      ChannelStep, HandsOver
  <2> QED
    BY <1>1, <1>2, <1>7, <2>1, <2>2, <2>3, <2>4, <2>5, <2>6, BybitSteps, SharedStepChannels,
       AcceptChannels, ReadChannels, DoneChannels
<1>8. ASSUME TickComes PROVE Grows /\ ChannelStep
  BY <1>8 DEF TickComes, Grows, ChannelStep, Feeds
<1>9. CASE venue = "phoenix" /\ Phoenix!Next
  <2>1. HasSlots
    BY <1>9 DEF HasSlots
  <2>2. CASE AwaitTrade \/ AwaitFails
    BY <1>1, <2>2, AwaitChannels
  <2>3. CASE PhoenixEmits
    BY <2>1, <2>3, TakeChannels DEF PhoenixEmits
  <2>4. CASE PhoenixAnswer \/ PhoenixWaitFails \/ \E s \in Symbols : RequestFails(s, {})
    BY <2>4, AsideChannels DEF PhoenixAnswer, PhoenixWaitFails, RequestFails
  <2>5. CASE PhoenixAck
    BY <2>1, <2>5 DEF PhoenixAck, Grows, ChannelStep, Starts
  <2>6. CASE PhoenixDone
    BY <2>6, DoneChannels DEF PhoenixDone
  <2>7. CASE Phoenix!AcceptNow
    BY <1>2, <2>7 DEF Phoenix!AcceptNow, Phoenix!readVars, readVars, Grows, ChannelStep, Feeds
  <2> QED
    BY <1>1, <1>8, <1>9, <2>1, <2>2, <2>3, <2>4, <2>5, <2>6, <2>7, PhoenixSteps,
       SharedStepChannels, ReadChannels
<1>10. CASE venue = "bitfinex" /\ Bitfinex!Next
  <2>1. HasSlots
    BY <1>10 DEF HasSlots
  <2>2. CASE AwaitWithBacklog
    BY <1>1, <2>1, <2>2, AwaitChannels DEF AwaitWithBacklog
  <2>3. CASE BitfinexEmits
    BY <2>1, <2>3, TakeChannels DEF BitfinexEmits
  <2>4. CASE BitfinexAnswer \/ BitfinexRequestFails
    BY <2>4, AsideChannels DEF BitfinexAnswer, BitfinexRequestFails, RequestFails
  <2>5. CASE BitfinexReset
    BY <2>5, SharedStepChannels DEF BitfinexReset, SharedStep
  <2>6. ASSUME NEW s \in Symbols, Executed(s) PROVE Grows /\ ChannelStep
    <3> DEFINE i == Len(market) + 1
    <3>1. Grows
      BY <2>6 DEF Executed, Grows
    <3>2. i \in Messages'
      <4>1. i \in DOMAIN market' /\ market'[i] = s
        BY <2>6 DEF Executed, MarketTyped
      <4>2. s # Tick
        BY SessionAssumption DEF Tick
      <4> QED BY <4>1, <4>2 DEF Messages, Trades
    <3> QED BY <2>6, <3>1, <3>2 DEF Executed, Push, readVars, ChannelStep, Feeds
  <2>7. ASSUME NEW i \in Trades, Updated(i) PROVE Grows /\ ChannelStep
    <3>1. Grows /\ -i \in Messages'
      BY <2>7 DEF Updated, Grows, Messages, Trades
    <3> QED BY <2>7, <3>1 DEF Updated, Push, readVars, ChannelStep, Feeds
  <2>8. CASE Break \/ Acknowledge \/ Dial
    BY <2>8, SharedStepChannels DEF SharedStep
  <2> QED
    BY <1>1, <1>2, <1>8, <1>10, <2>1, <2>2, <2>3, <2>4, <2>5, <2>6, <2>7, <2>8, BitfinexSteps,
       AcceptChannels, ReadChannels, DoneChannels
<1> QED BY <1>3, <1>4, <1>5, <1>6, <1>7, <1>9, <1>10 DEF Next

LEMMA UntimedKept ==
  ASSUME MarketTyped, ChannelInv, Untimed, venue \in Venues, Next
  PROVE  Untimed'
<1>1. Grows /\ venue' = venue
  BY StepChannels DEF Next, OthersUnchanged
<1>2. SUFFICES ASSUME venue \notin Timed
      PROVE  market' = market \/ \E s \in Symbols : market' = Append(market, s)
  <2>1. ASSUME venue \notin Timed,
               market' = market \/ \E s \in Symbols : market' = Append(market, s)
        PROVE  \A i \in DOMAIN market' : market'[i] # Tick
    <3>1. \A i \in DOMAIN market : market[i] # Tick
      BY <2>1 DEF Untimed
    <3>2. \A s \in Symbols : s # Tick
      BY SessionAssumption DEF Tick
    <3> QED BY <2>1, <3>1, <3>2 DEF MarketTyped
  <2> QED BY <1>1, <2>1 DEF Untimed
<1> USE DEF exchangeVars
<1>3. SharedStep => market' = market \/ \E s \in Symbols : market' = Append(market, s)
  BY DEF SharedStep, TradeComes, Break, Acknowledge, Dial, SessionOver
<1>4. \A r : Accept(r) => market' = market
  BY DEF Accept
<1>5. AwaitTrade \/ AwaitFails \/ AwaitAck => market' = market
  BY DEF AwaitTrade, AwaitFails, AwaitAck
<1>6. ReadWithBacklog \/ ReadIntoChannel => market' = market
  BY DEF ReadWithBacklog, ReadIntoChannel, ReadFails
<1>7. \A i : TakeRecovered(i) \/ TakeBuffered(i) \/ TakeLive(i) => market' = market
  BY DEF TakeRecovered, TakeBuffered, TakeLive
<1>8. RecoveryDone => market' = market
  BY DEF RecoveryDone
<1>9. \A s, kept : RequestFails(s, kept) => market' = market
  BY DEF RequestFails
<1>10. CASE venue = "coinbase" /\ Coinbase!Next
  BY <1>3, <1>4, <1>5, <1>6, <1>7, <1>8, <1>9, <1>10, CoinbaseSteps
  DEF AwaitWithBacklog, EmitWithBacklog, PageTaken
<1>11. CASE venue = "deribit" /\ Deribit!Next
  BY <1>3, <1>4, <1>5, <1>6, <1>7, <1>8, <1>9, <1>11, DeribitSteps
  DEF AwaitWithBacklog, EmitWithBacklog, PageTaken
<1>12. CASE venue = "binance" /\ Binance!Next
  BY <1>3, <1>4, <1>5, <1>6, <1>7, <1>8, <1>9, <1>12, BinanceSteps
  DEF AwaitWithoutBacklog, Takes, PageTaken
<1>13. CASE venue = "hyperliquid" /\ Hyperliquid!Next
  BY <1>3, <1>4, <1>5, <1>6, <1>7, <1>8, <1>9, <1>13, HyperliquidSteps
  DEF AwaitWithoutBacklog, Takes, PageTaken
<1>14. CASE venue = "bybit" /\ Bybit!Next
  BY <1>3, <1>4, <1>5, <1>6, <1>7, <1>8, <1>9, <1>14, BybitSteps
  DEF AwaitWithBacklog, EmitSeenWithBacklog, BybitAnswer, BybitPass, BybitEnd
<1> QED
  BY <1>2, <1>10, <1>11, <1>12, <1>13, <1>14 DEF Next, Timed

\* The inductive invariant of the channels.
CInv == MarketTyped /\ venue \in Venues /\ Untimed /\ ChannelInv

LEMMA InitCInv == SessionsInit => CInv
<1> SUFFICES ASSUME SessionsInit PROVE CInv
  OBVIOUS
<1>1. MarketTyped /\ venue \in Venues /\ Untimed
  BY DEF SessionsInit, Init, MarketTyped, Untimed
<1>2. << >> \in Seq(Messages) /\ << >> \in Seq(Messages \cup {Ack}) /\ Len(<< >>) = 0
  OBVIOUS
<1>3. BufferLimit \in Nat
  BY SessionAssumption
<1> QED
  BY <1>1, <1>2, <1>3
  DEF SessionsInit, Init, CInv, ChannelInv, WireSound, HeldSound, SlotsAreExact

LEMMA NextCInv == CInv /\ [Next]_vars => CInv'
<1> SUFFICES ASSUME CInv, [Next]_vars PROVE CInv'
  OBVIOUS
<1>1. CASE Next
  <2>1. Grows /\ ChannelStep /\ venue' = venue
    BY <1>1, StepChannels DEF CInv, Next, OthersUnchanged
  <2> QED BY <1>1, <2>1, MarketGrows, ChannelKept, UntimedKept DEF CInv
<1>2. CASE UNCHANGED vars
  <2>1. Grows /\ ChannelStep /\ venue' = venue /\ market' = market
    BY <1>2 DEF vars, sessionVars, exchangeVars, Grows, ChannelStep, Feeds
  <2> QED BY <2>1, MarketGrows, ChannelKept DEF CInv, Untimed
<1> QED BY <1>1, <1>2

\* The market only grows, and what is buffered, queued and on the wire is sound.
THEOREM ChannelInvariance == Spec => []CInv
BY InitCInv, NextCInv, PTL DEF Spec

\* Every trade that is buffered or queued has its slot, and no slot is left over.
THEOREM SlotsExact == Spec => []SlotsAreExact
<1>1. CInv => SlotsAreExact
  BY DEF CInv, ChannelInv
<1> QED BY <1>1, ChannelInvariance, PTL

-----------------------------------------------------------------------------
(***************************************************************************)
(* Emission.  But for Bitfinex, whose steps may emit several trades, a     *)
(* step emits at most one.                                                 *)
(***************************************************************************)

\* Trade i is emitted, as sequential or not, and moves its symbol's last id to
\* its own or leaves it.
Emission(i, sequential, last) ==
  /\ market' = market
  /\ emitted' = Append(emitted, [trade |-> i, sequential |-> sequential])
  /\ lastIDs' = [lastIDs EXCEPT ![market[i]] = last]
  /\ seen' = seen \/ Remember(i)
  /\ sequential => lastIDs[market[i]] # 0 /\ Id(i) = lastIDs[market[i]] + 1
  /\ venue \notin Numbered => ~sequential
  /\ venue = "binance" => last = Id(i) /\ lastIDs[market[i]] < Id(i)

EmitStep ==
  \/ UNCHANGED emitVars
  \/ \E i \in Trades, sequential \in BOOLEAN : \E last \in {Id(i), lastIDs[market[i]]} :
       Emission(i, sequential, last)

LEMMA UnseenEmits ==
  ASSUME MarketTyped, lastIDs \in [Symbols -> Nat], venue \in {"coinbase", "deribit"},
         market' = market, NEW i \in Trades, EmitUnseen(i)
  PROVE  EmitStep
<1> DEFINE s == market[i]
           b == lastIDs[s] # 0 /\ Id(i) = lastIDs[s] + 1
           n == IF Id(i) > lastIDs[s] THEN Id(i) ELSE lastIDs[s]
<1>1. CASE UNCHANGED emitVars
  BY <1>1 DEF EmitStep
<1>2. CASE ~UNCHANGED emitVars
  <2>1. /\ Remember(i) /\ emitted' = Append(emitted, [trade |-> i, sequential |-> b])
        /\ lastIDs' = [lastIDs EXCEPT ![s] = n]
    BY <1>2 DEF EmitUnseen, Emit
  <2>2. b \in BOOLEAN /\ n \in {Id(i), lastIDs[s]}
    OBVIOUS
  <2>3. venue \in Numbered /\ venue # "binance"
    BY DEF Numbered
  <2> HIDE DEF n
  <2>4. Emission(i, b, n)
    BY <2>1, <2>3 DEF Emission
  <2> QED BY <2>2, <2>4 DEF EmitStep
<1> QED BY <1>1, <1>2

LEMMA SeenEmits ==
  ASSUME MarketTyped, lastIDs \in [Symbols -> Nat], venue \in {"bybit", "hyperliquid"},
         market' = market, NEW i \in Trades, EmitSeenTrade(i)
  PROVE  EmitStep
<1>1. CASE UNCHANGED emitVars
  BY <1>1 DEF EmitStep
<1>2. CASE ~UNCHANGED emitVars
  <2>1. /\ Remember(i) /\ emitted' = Append(emitted, [trade |-> i, sequential |-> FALSE])
        /\ lastIDs' = [lastIDs EXCEPT ![market[i]] = Id(i)]
    BY <1>2 DEF EmitSeenTrade, EmitUnnumbered
  <2>2. venue # "binance"
    OBVIOUS
  <2>3. Emission(i, FALSE, Id(i))
    BY <2>1, <2>2 DEF Emission
  <2> QED BY <2>3 DEF EmitStep
<1> QED BY <1>1, <1>2

LEMMA ParsedEmits ==
  ASSUME MarketTyped, lastIDs \in [Symbols -> Nat], venue = "binance",
         market' = market, NEW i \in Trades, EmitParsedTrade(i)
  PROVE  EmitStep
<1> DEFINE s == market[i]
           b == lastIDs[s] # 0 /\ Id(i) = lastIDs[s] + 1
<1>1. CASE UNCHANGED emitVars
  BY <1>1 DEF EmitStep
<1>2. CASE ~UNCHANGED emitVars
  <2>1. /\ seen' = seen /\ emitted' = Append(emitted, [trade |-> i, sequential |-> b])
        /\ lastIDs' = [lastIDs EXCEPT ![s] = Id(i)]
        /\ ~(lastIDs[s] # 0 /\ Id(i) <= lastIDs[s])
    BY <1>2 DEF EmitParsedTrade, Emit
  <2>2. s \in Symbols /\ lastIDs[s] \in Nat /\ Id(i) \in Nat /\ Id(i) # 0
    BY MarketFacts
  <2>3. lastIDs[s] < Id(i)
    BY <2>1, <2>2
  <2>4. venue \in Numbered
    BY DEF Numbered
  <2>5. Emission(i, b, Id(i))
    BY <2>1, <2>3, <2>4 DEF Emission
  <2> QED BY <2>5 DEF EmitStep
<1> QED BY <1>1, <1>2

LEMMA PhoenixEmission ==
  ASSUME MarketTyped, lastIDs \in [Symbols -> Nat], venue = "phoenix",
         market' = market, NEW i \in Trades,
         Phoenix!EmitTrade(i) \/ Phoenix!EmitLive(i)
  PROVE  EmitStep
<1>1. \A S : Phoenix!Cardinality(S) = Cardinality(S)
  BY DEF Phoenix!Cardinality, Cardinality
<1>2. /\ Phoenix!Id(i) = Id(i)
      /\ \A S : Phoenix!Max(S) = Max(S)
  BY <1>1 DEF Phoenix!Id, Id, Phoenix!AllOf, AllOf, Phoenix!Max, Max
<1> DEFINE s == market[i]
           n == Max({lastIDs[s], Id(i)})
<1>3. s \in Symbols /\ lastIDs[s] \in Nat /\ Id(i) \in Nat
  BY MarketFacts
<1>4. n \in {Id(i), lastIDs[s]}
  <2>1. {lastIDs[s], Id(i)} \in SUBSET Nat /\ {lastIDs[s], Id(i)} # {}
    BY <1>3
  <2>2. IsFiniteSet({lastIDs[s], Id(i)})
    <3>1. {lastIDs[s], Id(i)} = {lastIDs[s]} \cup {Id(i)}
      OBVIOUS
    <3>2. IsFiniteSet({lastIDs[s]})
      BY FS_Singleton
    <3>3. IsFiniteSet({lastIDs[s]} \cup {Id(i)})
      BY <3>2, FS_AddElement
    <3> QED BY <3>1, <3>3
  <2> QED BY <2>1, <2>2, MaxFacts
<1>5. CASE UNCHANGED emitVars
  BY <1>5 DEF EmitStep
<1>6. CASE Phoenix!EmitTrade(i)
  <2>1. /\ emitted' = Append(emitted, [trade |-> i, sequential |-> FALSE])
        /\ lastIDs' = [lastIDs EXCEPT ![s] = n] /\ seen' = seen
    BY <1>2, <1>6 DEF Phoenix!EmitTrade, Phoenix!EmitUnnumbered
  <2>2. venue # "binance"
    OBVIOUS
  <2> HIDE DEF n
  <2>3. Emission(i, FALSE, n)
    BY <2>1, <2>2 DEF Emission
  <2> QED BY <1>4, <2>3 DEF EmitStep
<1> QED BY <1>5, <1>6 DEF Phoenix!EmitLive, Phoenix!emitVars, emitVars

LEMMA EmissionSteps ==
  ASSUME MarketTyped, lastIDs \in [Symbols -> Nat], venue \in Venues, venue # "bitfinex", Next
  PROVE  EmitStep
<1>1. SharedStep => UNCHANGED emitVars
  BY DEF SharedStep, TradeComes, Break, Acknowledge, Dial, SessionOver
<1>2. \A r : Accept(r) => UNCHANGED emitVars
  BY DEF Accept
<1>3. AwaitTrade \/ AwaitFails \/ AwaitAck => UNCHANGED emitVars
  BY DEF AwaitTrade, AwaitFails, AwaitAck
<1>4. ReadWithBacklog \/ ReadIntoChannel => UNCHANGED emitVars
  BY DEF ReadWithBacklog, ReadIntoChannel, ReadFails
<1>5. RecoveryDone => UNCHANGED emitVars
  BY DEF RecoveryDone
<1>6. \A s, kept : RequestFails(s, kept) => UNCHANGED emitVars
  BY DEF RequestFails
<1>7. \A i : TakeRecovered(i) \/ TakeBuffered(i) \/ TakeLive(i) => market' = market
  BY DEF TakeRecovered, TakeBuffered, TakeLive, exchangeVars
<1>8. UNCHANGED emitVars => EmitStep
  BY DEF EmitStep
<1>9. CASE venue = "coinbase" /\ Coinbase!Next
  <2>1. EmitWithBacklog => EmitStep
    BY <1>7, <1>9, UnseenEmits DEF EmitWithBacklog
  <2> QED
    BY <1>1, <1>2, <1>3, <1>4, <1>5, <1>6, <1>8, <1>9, <2>1, CoinbaseSteps
    DEF AwaitWithBacklog, PageTaken
<1>10. CASE venue = "deribit" /\ Deribit!Next
  <2>1. EmitWithBacklog => EmitStep
    BY <1>7, <1>10, UnseenEmits DEF EmitWithBacklog
  <2> QED
    BY <1>1, <1>2, <1>3, <1>4, <1>5, <1>6, <1>8, <1>10, <2>1, DeribitSteps
    DEF AwaitWithBacklog, PageTaken
<1>11. CASE venue = "binance" /\ Binance!Next
  <2>1. \A i \in Trades : Takes(i) /\ EmitParsedTrade(i) => EmitStep
    BY <1>7, <1>11, ParsedEmits DEF Takes
  <2> QED
    BY <1>1, <1>2, <1>3, <1>4, <1>5, <1>6, <1>8, <1>11, <2>1, BinanceSteps
    DEF AwaitWithoutBacklog, PageTaken
<1>12. CASE venue = "hyperliquid" /\ Hyperliquid!Next
  <2>1. \A i \in Trades : Takes(i) /\ EmitSeenTrade(i) => EmitStep
    BY <1>7, <1>12, SeenEmits DEF Takes
  <2> QED
    BY <1>1, <1>2, <1>3, <1>4, <1>5, <1>6, <1>8, <1>12, <2>1, HyperliquidSteps
    DEF AwaitWithoutBacklog, PageTaken
<1>13. CASE venue = "bybit" /\ Bybit!Next
  <2>1. EmitSeenWithBacklog => EmitStep
    BY <1>7, <1>13, SeenEmits DEF EmitSeenWithBacklog
  <2>2. BybitAnswer \/ BybitPass \/ BybitEnd => UNCHANGED emitVars
    BY DEF BybitAnswer, BybitPass, BybitEnd
  <2> QED
    BY <1>1, <1>2, <1>3, <1>4, <1>5, <1>6, <1>8, <1>13, <2>1, <2>2, BybitSteps
    DEF AwaitWithBacklog
<1>14. CASE venue = "phoenix" /\ Phoenix!Next
  <2>1. PhoenixEmits => EmitStep
    BY <1>7, <1>14, PhoenixEmission DEF PhoenixEmits
  <2>2. PhoenixAck \/ PhoenixAnswer \/ PhoenixWaitFails => UNCHANGED emitVars
    BY DEF PhoenixAck, PhoenixAnswer, PhoenixWaitFails
  <2>3. Phoenix!AcceptNow => UNCHANGED emitVars
    BY DEF Phoenix!AcceptNow, Phoenix!emitVars, emitVars
  <2>4. TickComes => UNCHANGED emitVars
    BY DEF TickComes
  <2> QED
    BY <1>1, <1>3, <1>4, <1>5, <1>6, <1>8, <1>14, <2>1, <2>2, <2>3, <2>4, PhoenixSteps
    DEF PhoenixDone
<1> QED BY <1>9, <1>10, <1>11, <1>12, <1>13, <1>14 DEF Next

EmittedTyped == emitted \in Seq([trade : Trades, sequential : BOOLEAN])

\* A symbol's last id is that of a trade emitted.
LastIsEmitted ==
  \A s \in Symbols : lastIDs[s] # 0 =>
    \E n \in DOMAIN emitted : emitted[n].trade \in AllOf(s) /\ Id(emitted[n].trade) = lastIDs[s]

\* Before a trade that is sequential the one with the id before was emitted.
SequentialFollows ==
  \A n \in DOMAIN emitted : emitted[n].sequential =>
    /\ venue \in Numbered
    /\ \E m \in 1 .. n - 1 :
         /\ emitted[m].trade \in AllOf(market[emitted[n].trade])
         /\ Id(emitted[m].trade) + 1 = Id(emitted[n].trade)

\* On Binance the last id is the greatest, and ids grow.
IdsGrow ==
  venue = "binance" =>
    \A n \in DOMAIN emitted :
      /\ Id(emitted[n].trade) <= lastIDs[market[emitted[n].trade]]
      /\ \A m \in 1 .. n - 1 : market[emitted[m].trade] = market[emitted[n].trade] =>
           Id(emitted[m].trade) < Id(emitted[n].trade)

EInv ==
  /\ lastIDs \in [Symbols -> Nat] /\ EmittedTyped
  /\ venue # "bitfinex" => LastIsEmitted /\ SequentialFollows /\ IdsGrow

LEMMA EmittedFacts ==
  ASSUME EmittedTyped
  PROVE  /\ Len(emitted) \in Nat /\ DOMAIN emitted = 1 .. Len(emitted)
         /\ \A n \in DOMAIN emitted : emitted[n].trade \in Trades
<1> DEFINE E == [trade : Trades, sequential : BOOLEAN]
<1>1. \A e \in E : e.trade \in Trades
  OBVIOUS
<1>2. emitted \in Seq(E)
  BY DEF EmittedTyped
<1> HIDE DEF E
<1>3. \A n \in DOMAIN emitted : emitted[n] \in E
  BY <1>2
<1> QED BY <1>1, <1>2, <1>3

LEMMA GrowingKeepsEmitted ==
  ASSUME MarketTyped, Grows, UNCHANGED <<emitted, lastIDs, venue>>, EInv
  PROVE  EInv'
<1>1. Trades \subseteq Trades' /\ EmittedTyped
  BY MarketGrows DEF EInv
<1>2. [trade : Trades, sequential : BOOLEAN] \subseteq [trade : Trades', sequential : BOOLEAN]
  BY <1>1
<1>3. EmittedTyped'
  BY <1>1, <1>2, WiderSeq DEF EmittedTyped
<1>4. \A n \in DOMAIN emitted :
        /\ emitted[n].trade \in Trades /\ emitted[n].trade \in DOMAIN market
        /\ market'[emitted[n].trade] = market[emitted[n].trade]
        /\ Id(emitted[n].trade)' = Id(emitted[n].trade)
        /\ \A s : emitted[n].trade \in AllOf(s)' <=> emitted[n].trade \in AllOf(s)
  <2> SUFFICES ASSUME NEW n \in DOMAIN emitted
               PROVE  /\ emitted[n].trade \in Trades /\ emitted[n].trade \in DOMAIN market
                      /\ market'[emitted[n].trade] = market[emitted[n].trade]
                      /\ Id(emitted[n].trade)' = Id(emitted[n].trade)
                      /\ \A s : emitted[n].trade \in AllOf(s)' <=> emitted[n].trade \in AllOf(s)
    OBVIOUS
  <2>1. emitted[n].trade \in Trades
    BY <1>1, EmittedFacts
  <2>2. emitted[n].trade \in DOMAIN market
    BY <2>1 DEF Trades
  <2> QED BY <2>1, <2>2, MarketGrows
<1>5. \A n \in DOMAIN emitted : \A m \in 1 .. n - 1 : m \in DOMAIN emitted
  BY <1>1, EmittedFacts
<1>6. LastIsEmitted => LastIsEmitted'
  BY <1>4 DEF LastIsEmitted
<1>7. SequentialFollows => SequentialFollows'
  BY <1>4, <1>5 DEF SequentialFollows
<1>8. IdsGrow => IdsGrow'
  BY <1>4, <1>5 DEF IdsGrow
<1> QED BY <1>3, <1>6, <1>7, <1>8 DEF EInv

LEMMA EmissionKeeps ==
  ASSUME MarketTyped, EInv, UNCHANGED venue, venue # "bitfinex",
         NEW i \in Trades, NEW b \in BOOLEAN, NEW last \in {Id(i), lastIDs[market[i]]},
         Emission(i, b, last)
  PROVE  EInv'
<1> DEFINE s == market[i]
           k == Len(emitted)
           e == [trade |-> i, sequential |-> b]
<1>1. /\ EmittedTyped /\ LastIsEmitted /\ SequentialFollows /\ IdsGrow
      /\ lastIDs \in [Symbols -> Nat]
  BY DEF EInv
<1>2. s \in Symbols /\ lastIDs[s] \in Nat /\ Id(i) \in Nat /\ last \in Nat /\ i \in AllOf(s)
  BY <1>1, MarketFacts
<1>3. /\ \A j : Id(j)' = Id(j) /\ \A t : AllOf(t)' = AllOf(t)
      /\ Trades' = Trades /\ market' = market /\ venue' = venue
  BY DEF Emission, Id, AllOf, Trades
<1>4. k \in Nat /\ DOMAIN emitted = 1 .. k /\ \A n \in 1 .. k : emitted[n].trade \in Trades
  BY <1>1, EmittedFacts
<1>5. e.trade = i /\ e.sequential = b /\ e \in [trade : Trades, sequential : BOOLEAN]
  OBVIOUS
<1>6. emitted' = Append(emitted, e) /\ lastIDs' = [lastIDs EXCEPT ![s] = last]
  BY DEF Emission
<1> HIDE DEF e, s, k
<1>7. /\ EmittedTyped' /\ DOMAIN emitted' = 1 .. k + 1
      /\ \A n \in 1 .. k : emitted'[n] = emitted[n]
      /\ emitted'[k + 1] = e
  <2> DEFINE E == [trade : Trades, sequential : BOOLEAN]
  <2>1. emitted \in Seq(E) /\ e \in E
    BY <1>1, <1>5 DEF EmittedTyped
  <2> HIDE DEF E
  <2>2. /\ Append(emitted, e) \in Seq(E) /\ Len(Append(emitted, e)) = k + 1
        /\ \A n \in 1 .. k : Append(emitted, e)[n] = emitted[n]
        /\ Append(emitted, e)[k + 1] = e
    BY <2>1, AppendProperties DEF k
  <2>3. DOMAIN Append(emitted, e) = 1 .. k + 1
    BY <2>2
  <2> QED BY <1>3, <1>6, <2>2, <2>3 DEF EmittedTyped, E
<1>8. lastIDs' \in [Symbols -> Nat] /\ lastIDs'[s] = last
      /\ \A t \in Symbols \ {s} : lastIDs'[t] = lastIDs[t]
  BY <1>1, <1>2, <1>6
<1>9. k + 1 \in DOMAIN emitted' /\ \A n \in 1 .. k : n \in DOMAIN emitted'
  BY <1>4, <1>7
<1>10. \A n \in DOMAIN emitted' : n \in 1 .. k \/ n = k + 1
  BY <1>4, <1>7
<1>11. LastIsEmitted'
  <2> SUFFICES ASSUME NEW t \in Symbols, lastIDs'[t] # 0
               PROVE  \E n \in DOMAIN emitted' :
                        emitted'[n].trade \in AllOf(t) /\ Id(emitted'[n].trade) = lastIDs'[t]
    BY <1>3 DEF LastIsEmitted
  <2>1. CASE t = s /\ last = Id(i)
    BY <1>2, <1>5, <1>7, <1>8, <1>9, <2>1
  <2>2. CASE ~(t = s /\ last = Id(i))
    <3>1. lastIDs'[t] = lastIDs[t]
      BY <1>8, <2>2 DEF s
    <3>2. PICK n \in DOMAIN emitted :
            emitted[n].trade \in AllOf(t) /\ Id(emitted[n].trade) = lastIDs[t]
      BY <1>1, <3>1 DEF LastIsEmitted
    <3> QED BY <1>4, <1>7, <1>9, <3>1, <3>2
  <2> QED BY <2>1, <2>2
<1>12. SequentialFollows'
  <2> SUFFICES ASSUME NEW n \in DOMAIN emitted', emitted'[n].sequential
               PROVE  /\ venue \in Numbered
                      /\ \E m \in 1 .. n - 1 :
                           /\ emitted'[m].trade \in AllOf(market[emitted'[n].trade])
                           /\ Id(emitted'[m].trade) + 1 = Id(emitted'[n].trade)
    BY <1>3 DEF SequentialFollows, Numbered
  <2>1. CASE n \in 1 .. k
    <3>1. emitted'[n] = emitted[n] /\ n \in DOMAIN emitted
      BY <1>4, <1>7, <2>1
    <3>2. /\ venue \in Numbered
          /\ \E m \in 1 .. n - 1 :
               /\ emitted[m].trade \in AllOf(market[emitted[n].trade])
               /\ Id(emitted[m].trade) + 1 = Id(emitted[n].trade)
      BY <1>1, <3>1 DEF SequentialFollows
    <3>3. \A m \in 1 .. n - 1 : m \in 1 .. k
      BY <1>4, <2>1
    <3> QED BY <1>7, <3>1, <3>2, <3>3
  <2>2. CASE n = k + 1
    <3>1. b /\ emitted'[n].trade = i
      BY <1>5, <1>7, <2>2
    <3>2. lastIDs[s] # 0 /\ Id(i) = lastIDs[s] + 1 /\ venue \in Numbered
      BY <3>1 DEF Emission, s
    <3>3. PICK m \in DOMAIN emitted :
            emitted[m].trade \in AllOf(s) /\ Id(emitted[m].trade) = lastIDs[s]
      BY <1>1, <1>2, <3>2 DEF LastIsEmitted
    <3>4. m \in 1 .. n - 1 /\ emitted'[m] = emitted[m]
      BY <1>4, <1>7, <2>2, <3>3
    <3>5. emitted'[m].trade \in AllOf(market[emitted'[n].trade])
      BY <3>1, <3>3, <3>4 DEF s
    <3>6. Id(emitted'[m].trade) + 1 = Id(emitted'[n].trade)
      BY <3>1, <3>2, <3>3, <3>4
    <3> QED BY <3>2, <3>4, <3>5, <3>6
  <2> QED BY <1>10, <2>1, <2>2
<1>13. IdsGrow'
  <2> SUFFICES ASSUME venue = "binance"
               PROVE  \A n \in DOMAIN emitted' :
                        /\ Id(emitted'[n].trade) <= lastIDs'[market[emitted'[n].trade]]
                        /\ \A m \in 1 .. n - 1 :
                             market[emitted'[m].trade] = market[emitted'[n].trade] =>
                               Id(emitted'[m].trade) < Id(emitted'[n].trade)
    BY <1>3 DEF IdsGrow
  <2>1. last = Id(i) /\ lastIDs[s] < Id(i)
    BY DEF Emission, s
  <2>2. \A n \in 1 .. k :
          /\ market[emitted[n].trade] \in Symbols
          /\ Id(emitted[n].trade) \in Nat
          /\ Id(emitted[n].trade) <= lastIDs[market[emitted[n].trade]]
          /\ \A m \in 1 .. n - 1 :
               market[emitted[m].trade] = market[emitted[n].trade] =>
                 Id(emitted[m].trade) < Id(emitted[n].trade)
    BY <1>1, <1>4, MarketFacts DEF IdsGrow
  <2>3. \A t \in Symbols : lastIDs[t] \in Nat
    BY <1>1
  <2>4. ASSUME NEW n \in 1 .. k
        PROVE  /\ Id(emitted[n].trade) <= lastIDs'[market[emitted[n].trade]]
               /\ market[emitted[n].trade] = s => Id(emitted[n].trade) < Id(i)
    <3>1. CASE market[emitted[n].trade] = s
      <4>1. Id(emitted[n].trade) <= lastIDs[s] /\ Id(emitted[n].trade) \in Nat
        BY <2>2, <3>1
      <4> QED BY <1>2, <1>8, <2>1, <3>1, <4>1
    <3>2. CASE market[emitted[n].trade] # s
      BY <1>8, <2>2, <3>2
    <3> QED BY <3>1, <3>2
  <2>5. ASSUME NEW n \in 1 .. k
        PROVE  /\ Id(emitted'[n].trade) <= lastIDs'[market[emitted'[n].trade]]
               /\ \A m \in 1 .. n - 1 :
                    market[emitted'[m].trade] = market[emitted'[n].trade] =>
                      Id(emitted'[m].trade) < Id(emitted'[n].trade)
    <3>1. \A m \in 1 .. n - 1 : m \in 1 .. k
      BY <1>4
    <3>2. emitted'[n] = emitted[n] /\ \A m \in 1 .. n - 1 : emitted'[m] = emitted[m]
      BY <1>7, <3>1
    <3> QED BY <2>2, <2>4, <3>2
  <2>6. /\ Id(emitted'[k + 1].trade) <= lastIDs'[market[emitted'[k + 1].trade]]
        /\ \A m \in 1 .. k :
             market[emitted'[m].trade] = market[emitted'[k + 1].trade] =>
               Id(emitted'[m].trade) < Id(emitted'[k + 1].trade)
    <3>1. emitted'[k + 1].trade = i
      BY <1>5, <1>7
    <3>2. Id(i) <= lastIDs'[s]
      BY <1>2, <1>8, <2>1
    <3> QED BY <1>7, <2>4, <3>1, <3>2 DEF s
  <2>7. k + 1 - 1 = k
    BY <1>4
  <2> SUFFICES ASSUME NEW n \in DOMAIN emitted'
               PROVE  /\ Id(emitted'[n].trade) <= lastIDs'[market[emitted'[n].trade]]
                      /\ \A m \in 1 .. n - 1 :
                           market[emitted'[m].trade] = market[emitted'[n].trade] =>
                             Id(emitted'[m].trade) < Id(emitted'[n].trade)
    OBVIOUS
  <2>8. CASE n \in 1 .. k
    BY <2>5, <2>8
  <2>9. CASE n = k + 1
    <3>1. n - 1 = k
      BY <1>4, <2>9
    <3>2. Id(emitted'[n].trade) <= lastIDs'[market[emitted'[n].trade]]
      BY <2>6, <2>9
    <3>3. \A m \in 1 .. k :
            market[emitted'[m].trade] = market[emitted'[n].trade] =>
              Id(emitted'[m].trade) < Id(emitted'[n].trade)
      BY <2>6, <2>9
    <3> QED BY <3>1, <3>2, <3>3
  <2> QED BY <1>10, <2>8, <2>9
<1> QED BY <1>3, <1>7, <1>8, <1>11, <1>12, <1>13 DEF EInv

\* What is emitted at once on Bitfinex is a sequence of trades.
OrderTyped == order \in [Symbols -> Seq(Trades)] /\ confirmed \subseteq Trades

\* The trades at the head of a queue that are all among those stored.
LEMMA ReadyFacts ==
  ASSUME MarketTyped, NEW queue \in Seq(Trades), NEW stored \in SUBSET Trades,
         NEW ready,
         ready = Bitfinex!SelectInSeq(Append(queue, Bitfinex!Tick), LAMBDA i : i \notin stored) - 1
  PROVE  ready \in 0 .. Len(queue)
<1> DEFINE all == Append(queue, Tick)
           n == Len(queue)
           I == {i \in 1 .. Len(all) : all[i] \notin stored}
<1>1. n \in Nat /\ Len(all) = n + 1 /\ all[n + 1] = Tick
  OBVIOUS
<1>2. Tick \notin Trades
  BY MarketFacts DEF Tick, Ack
<1>3. n + 1 \in I
  BY <1>1, <1>2
<1>4. I \in SUBSET Nat /\ IsFiniteSet(I) /\ I # {} /\ I \subseteq 1 .. n + 1
  <2>1. 1 \in Int /\ n + 1 \in Int
    BY <1>1
  <2>2. I \subseteq 1 .. n + 1
    BY <1>1
  <2> HIDE DEF n, I
  <2>3. IsFiniteSet(1 .. n + 1)
    BY <2>1, FS_Interval
  <2>4. 1 .. n + 1 \subseteq Nat
    BY <2>1
  <2> QED BY <1>3, <2>2, <2>3, <2>4, FS_Subset
<1>5. Min(I) \in I
  BY <1>4, MinFacts
<1>6. Bitfinex!SelectInSeq(all, LAMBDA i : i \notin stored) = Min(I)
  <2>1. \A S : Bitfinex!Min(S) = Min(S)
    BY DEF Bitfinex!Min, Min
  <2> QED BY <1>4, <2>1 DEF Bitfinex!SelectInSeq
<1>7. ready = Min(I) - 1
  BY <1>6 DEF Bitfinex!Tick, Tick
<1>8. Min(I) \in 1 .. n + 1
  BY <1>4, <1>5
<1> HIDE DEF I
<1> QED BY <1>1, <1>7, <1>8

LEMMA ReadyEmits ==
  ASSUME MarketTyped, lastIDs \in [Symbols -> Nat], EmittedTyped, OrderTyped,
         market' = market, NEW s \in Symbols,
         NEW queue \in Seq(Trades), NEW stored \in SUBSET Trades,
         Bitfinex!EmitReady(s, queue, stored)
  PROVE  /\ EmittedTyped' /\ lastIDs' \in [Symbols -> Nat] /\ OrderTyped'
         /\ seen' = seen /\ gaps' \subseteq gaps
<1> DEFINE ready ==
             Bitfinex!SelectInSeq(Append(queue, Bitfinex!Tick), LAMBDA i : i \notin stored) - 1
           event(n) == [trade |-> queue[n], sequential |->
             IF n = 1 THEN Bitfinex!IsSequential(s, lastIDs[s], Bitfinex!Id(queue[1]))
                      ELSE Bitfinex!Id(queue[n]) > Bitfinex!Id(queue[n - 1])]
           E == [trade : Trades, sequential : BOOLEAN]
           events == [n \in 1 .. ready |-> event(n)]
<1>1. /\ order' = [order EXCEPT ![s] = SubSeq(queue, ready + 1, Len(queue))]
      /\ confirmed' = stored \ {queue[n] : n \in 1 .. ready}
      /\ emitted' = emitted \o events
      /\ IF ready = 0 THEN UNCHANGED <<lastIDs, gaps>>
         ELSE lastIDs' = [lastIDs EXCEPT ![s] = Bitfinex!Id(queue[ready])] /\ gaps' = gaps \ {s}
      /\ seen' = seen
  BY DEF Bitfinex!EmitReady
<1>2. ready \in 0 .. Len(queue)
  BY ReadyFacts
<1>3. \A i : Bitfinex!Id(i) = Id(i)
  <2>1. \A S : Bitfinex!Cardinality(S) = Cardinality(S)
    BY DEF Bitfinex!Cardinality, Cardinality
  <2> QED BY <2>1 DEF Bitfinex!Id, Id, Bitfinex!AllOf, AllOf
<1> HIDE DEF ready
<1>4. ready \in Nat /\ \A n \in 1 .. ready : n \in 1 .. Len(queue) /\ queue[n] \in Trades
  BY <1>2
<1>5. ASSUME NEW n \in 1 .. ready PROVE event(n) \in E
  <2> DEFINE b == IF n = 1 THEN Bitfinex!IsSequential(s, lastIDs[s], Bitfinex!Id(queue[1]))
                  ELSE Bitfinex!Id(queue[n]) > Bitfinex!Id(queue[n - 1])
  <2>1. b \in BOOLEAN
    <3>1. Bitfinex!IsSequential(s, lastIDs[s], Bitfinex!Id(queue[1])) \in BOOLEAN
      BY DEF Bitfinex!IsSequential
    <3>2. (Bitfinex!Id(queue[n]) > Bitfinex!Id(queue[n - 1])) \in BOOLEAN
      OBVIOUS
    <3> QED BY <3>1, <3>2
  <2>2. event(n) = [trade |-> queue[n], sequential |-> b]
    OBVIOUS
  <2> HIDE DEF b
  <2> QED BY <1>4, <2>1, <2>2
<1> HIDE DEF event
<1>6. events \in Seq(E)
  BY <1>4, <1>5
<1>7. Trades' = Trades
  BY DEF Trades
<1>8. EmittedTyped'
  <2>1. emitted \in Seq(E)
    BY DEF EmittedTyped
  <2> HIDE DEF events, E
  <2>2. emitted \o events \in Seq(E)
    BY <1>6, <2>1, ConcatProperties
  <2> QED BY <1>1, <1>7, <2>2 DEF EmittedTyped, E
<1>9. lastIDs' \in [Symbols -> Nat] /\ gaps' \subseteq gaps
  <2>1. CASE ready = 0
    BY <1>1, <2>1
  <2>2. CASE ready # 0
    <3>1. Bitfinex!Id(queue[ready]) \in Nat
      BY <1>3, MarketFacts
    <3> QED BY <1>1, <2>2, <3>1
  <2> QED BY <2>1, <2>2
<1>10. OrderTyped'
  <2>1. \A n \in ready + 1 .. Len(queue) : queue[n] \in Trades
    BY <1>4
  <2>2. ready + 1 \in Int /\ Len(queue) \in Int
    BY <1>4
  <2>3. SubSeq(queue, ready + 1, Len(queue)) \in Seq(Trades)
    BY <2>1, <2>2, SubSeqProperties
  <2>4. order' \in [Symbols -> Seq(Trades)]
    BY <1>1, <2>3 DEF OrderTyped
  <2> QED BY <1>1, <1>7, <2>4 DEF OrderTyped
<1> QED BY <1>1, <1>8, <1>9, <1>10

LEMMA BitfinexEmission ==
  ASSUME MarketTyped, lastIDs \in [Symbols -> Nat], EmittedTyped, OrderTyped, BitfinexEmits
  PROVE  /\ EmittedTyped' /\ lastIDs' \in [Symbols -> Nat] /\ OrderTyped'
         /\ seen' = seen /\ gaps' \subseteq gaps
<1>1. PICK i \in Trades :
        \/ TakeRecovered(i) /\ Bitfinex!EmitRecovered(i)
        \/ \E m \in {i, -i} : (TakeBuffered(m) \/ TakeLive(m)) /\ Bitfinex!EmitMessage(m)
  BY DEF BitfinexEmits
<1>2. /\ i \in Nat \ {0} /\ market[i] \in Symbols
      /\ order[market[i]] \in Seq(Trades) /\ confirmed \subseteq Trades
  BY MarketFacts DEF OrderTyped, Ack
<1>3. market' = market
  BY <1>1 DEF TakeRecovered, TakeBuffered, TakeLive, exchangeVars
<1>4. Trades' = Trades
  BY <1>3 DEF Trades
<1>5. \A j : Bitfinex!Id(j) = Id(j)
  <2>1. \A S : Bitfinex!Cardinality(S) = Cardinality(S)
    BY DEF Bitfinex!Cardinality, Cardinality
  <2> QED BY <2>1 DEF Bitfinex!Id, Id, Bitfinex!AllOf, AllOf
<1>6. CASE Bitfinex!EmitRecovered(i)
  <2>1. CASE Bitfinex!Known(i)
    BY <1>4, <1>6, <2>1 DEF Bitfinex!EmitRecovered, Bitfinex!emitVars, Bitfinex!pairVars,
                            EmittedTyped, OrderTyped
  <2>2. CASE ~Bitfinex!Known(i)
    <3> DEFINE b == Bitfinex!IsSequential(market[i], lastIDs[market[i]], Bitfinex!Id(i))
               e == [trade |-> i, sequential |-> b]
               E == [trade : Trades, sequential : BOOLEAN]
    <3>1. /\ emitted' = Append(emitted, e)
          /\ lastIDs' = [lastIDs EXCEPT ![market[i]] = Bitfinex!Id(i)]
          /\ gaps' = gaps \ {market[i]}
          /\ seen' = seen /\ order' = order /\ confirmed' = confirmed
      BY <1>6, <2>2 DEF Bitfinex!EmitRecovered
    <3>2. e \in E
      BY DEF Bitfinex!IsSequential
    <3>3. emitted \in Seq(E)
      BY DEF EmittedTyped
    <3> HIDE DEF e, E
    <3>4. Append(emitted, e) \in Seq(E)
      BY <3>2, <3>3, AppendProperties
    <3>5. EmittedTyped'
      BY <1>4, <3>1, <3>4 DEF EmittedTyped, E
    <3>6. Bitfinex!Id(i) \in Nat
      BY <1>5, MarketFacts
    <3> QED BY <1>4, <3>1, <3>5, <3>6 DEF OrderTyped
  <2> QED BY <2>1, <2>2
<1>7. ASSUME NEW m \in {i, -i}, Bitfinex!EmitMessage(m)
      PROVE  \E queue \in Seq(Trades), stored \in SUBSET Trades :
               Bitfinex!EmitReady(market[i], queue, stored)
  <2>1. CASE m > 0
    <3>1. m = i /\ Bitfinex!EmitReady(market[i], Bitfinex!Enqueued(i), confirmed)
      BY <1>2, <1>7, <2>1 DEF Bitfinex!EmitMessage
    <3>2. Append(order[market[i]], i) \in Seq(Trades)
      BY <1>2
    <3>3. Bitfinex!Enqueued(i) \in Seq(Trades)
      BY <1>2, <3>2 DEF Bitfinex!Enqueued
    <3> QED BY <1>2, <3>1, <3>3
  <2>2. CASE m < 0
    <3>1. -m = i /\ Bitfinex!EmitReady(market[-m], order[market[-m]], Bitfinex!Stored(-m))
      BY <1>2, <1>7, <2>2 DEF Bitfinex!EmitMessage
    <3>2. Bitfinex!Stored(i) \in SUBSET Trades
      BY <1>2 DEF Bitfinex!Stored
    <3>3. Bitfinex!EmitReady(market[i], order[market[i]], Bitfinex!Stored(i))
      BY <3>1
    <3> QED BY <1>2, <3>2, <3>3
  <2> QED BY <1>2, <1>7, <2>1, <2>2 DEF Bitfinex!EmitMessage
<1>8. CASE \E m \in {i, -i} : Bitfinex!EmitMessage(m)
  <2>1. PICK queue \in Seq(Trades), stored \in SUBSET Trades :
          Bitfinex!EmitReady(market[i], queue, stored)
    BY <1>7, <1>8
  <2> QED BY <1>2, <1>3, <2>1, ReadyEmits
<1> QED BY <1>1, <1>6, <1>8

-----------------------------------------------------------------------------
(***************************************************************************)
(* The pages of the recoveries.                                            *)
(***************************************************************************)

\* What a recovery has found for s before a page.
FoundSound(s) ==
  /\ rows \subseteq AllOf(s) /\ lastIDs[s] \in Nat
  /\ venue \in {"deribit", "binance"} => FollowsCursor(s, rows)

\* A page ends the recovery of s, with or without an error, or asks for another.
PageOutcome(s) ==
  \E found, kept \in SUBSET (rows \cup AllOf(s)), oldest \in Nat :
    /\ venue \in Numbered => FollowsCursor(s, kept)
    /\ \/ SymbolFailed(s, kept)
       \/ SymbolRecovered(s, found) /\ (venue \in Numbered => FollowsCursor(s, found))
       \/ NextPage(s, found, oldest, kept)
          /\ (venue \in {"deribit", "binance"} => FollowsCursor(s, found))

LEMMA NothingFollows ==
  ASSUME NEW s, lastIDs[s] \in Nat
  PROVE  FollowsCursor(s, {})
<1>1. Cardinality({}) = 0
  BY FS_EmptySet
<1>2. lastIDs[s] + 1 .. lastIDs[s] + 0 = {}
  OBVIOUS
<1> QED BY <1>1, <1>2 DEF FollowsCursor

LEMMA AnswersFacts ==
  ASSUME NEW s, NEW answer \in Answers(s)
  PROVE  answer \subseteq AllOf(s)
BY DEF Answers

\* The rank of a trade in a page is at most its id's distance.
LEMMA RanksTrail ==
  ASSUME MarketTyped, NEW s, NEW page \in SUBSET AllOf(s),
         NEW E \in Nat, \A i \in page : Id(i) >= E,
         NEW i \in page
  PROVE  /\ Rank(page, i) \in Nat /\ Rank(page, i) <= Id(i) - E + 1
         /\ \A j \in page : j < i => Rank(page, i) - Rank(page, j) <= Id(i) - Id(j)
<1>1. page \in SUBSET Nat /\ IsFiniteSet(page) /\ i \in Nat /\ i \in AllOf(s)
  BY IdFacts, FS_Subset
<1>2. /\ \A j \in page : Id(j) \in Nat /\ Id(j) >= E
      /\ \A j, k \in page : j < k => Id(j) < Id(k)
      /\ \A j, k \in page : Id(j) = Id(k) => j = k
  BY IdFacts
<1> DEFINE B(k) == {j \in page : j <= k}
           id == [j \in page |-> Id(j)]
<1>3. \A k : IsFiniteSet(B(k)) /\ Rank(page, k) = Cardinality(B(k)) /\ Cardinality(B(k)) \in Nat
  <2> SUFFICES ASSUME NEW k
               PROVE  IsFiniteSet(B(k)) /\ Rank(page, k) = Cardinality(B(k)) /\ Cardinality(B(k)) \in Nat
    OBVIOUS
  <2>1. B(k) \in SUBSET page /\ Rank(page, k) = Cardinality(B(k))
    BY DEF Rank
  <2> HIDE DEF B
  <2>2. IsFiniteSet(B(k))
    BY <1>1, <2>1, FS_Subset
  <2> QED BY <2>1, <2>2, FS_CardinalityType
\* A set of trades whose ids lie in an interval is no larger than it.
<1>4. ASSUME NEW S \in SUBSET page, NEW a \in Int, NEW b \in Int, a <= b + 1,
             \A j \in S : Id(j) \in a .. b
      PROVE  IsFiniteSet(S) /\ Cardinality(S) <= b - a + 1
  <2> DEFINE f == [j \in S |-> Id(j)]
  <2>1. IsFiniteSet(S) /\ IsFiniteSet(a .. b)
    BY <1>1, FS_Subset, FS_Interval
  <2>2. Cardinality(a .. b) = b - a + 1
    <3>1. CASE a <= b
      BY <3>1, FS_Interval
    <3>2. CASE a = b + 1
      <4>1. a .. b = {} /\ b - a + 1 = 0
        BY <3>2
      <4> QED BY <4>1, FS_EmptySet
    <3> QED BY <1>4, <3>1, <3>2
  <2>3. f \in Injection(S, a .. b)
    <3>1. f \in [S -> a .. b]
      BY <1>4
    <3>2. \A j, k \in S : f[j] = f[k] => j = k
      BY <1>2
    <3> QED BY <3>1, <3>2 DEF Injection, IsInjective
  <2> HIDE DEF f
  <2>4. Cardinality(S) <= Cardinality(a .. b)
    BY <2>1, <2>3, FS_Injection
  <2> QED BY <2>1, <2>2, <2>4
<1>5. Rank(page, i) <= Id(i) - E + 1
  <2>1. B(i) \in SUBSET page /\ \A j \in B(i) : Id(j) \in E .. Id(i)
    <3>1. ASSUME NEW j \in B(i) PROVE Id(j) \in E .. Id(i)
      <4>1. j \in page /\ j \in Nat /\ j <= i
        BY <1>1
      <4>2. j = i \/ j < i
        BY <1>1, <4>1
      <4>3. Id(j) <= Id(i)
        BY <1>2, <4>1, <4>2
      <4> QED BY <1>2, <4>1, <4>3
    <3> QED BY <3>1
  <2>2. Id(i) \in Int /\ E \in Int /\ E <= Id(i) + 1
    BY <1>2
  <2> HIDE DEF B
  <2>3. Cardinality(B(i)) <= Id(i) - E + 1
    BY <1>4, <2>1, <2>2
  <2> QED BY <1>3, <2>3
<1>6. ASSUME NEW j \in page, j < i
      PROVE  Rank(page, i) - Rank(page, j) <= Id(i) - Id(j)
  <2> DEFINE S == {k \in page : j < k /\ k <= i}
  <2>1. S \in SUBSET page /\ \A k \in S : Id(k) \in Id(j) + 1 .. Id(i)
    <3>1. ASSUME NEW k \in S PROVE Id(k) \in Id(j) + 1 .. Id(i)
      <4>1. k \in page /\ k \in Nat /\ j < k /\ k <= i
        BY <1>1
      <4>2. Id(j) < Id(k)
        BY <1>2, <4>1
      <4>3. k = i \/ k < i
        BY <1>1, <4>1
      <4>4. Id(k) <= Id(i)
        BY <1>2, <4>1, <4>3
      <4> QED BY <1>2, <4>1, <4>2, <4>4
    <3> QED BY <3>1
  <2>2. Id(i) \in Int /\ Id(j) + 1 \in Int /\ Id(j) + 1 <= Id(i) + 1
    BY <1>2, <1>6
  <2>3. B(i) = B(j) \cup S /\ B(j) \cap S = {}
    <3>1. j \in Nat /\ \A k \in page : k \in Nat
      BY <1>1
    <3>2. \A k \in page : k <= j => k <= i
      BY <1>1, <1>6, <3>1
    <3>3. \A k \in page : ~(k <= j) <=> j < k
      BY <3>1
    <3> QED BY <3>1, <3>2, <3>3
  <2> HIDE DEF S, B
  <2>4. IsFiniteSet(S) /\ Cardinality(S) <= Id(i) - (Id(j) + 1) + 1
    BY <1>4, <2>1, <2>2
  <2>5. Cardinality(B(i)) = Cardinality(B(j)) + Cardinality(S) - Cardinality(B(j) \cap S)
    BY <1>3, <2>3, <2>4, FS_Union
  <2>6. Cardinality(B(j) \cap S) = 0
    BY <2>3, FS_EmptySet
  <2>7. Cardinality(S) \in Nat
    BY <2>4, FS_CardinalityType
  <2>8. Id(i) \in Nat /\ Id(j) \in Nat
    BY <1>2
  <2> QED BY <1>3, <2>4, <2>5, <2>6, <2>7, <2>8
<1> QED BY <1>3, <1>5, <1>6

\* The trades of a forward page that come as expected follow what was found.
LEMMA ExpectedFollows ==
  ASSUME MarketTyped, NEW s, NEW page \in SUBSET AllOf(s),
         rows \subseteq AllOf(s), lastIDs[s] \in Nat, FollowsCursor(s, rows),
         \A i \in page : Id(i) >= Expected(s)
  PROVE  FollowsCursor(s, rows \cup AsExpected(s, page))
<1> DEFINE r == Cardinality(rows)
           E == lastIDs[s] + 1 + r
           good == AsExpected(s, page)
           g == Cardinality(good)
<1>1. page \in SUBSET Nat /\ IsFiniteSet(page) /\ IsFiniteSet(rows)
  BY IdFacts, FS_Subset
<1>2. r \in Nat
  BY <1>1, FS_CardinalityType
<1>3. E = Expected(s) /\ E \in Nat
  BY <1>2 DEF Expected
<1>4. /\ \A i \in page : Id(i) \in Nat /\ Id(i) >= E
      /\ \A i, j \in page : i < j => Id(i) < Id(j)
  BY <1>3, IdFacts
<1>5. \A i \in page : Rank(page, i) \in Nat /\ Rank(page, i) # 0
  <2>1. \A i \in page : Rank(page, i) \in 1 .. Cardinality(page)
    BY <1>1, RankFacts
  <2> QED BY <1>1, <2>1, FS_CardinalityType
\* The trades before i in the page are those up to i but i.
<1>6. ASSUME NEW i \in page
      PROVE  Cardinality({j \in page : j < i}) = Rank(page, i) - 1
  <2> DEFINE B == {j \in page : j <= i}
  <2>1. {j \in page : j < i} = B \ {i} /\ i \in B /\ B \in SUBSET page
    <3>1. i \in Nat /\ \A j \in page : j \in Nat
      BY <1>1
    <3>2. \A j \in page : j < i <=> (j <= i /\ j # i)
      BY <3>1
    <3>3. {j \in page : j < i} = {j \in page : j <= i /\ j # i}
      BY <3>2
    <3>4. {j \in page : j <= i /\ j # i} = B \ {i}
      OBVIOUS
    <3>5. i \in B /\ B \in SUBSET page
      BY <3>1
    <3> QED BY <3>3, <3>4, <3>5
  <2>2. Rank(page, i) = Cardinality(B)
    BY DEF Rank
  <2> HIDE DEF B
  <2>3. IsFiniteSet(B)
    BY <1>1, <2>1, FS_Subset
  <2> QED BY <2>1, <2>2, <2>3, FS_RemoveElement
<1>7. good \subseteq page /\ \A i \in page : i \in good <=> Id(i) = E + Rank(page, i) - 1
  <2>1. good \subseteq page
    BY DEF AsExpected
  <2>2. \A i \in page : i \in good <=> Id(i) = E + Cardinality({j \in page : j < i})
    BY <1>3 DEF AsExpected
  <2> HIDE DEF good, E
  <2>3. ASSUME NEW i \in page PROVE i \in good <=> Id(i) = E + Rank(page, i) - 1
    <3>1. E + Cardinality({j \in page : j < i}) = E + Rank(page, i) - 1
      BY <1>3, <1>5, <1>6
    <3> QED BY <2>2, <3>1
  <2> QED BY <2>1, <2>3
<1> HIDE DEF good, E, r
\* What comes before a trade as expected comes as expected.
<1>8. ASSUME NEW i \in good, NEW j \in page, j < i
      PROVE  j \in good
  <2>1. i \in page /\ Id(i) = E + Rank(page, i) - 1
    BY <1>7
  <2>2. \A k \in page : Id(k) >= E
    BY <1>4
  <2>3. /\ Rank(page, j) <= Id(j) - E + 1
        /\ Rank(page, i) - Rank(page, j) <= Id(i) - Id(j)
    BY <1>3, <1>8, <2>1, <2>2, RanksTrail
  <2>4. Id(i) \in Nat /\ Id(j) \in Nat /\ Rank(page, i) \in Nat /\ Rank(page, j) \in Nat
    BY <1>4, <1>5, <2>1
  <2>5. Id(j) = E + Rank(page, j) - 1
    BY <1>3, <2>1, <2>3, <2>4
  <2> QED BY <1>7, <2>5
<1>9. good \in SUBSET Nat /\ IsFiniteSet(good) /\ g \in Nat
  BY <1>1, <1>7, FS_Subset, FS_CardinalityType
<1>10. \A i \in good : Id(i) = E + Rank(good, i) - 1
  <2> SUFFICES ASSUME NEW i \in good PROVE Id(i) = E + Rank(good, i) - 1
    OBVIOUS
  <2>1. i \in page /\ i \in Nat /\ \A j \in page : j \in Nat
    BY <1>1, <1>7
  <2>2. \A j \in page : j <= i => j = i \/ j < i
    BY <2>1
  <2>3. {j \in page : j <= i} = {j \in good : j <= i}
    BY <1>7, <1>8, <2>2
  <2>4. Rank(page, i) = Rank(good, i)
    BY <2>3 DEF Rank
  <2>5. Id(i) = E + Rank(page, i) - 1
    BY <1>7, <2>1
  <2> QED BY <2>4, <2>5
<1>11. {Id(i) : i \in good} = E .. E + g - 1
  <2>1. /\ \A i \in good : Rank(good, i) \in 1 .. g
        /\ \A n \in 1 .. g : \E i \in good : Rank(good, i) = n
    BY <1>9, RankFacts
  <2> HIDE DEF g
  <2>2. \A i \in good : Id(i) \in E .. E + g - 1
    BY <1>3, <1>9, <1>10, <2>1
  <2>3. ASSUME NEW n \in E .. E + g - 1 PROVE \E i \in good : Id(i) = n
    <3>1. n - E + 1 \in 1 .. g
      BY <1>3, <1>9
    <3>2. PICK i \in good : Rank(good, i) = n - E + 1
      BY <2>1, <3>1
    <3>3. Id(i) = E + (n - E + 1) - 1
      BY <1>10, <3>2
    <3>4. Id(i) = n
      BY <1>3, <1>9, <3>3
    <3> QED BY <3>4
  <2> QED BY <2>2, <2>3
<1>12. {Id(i) : i \in rows} = lastIDs[s] + 1 .. lastIDs[s] + r
  BY DEF FollowsCursor, r
<1>13. rows \cap good = {}
  <2> SUFFICES ASSUME NEW i \in rows, i \in good PROVE FALSE
    OBVIOUS
  <2>1. Id(i) \in lastIDs[s] + 1 .. lastIDs[s] + r
    BY <1>12
  <2>2. Id(i) \in E .. E + g - 1
    BY <1>11
  <2> QED BY <1>2, <1>9, <2>1, <2>2 DEF E
<1>14. Cardinality(rows \cup good) = r + g
  <2>1. Cardinality(rows \cup good) = r + g - Cardinality(rows \cap good)
    BY <1>1, <1>9, FS_Union DEF r
  <2>2. Cardinality(rows \cap good) = 0
    BY <1>13, FS_EmptySet
  <2> HIDE DEF g
  <2> QED BY <1>2, <1>9, <2>1, <2>2
<1>15. {Id(i) : i \in rows \cup good} = {Id(i) : i \in rows} \cup {Id(i) : i \in good}
  OBVIOUS
<1> HIDE DEF g
<1>16. (lastIDs[s] + 1 .. lastIDs[s] + r) \cup (E .. E + g - 1)
         = lastIDs[s] + 1 .. lastIDs[s] + (r + g)
  BY <1>2, <1>9 DEF E
<1> QED BY <1>11, <1>12, <1>14, <1>15, <1>16 DEF FollowsCursor, good

LEMMA DeribitPage ==
  ASSUME MarketTyped, venue = "deribit", NEW s, FoundSound(s),
         NEW answer \in Answers(s), Deribit!RecoverPage(s, answer)
  PROVE  PageOutcome(s)
<1> USE DEF Deribit!requestVars, requestVars
<1> DEFINE page == Deribit!ForwardPage(s, answer)
           good == Deribit!AsExpected(s, page)
<1>1. answer \subseteq AllOf(s) /\ rows \subseteq AllOf(s) /\ lastIDs[s] \in Nat
      /\ FollowsCursor(s, rows)
  BY AnswersFacts DEF FoundSound
<1>2. \A S : Deribit!Cardinality(S) = Cardinality(S)
  BY DEF Deribit!Cardinality, Cardinality
<1>3. \A i : Deribit!Id(i) = Id(i)
  BY <1>2 DEF Deribit!Id, Id, Deribit!AllOf, AllOf
<1>4. Deribit!Expected(s) = Expected(s)
  BY <1>2 DEF Deribit!Expected, Expected
<1>5. page \subseteq answer /\ \A i \in page : Id(i) >= Expected(s)
  BY <1>3, <1>4 DEF Deribit!ForwardPage, Deribit!NotOlder
<1>6. good = AsExpected(s, page)
  BY <1>2, <1>3, <1>4 DEF Deribit!AsExpected, AsExpected
<1>7. /\ \A kept : Deribit!SymbolFailed(s, kept) <=> SymbolFailed(s, kept)
      /\ \A found : Deribit!SymbolRecovered(s, found) <=> SymbolRecovered(s, found)
      /\ \A found, oldest, kept :
           Deribit!NextPage(s, found, oldest, kept) <=> NextPage(s, found, oldest, kept)
  BY DEF Deribit!SymbolFailed, SymbolFailed, Deribit!SymbolRecovered, SymbolRecovered,
         Deribit!NextPage, NextPage, Deribit!NextSymbol, NextSymbol
<1>8. FollowsCursor(s, rows \cup good)
  <2>1. page \in SUBSET AllOf(s)
    BY <1>1, <1>5
  <2> HIDE DEF page
  <2> QED BY <1>1, <1>5, <1>6, <2>1, ExpectedFollows
<1>9. good \subseteq page
  BY <1>6 DEF AsExpected
<1>10. \/ SymbolFailed(s, rows \cup good)
       \/ good = page /\ SymbolRecovered(s, rows \cup page)
       \/ good = page /\ NextPage(s, rows \cup page, 0, rows \cup page)
  BY <1>7 DEF Deribit!RecoverPage
<1> HIDE DEF page, good
<1>11. rows \cup good \in SUBSET (rows \cup AllOf(s))
  BY <1>1, <1>5, <1>9
<1>12. 0 \in Nat
  OBVIOUS
<1> QED BY <1>8, <1>10, <1>11, <1>12 DEF PageOutcome

LEMMA BinancePage ==
  ASSUME MarketTyped, venue = "binance", NEW s, FoundSound(s),
         NEW answer \in Answers(s), Binance!RecoverPage(s, answer)
  PROVE  PageOutcome(s)
<1> USE DEF Binance!requestVars, requestVars
<1> DEFINE page == Binance!ForwardPage(s, answer)
           good == Binance!AsExpected(s, page)
<1>1. answer \subseteq AllOf(s) /\ rows \subseteq AllOf(s) /\ lastIDs[s] \in Nat
      /\ FollowsCursor(s, rows)
  BY AnswersFacts DEF FoundSound
<1>2. \A S : Binance!Cardinality(S) = Cardinality(S)
  BY DEF Binance!Cardinality, Cardinality
<1>3. \A i : Binance!Id(i) = Id(i)
  BY <1>2 DEF Binance!Id, Id, Binance!AllOf, AllOf
<1>4. Binance!Expected(s) = Expected(s)
  BY <1>2 DEF Binance!Expected, Expected
<1>5. page \subseteq answer /\ \A i \in page : Id(i) >= Expected(s)
  BY <1>3, <1>4 DEF Binance!ForwardPage, Binance!NotOlder
<1>6. good = AsExpected(s, page)
  BY <1>2, <1>3, <1>4 DEF Binance!AsExpected, AsExpected
<1>7. /\ \A kept : Binance!SymbolFailed(s, kept) <=> SymbolFailed(s, kept)
      /\ \A found : Binance!SymbolRecovered(s, found) <=> SymbolRecovered(s, found)
      /\ \A found, oldest, kept :
           Binance!NextPage(s, found, oldest, kept) <=> NextPage(s, found, oldest, kept)
  BY DEF Binance!SymbolFailed, SymbolFailed, Binance!SymbolRecovered, SymbolRecovered,
         Binance!NextPage, NextPage, Binance!NextSymbol, NextSymbol
<1>8. FollowsCursor(s, rows \cup good)
  <2>1. page \in SUBSET AllOf(s)
    BY <1>1, <1>5
  <2> HIDE DEF page
  <2> QED BY <1>1, <1>5, <1>6, <2>1, ExpectedFollows
<1>9. good \subseteq page
  BY <1>6 DEF AsExpected
<1>10. \/ SymbolFailed(s, rows \cup good)
       \/ good = page /\ SymbolRecovered(s, rows \cup page)
       \/ good = page /\ NextPage(s, rows \cup page, 0, rows \cup page)
  BY <1>7 DEF Binance!RecoverPage
<1> HIDE DEF page, good
<1>11. rows \cup good \in SUBSET (rows \cup AllOf(s))
  BY <1>1, <1>5, <1>9
<1>12. 0 \in Nat
  OBVIOUS
<1> QED BY <1>8, <1>10, <1>11, <1>12 DEF PageOutcome

LEMMA CoinbasePage ==
  ASSUME MarketTyped, venue = "coinbase", NEW s, FoundSound(s),
         NEW answer \in Answers(s), Coinbase!RecoverPage(s, answer)
  PROVE  PageOutcome(s)
<1> USE DEF Coinbase!requestVars, requestVars
<1> DEFINE page == Coinbase!Page(answer)
           found == rows \cup {i \in page : Coinbase!Id(i) > lastIDs[s]}
           oldest == Coinbase!Id(Coinbase!Min(page))
<1>1. answer \subseteq AllOf(s) /\ rows \subseteq AllOf(s) /\ lastIDs[s] \in Nat
  BY AnswersFacts DEF FoundSound
<1>2. \A S : Coinbase!Cardinality(S) = Cardinality(S)
  BY DEF Coinbase!Cardinality, Cardinality
<1>3. \A i : Coinbase!Id(i) = Id(i)
  BY <1>2 DEF Coinbase!Id, Id, Coinbase!AllOf, AllOf
<1>4. page \subseteq answer
  BY DEF Coinbase!Page, Coinbase!Newest
<1>5. \A S : Coinbase!FollowsCursor(s, S) <=> FollowsCursor(s, S)
  BY <1>2, <1>3 DEF Coinbase!FollowsCursor, FollowsCursor
<1>6. /\ \A kept : Coinbase!SymbolFailed(s, kept) <=> SymbolFailed(s, kept)
      /\ \A f : Coinbase!SymbolRecovered(s, f) <=> SymbolRecovered(s, f)
      /\ \A f, o, kept : Coinbase!NextPage(s, f, o, kept) <=> NextPage(s, f, o, kept)
  BY DEF Coinbase!SymbolFailed, SymbolFailed, Coinbase!SymbolRecovered, SymbolRecovered,
         Coinbase!NextPage, NextPage, Coinbase!NextSymbol, NextSymbol
<1>7. \/ SymbolFailed(s, {})
      \/ FollowsCursor(s, found) /\ SymbolRecovered(s, found)
      \/ NextPage(s, found, oldest, {})
  BY <1>5, <1>6 DEF Coinbase!RecoverPage
<1>8. oldest \in Nat
  BY <1>3, MarketFacts
<1>9. found \in SUBSET (rows \cup AllOf(s))
  BY <1>1, <1>4
<1> HIDE DEF page, found, oldest
<1>10. FollowsCursor(s, {})
  BY <1>1, NothingFollows
<1>11. venue \notin {"deribit", "binance"}
  OBVIOUS
<1> QED BY <1>7, <1>8, <1>9, <1>10, <1>11 DEF PageOutcome

LEMMA HyperliquidPage ==
  ASSUME MarketTyped, venue = "hyperliquid", NEW s,
         NEW answer \in Answers(s), Hyperliquid!RecoverPage(s, answer)
  PROVE  PageOutcome(s)
<1> USE DEF Hyperliquid!requestVars, requestVars
<1> DEFINE page == Hyperliquid!Newest(answer)
           found == {i \in page : Hyperliquid!Id(i) > lastIDs[s]}
<1>1. answer \subseteq AllOf(s)
  BY AnswersFacts
<1>2. found \in SUBSET (rows \cup AllOf(s))
  BY <1>1 DEF Hyperliquid!Newest
<1>3. SymbolFailed(s, {}) \/ SymbolRecovered(s, found)
  BY DEF Hyperliquid!RecoverPage, Hyperliquid!SymbolFailed, SymbolFailed,
         Hyperliquid!SymbolRecovered, SymbolRecovered, Hyperliquid!NextSymbol, NextSymbol
<1>4. venue \notin Numbered
  BY DEF Numbered
<1> HIDE DEF found
<1>5. 0 \in Nat
  OBVIOUS
<1> QED BY <1>2, <1>3, <1>4, <1>5 DEF PageOutcome

LEMMA PhoenixPage ==
  ASSUME MarketTyped, venue = "phoenix", NEW s,
         NEW answer \in Answers(s), Phoenix!RecoverPage(s, answer)
  PROVE  PageOutcome(s)
<1> USE DEF Phoenix!requestVars, requestVars
<1> DEFINE window == {i \in answer : /\ Phoenix!Moment(i) >= Phoenix!Moment(Phoenix!Anchor(s))
                                     /\ Phoenix!Moment(i) < until}
           older == {i \in window : \A j \in rows : i < j}
           found == rows \cup Phoenix!Newest(older)
           later == {i \in found : i > Phoenix!Anchor(s)}
<1>1. answer \subseteq AllOf(s)
  BY AnswersFacts
<1>2. Phoenix!Newest(older) \subseteq answer
  BY DEF Phoenix!Newest
<1>3. found \in SUBSET (rows \cup AllOf(s)) /\ later \in SUBSET (rows \cup AllOf(s))
  BY <1>1, <1>2
<1>4. \/ SymbolFailed(s, {}) \/ SymbolRecovered(s, later)
      \/ NextPage(s, found, 0, {})
  BY DEF Phoenix!RecoverPage, Phoenix!SymbolFailed, SymbolFailed,
         Phoenix!SymbolRecovered, SymbolRecovered, Phoenix!NextPage, NextPage,
         Phoenix!NextSymbol, NextSymbol
<1>5. venue \notin Numbered /\ venue \notin {"deribit", "binance"}
  BY DEF Numbered
<1> HIDE DEF found, later
<1>6. 0 \in Nat
  OBVIOUS
<1> QED BY <1>3, <1>4, <1>5, <1>6 DEF PageOutcome

-----------------------------------------------------------------------------
(***************************************************************************)
(* The recovery is well-formed.                                            *)
(***************************************************************************)
RecoveryTyped ==
  /\ todo \subseteq Symbols /\ givenUp \subseteq Symbols /\ disturbed \subseteq Symbols
  /\ pages \in 0 .. MaxPages /\ (venue # "bybit" => pages < MaxPages) /\ after \in Nat
  /\ rows \subseteq Trades /\ recovered \subseteq Trades /\ uncovered \subseteq Trades

LEMMA GrowingKeepsRecovery ==
  ASSUME MarketTyped, RecoveryTyped, Grows, UNCHANGED <<venue, recoveryVars>>,
         disturbed' \subseteq Symbols
  PROVE  RecoveryTyped'
<1>1. Trades \subseteq Trades'
  BY MarketGrows
<1> QED BY <1>1 DEF RecoveryTyped, recoveryVars, requestVars

LEMMA PageTyped ==
  ASSUME MarketTyped, RecoveryTyped, market' = market, UNCHANGED venue, venue # "bybit",
         disturbed' \subseteq Symbols, NEW s \in Symbols,
         PageOutcome(s) \/ \E kept \in SUBSET Trades : SymbolFailed(s, kept)
  PROVE  RecoveryTyped'
<1>1. Trades' = Trades /\ AllOf(s) \subseteq Trades /\ rows \subseteq Trades
  BY MarketFacts DEF Trades, RecoveryTyped
<1>2. MaxPages \in Nat /\ MaxPages # 0
  BY SessionAssumption
<1>3. ASSUME NEW kept \in SUBSET Trades, SymbolFailed(s, kept) PROVE RecoveryTyped'
  BY <1>1, <1>2, <1>3 DEF SymbolFailed, NextSymbol, RecoveryTyped
<1>4. ASSUME NEW found \in SUBSET Trades, SymbolRecovered(s, found) PROVE RecoveryTyped'
  BY <1>1, <1>2, <1>4 DEF SymbolRecovered, NextSymbol, RecoveryTyped
<1>5. ASSUME NEW found \in SUBSET Trades, NEW kept \in SUBSET Trades, NEW oldest \in Nat,
             NextPage(s, found, oldest, kept)
      PROVE  RecoveryTyped'
  <2>1. CASE pages + 1 = MaxPages
    BY <1>3, <1>5, <2>1 DEF NextPage
  <2>2. CASE pages + 1 # MaxPages
    <3>1. /\ pages' = pages + 1 /\ after' = oldest /\ rows' = found
          /\ UNCHANGED <<todo, recovered, givenUp, uncovered>>
      BY <1>5, <2>2 DEF NextPage
    <3>2. pages \in Nat /\ pages < MaxPages
      BY <1>2 DEF RecoveryTyped
    <3>3. pages' \in 0 .. MaxPages /\ pages' < MaxPages
      BY <1>2, <2>2, <3>1, <3>2
    <3> QED BY <1>1, <3>1, <3>3 DEF RecoveryTyped
  <2> QED BY <2>1, <2>2
<1>6. rows \cup AllOf(s) \subseteq Trades
  BY <1>1
<1> QED BY <1>3, <1>4, <1>5, <1>6 DEF PageOutcome

LEMMA AckTyped ==
  ASSUME MarketTyped, RecoveryTyped, UNCHANGED venue, AwaitAck
  PROVE  RecoveryTyped'
<1>1. Trades' = Trades
  BY DEF AwaitAck, Trades
<1> QED BY <1>1 DEF AwaitAck, RecoveryTyped, requestVars, boundVars, faultVars

LEMMA TakenTyped ==
  ASSUME MarketTyped, RecoveryTyped, UNCHANGED venue, NEW i,
         TakeRecovered(i) \/ TakeBuffered(i) \/ TakeLive(i)
  PROVE  RecoveryTyped'
<1>1. market' = market /\ Trades' = Trades
  BY DEF TakeRecovered, TakeBuffered, TakeLive, exchangeVars, Trades
<1>2. disturbed' = disturbed
  BY DEF TakeRecovered, TakeBuffered, TakeLive, boundVars, faultVars
<1>3. CASE TakeRecovered(i)
  BY <1>1, <1>2, <1>3 DEF TakeRecovered, RecoveryTyped, requestVars
<1>4. CASE TakeBuffered(i) \/ TakeLive(i)
  BY <1>1, <1>2, <1>4, GrowingKeepsRecovery DEF TakeBuffered, TakeLive, RecoveryTyped, Grows
<1> QED BY <1>3, <1>4

\* A step that leaves the recovery alone disturbs no more than symbols.
LEMMA AloneTyped ==
  ASSUME MarketTyped, RecoveryTyped, UNCHANGED venue,
         \/ SharedStep \/ (\E r : Accept(r)) \/ AwaitTrade \/ AwaitFails
         \/ ReadWithBacklog \/ ReadIntoChannel \/ RecoveryDone \/ TickComes
         \/ UNCHANGED vars
  PROVE  RecoveryTyped'
<1> USE DEF boundVars, faultVars
<1>1. SharedStep => Grows /\ UNCHANGED recoveryVars /\ disturbed' \subseteq Symbols
  <2>1. ASSUME NEW s \in Symbols, TradeComes(s)
        PROVE  Grows /\ UNCHANGED recoveryVars /\ disturbed' \subseteq Symbols
    BY <2>1 DEF TradeComes, Grows, Push, RecoveryTyped
  <2>2. CASE Break
    BY <2>2 DEF Break, Grows, RecoveryTyped
  <2>3. CASE Acknowledge
    BY <2>3 DEF Acknowledge, Grows, RecoveryTyped
  <2>4. CASE Dial
    BY <2>4 DEF Dial, Grows, RecoveryTyped
  <2>5. CASE SessionOver
    BY <2>5 DEF SessionOver, Grows, RecoveryTyped
  <2> QED BY <2>1, <2>2, <2>3, <2>4, <2>5 DEF SharedStep
<1>2. (\E r : Accept(r)) => Grows /\ UNCHANGED recoveryVars /\ disturbed' \subseteq Symbols
  BY DEF Accept, Grows, RecoveryTyped
<1>3. AwaitTrade \/ AwaitFails => Grows /\ UNCHANGED recoveryVars /\ disturbed' \subseteq Symbols
  BY DEF AwaitTrade, AwaitFails, Grows, RecoveryTyped
<1>4. ReadFails => Grows /\ UNCHANGED recoveryVars /\ disturbed' \subseteq Symbols
  BY DEF ReadFails, exchangeVars, Grows, RecoveryTyped
<1>5. ReadWithBacklog \/ ReadIntoChannel =>
        Grows /\ UNCHANGED recoveryVars /\ disturbed' \subseteq Symbols
  BY <1>4 DEF ReadWithBacklog, ReadIntoChannel, Grows, RecoveryTyped
<1>6. RecoveryDone \/ TickComes => Grows /\ UNCHANGED recoveryVars /\ disturbed' \subseteq Symbols
  BY DEF RecoveryDone, TickComes, exchangeVars, Grows, RecoveryTyped
<1>7. UNCHANGED vars => Grows /\ UNCHANGED recoveryVars /\ disturbed' \subseteq Symbols
  BY DEF vars, sessionVars, exchangeVars, Grows, RecoveryTyped
<1> QED BY <1>1, <1>2, <1>3, <1>5, <1>6, <1>7, GrowingKeepsRecovery

LEMMA AnsweredTyped ==
  ASSUME disturbed \subseteq Symbols, NEW s \in Symbols, NEW answer, Answered(s, answer)
  PROVE  disturbed' \subseteq Symbols
BY DEF Answered, faultVars

LEMMA PageTakenTyped ==
  ASSUME MarketTyped, RecoveryTyped, UNCHANGED venue, venue # "bybit",
         NEW s \in Symbols, NEW answer, Answered(s, answer), PageOutcome(s),
         market' = market
  PROVE  RecoveryTyped'
<1>1. disturbed' \subseteq Symbols
  BY AnsweredTyped DEF RecoveryTyped
<1> QED BY <1>1, PageTyped

LEMMA RequestFailsTyped ==
  ASSUME MarketTyped, RecoveryTyped, UNCHANGED venue, venue # "bybit",
         NEW s \in Symbols, NEW kept \in SUBSET Trades, RequestFails(s, kept)
  PROVE  RecoveryTyped'
<1>1. market' = market /\ disturbed' \subseteq Symbols /\ SymbolFailed(s, kept)
  BY DEF RequestFails, exchangeVars, RecoveryTyped
<1> QED BY <1>1, PageTyped

LEMMA BybitTyped ==
  ASSUME MarketTyped, RecoveryTyped, asked \subseteq Symbols, UNCHANGED venue, venue = "bybit",
         BybitAnswer \/ BybitPass \/ BybitEnd
  PROVE  RecoveryTyped' /\ asked' \subseteq Symbols
<1>1. /\ todo \subseteq Symbols /\ givenUp \subseteq Symbols /\ disturbed \subseteq Symbols
      /\ pages \in 0 .. MaxPages /\ after \in Nat
      /\ rows \subseteq Trades /\ recovered \subseteq Trades /\ uncovered \subseteq Trades
  BY DEF RecoveryTyped
<1>2. MaxPages \in Nat \ {0} /\ 0 \in 0 .. MaxPages /\ 1 \in 0 .. MaxPages
  BY SessionAssumption
<1>3. CASE BybitAnswer
  <2>0. PICK s \in Symbols : \E answer \in Answers(s) :
          /\ Answered(s, answer) /\ Bybit!RecoverPage(s, answer)
          /\ UNCHANGED <<exchangeVars, todo, pages, after, recovered, uncovered>>
    BY <1>3 DEF BybitAnswer
  <2>1. PICK answer \in Answers(s) :
          /\ Answered(s, answer) /\ Bybit!RecoverPage(s, answer)
          /\ UNCHANGED <<exchangeVars, todo, pages, after, recovered, uncovered>>
    BY <2>0
  <2>2. Trades' = Trades /\ AllOf(s) \subseteq Trades /\ answer \subseteq AllOf(s)
    BY <2>1, MarketFacts, AnswersFacts DEF exchangeVars, Trades
  <2>3. disturbed' \subseteq Symbols
    BY <1>1, <2>1, AnsweredTyped
  <2>4. Bybit!Newest(answer) \subseteq answer
    BY DEF Bybit!Newest
  <2>5. rows' \subseteq Trades /\ givenUp' \subseteq Symbols /\ asked' \subseteq Symbols
    BY <1>1, <2>1, <2>2, <2>4 DEF Bybit!RecoverPage
  <2> QED BY <1>1, <2>1, <2>2, <2>3, <2>5 DEF RecoveryTyped
<1>4. \A S : Bybit!Accepted(S) \subseteq Trades
  BY <1>1 DEF Bybit!Accepted
<1>5. CASE BybitPass
  <2>1. PICK done, again : Bybit!PassEnds(done, again)
    BY <1>5 DEF BybitPass
  <2>2. Trades' = Trades /\ disturbed' = disturbed
    BY <1>5 DEF BybitPass, exchangeVars, boundVars, faultVars, Trades
  <2>3. /\ todo' \subseteq todo /\ asked' \subseteq asked /\ rows' \subseteq rows
        /\ recovered' = recovered \cup Bybit!Accepted(done)
        /\ pages' \in {0, 1} /\ UNCHANGED <<after, givenUp, uncovered>>
    BY <2>1 DEF Bybit!PassEnds
  <2> QED BY <1>1, <1>2, <1>4, <2>2, <2>3 DEF RecoveryTyped
<1>6. CASE BybitEnd
  <2>1. Bybit!RecoveryEnds
    BY <1>6 DEF BybitEnd
  <2>2. Trades' = Trades /\ disturbed' = disturbed
    BY <1>6 DEF BybitEnd, exchangeVars, Trades
  <2> QED BY <1>1, <1>2, <1>4, <2>1, <2>2 DEF RecoveryTyped, Bybit!RecoveryEnds
<1> QED BY <1>3, <1>5, <1>6

LEMMA PhoenixTyped ==
  ASSUME MarketTyped, RecoveryTyped, UNCHANGED venue, venue = "phoenix",
         Phoenix!AcceptNow \/ PhoenixAck \/ PhoenixAnswer \/ PhoenixWaitFails \/ PhoenixDone
         \/ PhoenixEmits
  PROVE  RecoveryTyped'
<1>1. /\ todo \subseteq Symbols /\ givenUp \subseteq Symbols /\ disturbed \subseteq Symbols
      /\ pages \in 0 .. MaxPages /\ (venue # "bybit" => pages < MaxPages) /\ after \in Nat
      /\ rows \subseteq Trades /\ recovered \subseteq Trades /\ uncovered \subseteq Trades
  BY DEF RecoveryTyped
<1>2. CASE Phoenix!AcceptNow
  <2>1. /\ market' = market /\ UNCHANGED <<todo, pages, after, rows, recovered, givenUp, disturbed>>
        /\ uncovered' \subseteq uncovered \cup Phoenix!Trades
    BY <1>2 DEF Phoenix!AcceptNow, Phoenix!requestVars, Phoenix!boundVars, Phoenix!faultVars
  <2>2. Phoenix!Trades = Trades /\ Trades' = Trades
    BY <2>1 DEF Phoenix!Trades, Phoenix!Tick, Trades, Tick
  <2> QED BY <1>1, <2>1, <2>2 DEF RecoveryTyped
<1>3. CASE PhoenixAck
  <2>1. /\ market' = market
        /\ UNCHANGED <<pages, after, rows, recovered, givenUp, disturbed>>
        /\ uncovered' \subseteq uncovered /\ todo' \subseteq Symbols
    BY <1>3 DEF PhoenixAck, requestVars, boundVars, faultVars, Phoenix!Anchored
  <2>2. Trades' = Trades
    BY <2>1 DEF Trades
  <2> QED BY <1>1, <2>1, <2>2 DEF RecoveryTyped
<1>4. CASE PhoenixAnswer
  <2>0. PICK s \in Symbols : \E answer \in Answers(s) :
          Answered(s, answer) /\ Phoenix!RecoverPage(s, answer) /\ market' = market
    BY <1>4 DEF PhoenixAnswer, exchangeVars
  <2>1. PICK answer \in Answers(s) :
          Answered(s, answer) /\ Phoenix!RecoverPage(s, answer) /\ market' = market
    BY <2>0
  <2>2. venue # "bybit" /\ PageOutcome(s)
    BY <2>1, PhoenixPage
  <2> QED BY <2>1, <2>2, PageTakenTyped
<1>5. CASE PhoenixWaitFails
  <2>1. /\ market' = market
        /\ UNCHANGED <<pages, after, rows, recovered, uncovered, disturbed>>
        /\ givenUp' = givenUp \cup todo /\ todo' = {}
    BY <1>5 DEF PhoenixWaitFails, requestVars, faultVars, exchangeVars
  <2>2. Trades' = Trades
    BY <2>1 DEF Trades
  <2> QED BY <1>1, <2>1, <2>2 DEF RecoveryTyped
<1>6. CASE PhoenixDone
  BY <1>6, AloneTyped DEF PhoenixDone
<1>7. CASE PhoenixEmits
  BY <1>7, TakenTyped DEF PhoenixEmits
<1> QED BY <1>2, <1>3, <1>4, <1>5, <1>6, <1>7

LEMMA BitfinexTyped ==
  ASSUME MarketTyped, RecoveryTyped, UNCHANGED venue, venue = "bitfinex",
         gaps \subseteq Symbols, confirming \subseteq Trades,
         \/ \E s \in Symbols : Executed(s)
         \/ \E i \in Trades : Updated(i)
         \/ BitfinexAnswer \/ BitfinexRequestFails
  PROVE  RecoveryTyped' /\ gaps' \subseteq Symbols /\ confirming' \subseteq Trades'
<1>1. /\ todo \subseteq Symbols /\ givenUp \subseteq Symbols /\ disturbed \subseteq Symbols
      /\ pages \in 0 .. MaxPages /\ (venue # "bybit" => pages < MaxPages) /\ after \in Nat
      /\ rows \subseteq Trades /\ recovered \subseteq Trades /\ uncovered \subseteq Trades
  BY DEF RecoveryTyped
<1>2. ASSUME NEW s \in Symbols, Executed(s)
      PROVE  RecoveryTyped' /\ gaps' \subseteq Symbols /\ confirming' \subseteq Trades'
  <2>1. Grows /\ UNCHANGED recoveryVars /\ disturbed' \subseteq Symbols
    BY <1>1, <1>2 DEF Executed, Grows, Push, faultVars
  <2>2. Trades \subseteq Trades'
    BY <2>1, MarketGrows
  <2>3. Len(market) + 1 \in Trades'
    <3>1. s # Tick
      BY SessionAssumption DEF Tick
    <3> QED BY <1>2, <3>1 DEF Executed, MarketTyped, Trades
  <2> QED BY <1>2, <2>1, <2>2, <2>3, GrowingKeepsRecovery DEF Executed
<1>3. ASSUME NEW i \in Trades, Updated(i)
      PROVE  RecoveryTyped' /\ gaps' \subseteq Symbols /\ confirming' \subseteq Trades'
  <2>1. market' = market /\ UNCHANGED recoveryVars /\ disturbed' \subseteq Symbols
    BY <1>1, <1>3 DEF Updated, Push, faultVars
  <2>2. Trades' = Trades
    BY <2>1 DEF Trades
  <2> QED BY <1>3, <2>1, <2>2, GrowingKeepsRecovery DEF Updated, Grows
<1>4. CASE BitfinexAnswer
  <2>0. PICK s \in Symbols : \E answer \in Answers(s) :
          /\ Answered(s, answer) /\ Bitfinex!RecoverPage(s, answer)
          /\ market' = market /\ confirming' = confirming
    BY <1>4 DEF BitfinexAnswer, exchangeVars
  <2>1. PICK answer \in Answers(s) :
          /\ Answered(s, answer) /\ Bitfinex!RecoverPage(s, answer)
          /\ market' = market /\ confirming' = confirming
    BY <2>0
  <2>2. disturbed' \subseteq Symbols
    BY <1>1, <2>1, AnsweredTyped
  <2>3. Trades' = Trades /\ answer \subseteq Trades
    BY <2>1, MarketFacts, AnswersFacts DEF Trades
  <2> DEFINE within == {i \in answer : after = 0 \/ Bitfinex!Moment(i) + 1 < after}
             page == Bitfinex!Newest(within)
             oldest == CHOOSE i \in page : \A j \in page : i <= j
             found == rows \cup {i \in page : Bitfinex!Id(i) > lastIDs[s]}
  <2>4. page \subseteq answer /\ within \subseteq answer
    BY DEF Bitfinex!Newest
  <2>5. found \in SUBSET Trades
    BY <1>1, <2>3, <2>4
  <2>6. page # {} => oldest \in page /\ Bitfinex!Moment(oldest) \in Nat
    <3> SUFFICES ASSUME page # {} PROVE oldest \in page /\ Bitfinex!Moment(oldest) \in Nat
      OBVIOUS
    <3>1. answer \in SUBSET AllOf(s)
      BY AnswersFacts
    <3>2. page \in SUBSET AllOf(s)
      BY <2>4, <3>1
    <3> HIDE DEF page
    <3>3. page \in SUBSET Nat /\ IsFiniteSet(page)
      BY <3>2, IdFacts, FS_Subset
    <3>4. \E i \in page : \A j \in page : i <= j
      BY <3>3, MinFacts
    <3>5. oldest \in page
      BY <3>4
    <3>6. oldest \in DOMAIN market
      BY <3>2, <3>5 DEF AllOf
    <3>7. Bitfinex!Moment(oldest) = Moment(oldest)
      <4>1. \A S : Bitfinex!Cardinality(S) = Cardinality(S)
        BY DEF Bitfinex!Cardinality, Cardinality
      <4> QED BY <4>1 DEF Bitfinex!Moment, Moment, Bitfinex!Tick, Tick
    <3> QED BY <3>5, <3>6, <3>7, MarketFacts
  <2>7. \/ SymbolRecovered(s, found) /\ UNCHANGED gaps
        \/ SymbolFailed(s, {}) /\ gaps' = gaps \cup {s}
        \/ /\ page # {} /\ pages + 1 # MaxPages
           /\ pages' = pages + 1 /\ after' = Bitfinex!Moment(oldest) + 1 /\ rows' = found
           /\ uncovered' \subseteq uncovered \cup within
           /\ UNCHANGED <<todo, recovered, givenUp, gaps>>
    BY <2>1 DEF Bitfinex!RecoverPage, Bitfinex!SymbolRecovered, SymbolRecovered,
        Bitfinex!SymbolFailed, SymbolFailed, Bitfinex!NextSymbol, NextSymbol
  <2> HIDE DEF within, page, oldest, found
  <2>8. CASE SymbolRecovered(s, found) /\ UNCHANGED gaps
    <3>1. MaxPages \in Nat /\ MaxPages # 0
      BY SessionAssumption
    <3>2. RecoveryTyped'
      BY <1>1, <2>2, <2>3, <2>5, <2>8, <3>1 DEF SymbolRecovered, NextSymbol, RecoveryTyped
    <3> QED BY <2>1, <2>3, <2>8, <3>2
  <2>9. CASE SymbolFailed(s, {}) /\ gaps' = gaps \cup {s}
    <3>1. venue # "bybit" /\ {} \in SUBSET Trades
      OBVIOUS
    <3>2. RecoveryTyped'
      BY <2>1, <2>2, <2>9, <3>1, PageTyped
    <3> QED BY <2>1, <2>3, <2>9, <3>2
  <2>10. CASE /\ page # {} /\ pages + 1 # MaxPages
              /\ pages' = pages + 1 /\ after' = Bitfinex!Moment(oldest) + 1 /\ rows' = found
              /\ uncovered' \subseteq uncovered \cup within
              /\ UNCHANGED <<todo, recovered, givenUp, gaps>>
    <3>1. MaxPages \in Nat /\ pages \in Nat /\ pages < MaxPages
      BY <1>1, SessionAssumption
    <3>2. pages' \in 0 .. MaxPages /\ pages' < MaxPages
      BY <2>10, <3>1
    <3>3. after' \in Nat
      BY <2>6, <2>10
    <3>4. rows' \subseteq Trades /\ uncovered' \subseteq Trades
      BY <1>1, <2>3, <2>4, <2>5, <2>10
    <3>5. RecoveryTyped'
      BY <1>1, <2>2, <2>3, <2>10, <3>2, <3>3, <3>4 DEF RecoveryTyped
    <3> QED BY <2>1, <2>3, <2>10, <3>5
  <2> QED BY <2>7, <2>8, <2>9, <2>10
<1>5. CASE BitfinexRequestFails
  <2>1. PICK s \in Symbols : RequestFails(s, {}) /\ gaps' = gaps \cup {s} /\ confirming' = confirming
    BY <1>5 DEF BitfinexRequestFails
  <2>2. Trades' = Trades /\ {} \in SUBSET Trades /\ venue # "bybit"
    BY <2>1 DEF RequestFails, exchangeVars, Trades
  <2>3. RecoveryTyped'
    BY <2>1, <2>2, RequestFailsTyped
  <2> QED BY <2>1, <2>2, <2>3
<1> QED BY <1>2, <1>3, <1>4, <1>5

-----------------------------------------------------------------------------
(***************************************************************************)
(* Where trades are numbered, a recovery is contiguous.                    *)
(***************************************************************************)
RecoverySound ==
  venue \in Numbered =>
    /\ phase # "recovering" => todo = {}
    /\ phase \in {"down", "awaiting"} => recovered = {}
    /\ todo = {} => rows = {}
    /\ \A s \in todo : recovered \cap AllOf(s) = {}
    /\ phase = "recovering" => \A s \in Symbols : FollowsCursor(s, recovered \cap AllOf(s))
    /\ \A s \in Symbols : Recovering(s) => FoundSound(s)

LEMMA GrowingKeepsCursor ==
  ASSUME MarketTyped, Grows, UNCHANGED lastIDs, NEW s, NEW found \in SUBSET Trades,
         FollowsCursor(s, found)
  PROVE  FollowsCursor(s, found)'
<1>1. \A i \in found : Id(i)' = Id(i)
  BY MarketGrows DEF Trades
<1> QED BY <1>1 DEF FollowsCursor

\* The steps that are not of a recovery.
AsideStep ==
  /\ Grows /\ UNCHANGED <<recoveryVars, lastIDs>>
  /\ phase' = "recovering" => phase = "recovering"
  /\ phase = "recovering" /\ phase' # "recovering" => todo = {}
  /\ phase' \in {"down", "awaiting"} => phase \in {"down", "awaiting"} \/ recovered = {}

LEMMA AsideSound ==
  ASSUME MarketTyped, RecoveryTyped, RecoverySound, UNCHANGED venue, AsideStep
  PROVE  RecoverySound'
<1> SUFFICES ASSUME venue \in Numbered PROVE RecoverySound'
  BY DEF RecoverySound, Numbered
<1>1. /\ Grows /\ UNCHANGED <<todo, pages, after, rows, recovered, lastIDs>>
      /\ rows \subseteq Trades /\ recovered \subseteq Trades
  BY DEF AsideStep, RecoveryTyped, recoveryVars, requestVars
<1>2. \A s : recovered \cap AllOf(s)' = recovered \cap AllOf(s)
  <2>1. recovered \subseteq DOMAIN market
    BY <1>1 DEF Trades
  <2> QED BY <1>1, <2>1, MarketGrows
<1>3. /\ phase' # "recovering" => todo' = {}
      /\ phase' \in {"down", "awaiting"} => recovered' = {}
      /\ todo' = {} => rows' = {}
      /\ \A s \in todo' : recovered' \cap AllOf(s)' = {}
  BY <1>1, <1>2 DEF AsideStep, RecoverySound
<1>4. ASSUME phase' = "recovering", NEW s \in Symbols
      PROVE  FollowsCursor(s, recovered \cap AllOf(s))'
  <2>1. FollowsCursor(s, recovered \cap AllOf(s)) /\ recovered \cap AllOf(s) \in SUBSET Trades
    BY <1>1, <1>4 DEF AsideStep, RecoverySound
  <2>2. \A i \in recovered \cap AllOf(s) : Id(i)' = Id(i)
    BY <1>1, <2>1, MarketGrows DEF Trades
  <2>3. (recovered \cap AllOf(s))' = recovered \cap AllOf(s)
    BY <1>1, <1>2
  <2> QED BY <1>1, <2>1, <2>2, <2>3 DEF FollowsCursor
<1>5. ASSUME NEW s \in Symbols, Recovering(s)' PROVE FoundSound(s)'
  <2>1. phase = "recovering"
    BY <1>5 DEF Recovering, AsideStep
  <2>2. Recovering(s)
    BY <1>1, <1>5, <2>1 DEF Recovering
  <2>3. FoundSound(s)
    BY <2>2 DEF RecoverySound
  <2>4. AllOf(s) \subseteq AllOf(s)' /\ \A i \in rows : Id(i)' = Id(i)
    BY <1>1, MarketGrows DEF Trades
  <2> QED BY <1>1, <2>3, <2>4 DEF FoundSound, FollowsCursor
<1> QED BY <1>3, <1>4, <1>5 DEF RecoverySound

LEMMA AckSound ==
  ASSUME MarketTyped, RecoverySound, UNCHANGED venue, lastIDs \in [Symbols -> Nat], AwaitAck
  PROVE  RecoverySound'
<1> SUFFICES ASSUME venue \in Numbered PROVE RecoverySound'
  BY DEF RecoverySound, Numbered
<1>1. recovered = {} /\ rows = {}
  BY DEF AwaitAck, RecoverySound
<1>2. /\ market' = market /\ recovered' = {} /\ rows' = {} /\ lastIDs' = lastIDs
      /\ phase' = "recovering"
  BY <1>1 DEF AwaitAck, requestVars, emitVars
<1>3. \A s \in Symbols : FollowsCursor(s, {})
  BY NothingFollows
<1>4. \A s \in Symbols : FollowsCursor(s, {})'
  BY <1>2, <1>3 DEF FollowsCursor
<1> QED BY <1>2, <1>4 DEF RecoverySound, FoundSound

LEMMA PageSound ==
  ASSUME MarketTyped, RecoveryTyped, RecoverySound, UNCHANGED venue,
         lastIDs \in [Symbols -> Nat], NEW s \in Symbols, Recovering(s), PageOutcome(s),
         UNCHANGED <<market, phase, lastIDs>>
  PROVE  RecoverySound'
<1> SUFFICES ASSUME venue \in Numbered PROVE RecoverySound'
  BY DEF RecoverySound, Numbered
<1>1. /\ phase = "recovering" /\ s \in todo /\ todo \subseteq Symbols
      /\ \A t \in todo : recovered \cap AllOf(t) = {}
      /\ \A t \in Symbols : FollowsCursor(t, recovered \cap AllOf(t))
      /\ FoundSound(s) /\ \A t \in Symbols : lastIDs[t] \in Nat
  BY DEF RecoverySound, Recovering, RecoveryTyped
<1>2. rows \subseteq AllOf(s)
  BY <1>1 DEF FoundSound
<1>3. (\A t : AllOf(t)' = AllOf(t)) /\ \A i : Id(i)' = Id(i)
  BY DEF AllOf, Id
<1>4. \A t \in Symbols : t # s => AllOf(t) \cap AllOf(s) = {}
  BY DEF AllOf
\* The symbol is done, with what was found handed over.
<1>5. ASSUME NEW found \in SUBSET AllOf(s), FollowsCursor(s, found), NextSymbol(s),
             recovered' = recovered \cup found
      PROVE  RecoverySound'
  <2>1. todo' = todo \ {s} /\ rows' = {}
    BY <1>5 DEF NextSymbol
  <2>2. recovered' \cap AllOf(s) = found
    BY <1>1, <1>5
  <2>3. \A t \in Symbols : t # s => recovered' \cap AllOf(t) = recovered \cap AllOf(t)
    BY <1>4, <1>5
  <2>4. \A t \in Symbols : FollowsCursor(t, recovered' \cap AllOf(t))
    BY <1>1, <1>5, <2>2, <2>3
  <2>5. \A t \in Symbols : FollowsCursor(t, recovered \cap AllOf(t))'
    BY <1>3, <2>4 DEF FollowsCursor
  <2>6. \A t \in todo' : recovered' \cap AllOf(t)' = {}
    BY <1>1, <1>3, <2>1, <2>3
  <2>7. ASSUME NEW t \in Symbols PROVE FoundSound(t)'
    <3>1. FollowsCursor(t, {})
      BY <1>1, NothingFollows
    <3>2. FollowsCursor(t, rows)'
      BY <2>1, <3>1 DEF FollowsCursor
    <3> QED BY <1>1, <2>1, <3>2 DEF FoundSound
  <2> QED BY <1>1, <2>1, <2>5, <2>6, <2>7 DEF RecoverySound
<1>6. ASSUME NEW found \in SUBSET AllOf(s),
             venue \in {"deribit", "binance"} => FollowsCursor(s, found),
             rows' = found, UNCHANGED <<todo, recovered>>
      PROVE  RecoverySound'
  <2>1. \A t \in Symbols : FollowsCursor(t, recovered \cap AllOf(t))'
    BY <1>1, <1>3, <1>6 DEF FollowsCursor
  <2>2. \A t \in Symbols : Recovering(t)' => t = s
    <3> SUFFICES ASSUME NEW t \in Symbols, Recovering(t)' PROVE t = s
      OBVIOUS
    <3>1. t <= s /\ s <= t
      BY <1>1, <1>6 DEF Recovering
    <3> QED BY <3>1, SessionAssumption
  <2>3. FoundSound(s)'
    BY <1>1, <1>3, <1>6 DEF FoundSound, FollowsCursor
  <2> QED BY <1>1, <1>3, <1>6, <2>1, <2>2, <2>3 DEF RecoverySound
<1>7. PICK found \in SUBSET (rows \cup AllOf(s)), kept \in SUBSET (rows \cup AllOf(s)), oldest \in Nat :
        /\ venue \in Numbered => FollowsCursor(s, kept)
        /\ \/ SymbolFailed(s, kept)
           \/ SymbolRecovered(s, found) /\ (venue \in Numbered => FollowsCursor(s, found))
           \/ NextPage(s, found, oldest, kept)
              /\ (venue \in {"deribit", "binance"} => FollowsCursor(s, found))
  BY DEF PageOutcome
<1>8. found \in SUBSET AllOf(s) /\ kept \in SUBSET AllOf(s) /\ FollowsCursor(s, kept)
  BY <1>2, <1>7
<1>9. CASE SymbolFailed(s, kept)
  BY <1>5, <1>8, <1>9 DEF SymbolFailed
<1>10. CASE SymbolRecovered(s, found) /\ (venue \in Numbered => FollowsCursor(s, found))
  BY <1>5, <1>8, <1>10 DEF SymbolRecovered
<1>11. CASE NextPage(s, found, oldest, kept)
            /\ (venue \in {"deribit", "binance"} => FollowsCursor(s, found))
  <2>1. SymbolFailed(s, kept) \/ (rows' = found /\ UNCHANGED <<todo, recovered>>)
    BY <1>11 DEF NextPage
  <2> QED BY <1>6, <1>8, <1>9, <1>11, <2>1
<1> QED BY <1>7, <1>9, <1>10, <1>11

LEMMA TakenSound ==
  ASSUME MarketTyped, RecoverySound, UNCHANGED venue, NEW i,
         TakeRecovered(i) \/ TakeBuffered(i) \/ TakeLive(i)
  PROVE  RecoverySound'
<1> SUFFICES ASSUME venue \in Numbered PROVE RecoverySound'
  BY DEF RecoverySound, Numbered
<1>1. phase = "emitting" /\ phase' = "emitting" /\ todo' = todo /\ rows' = rows
  BY DEF TakeRecovered, TakeBuffered, TakeLive, recoveryVars, requestVars
<1>2. todo = {} /\ rows = {}
  BY <1>1 DEF RecoverySound
<1> QED BY <1>1, <1>2 DEF RecoverySound, Recovering

\* The steps that no recovery takes part in.
LEMMA AloneAside ==
  ASSUME MarketTyped, ChannelInv,
         \/ SharedStep \/ (\E r : Accept(r)) \/ AwaitTrade \/ AwaitFails
         \/ ReadWithBacklog \/ ReadIntoChannel \/ RecoveryDone \/ UNCHANGED vars
  PROVE  AsideStep
<1>1. CASE SharedStep
  <2>1. Grows
    BY <1>1, SharedStepChannels
  <2> QED
    BY <1>1, <2>1 DEF SharedStep, TradeComes, Break, Acknowledge, Dial, SessionOver, EndSession,
                      AsideStep, emitVars
<1>2. CASE (\E r : Accept(r)) \/ AwaitTrade \/ AwaitFails
  BY <1>2 DEF Accept, AwaitTrade, AwaitFails, EndSession, Grows, AsideStep, emitVars
<1>3. CASE ReadWithBacklog \/ ReadIntoChannel
  BY <1>3 DEF ReadWithBacklog, ReadIntoChannel, ReadFails, exchangeVars, Grows, AsideStep, emitVars
<1>4. CASE RecoveryDone
  BY <1>4 DEF RecoveryDone, exchangeVars, Grows, AsideStep, emitVars
<1>5. CASE UNCHANGED vars
  BY <1>5 DEF vars, sessionVars, exchangeVars, emitVars, Grows, AsideStep
<1> QED BY <1>1, <1>2, <1>3, <1>4, <1>5

\* A request that fails gives up the symbol, and may keep what it has found.
LEMMA FailureOutcome ==
  ASSUME NEW s, NEW kept \in SUBSET rows, RequestFails(s, kept),
         venue \in Numbered => FollowsCursor(s, kept)
  PROVE  Recovering(s) /\ PageOutcome(s) /\ UNCHANGED <<market, phase, lastIDs>>
<1>1. /\ Recovering(s) /\ SymbolFailed(s, kept)
      /\ UNCHANGED <<market, phase, lastIDs>>
  BY DEF RequestFails, exchangeVars, emitVars
<1>2. kept \in SUBSET (rows \cup AllOf(s)) /\ 0 \in Nat
  OBVIOUS
<1> QED BY <1>1, <1>2 DEF PageOutcome

\* The recovery of a venue, and what it needs and keeps.
RInv == RecoveryTyped /\ RecoverySound


LEMMA CoinbaseRecovery ==
  ASSUME MarketTyped, ChannelInv, RInv, lastIDs \in [Symbols -> Nat],
         UNCHANGED venue, venue = "coinbase", Coinbase!Next
  PROVE  RInv'
<1> USE DEF RInv
<1>1. \A s \in Symbols : lastIDs[s] \in Nat
  OBVIOUS
<1>2. venue \in Numbered /\ venue # "bybit"
  BY DEF Numbered
<1>3. ASSUME \/ SharedStep \/ (\E r : Accept(r)) \/ AwaitTrade \/ AwaitFails
             \/ ReadWithBacklog \/ ReadIntoChannel \/ RecoveryDone
      PROVE  RInv'
  <2>1. RecoveryTyped'
    BY <1>3, AloneTyped
  <2>2. AsideStep
    BY <1>3, AloneAside
  <2> QED BY <2>1, <2>2, AsideSound
<1>4. CASE AwaitWithBacklog
  BY <1>3, <1>4, AckTyped, AckSound DEF AwaitWithBacklog
<1>5. CASE EmitWithBacklog
  BY <1>5, TakenTyped, TakenSound DEF EmitWithBacklog
<1>6. CASE PageTaken(Coinbase!RecoverPage)
  <2>1. PICK s \in Symbols : \E answer \in Answers(s) :
          /\ Recovering(s) /\ Answered(s, answer) /\ Coinbase!RecoverPage(s, answer)
          /\ UNCHANGED <<market, phase, lastIDs>>
    BY <1>6 DEF PageTaken, exchangeVars, emitVars
  <2>2. PICK answer \in Answers(s) :
          /\ Recovering(s) /\ Answered(s, answer) /\ Coinbase!RecoverPage(s, answer)
          /\ UNCHANGED <<market, phase, lastIDs>>
    BY <2>1
  <2>3. FoundSound(s)
    BY <1>2, <2>2 DEF RecoverySound
  <2>4. PageOutcome(s)
    BY <2>2, <2>3, CoinbasePage
  <2>5. RecoveryTyped'
    BY <1>2, <2>2, <2>4, PageTakenTyped
  <2> QED BY <2>2, <2>4, <2>5, PageSound
<1>7. ASSUME NEW s \in Symbols, RequestFails(s, {})
      PROVE  RInv'
  <2>1. FollowsCursor(s, {}) /\ rows \subseteq Trades
    BY <1>1, <1>2, <1>7, NothingFollows DEF RequestFails, RecoverySound, FoundSound, RecoveryTyped
  <2>2. Recovering(s) /\ PageOutcome(s) /\ UNCHANGED <<market, phase, lastIDs>>
    BY <1>7, <2>1, FailureOutcome
  <2>3. RecoveryTyped'
    BY <1>2, <1>7, <2>1, RequestFailsTyped
  <2> QED BY <2>2, <2>3, PageSound
<1> QED
  BY <1>3, <1>4, <1>5, <1>6, <1>7, CoinbaseSteps

LEMMA DeribitRecovery ==
  ASSUME MarketTyped, ChannelInv, RInv, lastIDs \in [Symbols -> Nat],
         UNCHANGED venue, venue = "deribit", Deribit!Next
  PROVE  RInv'
<1> USE DEF RInv
<1>1. \A s \in Symbols : lastIDs[s] \in Nat
  OBVIOUS
<1>2. venue \in Numbered /\ venue # "bybit"
  BY DEF Numbered
<1>3. ASSUME \/ SharedStep \/ (\E r : Accept(r)) \/ AwaitTrade \/ AwaitFails
             \/ ReadWithBacklog \/ ReadIntoChannel \/ RecoveryDone
      PROVE  RInv'
  <2>1. RecoveryTyped'
    BY <1>3, AloneTyped
  <2>2. AsideStep
    BY <1>3, AloneAside
  <2> QED BY <2>1, <2>2, AsideSound
<1>4. CASE AwaitWithBacklog
  BY <1>3, <1>4, AckTyped, AckSound DEF AwaitWithBacklog
<1>5. CASE EmitWithBacklog
  BY <1>5, TakenTyped, TakenSound DEF EmitWithBacklog
<1>6. CASE PageTaken(Deribit!RecoverPage)
  <2>1. PICK s \in Symbols : \E answer \in Answers(s) :
          /\ Recovering(s) /\ Answered(s, answer) /\ Deribit!RecoverPage(s, answer)
          /\ UNCHANGED <<market, phase, lastIDs>>
    BY <1>6 DEF PageTaken, exchangeVars, emitVars
  <2>2. PICK answer \in Answers(s) :
          /\ Recovering(s) /\ Answered(s, answer) /\ Deribit!RecoverPage(s, answer)
          /\ UNCHANGED <<market, phase, lastIDs>>
    BY <2>1
  <2>3. FoundSound(s)
    BY <1>2, <2>2 DEF RecoverySound
  <2>4. PageOutcome(s)
    BY <2>2, <2>3, DeribitPage
  <2>5. RecoveryTyped'
    BY <1>2, <2>2, <2>4, PageTakenTyped
  <2> QED BY <2>2, <2>4, <2>5, PageSound
<1>7. ASSUME NEW s \in Symbols, RequestFails(s, rows)
      PROVE  RInv'
  <2>1. FollowsCursor(s, rows) /\ rows \subseteq Trades
    BY <1>1, <1>2, <1>7, NothingFollows DEF RequestFails, RecoverySound, FoundSound, RecoveryTyped
  <2>2. Recovering(s) /\ PageOutcome(s) /\ UNCHANGED <<market, phase, lastIDs>>
    BY <1>7, <2>1, FailureOutcome
  <2>3. RecoveryTyped'
    BY <1>2, <1>7, <2>1, RequestFailsTyped
  <2> QED BY <2>2, <2>3, PageSound
<1> QED
  BY <1>3, <1>4, <1>5, <1>6, <1>7, DeribitSteps

LEMMA BinanceRecovery ==
  ASSUME MarketTyped, ChannelInv, RInv, lastIDs \in [Symbols -> Nat],
         UNCHANGED venue, venue = "binance", Binance!Next
  PROVE  RInv'
<1> USE DEF RInv
<1>1. \A s \in Symbols : lastIDs[s] \in Nat
  OBVIOUS
<1>2. venue \in Numbered /\ venue # "bybit"
  BY DEF Numbered
<1>3. ASSUME \/ SharedStep \/ (\E r : Accept(r)) \/ AwaitTrade \/ AwaitFails
             \/ ReadWithBacklog \/ ReadIntoChannel \/ RecoveryDone
      PROVE  RInv'
  <2>1. RecoveryTyped'
    BY <1>3, AloneTyped
  <2>2. AsideStep
    BY <1>3, AloneAside
  <2> QED BY <2>1, <2>2, AsideSound
<1>4. CASE AwaitWithoutBacklog
  BY <1>3, <1>4, AckTyped, AckSound DEF AwaitWithoutBacklog
<1>5. CASE \E i \in Trades : Takes(i) /\ EmitParsedTrade(i) /\ UNCHANGED backlog
  BY <1>5, TakenTyped, TakenSound DEF Takes
<1>6. CASE PageTaken(Binance!RecoverPage)
  <2>1. PICK s \in Symbols : \E answer \in Answers(s) :
          /\ Recovering(s) /\ Answered(s, answer) /\ Binance!RecoverPage(s, answer)
          /\ UNCHANGED <<market, phase, lastIDs>>
    BY <1>6 DEF PageTaken, exchangeVars, emitVars
  <2>2. PICK answer \in Answers(s) :
          /\ Recovering(s) /\ Answered(s, answer) /\ Binance!RecoverPage(s, answer)
          /\ UNCHANGED <<market, phase, lastIDs>>
    BY <2>1
  <2>3. FoundSound(s)
    BY <1>2, <2>2 DEF RecoverySound
  <2>4. PageOutcome(s)
    BY <2>2, <2>3, BinancePage
  <2>5. RecoveryTyped'
    BY <1>2, <2>2, <2>4, PageTakenTyped
  <2> QED BY <2>2, <2>4, <2>5, PageSound
<1>7. ASSUME NEW s \in Symbols, RequestFails(s, rows)
      PROVE  RInv'
  <2>1. FollowsCursor(s, rows) /\ rows \subseteq Trades
    BY <1>1, <1>2, <1>7, NothingFollows DEF RequestFails, RecoverySound, FoundSound, RecoveryTyped
  <2>2. Recovering(s) /\ PageOutcome(s) /\ UNCHANGED <<market, phase, lastIDs>>
    BY <1>7, <2>1, FailureOutcome
  <2>3. RecoveryTyped'
    BY <1>2, <1>7, <2>1, RequestFailsTyped
  <2> QED BY <2>2, <2>3, PageSound
<1> QED
  BY <1>3, <1>4, <1>5, <1>6, <1>7, BinanceSteps

LEMMA HyperliquidRecovery ==
  ASSUME MarketTyped, ChannelInv, RInv, lastIDs \in [Symbols -> Nat],
         UNCHANGED venue, venue = "hyperliquid", Hyperliquid!Next
  PROVE  RInv'
<1> USE DEF RInv
<1>1. \A s \in Symbols : lastIDs[s] \in Nat
  OBVIOUS
<1>2. venue \notin Numbered /\ venue # "bybit" /\ RecoverySound'
  BY DEF Numbered, RecoverySound
<1>3. ASSUME \/ SharedStep \/ (\E r : Accept(r)) \/ AwaitTrade \/ AwaitFails
             \/ ReadWithBacklog \/ ReadIntoChannel \/ RecoveryDone
      PROVE  RInv'
  <2>1. RecoveryTyped'
    BY <1>3, AloneTyped
  <2>2. AsideStep
    BY <1>3, AloneAside
  <2> QED BY <2>1, <2>2, AsideSound
<1>4. CASE AwaitWithoutBacklog
  BY <1>3, <1>4, AckTyped, AckSound DEF AwaitWithoutBacklog
<1>5. CASE \E i \in Trades : Takes(i) /\ EmitSeenTrade(i) /\ UNCHANGED backlog
  BY <1>5, TakenTyped, TakenSound DEF Takes
<1>6. CASE PageTaken(Hyperliquid!RecoverPage)
  <2>1. PICK s \in Symbols : \E answer \in Answers(s) :
          /\ Recovering(s) /\ Answered(s, answer) /\ Hyperliquid!RecoverPage(s, answer)
          /\ UNCHANGED <<market, phase, lastIDs>>
    BY <1>6 DEF PageTaken, exchangeVars, emitVars
  <2>2. PICK answer \in Answers(s) :
          /\ Recovering(s) /\ Answered(s, answer) /\ Hyperliquid!RecoverPage(s, answer)
          /\ UNCHANGED <<market, phase, lastIDs>>
    BY <2>1
  <2>4. PageOutcome(s)
    BY <2>2, HyperliquidPage
  <2>5. RecoveryTyped'
    BY <1>2, <2>2, <2>4, PageTakenTyped
  <2> QED BY <1>2, <2>2, <2>4, <2>5, PageSound
<1>7. ASSUME NEW s \in Symbols, RequestFails(s, {})
      PROVE  RInv'
  BY <1>2, <1>7, RequestFailsTyped
<1> QED
  BY <1>3, <1>4, <1>5, <1>6, <1>7, HyperliquidSteps

-----------------------------------------------------------------------------
(***************************************************************************)
(* What venues have of their own is well-formed, too.                      *)
(***************************************************************************)
SeenTyped == seen \in Seq(Trades) /\ Len(seen) <= SeenLimit
HandoffTyped == until \in Nat /\ resumeAt \in [Symbols -> Nat]
PairsTyped == OrderTyped /\ confirming \subseteq Trades /\ gaps \subseteq Symbols
OthersTyped == asked \subseteq Symbols /\ HandoffTyped /\ PairsTyped

LEMMA RememberTyped ==
  ASSUME SeenTyped, market' = market, NEW i \in Trades, Remember(i)
  PROVE  SeenTyped'
<1> DEFINE all == Append(seen, i)
<1>1. /\ seen \in Seq(Trades) /\ Len(seen) \in Nat /\ Len(seen) <= SeenLimit
      /\ SeenLimit \in Nat /\ SeenLimit # 0 /\ Trades' = Trades
  BY SessionAssumption DEF SeenTyped, Trades
<1>2. all \in Seq(Trades) /\ Len(all) = Len(seen) + 1 /\ \A n \in 1 .. Len(all) : all[n] \in Trades
  BY <1>1
<1> HIDE DEF all
<1>3. CASE Len(all) > SeenLimit
  <2>1. seen' = SubSeq(all, 2, Len(all))
    BY <1>3 DEF Remember, all
  <2>2. 2 \in Int /\ Len(all) \in Int /\ \A n \in 2 .. Len(all) : all[n] \in Trades
    BY <1>1, <1>2
  <2>3. /\ SubSeq(all, 2, Len(all)) \in Seq(Trades)
        /\ Len(SubSeq(all, 2, Len(all))) = IF 2 <= Len(all) THEN Len(all) - 2 + 1 ELSE 0
    BY <2>2, SubSeqProperties
  <2>4. 2 <= Len(all) /\ Len(all) - 2 + 1 <= SeenLimit
    BY <1>1, <1>2, <1>3
  <2>5. Len(SubSeq(all, 2, Len(all))) <= SeenLimit
    BY <2>3, <2>4
  <2> QED BY <1>1, <2>1, <2>3, <2>5 DEF SeenTyped
<1>4. CASE ~(Len(all) > SeenLimit)
  <2>1. seen' = SubSeq(all, 1, Len(all))
    BY <1>4 DEF Remember, all
  <2>2. 1 \in Int /\ Len(all) \in Int /\ \A n \in 1 .. Len(all) : all[n] \in Trades
    BY <1>1, <1>2
  <2>3. /\ SubSeq(all, 1, Len(all)) \in Seq(Trades)
        /\ Len(SubSeq(all, 1, Len(all))) = IF 1 <= Len(all) THEN Len(all) - 1 + 1 ELSE 0
    BY <2>2, SubSeqProperties
  <2>4. 1 <= Len(all) /\ Len(all) - 1 + 1 <= SeenLimit
    BY <1>1, <1>2, <1>4
  <2>5. Len(SubSeq(all, 1, Len(all))) <= SeenLimit
    BY <2>3, <2>4
  <2> QED BY <1>1, <2>1, <2>3, <2>5 DEF SeenTyped
<1> QED BY <1>3, <1>4

LEMMA GrowingKeepsSeen ==
  ASSUME MarketTyped, SeenTyped, Grows, seen' = seen
  PROVE  SeenTyped'
<1>1. Trades \subseteq Trades'
  BY MarketGrows
<1>2. seen \in Seq(Trades')
  BY <1>1, WiderSeq DEF SeenTyped
<1> QED BY <1>2 DEF SeenTyped

LEMMA GrowingKeepsPairs ==
  ASSUME MarketTyped, PairsTyped, Grows, UNCHANGED <<order, confirmed, confirming, gaps>>
  PROVE  PairsTyped'
<1>1. Trades \subseteq Trades'
  BY MarketGrows
<1>2. \A s \in Symbols : order[s] \in Seq(Trades')
  BY <1>1, WiderSeq DEF PairsTyped, OrderTyped
<1>3. order \in [Symbols -> Seq(Trades')]
  BY <1>2 DEF PairsTyped, OrderTyped
<1> QED BY <1>1, <1>3 DEF PairsTyped, OrderTyped

\* The seconds of Phoenix are natural numbers.
LEMMA PhoenixHandoff ==
  ASSUME MarketTyped, EInv, RecoveryTyped, HandoffTyped, venue = "phoenix", PhoenixAck \/ PhoenixDone
  PROVE  HandoffTyped'
<1>1. \A S : Phoenix!Cardinality(S) = Cardinality(S)
  BY DEF Phoenix!Cardinality, Cardinality
<1>2. \A s \in Phoenix!Anchored : Phoenix!Anchor(s) \in AllOf(s)
  <2> SUFFICES ASSUME NEW s \in Phoenix!Anchored PROVE Phoenix!Anchor(s) \in AllOf(s)
    OBVIOUS
  <2>1. s \in Symbols /\ lastIDs[s] # 0
    BY DEF Phoenix!Anchored
  <2>2. \E n \in DOMAIN emitted :
          emitted[n].trade \in AllOf(s) /\ Id(emitted[n].trade) = lastIDs[s]
    BY <2>1 DEF EInv, LastIsEmitted
  <2>3. \E i \in AllOf(s) : Id(i) = lastIDs[s]
    BY <2>2
  <2>4. Phoenix!AllOf(s) = AllOf(s) /\ \A i : Phoenix!Id(i) = Id(i)
    BY <1>1 DEF Phoenix!AllOf, AllOf, Phoenix!Id, Id
  <2>5. \E i \in Phoenix!AllOf(s) : Phoenix!Id(i) = lastIDs[s]
    BY <2>3, <2>4
  <2>6. Phoenix!Anchor(s) \in Phoenix!AllOf(s)
    BY <2>5 DEF Phoenix!Anchor
  <2> QED BY <2>4, <2>6
<1>3. Now \in Nat /\ \A s : \A i \in AllOf(s) : Moment(i) \in Nat
  BY MarketFacts DEF AllOf
\* No moment is later than now.
<1>4. \A s : \A i \in AllOf(s) : Moment(i) <= Now
  <2> SUFFICES ASSUME NEW s, NEW i \in AllOf(s) PROVE Moment(i) <= Now
    OBVIOUS
  <2>1. i \in 1 .. Len(market) /\ Len(market) \in Nat
    BY DEF AllOf, MarketTyped
  <2> DEFINE P == {j \in 1 .. i : market[j] = Tick}
             W == {j \in 1 .. Len(market) : market[j] = Tick}
  <2>2. IsFiniteSet(1 .. Len(market)) /\ W \in SUBSET (1 .. Len(market))
    BY <2>1, FS_Interval
  <2>3. P \in SUBSET W
    BY <2>1
  <2>4. Moment(i) = Cardinality(P) /\ Now = Cardinality(W)
    BY DEF Moment, Now
  <2> HIDE DEF P, W
  <2>5. IsFiniteSet(W)
    BY <2>2, FS_Subset
  <2> QED BY <2>3, <2>4, <2>5, FS_Subset
<1>5. CASE PhoenixAck
  <2> DEFINE M == {Now} \cup {Moment(Phoenix!Anchor(s)) + 1 : s \in Phoenix!Anchored}
  <2>1. M \subseteq 0 .. Now + 1
    BY <1>2, <1>3, <1>4
  <2>2. M # {} /\ until' = Max(M) /\ resumeAt' = resumeAt
    BY <1>5 DEF PhoenixAck
  <2> HIDE DEF M
  <2>3. Now + 1 \in Int /\ 0 \in Int /\ 0 .. Now + 1 \subseteq Nat
    BY <1>3
  <2>4. IsFiniteSet(0 .. Now + 1)
    BY <2>3, FS_Interval
  <2>5. M \in SUBSET Nat /\ IsFiniteSet(M)
    BY <2>1, <2>3, <2>4, FS_Subset
  <2>6. Max(M) \in Nat
    BY <2>2, <2>5, MaxFacts
  <2> QED BY <2>2, <2>6 DEF HandoffTyped
<1>6. CASE PhoenixDone
  <2>1. ASSUME NEW s \in Phoenix!Anchored
        PROVE  Moment(Phoenix!LastAfterRecovery(s)) \in Nat
    <3> DEFINE L == {Phoenix!Anchor(s)} \cup (recovered \cap Phoenix!AllOf(s))
    <3>1. L \in SUBSET AllOf(s) /\ L # {}
      BY <1>2 DEF Phoenix!AllOf, AllOf
    <3>2. Phoenix!LastAfterRecovery(s) = Max(L)
      BY DEF Phoenix!LastAfterRecovery, Phoenix!Max, Max
    <3> HIDE DEF L
    <3>3. AllOf(s) \in SUBSET Nat /\ IsFiniteSet(AllOf(s))
      BY IdFacts
    <3>4. L \in SUBSET Nat /\ IsFiniteSet(L)
      BY <3>1, <3>3, FS_Subset
    <3>5. Max(L) \in L
      BY <3>1, <3>4, MaxFacts
    <3>6. Max(L) \in AllOf(s)
      BY <3>1, <3>5
    <3> QED BY <1>3, <3>2, <3>6
  <2>2. /\ resumeAt' = [s \in Symbols |->
             IF s \in Phoenix!Anchored THEN Moment(Phoenix!LastAfterRecovery(s)) + 1 ELSE 0]
        /\ until' = until
    BY <1>6 DEF PhoenixDone
  <2>3. \A s \in Symbols :
          (IF s \in Phoenix!Anchored THEN Moment(Phoenix!LastAfterRecovery(s)) + 1 ELSE 0) \in Nat
    BY <2>1
  <2> QED BY <2>2, <2>3 DEF HandoffTyped
<1> QED BY <1>5, <1>6

\* What the venues' steps do to the recovery and to what is their own.
LEMMA BybitKeeps ==
  ASSUME MarketTyped, RecoveryTyped, asked \subseteq Symbols,
         UNCHANGED venue, venue = "bybit", Bybit!Next
  PROVE  RecoveryTyped' /\ asked' \subseteq Symbols
<1>1. CASE BybitAnswer \/ BybitPass \/ BybitEnd
  BY <1>1, BybitTyped
<1>2. CASE /\ SharedStep \/ Accept(<< >>) \/ AwaitWithBacklog \/ ReadWithBacklog
              \/ EmitSeenWithBacklog \/ RecoveryDone
           /\ UNCHANGED asked
  <2>1. EmitSeenWithBacklog => RecoveryTyped'
    BY TakenTyped DEF EmitSeenWithBacklog
  <2>2. AwaitWithBacklog => RecoveryTyped'
    BY AckTyped, AloneTyped DEF AwaitWithBacklog
  <2> QED BY <1>2, <2>1, <2>2, AloneTyped
<1> QED BY <1>1, <1>2, BybitSteps

LEMMA PhoenixKeeps ==
  ASSUME MarketTyped, RecoveryTyped, EInv, HandoffTyped,
         UNCHANGED venue, venue = "phoenix", Phoenix!Next
  PROVE  RecoveryTyped' /\ HandoffTyped'
<1>1. CASE /\ SharedStep \/ TickComes \/ Phoenix!AcceptNow \/ AwaitTrade
              \/ AwaitFails \/ ReadWithBacklog \/ \E s \in Symbols : RequestFails(s, {})
           /\ UNCHANGED <<until, resumeAt>>
  <2>1. HandoffTyped'
    BY <1>1 DEF HandoffTyped
  <2>2. (\E s \in Symbols : RequestFails(s, {})) => RecoveryTyped'
    BY RequestFailsTyped
  <2> QED BY <1>1, <2>1, <2>2, AloneTyped, PhoenixTyped
<1>2. CASE PhoenixAck \/ PhoenixDone
  BY <1>2, PhoenixTyped, PhoenixHandoff
<1>3. CASE PhoenixAnswer \/ PhoenixWaitFails \/ PhoenixEmits
  <2>1. UNCHANGED <<until, resumeAt>>
    BY <1>3 DEF PhoenixAnswer, PhoenixWaitFails, PhoenixEmits
  <2> QED BY <1>3, <2>1, PhoenixTyped DEF HandoffTyped
<1> QED BY <1>1, <1>2, <1>3, PhoenixSteps

LEMMA BitfinexKeeps ==
  ASSUME MarketTyped, RecoveryTyped, SeenTyped, PairsTyped, EInv,
         UNCHANGED venue, venue = "bitfinex", Bitfinex!Next
  PROVE  RecoveryTyped' /\ SeenTyped' /\ PairsTyped' /\ EInv'
\* Nothing is emitted.
<1>1. ASSUME Grows, UNCHANGED <<lastIDs, emitted, seen>>
      PROVE  SeenTyped' /\ EInv'
  BY <1>1, GrowingKeepsSeen, GrowingKeepsEmitted
<1>2. CASE /\ Break \/ Acknowledge \/ Dial \/ TickComes \/ Accept(<< >>)
              \/ AwaitWithBacklog \/ ReadWithBacklog \/ RecoveryDone
           /\ UNCHANGED <<confirming, order, confirmed, gaps>>
  <2>1. Grows /\ UNCHANGED <<lastIDs, emitted, seen>>
    BY <1>2 DEF Break, Acknowledge, Dial, TickComes, Accept, AwaitWithBacklog, AwaitTrade,
                AwaitFails, AwaitAck, ReadWithBacklog, ReadFails, RecoveryDone, exchangeVars,
                emitVars, Grows
  <2>2. AwaitWithBacklog => RecoveryTyped'
    BY AckTyped, AloneTyped DEF AwaitWithBacklog
  <2>3. RecoveryTyped'
    BY <1>2, <2>2, AloneTyped DEF SharedStep
  <2> QED BY <1>1, <1>2, <2>1, <2>3, GrowingKeepsPairs
<1>3. CASE (\E s \in Symbols : Executed(s)) \/ (\E i \in Trades : Updated(i))
           \/ BitfinexAnswer \/ BitfinexRequestFails
  <2>1. Grows /\ UNCHANGED <<lastIDs, emitted, seen, order, confirmed>>
    BY <1>3 DEF Executed, Updated, BitfinexAnswer, BitfinexRequestFails, RequestFails, exchangeVars,
                emitVars, Grows
  <2>2. RecoveryTyped' /\ gaps' \subseteq Symbols /\ confirming' \subseteq Trades'
    BY <1>3, BitfinexTyped DEF PairsTyped
  <2>3. OrderTyped'
    <3>1. Trades \subseteq Trades'
      BY <2>1, MarketGrows
    <3>2. \A s \in Symbols : order[s] \in Seq(Trades')
      BY <3>1, WiderSeq DEF PairsTyped, OrderTyped
    <3>3. order \in [Symbols -> Seq(Trades')]
      BY <3>2 DEF PairsTyped, OrderTyped
    <3> QED BY <2>1, <3>1, <3>3 DEF PairsTyped, OrderTyped
  <2> QED BY <1>1, <2>1, <2>2, <2>3 DEF PairsTyped
<1>4. CASE BitfinexEmits
  <2>1. RecoveryTyped'
    BY <1>4, TakenTyped DEF BitfinexEmits
  <2>2. /\ EmittedTyped' /\ lastIDs' \in [Symbols -> Nat] /\ OrderTyped'
        /\ seen' = seen /\ gaps' \subseteq gaps
    BY <1>4, BitfinexEmission DEF EInv, PairsTyped
  <2>3. market' = market /\ confirming' = confirming
    BY <1>4 DEF BitfinexEmits, TakeRecovered, TakeBuffered, TakeLive, exchangeVars
  <2>4. Trades' = Trades /\ SeenTyped'
    BY <2>2, <2>3, GrowingKeepsSeen DEF Trades, Grows
  <2> QED BY <2>1, <2>2, <2>3, <2>4 DEF EInv, PairsTyped
<1>5. CASE BitfinexReset
  <2>1. SessionOver /\ UNCHANGED <<market, lastIDs, emitted, seen, confirming>>
        /\ order' = [s \in Symbols |-> << >>] /\ confirmed' = {} /\ gaps' = {}
    BY <1>5 DEF BitfinexReset, SessionOver, emitVars
  <2>2. RecoveryTyped'
    BY <2>1, AloneTyped DEF SharedStep
  <2>3. Trades' = Trades /\ Grows
    BY <2>1 DEF Trades, Grows
  <2>4. \A s \in Symbols : << >> \in Seq(Trades)
    OBVIOUS
  <2>5. PairsTyped'
    BY <2>1, <2>3, <2>4 DEF PairsTyped, OrderTyped
  <2> QED BY <1>1, <2>1, <2>2, <2>3, <2>5
<1> QED BY <1>2, <1>3, <1>4, <1>5, BitfinexSteps

-----------------------------------------------------------------------------
(***************************************************************************)
(* The inductive invariant, and what follows from it.                      *)
(***************************************************************************)
SInv == CInv /\ EInv /\ RInv /\ SeenTyped /\ OthersTyped

LEMMA InitSInv == SessionsInit => SInv
<1> SUFFICES ASSUME SessionsInit PROVE SInv
  OBVIOUS
<1>1. CInv
  BY InitCInv
<1>2. EInv
  <2>1. emitted = << >> /\ lastIDs = [s \in Symbols |-> 0]
    BY DEF SessionsInit, Init
  <2>2. EmittedTyped /\ DOMAIN emitted = {}
    BY <2>1 DEF EmittedTyped
  <2>3. \A s \in Symbols : lastIDs[s] = 0
    BY <2>1
  <2> QED BY <2>1, <2>2, <2>3 DEF EInv, LastIsEmitted, SequentialFollows, IdsGrow
<1>3. RInv
  <2>1. 0 \in 0 .. MaxPages /\ 0 < MaxPages /\ 0 \in Nat
    BY SessionAssumption
  <2>2. /\ todo = {} /\ pages = 0 /\ after = 0 /\ rows = {} /\ recovered = {} /\ givenUp = {}
        /\ uncovered = {} /\ disturbed = {} /\ phase = "down"
    BY DEF SessionsInit, Init
  <2> QED BY <2>1, <2>2 DEF RInv, RecoveryTyped, RecoverySound, Recovering
<1>4. SeenTyped
  <2>1. << >> \in Seq(Trades) /\ Len(<< >>) = 0 /\ SeenLimit \in Nat
    BY SessionAssumption
  <2> QED BY <2>1 DEF SessionsInit, Init, SeenTyped
<1>5. OthersTyped
  <2>1. << >> \in Seq(Trades) /\ 0 \in Nat
    OBVIOUS
  <2> QED BY <2>1 DEF SessionsInit, OthersTyped, HandoffTyped, PairsTyped, OrderTyped
<1> QED BY <1>1, <1>2, <1>3, <1>4, <1>5 DEF SInv

LEMMA NextSInv == SInv /\ [Next]_vars => SInv'
<1> SUFFICES ASSUME SInv, [Next]_vars PROVE SInv'
  OBVIOUS
<1>1. CInv'
  BY NextCInv DEF SInv
<1>2. /\ MarketTyped /\ ChannelInv /\ venue \in Venues /\ Untimed
      /\ EInv /\ RInv /\ RecoveryTyped /\ RecoverySound /\ SeenTyped
      /\ asked \subseteq Symbols /\ HandoffTyped /\ PairsTyped
      /\ lastIDs \in [Symbols -> Nat]
  BY DEF SInv, CInv, RInv, OthersTyped, EInv
<1>3. CASE UNCHANGED vars
  <2>1. Grows /\ UNCHANGED <<venue, emitted, lastIDs, seen, asked, until, resumeAt,
                             order, confirmed, confirming, gaps>>
    BY <1>3 DEF vars, sessionVars, exchangeVars, emitVars, bybitVars, phoenixVars, bitfinexVars, Grows
  <2>2. EInv' /\ SeenTyped' /\ PairsTyped' /\ HandoffTyped' /\ asked' \subseteq Symbols
    BY <1>2, <2>1, GrowingKeepsEmitted, GrowingKeepsSeen, GrowingKeepsPairs DEF HandoffTyped
  <2>3. RecoveryTyped'
    BY <1>2, <1>3, <2>1, AloneTyped
  <2>4. RecoverySound'
    BY <1>2, <1>3, <2>1, AloneAside, AsideSound
  <2> QED BY <1>1, <2>2, <2>3, <2>4 DEF SInv, RInv, OthersTyped
<1>4. CASE Next
  <2>1. Grows /\ UNCHANGED venue
    BY <1>2, <1>4, StepChannels DEF Next, OthersUnchanged
  <2>2. CASE venue = "bitfinex"
    <3>1. Bitfinex!Next /\ UNCHANGED <<asked, until, resumeAt>>
      BY <1>4, <2>2 DEF Next, OthersUnchanged, bybitVars, phoenixVars
    <3>2. RecoveryTyped' /\ SeenTyped' /\ PairsTyped' /\ EInv'
      BY <1>2, <2>1, <2>2, <3>1, BitfinexKeeps
    <3>3. RecoverySound' /\ HandoffTyped' /\ asked' \subseteq Symbols
      BY <1>2, <2>1, <2>2, <3>1 DEF RecoverySound, Numbered, HandoffTyped
    <3> QED BY <1>1, <3>2, <3>3 DEF SInv, RInv, OthersTyped
  <2>3. CASE venue # "bitfinex"
    <3>1. EmitStep /\ UNCHANGED <<order, confirmed, confirming, gaps>>
      BY <1>2, <1>4, <2>3, EmissionSteps DEF Next, OthersUnchanged, bitfinexVars
    <3>2. EInv' /\ SeenTyped'
      <4>1. CASE UNCHANGED emitVars
        BY <1>2, <2>1, <4>1, GrowingKeepsEmitted, GrowingKeepsSeen DEF emitVars
      <4>2. CASE ~UNCHANGED emitVars
        <5>1. PICK i \in Trades, b \in BOOLEAN :
                \E last \in {Id(i), lastIDs[market[i]]} : Emission(i, b, last)
          BY <3>1, <4>2 DEF EmitStep
        <5>2. PICK last \in {Id(i), lastIDs[market[i]]} : Emission(i, b, last)
          BY <5>1
        <5>3. EInv'
          BY <1>2, <2>1, <2>3, <5>2, EmissionKeeps
        <5>4. market' = market /\ (seen' = seen \/ Remember(i))
          BY <5>2 DEF Emission
        <5>5. SeenTyped'
          BY <1>2, <2>1, <5>4, RememberTyped, GrowingKeepsSeen
        <5> QED BY <5>3, <5>5
      <4> QED BY <4>1, <4>2
    <3>3. PairsTyped'
      BY <1>2, <2>1, <3>1, GrowingKeepsPairs
    <3>4. CASE venue \in {"coinbase", "deribit", "binance", "hyperliquid"}
      <4>1. RInv'
        BY <1>2, <1>4, <2>1, <3>4, CoinbaseRecovery, DeribitRecovery, BinanceRecovery,
           HyperliquidRecovery DEF Next
      <4>2. HandoffTyped' /\ asked' \subseteq Symbols
        BY <1>2, <1>4, <3>4 DEF Next, OthersUnchanged, bybitVars, phoenixVars, HandoffTyped
      <4> QED BY <1>1, <3>2, <3>3, <4>1, <4>2 DEF SInv, OthersTyped
    <3>5. CASE venue = "bybit"
      <4>1. Bybit!Next /\ UNCHANGED <<until, resumeAt>>
        BY <1>4, <3>5 DEF Next, OthersUnchanged, phoenixVars
      <4>2. RecoveryTyped' /\ asked' \subseteq Symbols
        BY <1>2, <2>1, <3>5, <4>1, BybitKeeps
      <4>3. RecoverySound' /\ HandoffTyped'
        BY <1>2, <2>1, <3>5, <4>1 DEF RecoverySound, Numbered, HandoffTyped
      <4> QED BY <1>1, <3>2, <3>3, <4>2, <4>3 DEF SInv, RInv, OthersTyped
    <3>6. CASE venue = "phoenix"
      <4>1. Phoenix!Next /\ UNCHANGED asked
        BY <1>4, <3>6 DEF Next, OthersUnchanged, bybitVars
      <4>2. RecoveryTyped' /\ HandoffTyped'
        BY <1>2, <2>1, <3>6, <4>1, PhoenixKeeps
      <4>3. RecoverySound' /\ asked' \subseteq Symbols
        BY <1>2, <2>1, <3>6, <4>1 DEF RecoverySound, Numbered
      <4> QED BY <1>1, <3>2, <3>3, <4>2, <4>3 DEF SInv, RInv, OthersTyped
    <3> QED BY <1>4, <2>3, <3>4, <3>5, <3>6 DEF Next
  <2> QED BY <2>2, <2>3
<1> QED BY <1>3, <1>4

\* The invariant of the adapters holds throughout.
THEOREM SessionInvariance == Spec => []SInv
BY InitSInv, NextSInv, PTL DEF Spec

\* The state of an adapter is well-formed: the ring of seen ids and the buffers
\* never outgrow their bounds, and whatever is kept is a trade or a symbol.
THEOREM TypeCorrect == Spec => []TypeOK
<1>1. SInv => TypeOK
  <2> SUFFICES ASSUME SInv PROVE TypeOK
    OBVIOUS
  <2>1. /\ venue \in Venues /\ MarketTyped /\ WireSound /\ HeldSound
        /\ lastIDs \in [Symbols -> Nat] /\ EmittedTyped
        /\ RecoveryTyped /\ SeenTyped /\ asked \subseteq Symbols /\ HandoffTyped /\ PairsTyped
    BY DEF SInv, CInv, ChannelInv, EInv, RInv, OthersTyped
  <2>2. /\ venue \in Venues
        /\ market \in Seq(Symbols \cup {Tick})
        /\ link \in {"down", "requested", "subscribed", "acknowledged", "broken"}
        /\ wire \in Seq(Messages \cup {Ack})
        /\ phase \in {"down", "awaiting", "recovering", "emitting"}
        /\ reader \in {"off", "reading", "done"}
        /\ {buffered, stream} \subseteq Seq(Messages)
        /\ Len(buffered) <= BufferLimit /\ Len(stream) <= BufferLimit + 1
        /\ backlog \in 0 .. BufferLimit
    BY <2>1 DEF MarketTyped, WireSound, HeldSound
  <2>3. /\ todo \cup asked \cup givenUp \cup disturbed \cup gaps \subseteq Symbols
        /\ pages \in 0 .. MaxPages /\ {after, until} \subseteq Nat
        /\ rows \cup recovered \cup uncovered \cup confirming \cup confirmed \subseteq Trades
        /\ {lastIDs, resumeAt} \subseteq [Symbols -> Nat]
        /\ order \in [Symbols -> Seq(Trades)]
    BY <2>1 DEF RecoveryTyped, HandoffTyped, PairsTyped, OrderTyped
  <2> QED BY <2>1, <2>2, <2>3 DEF TypeOK, SeenTyped, EmittedTyped
<1> QED BY <1>1, SessionInvariance, PTL

\* What a recovery on a venue with numbered trades hands over follows the
\* symbol's last trade without a gap, whatever its requests were answered.
THEOREM ContiguousRecovery == Spec => []RecoveryIsContiguous
<1>1. SInv => RecoveryIsContiguous
  BY DEF SInv, RInv, RecoverySound, RecoveryIsContiguous
<1> QED BY <1>1, SessionInvariance, PTL

\* But for Bitfinex, a trade that is marked as sequential follows one that has
\* been emitted: the first trade after a gap shows it.
THEOREM GapsShowInMarks == Spec => [](venue # "bitfinex" => GapsShow)
<1>1. ASSUME SInv, venue # "bitfinex" PROVE GapsShow
  <2> SUFFICES ASSUME NEW n \in DOMAIN emitted, emitted[n].sequential
               PROVE  \E m \in 1 .. n - 1 :
                        emitted[m].trade = CHOOSE i \in AllOf(market[emitted[n].trade]) :
                                             Id(i) + 1 = Id(emitted[n].trade)
    BY DEF GapsShow
  <2>1. MarketTyped /\ SequentialFollows
    BY <1>1 DEF SInv, CInv, EInv
  <2> DEFINE s == market[emitted[n].trade]
             previous == CHOOSE i \in AllOf(s) : Id(i) + 1 = Id(emitted[n].trade)
  <2>2. PICK m \in 1 .. n - 1 :
          emitted[m].trade \in AllOf(s) /\ Id(emitted[m].trade) + 1 = Id(emitted[n].trade)
    BY <2>1 DEF SequentialFollows
  <2>3. previous \in AllOf(s) /\ Id(previous) + 1 = Id(emitted[n].trade)
    BY <2>2
  <2> HIDE DEF previous
  <2>4. Id(previous) \in Nat /\ Id(emitted[m].trade) \in Nat
    BY <2>1, MarketFacts
  <2>5. Id(previous) = Id(emitted[m].trade)
    BY <2>2, <2>3, <2>4
  <2>6. previous = emitted[m].trade
    BY <2>1, <2>2, <2>3, <2>5, IdFacts
  <2> QED BY <2>6 DEF previous
<1>2. SInv => (venue # "bitfinex" => GapsShow)
  BY <1>1
<1> QED BY <1>2, SessionInvariance, PTL

\* On Binance, which goes by the ids alone, no trade is emitted twice, and a
\* symbol's trades are emitted in the order of their ids, however they come.
THEOREM BinanceEmitsOnce == Spec => [](venue = "binance" => EmittedOnce)
<1>1. ASSUME SInv, venue = "binance" PROVE EmittedOnce
  <2> SUFFICES ASSUME NEW m \in DOMAIN emitted, NEW n \in DOMAIN emitted, m < n
               PROVE  /\ emitted[m].trade # emitted[n].trade
                      /\ market[emitted[m].trade] = market[emitted[n].trade] =>
                           emitted[m].trade < emitted[n].trade
    BY <1>1 DEF EmittedOnce
  <2>1. MarketTyped /\ IdsGrow /\ EmittedTyped
    BY <1>1 DEF SInv, CInv, EInv
  <2>2. Len(emitted) \in Nat /\ DOMAIN emitted = 1 .. Len(emitted)
    BY <2>1, EmittedFacts
  <2>3. m \in 1 .. n - 1
    BY <2>2
  <2>4. market[emitted[m].trade] = market[emitted[n].trade] =>
          Id(emitted[m].trade) < Id(emitted[n].trade)
    BY <1>1, <2>1, <2>3 DEF IdsGrow
  <2>5. /\ emitted[m].trade \in Trades /\ emitted[n].trade \in Trades
        /\ Id(emitted[m].trade) \in Nat /\ Id(emitted[n].trade) \in Nat
        /\ emitted[m].trade \in Nat /\ emitted[n].trade \in Nat
    BY <2>1, EmittedFacts, MarketFacts
  <2>6. emitted[m].trade # emitted[n].trade
    BY <2>4, <2>5
  <2>7. ASSUME market[emitted[m].trade] = market[emitted[n].trade]
        PROVE  emitted[m].trade < emitted[n].trade
    <3>1. emitted[m].trade \in AllOf(market[emitted[n].trade])
          /\ emitted[n].trade \in AllOf(market[emitted[n].trade])
      BY <2>1, <2>5, <2>7, MarketFacts
    <3>2. Id(emitted[m].trade) <= Id(emitted[n].trade)
      BY <2>4, <2>5, <2>7
    <3>3. emitted[m].trade <= emitted[n].trade
      BY <2>1, <3>1, <3>2, IdFacts
    <3> QED BY <2>5, <2>6, <3>3
  <2> QED BY <2>6, <2>7
<1>2. SInv => (venue = "binance" => EmittedOnce)
  BY <1>1
<1> QED BY <1>2, SessionInvariance, PTL
=============================================================================
