--------------------------- MODULE CoinbaseSession ---------------------------
(***************************************************************************)
(* The Coinbase adapter.  On subscription the exchange replays the last    *)
(* trade of every product.  Recovery pages backwards, from the newest      *)
(* trade to the last one emitted, and gives up what it has found on any    *)
(* error.                                                                  *)
(***************************************************************************)
EXTENDS Session

\* The replay of a product's last trade, last_match.
LastMatches ==
  LET last == {Max(AllOf(s)) : s \in {t \in Symbols : AllOf(t) # {}}}
  IN  [n \in 1 .. Cardinality(last) |->
         CHOOSE i \in last : Cardinality({j \in last : j <= i}) = n]

\* The newest trades of an answer, older than those asked for before.
Page(answer) == Newest({i \in answer : after = 0 \/ Id(i) < after})

\* Faulty: a page with a hole in it is taken as it is.
RecoverPageUnverified(s, answer) ==
  LET page == Page(answer)
      found == rows \cup {i \in page : Id(i) > lastIDs[s]}
  IN  IF page = {} THEN SymbolFailed(s, {})
      ELSE IF \E i \in page : Id(i) = lastIDs[s] THEN SymbolRecovered(s, found)
      ELSE NextPage(s, found, Id(Min(page)), {})

\* A page of recoverSymbol.  When it has the cursor, what was found must follow
\* it without a gap.
RecoverPage(s, answer) ==
  LET page == Page(answer)
      found == rows \cup {i \in page : Id(i) > lastIDs[s]}
  IN  IF page = {} THEN SymbolFailed(s, {})
      ELSE IF \E i \in page : Id(i) = lastIDs[s]
        THEN IF FollowsCursor(s, found) THEN SymbolRecovered(s, found)
             ELSE SymbolFailed(s, {})
      ELSE NextPage(s, found, Id(Min(page)), {})

RecoverTrades ==
  \/ \E s \in Symbols : \E answer \in Answers(s) :
       /\ Recovering(s)
       /\ Answered(s, answer) /\ RecoverPage(s, answer)
       /\ UNCHANGED <<exchangeVars, phase, readVars, backlog, emitVars, breaks>>
  \/ \E s \in Symbols : RequestFails(s, {})
  \/ RecoveryDone

AwaitSubscription == AwaitWithBacklog
TradeReader == ReadWithBacklog
EmitTrades == EmitWithBacklog

Subscribe == Accept(LastMatches) \/ Acknowledge
Run == Dial \/ AwaitSubscription \/ RecoverTrades \/ EmitTrades \/ SessionOver
Next == (\E s \in Symbols : TradeHappens(s)) \/ Break \/ Subscribe \/ Run \/ TradeReader
=============================================================================
