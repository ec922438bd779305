---------------------------- MODULE BybitSession -----------------------------
(***************************************************************************)
(* The Bybit adapters, spot and derivatives.  Trades are not numbered.     *)
(* Recovery asks for the latest trades of every pending symbol, pass after *)
(* pass, and moves what the reader has queued meanwhile to the buffered    *)
(* trades, the handoff.  A symbol is done when what was recovered overlaps *)
(* its handoff, or when it has no handoff trades until the next pass       *)
(* begins.  When the last trade emitted is not in the answer, all of the   *)
(* answer is taken and an error reported at the end; any other error ends  *)
(* the recovery of all pending symbols.                                    *)
(*                                                                         *)
(* rows holds the answers of a pass for all its symbols; pages is 1 while  *)
(* the next pass is being waited for.                                      *)
(***************************************************************************)
EXTENDS Session

VARIABLE asked  \* the symbols that this pass has asked for

\* drainAvailable: what is queued joins the handoff.
Drain == buffered' = buffered \o stream /\ stream' = << >>
InHandoff(i) == i \in Range(buffered')
HasTrades(s) == \E i \in AllOf(s) : InHandoff(i)

\* verifyPass.
Overlaps(s) == \E i \in rows \cap AllOf(s) : InHandoff(i)
Verified == {s \in asked : Overlaps(s)}

Accepted(symbols) == UNION {rows \cap AllOf(s) : s \in symbols}

\* The pass is over for the symbols done, and begins again for the others.
PassEnds(done, again) ==
  /\ Drain
  /\ recovered' = recovered \cup Accepted(done)
  /\ todo' = todo \ done
  /\ asked' = IF again THEN {} ELSE asked \ done
  /\ rows' = IF again THEN {} ELSE rows \ Accepted(done)
  /\ pages' = IF again \/ todo' = {} THEN 0 ELSE 1
  /\ UNCHANGED <<after, givenUp, uncovered, phase>>

\* The recovery is over; what is pending is given up, unless nothing more is
\* emitted in this session.
RecoveryEnds ==
  /\ Drain
  /\ recovered' = recovered \cup Accepted(Verified)
  /\ givenUp' = givenUp \cup {s \in todo \ Verified : reader # "done" \/ HasTrades(s)}
  /\ todo' = {} /\ asked' = {} /\ rows' = {} /\ pages' = 0
  /\ phase' = "emitting"
  /\ UNCHANGED <<after, uncovered>>

Asking(s) ==
  /\ phase = "recovering" /\ pages = 0
  /\ s \in todo \ asked /\ \A t \in todo \ asked : s <= t

\* recoverSymbol.
RecoverPage(s, answer) ==
  LET page == Newest(answer)
      found == \E i \in page : Id(i) = lastIDs[s]
  IN  /\ rows' = rows \cup IF found THEN {i \in page : Id(i) > lastIDs[s]} ELSE page
      /\ givenUp' = givenUp \cup IF found THEN {} ELSE {s}
      /\ asked' = asked \cup {s}

\* A pass, the wait for the next one, and what ends the recovery.
RecoverTrades ==
  \/ \E s \in Symbols : \E answer \in Answers(s) :
       /\ Asking(s)
       /\ Answered(s, answer) /\ RecoverPage(s, answer)
       /\ UNCHANGED <<exchangeVars, phase, readVars, backlog, todo, pages, after, recovered,
                      uncovered, emitVars, breaks>>
  \/ /\ phase = "recovering" /\ todo # {} /\ asked = todo
     /\ reader # "done"
     /\ IF pages = 0
          THEN PassEnds(Verified, FALSE)
          ELSE PassEnds({s \in asked : Overlaps(s) \/ ~HasTrades(s)}, TRUE)
     /\ UNCHANGED <<exchangeVars, reader, backlog, emitVars, boundVars>>
  \/ /\ phase = "recovering" /\ todo # {}
     /\ \/ asked = todo /\ reader = "done" /\ UNCHANGED <<breaks, faults>>
        \/ pages = 1 /\ breaks < MaxBreaks /\ breaks' = breaks + 1 /\ UNCHANGED faults
        \/ (\E s \in Symbols : Asking(s)) /\ faults < MaxFaults /\ faults' = faults + 1
           /\ UNCHANGED breaks
     /\ RecoveryEnds
     /\ UNCHANGED <<exchangeVars, reader, backlog, emitVars, disturbed>>
  \/ RecoveryDone /\ UNCHANGED asked

AwaitSubscription == AwaitWithBacklog
TradeReader == ReadWithBacklog /\ UNCHANGED asked

EmitTrades ==
  \E i \in Trades :
    /\ \/ TakeRecovered(i) /\ UNCHANGED backlog
       \/ (TakeBuffered(i) \/ TakeLive(i)) /\ backlog' = backlog - 1
    /\ EmitSeenTrade(i)

Subscribe == (Accept(<< >>) \/ Acknowledge) /\ UNCHANGED asked
Run ==
  \/ RecoverTrades
  \/ (Dial \/ AwaitSubscription \/ EmitTrades \/ SessionOver) /\ UNCHANGED asked
Next ==
  \/ ((\E s \in Symbols : TradeHappens(s)) \/ Break) /\ UNCHANGED asked
  \/ Subscribe \/ Run \/ TradeReader
=============================================================================
