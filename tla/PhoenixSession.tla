--------------------------- MODULE PhoenixSession ----------------------------
(***************************************************************************)
(* The Phoenix adapter.  Trades have no ids: they are recognised by their  *)
(* content only, so that what is recovered and what is pushed must not     *)
(* overlap.  A tick is the beginning of a second.  Recovery is for the     *)
(* seconds before until, which have passed when it asks; it must return    *)
(* the last trade emitted, the anchor, and hands over what follows it.     *)
(* After that trades of the second of the last trade are dropped.          *)
(* Trades differ in time or content; an answer with two that look like the *)
(* anchor is an error and as such a request that fails.                    *)
(***************************************************************************)
EXTENDS Session

VARIABLES
  until,     \* the second that a recovery ends before
  resumeAt   \* symbol -> the first second of which pushed trades are emitted

handoffVars == <<until, resumeAt>>

Anchor(s) == CHOOSE i \in AllOf(s) : Id(i) = lastIDs[s]
Anchored == {s \in Symbols : lastIDs[s] # 0}

\* The seconds completed when the reader starts, or that of the latest anchor.
\* Of what was traded before the subscription, the rest has no source.
AwaitSubscription ==
  \/ (AwaitTrade \/ AwaitFails) /\ UNCHANGED <<backlog, handoffVars>>
  \/ /\ phase = "awaiting" /\ wire # << >> /\ Head(wire) = Ack
     /\ wire' = Tail(wire)
     /\ phase' = "recovering" /\ reader' = "reading" /\ todo' = Anchored
     /\ backlog' = Len(buffered)
     /\ until' = Max({Now} \cup {Moment(Anchor(s)) + 1 : s \in Anchored})
     /\ uncovered' = {i \in uncovered : Moment(i) >= until' \/ Id(i) <= lastIDs[market[i]]}
     /\ UNCHANGED <<market, link, buffered, stream, requestVars, recovered, givenUp,
                    resumeAt, emitVars, boundVars>>

\* A page of recoverSymbol.
RecoverPage(s, answer) ==
  LET window == {i \in answer : Moment(i) >= Moment(Anchor(s)) /\ Moment(i) < until}
      older == {i \in window : \A j \in rows : i < j}
      found == rows \cup Newest(older)
  IN  IF older # Newest(older) THEN NextPage(s, found, 0, {})
      ELSE IF Anchor(s) \in found THEN SymbolRecovered(s, {i \in found : i > Anchor(s)})
      ELSE SymbolFailed(s, {})

\* What is emitted last of s when its recovered trades are.
LastAfterRecovery(s) == Max({Anchor(s)} \cup (recovered \cap AllOf(s)))

\* The second takes longer to pass than the recovery may take.
WaitFails ==
  /\ phase = "recovering" /\ Now < until /\ todo # {}
  /\ breaks < MaxBreaks /\ breaks' = breaks + 1
  /\ givenUp' = givenUp \cup todo /\ todo' = {}
  /\ UNCHANGED <<exchangeVars, phase, readVars, backlog, requestVars, recovered, uncovered,
                 emitVars, faultVars, resumeAt>>

RecoverTrades ==
  /\ \/ \E s \in Symbols : \E answer \in Answers(s) :
          /\ Now >= until /\ Recovering(s)
          /\ Answered(s, answer) /\ RecoverPage(s, answer)
          /\ UNCHANGED <<exchangeVars, phase, readVars, backlog, emitVars, breaks, resumeAt>>
     \/ \E s \in Symbols : Now >= until /\ RequestFails(s, {}) /\ UNCHANGED resumeAt
     \/ WaitFails
     \/ /\ RecoveryDone
        /\ resumeAt' = [s \in Symbols |->
             IF s \in Anchored THEN Moment(LastAfterRecovery(s)) + 1 ELSE 0]
  /\ UNCHANGED until

\* emitTrade.
EmitTrade(i) ==
  /\ EmitUnnumbered(i)
  /\ lastIDs' = [lastIDs EXCEPT ![market[i]] = Max({@, Id(i)})]
  /\ UNCHANGED seen

\* emitLive.
EmitLive(i) ==
  IF Moment(i) < resumeAt[market[i]] THEN UNCHANGED emitVars ELSE EmitTrade(i)

EmitTrades ==
  /\ \E i \in Trades :
       \/ TakeRecovered(i) /\ EmitTrade(i) /\ UNCHANGED backlog
       \/ (TakeBuffered(i) \/ TakeLive(i)) /\ EmitLive(i) /\ backlog' = backlog - 1
  /\ UNCHANGED handoffVars

TradeReader == ReadWithBacklog /\ UNCHANGED handoffVars

\* From now on trades are pushed; those of this second before are not.
AcceptNow ==
  /\ link = "requested" /\ link' = "subscribed" /\ wire' = << >>
  /\ uncovered' = uncovered \cup {i \in Trades : Moment(i) = Now /\ Id(i) > lastIDs[market[i]]}
  /\ UNCHANGED <<market, phase, readVars, backlog, todo, requestVars, recovered, givenUp,
                 emitVars, boundVars>>

SecondAwaited == phase = "recovering" /\ Now < until /\ todo # {}
SecondPasses == TimePasses(SecondAwaited)

Subscribe ==
  /\ AcceptNow \/ Acknowledge \/ (SecondAwaited /\ SecondPasses)
  /\ UNCHANGED handoffVars
Run ==
  \/ RecoverTrades \/ EmitTrades \/ AwaitSubscription
  \/ (Dial \/ SessionOver) /\ UNCHANGED handoffVars
Next ==
  \/ ((\E s \in Symbols : TradeHappens(s)) \/ SecondPasses \/ Break) /\ UNCHANGED handoffVars
  \/ Subscribe \/ Run \/ TradeReader
=============================================================================
