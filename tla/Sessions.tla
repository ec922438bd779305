------------------------------ MODULE Sessions -------------------------------
(***************************************************************************)
(* An adapter of any one venue, and what all of them promise.              *)
(***************************************************************************)
EXTENDS Session

CONSTANTS
  Venues,
  TimedMarket, PairedMarket, PairedPage, PairedTraded  \* bounds of single venues

ASSUME VenuesAssumption ==
  /\ Venues \subseteq
       {"coinbase", "deribit", "binance", "hyperliquid", "bybit", "phoenix", "bitfinex"}
  /\ {TimedMarket, PairedMarket} \subseteq Nat /\ PairedPage \in Nat \ {0}
  /\ PairedTraded \subseteq Symbols

VARIABLES
  venue,                              \* chosen once and for all
  asked,                              \* of BybitSession
  until, resumeAt,                    \* of PhoenixSession
  confirming, order, confirmed, gaps  \* of BitfinexSession

bybitVars == asked
phoenixVars == <<until, resumeAt>>
bitfinexVars == <<confirming, order, confirmed, gaps>>
vars == <<sessionVars, venue, bybitVars, phoenixVars, bitfinexVars>>

Coinbase == INSTANCE CoinbaseSession
Deribit == INSTANCE DeribitSession
Binance == INSTANCE BinanceSession
Hyperliquid == INSTANCE HyperliquidSession
Bybit == INSTANCE BybitSession
Phoenix == INSTANCE PhoenixSession WITH MaxMarket <- TimedMarket
Bitfinex == INSTANCE BitfinexSession
  WITH MaxMarket <- PairedMarket, PageLimit <- PairedPage, Traded <- PairedTraded

SessionsInit ==
  /\ Init /\ venue \in Venues
  /\ asked = {}
  /\ until = 0 /\ resumeAt = [s \in Symbols |-> 0]
  /\ confirming = {} /\ order = [s \in Symbols |-> << >>] /\ confirmed = {} /\ gaps = {}

\* A step leaves the venue and what other venues own as it is.
OthersUnchanged ==
  /\ UNCHANGED venue
  /\ venue = "bybit" \/ UNCHANGED bybitVars
  /\ venue = "phoenix" \/ UNCHANGED phoenixVars
  /\ venue = "bitfinex" \/ UNCHANGED bitfinexVars

Next ==
  /\ \/ venue = "coinbase" /\ Coinbase!Next
     \/ venue = "deribit" /\ Deribit!Next
     \/ venue = "binance" /\ Binance!Next
     \/ venue = "hyperliquid" /\ Hyperliquid!Next
     \/ venue = "bybit" /\ Bybit!Next
     \/ venue = "phoenix" /\ Phoenix!Next
     \/ venue = "bitfinex" /\ Bitfinex!Next
  /\ OthersUnchanged

Spec == SessionsInit /\ [][Next]_vars

Subscribe ==
  \/ venue = "coinbase" /\ Coinbase!Subscribe
  \/ venue = "deribit" /\ Deribit!Subscribe
  \/ venue = "binance" /\ Binance!Subscribe
  \/ venue = "hyperliquid" /\ Hyperliquid!Subscribe
  \/ venue = "bybit" /\ Bybit!Subscribe
  \/ venue = "phoenix" /\ Phoenix!Subscribe
  \/ venue = "bitfinex" /\ Bitfinex!Subscribe
Run ==
  \/ venue = "coinbase" /\ Coinbase!Run
  \/ venue = "deribit" /\ Deribit!Run
  \/ venue = "binance" /\ Binance!Run
  \/ venue = "hyperliquid" /\ Hyperliquid!Run
  \/ venue = "bybit" /\ Bybit!Run
  \/ venue = "phoenix" /\ Phoenix!Run
  \/ venue = "bitfinex" /\ Bitfinex!Run
TradeReader ==
  \/ venue = "coinbase" /\ Coinbase!TradeReader
  \/ venue = "deribit" /\ Deribit!TradeReader
  \/ venue = "binance" /\ Binance!TradeReader
  \/ venue = "hyperliquid" /\ Hyperliquid!TradeReader
  \/ venue = "bybit" /\ Bybit!TradeReader
  \/ venue = "phoenix" /\ Phoenix!TradeReader
  \/ venue = "bitfinex" /\ Bitfinex!TradeReader

\* The adapter and its reader run, the exchange answers a subscription and
\* completes what it pushes, and time passes; no connection need last.
FairSpec ==
  /\ Spec
  /\ WF_vars(Run /\ OthersUnchanged)
  /\ WF_vars(TradeReader /\ OthersUnchanged)
  /\ WF_vars(Subscribe /\ OthersUnchanged)

-----------------------------------------------------------------------------
(***************************************************************************)
(* Properties.                                                             *)
(***************************************************************************)

Messages == Trades \cup {-i : i \in Trades}

\* The type invariant.
TypeOK ==
  /\ venue \in Venues
  /\ market \in Seq(Symbols \cup {Tick})
  /\ link \in {"down", "requested", "subscribed", "acknowledged", "broken"}
  /\ wire \in Seq(Messages \cup {Ack})
  /\ phase \in {"down", "awaiting", "recovering", "emitting"}
  /\ reader \in {"off", "reading", "done"}
  /\ {buffered, stream} \subseteq Seq(Messages)
  /\ Len(buffered) <= BufferLimit /\ Len(stream) <= BufferLimit + 1
  /\ backlog \in 0 .. BufferLimit
  /\ todo \cup asked \cup givenUp \cup disturbed \cup gaps \subseteq Symbols
  /\ pages \in 0 .. MaxPages /\ {after, until} \subseteq Nat
  /\ rows \cup recovered \cup uncovered \cup confirming \cup confirmed \subseteq Trades
  /\ {lastIDs, resumeAt} \subseteq [Symbols -> Nat]
  /\ seen \in Seq(Trades) /\ Len(seen) <= SeenLimit
  /\ order \in [Symbols -> Seq(Trades)]
  /\ emitted \in Seq([trade : Trades, sequential : BOOLEAN])

HeldBack(s) == {j \in AllOf(s) : order[s] # << >> /\ j >= order[s][1]}
EmittedOf(s) == {i \in AllOf(s) : \E n \in DOMAIN emitted : emitted[n].trade = i}
Numbered == {"coinbase", "deribit", "binance"}

\* A trade that is marked as sequential follows a trade that has been emitted:
\* whatever the feed, the connections and the recoveries leave out, the first
\* trade after a gap shows it (binance_test.go:752).  Where trades are not
\* numbered, a trade that the exchange does not deliver cannot show.
GapsShow ==
  \A n \in DOMAIN emitted : emitted[n].sequential =>
    LET s == market[emitted[n].trade]
        previous == CHOOSE i \in AllOf(s) : Id(i) + 1 = Id(emitted[n].trade)
    IN  \/ \E m \in 1 .. n - 1 : emitted[m].trade = previous
        \/ venue \notin Numbered /\ (s \in disturbed \/ previous \in uncovered)

\* Unless the exchange misbehaves for its symbol, or the recovery of its symbol
\* has given up, no trade is skipped: trades pushed before the acknowledgement or
\* during the recovery, lost with a connection, dropped with an overflowing
\* buffer or still unconfirmed are made up for before anything later is emitted,
\* whatever becomes of other symbols.
NothingSkipped ==
  \A s \in Symbols \ (givenUp \cup disturbed) :
    \A i, j \in EmittedOf(s) : (i .. j) \cap AllOf(s) \subseteq EmittedOf(s) \cup uncovered

\* What the recoveries of Phoenix ("REST owns completed seconds", phoenix.go:145)
\* and of Bitfinex ("incomplete recovery should fail", bitfinex_test.go:524)
\* are meant to give: a gap is filled or given up with an error.
FilledOrGivenUp ==
  \A s \in Symbols \ (givenUp \cup disturbed) :
    \A i, j \in EmittedOf(s) : (i .. j) \cap AllOf(s) \subseteq EmittedOf(s)

\* No trade is emitted twice, although sessions overlap and a recovery returns
\* what has been pushed as well, as long as the ring of seen ids has room for
\* what overlaps; on Binance, which goes by the ids alone, a symbol's trades are
\* emitted in the order of their ids, also when they are pushed in another one.
EmittedOnce ==
  \A m, n \in DOMAIN emitted : m < n =>
    /\ emitted[m].trade # emitted[n].trade
    /\ venue = "binance" /\ market[emitted[m].trade] = market[emitted[n].trade] =>
         emitted[m].trade < emitted[n].trade

\* Where trades are numbered, what a recovery hands over follows the symbol's
\* last trade without a gap, whatever the answers to its requests.
RecoveryIsContiguous ==
  phase = "recovering" /\ venue \in Numbered =>
    \A s \in Symbols : FollowsCursor(s, recovered \cap AllOf(s))

\* Every trade that is buffered or queued has its slot in the backlog and no
\* slot is left over, so that release never waits and memory stays bounded.
SlotsAreExact ==
  venue \notin {"binance", "hyperliquid"} /\ phase \in {"recovering", "emitting"} =>
    backlog = Len(buffered) + Len(stream)

\* When the exchange behaves, the adapter catches up: whatever was missed
\* while connections broke and buffers overflowed is emitted in the end, but
\* for what came before a symbol's first trade, or what a recovery that gave up
\* has left out; on Bitfinex a trade that is never confirmed holds back those
\* behind it, until the next session.
CatchesUp ==
  <>[](\A s \in Symbols \ (givenUp \cup disturbed) :
         \A i \in EmittedOf(s) : {j \in AllOf(s) : j > i} \subseteq
           EmittedOf(s) \cup uncovered \cup HeldBack(s))
=============================================================================
