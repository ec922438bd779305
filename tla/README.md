# TLA+ models of quanttick

quanttick collects trades from cryptocurrency exchanges over WebSockets,
aggregates them while they stream, and writes them to JSON lines or to minute
rows of a PostgreSQL table. This directory holds TLA+ modules translated from
its Go sources, TLC configurations that check them on small instances, and
TLAPS proofs of what matters most for all values of their constants.
`PROJECT.json` relates every definition to the source lines it stands for.

## The system

```
 exchange adapters --trades, errors--> RunExchanges --> handler (main.go)
 (one goroutine per client             (FanIn)            |        |
  and connection, REST recovery)                          |        | Request(key, minute)
                                                          v        v
                                                  TradePipeline   bucketFlushWorker
                                  raw, aggregated, |              | FlushBefore(key, minute)
                                  significant      v              v
                                                 publishers --> WebSocketDataBuffer
                                                                  | UpsertBuckets (one transaction)
                                                                  v
                                                            minute rows in the database
```

| component | state it keeps | operations | what makes it correct |
|---|---|---|---|
| `TradeAggregator` | pending trades per key | `Add`, `Flush` | pending trades are one sample, the latest; an aggregate stands for exactly its trades |
| `SignificantTradeAggregator` | pending trades and window per key | `Add`, `Flush` | never two significant trades in a tick, ticks stay in their window, late trades do not disturb it |
| `TradePipeline` | the two aggregators | `Handle`, `FlushBefore`, `Flush` | every trade handled is published once, pending, or lost with a refused publication |
| `RunExchanges` | contexts, per-client and shared channels | forwarders, closer, select loop | per-client order, drained before it returns, no goroutine left behind |
| `bucketFlushWorker` | queue (`pending`, `order`), wake channel, timer | `Request`, `Close`, `run` | no watermark lost, no wakeup lost, backoff kept, no key starved, `Close` returns |
| bucket merge | none | insert, merge, derive, filter | independent of how a minute is cut into flushes |
| `WebSocketDataBuffer`, `WebSocketDataStore` | buckets in memory, rows | publish, flush, upsert, restore | nothing accepted is lost, rows only grow, totals count each trade once |
| exchange adapters | connection, buffered live trades, cursors, seen ids | read, subscribe, recover, emit | no trade skipped or repeated over a reconnect; a gap shows in `IsSequential` |
| recovery helpers | request windows, backlog counter, seen-id ring | reserve, refund, add | limits kept, what is reserved is released |
| collector `main` | watermark per key, shutdown sequence | handler, shutdown | complete minutes are written; everything handled is flushed before the database is closed |
| configuration, publishers | none | parse, print | not modelled |

The keys are (exchange, symbol) pairs. All calls into the pipeline come from
one goroutine, the select loop of `RunExchanges`; the flush worker and its
caller share a mutex; the buffer is shared by the handler and the worker and
has two mutexes, one for its map and one that serializes flushes.

What is hard in it: publications that fail in the middle of a call; trades out
of order in time, around minute boundaries; requests that meet a flush, a timer
or a shutdown; transactions that fail, or that fail after having committed;
restarts inside a minute; channels that are full while the reader leaves; and,
in the adapters, connections that break while REST answers, buffered and live
trades overlap, and buffers that overflow while a recovery runs.
`PROJECT.json` lists each of these as a hazard, at its line, with the properties
that cover it.

## The modules

**Aggregators** - the two aggregators as functions of one key's state. A trade
is its position in the stream, its time, its tick rule and its volume; price,
notional, ticks and `IsSequential` are folded like volume and left out. `Add`,
`SignificantAdd` and `GetTick` are the Go methods, `AggregateTrades` and `Tick`
what they emit.

**TradePipeline** - extends Aggregators with the calls of the pipeline. The
state of a key is a record (pending trades, context, window, published streams)
and ghosts (what was handled, what a refused publication dropped, where flushes
cut aggregates). A call is evaluated to the set of its outcomes, one per place
where a publisher may refuse, in the order of the code's `if err != nil`
returns. `Flush` takes one step per key, in `pendingKeys` order.
`MCTradePipeline` gives it two time units per minute, a threshold of 2, and one of
two scenarios: one key, or two keys and a batch publisher.

**FlushWorker** - the worker goroutine and its caller, at the grain of the
code's critical sections, channel operations and waits. An instant is the time
left until it, so that passing time (`Tick`) counts down. **FlushPromise** is
what the worker promises, without queue, timers or retries: a watermark that
was requested is owed until an attempt that took it over succeeds. FlushWorker
implements it under the mapping *owed = pending timestamps, watermark = the
attempt's timestamp*. `MCFlushWorker` adds a history of failures per key for
the backoff property.

**BucketMerge** - insertion, canonical order, merging, coalescing and filtering
of a bucket's trades, for the three kinds of venue the code distinguishes: ids
that sort, opaque ids, and Bitfinex, whose raw trades sort by id alone.

**DataBuffer** - buckets in memory, the flush (detach, read, commit or fail,
restore), the rows, restarts and expiry. A minute is a bucket; the
configuration that chooses the threshold is a constant. `Commit` writes what
was read and merged, in a step after the read, so that the lock is what keeps
two flushes from overwriting each other. `CommitUnacknowledged` is a commit
whose caller sees an error. Any event may be published at any time, and again:
by a recovery that overlaps the feed, and after a restart (`Crash`), when the new
process has seen no ids and Coinbase's `last_match` or Hyperliquid's snapshot
brings trades that the row has already. An aggregated event is `Recognised` if
memory holds one with its UID that stands for the same trades. One that is not,
and has a trade in common with what was accepted, makes its minute `replayed`;
of those minutes `ReplaysCountOnce` says what the other properties do not.

**FanIn** - `RunExchanges`: per client an adapter reduced to what it sends and
two forwarders, the closing goroutine, and the loop; the caller may end the
context at any time, and the handler may fail. The clients of the call are
chosen in the initial state; `MCFanIn` gives one or two of them.

**Session** - what the adapters of all venues share. The exchange is a sequence
of trades, and a connection delivers a part of it; ticks in the sequence divide
it into seconds or milliseconds where a venue's code goes by them. The module
has dialling, buffering until the acknowledgement, the reader and its queue, the
bookkeeping of a recovery, the ring of seen ids, and the hand-over in the order
recovered, buffered, live. Each venue's module has what differs, and decides in
its own way what an error costs:

| module | what the venue's code does |
|---|---|
| **CoinbaseSession** | the last trade of every product is replayed on a subscription; recovery goes backwards, page by page, until it meets its cursor |
| **DeribitSession** | recovery goes forwards while the answers say that there is more, and keeps what it has when it fails |
| **BinanceSession** | ids alone decide what is emitted; neither backlog nor seen ids; the last ids must not advance while the acknowledgement is awaited |
| **HyperliquidSession** | no numbers: one request for the latest trades; if the last trade is not among them nothing is recovered, and no error reported, because the feed pushes a snapshot on subscription; no backlog |
| **BybitSession** | no numbers: while the live trades already flow, passes over all pending symbols until what was recovered overlaps what was pushed, or a symbol stays quiet from one pass to the next |
| **PhoenixSession** | no ids at all: REST owns the seconds before `until`, the feed the rest; recovery waits for the second to pass and must find the last trade emitted |
| **BitfinexSession** | a trade is pushed twice, "te" for the order and "tu" for the content, and paired on emission; ids have gaps, so that a failed recovery marks the symbol; pages end a millisecond before the oldest trade of the last one |

**Sessions** chooses a venue in its initial state and states the properties once
for all of them.

**RecoveryLimits** - how the REST requests of recoveries are held back
(`recovery.go`): the throttle of an adapter, the window limiter with
reservations and refunds, and the throttle of an IP's embargo, in the four ways
the adapters use them, which also differ in the answers whose headers they read:

| kind | venues | holds back by | reads the header of |
|---|---|---|---|
| `bybit` | Bybit | throttle, window shared by an IP, embargo | every answer |
| `binance` | Binance spot and futures | throttle without an interval | every answer |
| `paced` | Coinbase, Deribit, Bitfinex, Phoenix | throttle with an interval | HTTP 429 alone |
| `hyperliquid` | Hyperliquid | window | none, not even HTTP 429's |

An adapter's steps are those of the request loop of
`recoverSymbol` (wait, reserve, wait for the embargo, send, answer), with its
deadline, which ends every wait. What the code does under a mutex is one step,
and time may pass between any two. Instants are ages and delays, so that time is
unbounded and the states are finite. Ghosts remember what servers demanded in
any answer (`demanded`) and in rate limited ones (`refused`), heeded or not, and
what requests have cost.

**Collector** - `run` and its handler in database mode. It composes the others:
the pipeline holds trades back as Aggregators says, the worker is FlushPromise
(which FlushWorker implements), and of buffer and rows it keeps which trades are
in them. The handler makes its three calls in three steps (`Handle`,
`FlushBefore`, `Request`), because the worker goes on between them; the shutdown
(`Close`, `flushPipeline`, `flushBuckets`, `cleanup`) begins when
`RunExchanges`, which runs the handler, has returned. The pipeline refuses
nothing here: its publishers are the buffer's, and `RunExchanges` gives the
handler a context that does not end.

## What TLC checks

| run | question | bounds |
|---|---|---|
| `pipeline` | aggregation, ticks, flushes and refusals neither lose, duplicate nor misplace a trade, also when a refusal ends a `Flush` between two keys | 1 key, 3 trades, 4 timestamps over 2 minutes in any order, 2 rules, 2 volumes; or 2 keys, 2 trades each of one time and volume, 2 rules, a batch publisher; 1 refusal |
| `worker` | queue, wakeups, backoff, the promise; no key is starved, `Close` returns | 2 keys, 2 watermarks, delays 1, 2, 4 with jitter |
| `buffer` | raw or aggregated trades through concurrent flushes, failures, a restart and expiry; raw ones also through an ambiguous commit; events may be published again, and what memory recognises counts once | raw: opaque ids, 3 publications per bucket out of 4 trades (duplicates included), 3 minutes; aggregated: 4 trades, three of them of one sample with another in between; 1 failure, 1 restart |
| `buffer_ambiguous` | the first finding below | aggregated trades, ambiguous commits |
| `buffer_replayed` | the second finding below | single aggregated trades, no failures, 1 restart |
| `sessions` | no trade skipped or repeated, gaps shown, slots exact, the adapter catches up | 7 venues, 2 symbols, 4 trades, buffers of 2, pages of 2, 2 pages, 1 broken connection, 1 fault; Phoenix 3 trades and 1 second passing besides those awaited; Bitfinex 3 trades of one symbol, pages of 1, 1 millisecond passing |
| `sessions_replay` | the third finding below | Coinbase, 2 symbols, 4 trades, pages of 1, ring of 2 |
| `sessions_phoenix` | the fourth finding below | Phoenix, 1 symbol, 3 trades, 2 seconds passing |
| `sessions_bitfinex` | the fifth finding below | Bitfinex, 1 symbol, 3 trades, pages of 1 |
| `collector` | complete minutes are owed, then written; nothing is left behind when the database is closed | 2 keys, 3 trades, 4 timestamps over 3 minutes, 1 failed transaction |
| `fan_in` | order and draining; cancelling returns, nothing leaks | 2 clients with 2 trades each, or 1 with 4 trades and 3 errors; channels of as many places as clients |
| `limits` | the budget is exact, windows are kept, and the delays that the adapter heeds; recoveries end | 2 Bybit adapters, or one of another kind; capacity 3, window 2, weights 1 and 2, delays up to 3, deadline 2 |

Why these bounds are enough. Keys share no state in the pipeline, so one key
shows what can happen to a key and two show the loops over keys. Three trades
are the fewest with a pending aggregate, a waiting context and an incoming
trade, and the third may be late for a window that the second has opened. Two
keys are the fewest that can compete for the worker, and three failures reach
the cap of the delay. A bucket needs three trades for one to be detached, one
restored and one new; and one failure and one restart for each to meet every
step of a flush. In the fan-in two clients already compete for the shared
channel, of as many places as there are clients; one client alone, with a channel
of one place, fills every place on the way with four trades, and drops an error
with three. In the collector three trades of a key are a trade, one that
completes its minute and one that arrives late, at any point of a worker's
attempt, which may itself lie between any two of the handler's calls; one failure may hit the worker or the final flush.

In the sessions, one connection that breaks and buffers that overflow at the
third trade make several sessions in a row, each with its recovery; two pages of
two trades are more than a symbol may need and, with one request failing, fewer;
the second symbol is there for what one symbol's recovery does to another's. A
fault is a push that is lost or out of order, an answer that lacks a trade, or a
request that fails. On Bitfinex each trade is two messages and a "tu" may come
at any time, so that one traded symbol of three trades has twice the states of
another venue's two; the second symbol is subscribed to and quiet. The ring of
seen ids has room for all trades of this instance: the code's ring holds as many
ids as the buffer holds trades, and the absence of repetitions is as good as
that. What happens beyond it is `sessions_replay`.

In `limits`, a capacity of 3 with weights of 1 and 2 makes an adapter wait for
one or for two reservations to leave the window. On Bybit the deadline is as long
as the window and a ban, so that it ends waits for either, and shorter than the
longest delay demanded, so that a deferral outlives the recovery that incurred
it and meets the next one.

Deadlock is checked in `pipeline`. The others switch it off because the
system really stops: after `Close`, after `RunExchanges` or `run` has returned,
or when the bounded trades are used up and everything has been flushed or
emitted.

### Findings

`buffer_ambiguous`: `flush` restores the detached buckets whenever
`UpsertBuckets` returns an error. If the transaction was committed all the same,
raw trades are recognised by UID in the next flush, but an aggregated trade that
has been coalesced in the row under the UID of an earlier one of its sample is
not: it is added again and the row counts its ticks and volume twice. `Close`
cancels the context of the flush under way, so that this can happen at a
shutdown. The shortest trace publishes two trades of one sample with another one
of a different instant in between, flushes, loses the answer and flushes again.

`buffer_replayed`: when the process is restarted within a minute, the row is all
that is left of it. The new process has seen no ids, and Coinbase's `last_match`
and Hyperliquid's snapshot bring the last trades again. Raw trades are recognised
by UID. An aggregated one is not if the row has coalesced it under the UID of an
earlier trade of its sample: it is inserted and coalesced once more, and the row
counts its ticks and volume twice. The same happens within one process to a trade
that has left the ring of seen ids (`sessions_replay`), and the other way round
a new aggregate whose first trade is one that was replayed may displace the event
of that UID, or be dropped for it, although they stand for different trades
(`insertWebSocketDataTrade` keeps the one with more ticks): hence the exemption of
replayed minutes in `NothingIsLost`. The trace publishes trades 1 and 3 of one
sample, flushes (they are coalesced under UID 1), restarts, publishes 3 again and
flushes.

`sessions_replay`: on a subscription Coinbase replays the last trade of every
product. The adapter drops the replay if its id is still in the ring of seen
ids, which all products share; it does not compare the id with the cursor. A
quiet product's last trade leaves the ring when busier ones fill it, and after
the next reconnect it is emitted a second time. The trace has one trade of the
first product and three of the second, with a ring of two.

`sessions_phoenix`: REST is asked for what is before `until`, the beginning of the
second in which the reader starts, and the feed pushes what comes after the
subscription. Trades of that second from before the subscription are in neither,
and neither an error nor a flag says so. The comment at `phoenix.go:145` wants a
disjoint handoff; it is disjoint, but not complete. `NothingSkipped` says that
nothing else is skipped: these trades are the model's `uncovered`. The
trace has one trade, a broken connection, a tick, a second trade before the
new subscription and a third one after it.

`sessions_bitfinex`: a page that does not have the cursor is followed by one that
ends a millisecond before its oldest trade. Other trades of that millisecond,
for which the page had no room, are skipped; the recovery succeeds, and the trade
after the hole is marked as sequential, although an incomplete recovery is meant
to fail (`bitfinex_test.go:524`). The code's pages hold 10,000 trades, the
trace's one; what it takes is a page boundary within a millisecond.

Not findings, because the code says so itself, but worth knowing: Hyperliquid
gives up a recovery without an error when the last trade is not among the latest
ones (`hyperliquid_recovery.go:95` leaves it to the snapshot of the feed, which
holds no more); on Bybit an error of one symbol's request ends the recovery of
all pending symbols and names only the one (`bybit_recovery.go:99`); and a request
that is past its last wait when another adapter meets a ban is still sent
(`DelaysAreKept` is about the waits). Hyperliquid's adapter takes HTTP 429 for an
error like any other (`hyperliquid_recovery.go:69`), so that its next request may
follow at once, as far as the weights allow; and on Coinbase, Deribit, Bitfinex and
Phoenix a `Retry-After` that comes with, say, a 503 is not read
(`coinbase_recovery.go:76`). Neither the code nor its documents claim otherwise:
`DelaysAreKept` does not either.

### Fairness

The `worker` run's `FairHistorySpec` has the fairness of `FlushWorker!FairSpec`:
the worker goroutine keeps running (each `FlushBefore` has a timeout, so it
returns), time passes, and a caller that is inside `Request` or `Close` goes on;
nothing makes a flush succeed, and nothing makes the handler stop requesting.
`FanIn!FairSpec`: the runtime schedules every goroutine that can run, and an
adapter whose context has ended returns; no adapter need send anything, the
caller need not cancel and the handler may fail. `Sessions!FairSpec`: the
adapter's goroutine and its reader run, the exchange answers a subscription, on
Bitfinex pushes the "tu" of a trade sooner or later, and a second that Phoenix
waits for passes; no connection need last and no trade need happen.
`RecoveryLimits!FairSpec`: time passes, an adapter goes on when it is awake, a
deadline takes effect, and a request that was sent is answered or fails (the
context of the recovery ends it); no recovery need begin, and answers may be
rate limits or bans for ever. `Collector!FairSpec`: the
worker's goroutine, a handler that is between two of its calls and the shutdown
go on, and `RunExchanges` returns after a
signal (`CancelReturns` of the fan-in); no trade or signal need come. The number
of transactions that fail is bounded: nothing is ever written to a database that
never answers.

## What TLAPS proves

`FlushWorkerProofs`, for any set of keys, any delays and any bounds:

* `TypeCorrect`, `OrderCorrect`, `NoWakeupIsLost`: the type invariant (in which
  no wait is longer than `RetryCap`, the "firm upper bound" of
  `bucket_flush_worker.go:242`), `OrderIsPending` and `NoLostWakeup`. None of these is inductive alone.
  `IInv` adds `AttemptIsCurrent`: an attempt is in hand exactly in the steps
  `flush` and `requeue`, for a key, with a watermark; without it `Requeue` could
  put a request with no watermark into the queue and `OrderIsPending` would
  break. `NoLostWakeup` needs `OrderIsPending` for a worker that goes to sleep
  to have considered all pending keys.
* `PromiseIsKept`: every step of the worker is a step of `FlushPromise` or
  leaves the promise's variables alone; again under `IInv`.
* `BackoffRespected`: `BackoffIsRespected`, of the worker with the history of
  `MCFlushWorker`. `Carried` says where the backoff of a key is: in its pending
  request, or, while the key is being flushed and requeued, in the attempt, and
  then what is requested meanwhile starts afresh. Both cases need that a key
  that is not pending has no failures to remember.

`TradePipelineProofs`, for any keys, minute length, windows of at least a
minute or none, thresholds, rules, volumes, streams and bounds:

* `TypeCorrect`, `SampleCorrect`, `SignificantCorrect`, `WindowCorrect`: the
  type invariant (in which windows begin and end at whole minutes),
  `PendingIsLatestSample`, `NothingSignificantWaits` and
  `ContextInWindow`. The proof follows the code: lemmas say what the aggregators
  keep, then what every outcome of a publication keeps (it touches the streams
  and ghosts only), then each call, then each step. The two internal errors of
  the aggregators ("trade sample mismatch", "more than one significant trade"),
  each of which would end the collector, are hence unreachable.
* `AggregatesExact`, `EachOnce`, `TicksWellFormed`: an aggregated trade is
  published for exactly the maximal run of one sample that came in; no trade is
  in two aggregated trades, or in two ticks of one window; a tick ends with a
  significant trade or its window, and holds trades of one window, in order.
  `LedgerInv` relates each published stream to what was handled: the aggregated
  trades and the pending ones partition it in order (`Split`), and the ticks
  form a chain of windows (`Chain`), to which a step adds at the end.
* `FlushesExact`: a `FlushBefore` publishes what is pending before its boundary
  and keeps everything else (`FlushesAreExact`), in any order of trades in windows.

`RecoveryLimitsProofs`, for any adapters, limits, delays and deadlines:

* `DelaysKept`: `DelaysAreKept`: with a throttle, no request is sent off before
  the delay of a rate limited answer is over; on Bybit and Binance, before that of
  any answer; on Bybit, before a ban has ended. The inductive invariant
  (`ThrottlesCover`) says that the throttles defer for at least as long as what
  the adapter heeds (`Covered`), and that an adapter past its throttle has nothing
  more to wait for (`Cleared`). The latter is needed because a Bybit adapter passes
  its throttle first and may then spend any time in the window limiter and the
  embargo: that its own server demands nothing new meanwhile holds only since an
  adapter has one request at a time. The embargo comes last, so that a ban met by
  another adapter counts.
* `BudgetExact`, `WindowKept`: `BudgetIsExact` and `WindowIsKept`. The invariant
  (`Limits`) sets what the requests have cost beside the reservations: these are
  in order of age; an adapter holds one at most, at the full price, and only
  between reserving and its answer (`Single`, `Priced`, `Holders`); and from the
  first reservation in the window on, each stands for one request that has cost
  no more (`Covers`). Each operation of the limiter keeps that (`PruneKeeps`,
  `AppendKeeps`, `RemoveKeeps`, `PartKeeps`, `CloseKeeps`), and so does time
  (`AgeKeeps`), with which requests leave the window before the limiter notices.
  Weight is the number of its units (`WeightOf`), because the prover has no
  induction for sums: `WeightAdds` then follows from the union of finite sets.
  That a late refund frees nothing needs the order of ages: prune stops at the
  first reservation in the window, and only then leaves none that has expired.

`CollectorProofs`, for any symbols, times and bounds:

* `CompletedIsAlwaysOwed`, `NothingIsLeftBehind`. The invariant follows a trade
  through the places where it may be: pending, memory, batch, rows. What keeps it
  inductive is that the parts of a handled trade are numbered in order
  (`Numbered`, `Before`), that what is held back is not older than the minute of
  the watermark, but for the trade in the handler's hands (`HeldIsCurrent`,
  `Unseen`), and that every trade in memory, or in the batch of an
  attempt, lies before a watermark that is owed, unless the collector no longer
  accepts or the handler has yet to ask. Each of the handler's calls has a lemma:
  `HandleHolds`, in which what is added goes behind what is held or lets it go,
  `FlushBeforeHolds`, and `RequestHolds`, after which the promise is made.

`FanInProofs`, for any number of adapters and any capacities:

* `OrderIsKept`, `Drains`: the trades of one adapter are those handled, then
  those in the merged channel, then that of its forwarder, then those in its own
  channel, in this order and without a hole; a channel is closed only when those
  who send to it are gone.

`DataBufferProofs`, for any venue kind, trades, buckets, faults and bounds:

* `TypeCorrect`, `RowsGrow`, and `RawIndependence`: the raw rows are what one
  flush of everything would have written. The first half of the module is about
  the operators of BucketMerge alone: two sequences are `Equivalent` if they have
  the same ids and, of each, the same first trade; deduplicating and sorting
  gives equal results (`Normal`) exactly on equivalent sequences, and merging
  respects both. With it the invariant is short: what was read is current while
  the lock is held, a batch is held by its flush, and memory, batch and row of a
  bucket together are equivalent to what was accepted.
* `RowsCoherent`: `RowIsCoherent`, on every kind of venue and without a
  hypothesis, replays included: it is about what the derivation writes.
* `NoTradeIsLost`, `TicksCount`: `NothingIsLost` and `TicksCountTrades`, which for
  aggregated trades are about the minutes that were not given one of them twice
  (`replayed`). In those minutes an event that is published again is recognised in
  memory, also after a failed transaction has restored it, and every other one has
  trades of its own. The theorems have a hypothesis, `LedgerHolds`: that no commit
  is both applied and reported as failed (with such commits `TicksCountTrades` is
  false, which is the finding of `buffer_ambiguous`), and that the venue is not
  Bitfinex, where the aggregated trades are derived from the raw ones. Which
  minutes are replayed is not a hypothesis but a ghost of the model: `EachOnce`
  says of the pipeline that one process, whose adapters emit each trade once, makes
  none, whereas a restart may, and then the minute's row may count a trade twice,
  which is the finding of `buffer_replayed`.

`SessionsProofs`, for all seven venues, any symbols, buffers, pages and bounds:

* `SlotsExact`, `TypeCorrect`: `SlotsAreExact`, and that the state of an adapter
  is well-formed. `CInv` says how phase, reader and connection go together: one
  acknowledgement at most is on its way, nothing is held before a session, and
  the reader runs only while recovering or emitting.
* `GapsShowInMarks`: off Bitfinex, a trade is marked as sequential only if it
  directly follows the last one emitted. `EInv` relates what was emitted to
  `lastIDs`: the last id is that of an emitted trade, and of the greatest.
* `BinanceEmitsOnce`: Binance, which compares ids, emits no trade twice.
* `ContiguousRecovery`: where trades are numbered, what a recovery hands over
  follows the last trade without a hole, whatever the answers. `RInv` says what
  a recovery under way has found (`FoundSound`): Coinbase, from page to page, the
  trades from `after` on; Deribit and Binance what follows the last id.

`SessionsProofs` begins with lemmas on the venues' steps, because each venue's module is
an instance with its own copy of Session: they say of every step which step of
Session it is, and what of it is the venue's own.

`SessionsFeedProofs`, for the venues that number their trades (Coinbase, Deribit
and Binance), any symbols, buffers, pages and bounds:

* `NumberedFillGaps`, `NumberedSkipNothing`: `FilledOrGivenUp`, which Phoenix and
  Bitfinex do not keep, and hence `NothingSkipped`. Between two emitted trades of a symbol
  none is missing, however often the connection broke, a recovery failed or the
  buffer was full, unless the exchange misbehaved for the symbol or its recovery
  gave up; what becomes of other symbols does not matter. `FeedInv`, which holds
  of each such symbol, is about its trades that are pending: buffered, queued or
  on the wire. They ascend through these three channels (`InOrder`), and once
  one is pending, all those after it are (`Unbroken`), because a connection that
  loses one is broken and is emptied with its session. A recovery begins when
  the feed is on, so that what it fetches from the last id on meets the first
  pending trade: backwards from the newest page on Coinbase (`Backwards`),
  forwards from the last id elsewhere (`Recovers`). Hence after it nothing later
  than the last id is missing in what is recovered and pending (`Joined`), and
  the least of these, which is emitted next, follows what was emitted
  (`Contiguous`). `Extras` holds the facts that relate symbols to one another.

The assumptions are those named in the modules: keys and symbols are numbers, a
minute has at least one unit of time, a window is zero or at least a minute,
buffers, pages and rings hold at least one trade, and the inputs that are
enumerated are of the types that the modules state (`CollectorAssumption`,
`BufferAssumption`, `SessionAssumption`, `VenuesAssumption`), and no adapter is
called nobody (`NobodyAssumption`). TLC evaluates each
of them in the runs.

Only model-checked:

* the liveness properties: fairness and `ENABLED` are out of the prover's reach;
* `NothingSkipped` on Bybit, Bitfinex, Hyperliquid and Phoenix, where trades have no
  numbers and what is missing is told by times and by what pages overlap;
  `EmittedOnce` for the venues with a ring of seen ids, which holds only as long
  as the ring has room (the finding of `sessions_replay`), a bound on whole
  runs; `GapsShow` on Bitfinex.

Only proved: the pipeline without windows, and with one of its two aggregating
publishers alone (the theorems of `TradePipelineProofs` are about any of these).

Neither proved nor model-checked, beyond `RowIsCoherent`: the aggregated trades of
a Bitfinex row, which are derived from its raw trades (`RawIndependence` holds of
those; no run has `Venue = "bitfinex"`), and whether an aggregated trade can be
lost where a commit may be ambiguous.

## What is not modelled, and what is left

Configuration parsing, JSON output and SQL texts are not modelled: they are
pure functions or I/O. The sessions leave out the parsing of messages, and the
delay between sessions (`reconnectBackoff`), which only postpones one; heartbeats
and lifecycle messages do no more than end a connection, and are part of `Break`.
That a "te" of Bitfinex is lost, or overtakes another, is left out: the order in
which they come is the order by definition. The collector leaves out the stdout
mode, which has neither worker nor buffer. The parsers of rate-limit headers are
pure functions, of which RecoveryLimits takes any result.

What would come next:

1. `NothingSkipped` for the venues without numbers, beginning with Bybit, whose
   passes end with the handoff of the live trades; then `GapsShow` on Bitfinex.
2. A run of DataBuffer on Bitfinex, whose aggregated trades come from the raw ones.
3. An abstract ledger that DataBuffer implements, and the equivalence of the
   filter applied to rows with the ticks of the streaming aggregator.
