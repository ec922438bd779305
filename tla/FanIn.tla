-------------------------------- MODULE FanIn --------------------------------
(***************************************************************************)
(* RunExchanges (pipeline.go): the trades and errors of all exchange       *)
(* clients are forwarded into two channels, which one loop reads until     *)
(* both are closed or the handler fails.                                   *)
(*                                                                         *)
(* Processes: per client an adapter and two forwarders; the goroutine that *)
(* closes the shared channels; the main loop; and the caller, who may end  *)
(* the context at any time.  The trade channel of an adapter is unbuffered *)
(* (exchanges/*.go, Trades), so that sending and receiving are one step;   *)
(* its error channel holds one error and drops others (sendError).         *)
(* Trades of a client are numbered in the order the adapter sends them.    *)
(***************************************************************************)
EXTENDS Integers, Sequences, FiniteSets

CONSTANTS
  Clients,     \* all there may be
  Calls,       \* what RunExchanges may be called with: sets of them
  MaxTrades,   \* bound: trades sent by a client, for each number of clients
  MaxErrors    \* bound: errors reported by a client, likewise

ASSUME ClientsAssumption ==
  /\ IsFiniteSet(Clients) /\ Calls \subseteq SUBSET Clients
  /\ {MaxTrades, MaxErrors} \subseteq [1 .. Cardinality(Clients) -> Nat]

VARIABLES
  clients,     \* those RunExchanges is called with
  ctx,         \* the caller's context: "live", "canceled", "deadline"
  cancelled,   \* cancelAdapters has been called
  stopped,     \* cancelForwarding has been called
  adapter,     \* client -> "running", "closing" (errors closed), "closed"
  sent,        \* client -> number of trades the adapter has sent
  errors,      \* client -> number of errors reported, dropped ones included
  errorQueue,  \* client -> an error is in the adapter's channel
  held,        \* client -> the trade its forwarder holds, 0 if none
  errorHeld,   \* client -> its error forwarder holds an error
  forwarding,  \* client -> its trade forwarder is running
  errorForwarding,
  trades,      \* the shared trade channel: <<client, number>>, ...
  errs,        \* errors in the shared error channel
  closed,      \* the shared channels that are closed
  main,        \* "select", "unwinding", "returned"
  open,        \* the channels the loop still reads (not set to nil)
  watching,    \* the loop still selects ctx.Done()
  result,      \* of RunExchanges: "nil", "deadline", "handler"
  handled      \* ghost: the trades passed to the handler, in order

adapterVars == <<adapter, sent, errors, errorQueue>>
forwardVars == <<held, errorHeld, forwarding, errorForwarding>>
fanVars == <<trades, errs, closed>>
mainVars == <<main, open, watching, result, handled>>
contexts == <<clients, ctx, cancelled, stopped>>
vars == <<contexts, adapterVars, forwardVars, fanVars, mainVars>>

Capacity == Cardinality(clients)
AdaptersCancelled == cancelled \/ ctx # "live"

Init ==
  /\ clients \in Calls
  /\ ctx = "live" /\ cancelled = FALSE /\ stopped = FALSE
  /\ adapter = [c \in Clients |-> IF c \in clients THEN "running" ELSE "closed"]
  /\ sent = [c \in Clients |-> 0] /\ errors = [c \in Clients |-> 0]
  /\ errorQueue = [c \in Clients |-> FALSE]
  /\ held = [c \in Clients |-> 0] /\ errorHeld = [c \in Clients |-> FALSE]
  /\ forwarding = [c \in Clients |-> c \in clients]
  /\ errorForwarding = [c \in Clients |-> c \in clients]
  /\ trades = << >> /\ errs = 0 /\ closed = {}
  /\ main = "select" /\ open = {"trades", "errs"} /\ watching = TRUE
  /\ result = "nil" /\ handled = << >>

\* The caller cancels, or its deadline passes.
EndContext(reason) ==
  /\ ctx = "live" /\ main = "select"
  /\ ctx' = reason
  /\ UNCHANGED <<clients, cancelled, stopped, adapterVars, forwardVars, fanVars, mainVars>>

-----------------------------------------------------------------------------
(***************************************************************************)
(* An adapter and its forwarders.                                          *)
(***************************************************************************)

\* sendTrade meets the receive of forwardTrades.
SendTrade(c) ==
  /\ adapter[c] = "running" /\ sent[c] < MaxTrades[Capacity]
  /\ forwarding[c] /\ held[c] = 0
  /\ sent' = [sent EXCEPT ![c] = @ + 1]
  /\ held' = [held EXCEPT ![c] = sent[c] + 1]
  /\ UNCHANGED <<contexts, adapter, errors, errorQueue, errorHeld, forwarding,
                 errorForwarding, fanVars, mainVars>>

\* sendError does not wait: an error that finds the channel full is dropped.
SendError(c) ==
  /\ adapter[c] = "running" /\ errors[c] < MaxErrors[Capacity]
  /\ errors' = [errors EXCEPT ![c] = @ + 1]
  /\ errorQueue' = [errorQueue EXCEPT ![c] = TRUE]
  /\ UNCHANGED <<contexts, adapter, sent, forwardVars, fanVars, mainVars>>

\* The adapter ends, once cancelled or on its own: the deferred calls close
\* the errors first, then the trades.
CloseErrors(c) ==
  /\ adapter[c] = "running"
  /\ adapter' = [adapter EXCEPT ![c] = "closing"]
  /\ UNCHANGED <<contexts, sent, errors, errorQueue, forwardVars, fanVars, mainVars>>

CloseTrades(c) ==
  /\ adapter[c] = "closing"
  /\ adapter' = [adapter EXCEPT ![c] = "closed"]
  /\ UNCHANGED <<contexts, sent, errors, errorQueue, forwardVars, fanVars, mainVars>>

\* Faulty: a trade that finds the shared channel full is dropped.
ForwardTradeOrDrop(c) ==
  /\ forwarding[c]
  /\ \/ /\ held[c] # 0
        /\ trades' = IF Len(trades) < Capacity THEN Append(trades, <<c, held[c]>>) ELSE trades
        /\ held' = [held EXCEPT ![c] = 0]
        /\ UNCHANGED forwarding
     \/ /\ \/ held[c] = 0 /\ adapter[c] = "closed"
           \/ stopped
        /\ forwarding' = [forwarding EXCEPT ![c] = FALSE]
        /\ UNCHANGED <<held, trades>>
  /\ UNCHANGED <<contexts, adapterVars, errorHeld, errorForwarding, errs, closed, mainVars>>

\* forwardTrades passes on the trade it holds, and ends when its input is
\* closed or forwarding is cancelled.
ForwardTrade(c) ==
  /\ forwarding[c]
  /\ \/ /\ held[c] # 0 /\ Len(trades) < Capacity
        /\ trades' = Append(trades, <<c, held[c]>>)
        /\ held' = [held EXCEPT ![c] = 0]
        /\ UNCHANGED forwarding
     \/ /\ \/ held[c] = 0 /\ adapter[c] = "closed"
           \/ stopped
        /\ forwarding' = [forwarding EXCEPT ![c] = FALSE]
        /\ UNCHANGED <<held, trades>>
  /\ UNCHANGED <<contexts, adapterVars, errorHeld, errorForwarding, errs, closed, mainVars>>

\* forwardErrors, likewise.
ForwardError(c) ==
  /\ errorForwarding[c]
  /\ \/ /\ ~errorHeld[c] /\ errorQueue[c]
        /\ errorQueue' = [errorQueue EXCEPT ![c] = FALSE]
        /\ errorHeld' = [errorHeld EXCEPT ![c] = TRUE]
        /\ UNCHANGED <<errorForwarding, errs>>
     \/ /\ errorHeld[c] /\ errs < Capacity
        /\ errs' = errs + 1
        /\ errorHeld' = [errorHeld EXCEPT ![c] = FALSE]
        /\ UNCHANGED <<errorQueue, errorForwarding>>
     \/ /\ \/ ~errorHeld[c] /\ ~errorQueue[c] /\ adapter[c] # "running"
           \/ stopped
        /\ errorForwarding' = [errorForwarding EXCEPT ![c] = FALSE]
        /\ UNCHANGED <<errorQueue, errorHeld, errs>>
  /\ UNCHANGED <<contexts, adapter, sent, errors, held, forwarding, trades, closed, mainVars>>

\* Faulty: the error channel is left open.
CloseSharedTrades(channel) ==
  /\ \A c \in Clients : ~forwarding[c] /\ ~errorForwarding[c]
  /\ channel = "trades" /\ closed = {}
  /\ closed' = {"trades"}
  /\ UNCHANGED <<contexts, adapterVars, forwardVars, trades, errs, mainVars>>

\* wg.Wait, then close both channels.
CloseShared(channel) ==
  /\ \A c \in Clients : ~forwarding[c] /\ ~errorForwarding[c]
  /\ \/ channel = "trades" /\ closed = {}
     \/ channel = "errs" /\ closed = {"trades"}
  /\ closed' = closed \cup {channel}
  /\ UNCHANGED <<contexts, adapterVars, forwardVars, trades, errs, mainVars>>

-----------------------------------------------------------------------------
(***************************************************************************)
(* The main loop.                                                          *)
(***************************************************************************)
Selecting == main = "select" /\ open # {}

\* A trade is handled, or the handler fails and RunExchanges returns its error.
HandleTrade(ok) ==
  /\ Selecting /\ trades # << >>
  /\ trades' = Tail(trades) /\ handled' = Append(handled, Head(trades))
  /\ IF ok THEN UNCHANGED <<main, result>>
     ELSE main' = "unwinding" /\ result' = "handler"
  /\ UNCHANGED <<contexts, adapterVars, forwardVars, errs, closed, open, watching>>

HandleError ==
  /\ Selecting /\ errs > 0
  /\ errs' = errs - 1
  /\ UNCHANGED <<contexts, adapterVars, forwardVars, trades, closed, mainVars>>

\* A channel that is closed and drained is set to nil.
ChannelClosed(channel) ==
  /\ Selecting /\ channel \in open /\ channel \in closed
  /\ IF channel = "trades" THEN trades = << >> ELSE errs = 0
  /\ open' = open \ {channel}
  /\ UNCHANGED <<contexts, adapterVars, forwardVars, fanVars, main, watching, result, handled>>

\* Faulty: the loop returns as soon as the context ends.
ReturnOnContextDone ==
  /\ Selecting /\ watching /\ ctx # "live"
  /\ cancelled' = TRUE /\ watching' = FALSE
  /\ main' = "unwinding" /\ result' = IF ctx = "deadline" THEN "deadline" ELSE "nil"
  /\ UNCHANGED <<clients, ctx, stopped, adapterVars, forwardVars, fanVars, open, handled>>

\* The context ends: the adapters are cancelled and the loop goes on.
ContextDone ==
  /\ Selecting /\ watching /\ ctx # "live"
  /\ cancelled' = TRUE /\ watching' = FALSE
  /\ UNCHANGED <<clients, ctx, stopped, adapterVars, forwardVars, fanVars, main, open, result, handled>>

\* Both channels are drained.
Finish ==
  /\ main = "select" /\ open = {}
  /\ main' = "unwinding"
  /\ result' = IF ctx = "deadline" THEN "deadline" ELSE "nil"
  /\ UNCHANGED <<contexts, adapterVars, forwardVars, fanVars, open, watching, handled>>

\* Faulty: only the adapters are cancelled on the way out.
UnwindAdaptersOnly ==
  /\ main = "unwinding"
  /\ cancelled' = TRUE /\ main' = "returned"
  /\ UNCHANGED <<clients, ctx, stopped, adapterVars, forwardVars, fanVars, open, watching, result, handled>>

\* The deferred cancelForwarding, then the deferred cancelAdapters.
Unwind ==
  /\ main = "unwinding"
  /\ IF ~stopped THEN stopped' = TRUE /\ UNCHANGED <<cancelled, main>>
     ELSE cancelled' = TRUE /\ main' = "returned" /\ UNCHANGED stopped
  /\ UNCHANGED <<clients, ctx, adapterVars, forwardVars, fanVars, open, watching, result, handled>>

MainStep ==
  \/ HandleTrade(TRUE) \/ HandleError
  \/ \E channel \in {"trades", "errs"} : ChannelClosed(channel)
  \/ ContextDone \/ Finish \/ Unwind

Next ==
  \/ \E reason \in {"canceled", "deadline"} : EndContext(reason)
  \/ \E c \in Clients :
       SendTrade(c) \/ SendError(c) \/ CloseErrors(c) \/ CloseTrades(c)
         \/ ForwardTrade(c) \/ ForwardError(c)
  \/ \E channel \in {"trades", "errs"} : CloseShared(channel)
  \/ MainStep \/ HandleTrade(FALSE)

Spec == Init /\ [][Next]_vars

\* Every goroutine runs when it can; an adapter ends once it is cancelled, but
\* nothing obliges it to send, and nothing obliges the caller to cancel.
FairSpec ==
  /\ Spec
  /\ WF_vars(MainStep)
  /\ \A c \in Clients :
       /\ WF_vars(ForwardTrade(c)) /\ WF_vars(ForwardError(c))
       /\ WF_vars(AdaptersCancelled /\ CloseErrors(c)) /\ WF_vars(CloseTrades(c))
  /\ \A channel \in {"trades", "errs"} : WF_vars(CloseShared(channel))

-----------------------------------------------------------------------------
(***************************************************************************)
(* Properties.                                                             *)
(***************************************************************************)

\* Where the trades of c are in a sequence, and how many are up to position i.
At(c, seq) == {i \in DOMAIN seq : seq[i][1] = c}
Rank(c, seq, i) == Cardinality({j \in At(c, seq) : j <= i})

\* The trades of a client are handled in the order in which it sent them, and
\* none is skipped: behind those handled come those in the channel, then the
\* one its forwarder holds.  (A handler that fails may end this.)
ClientOrderIsKept ==
  \A c \in Clients :
    LET passed == handled \o trades IN
    /\ \A i \in At(c, passed) : passed[i][2] = Rank(c, passed, i)
    /\ ~stopped => Cardinality(At(c, passed)) + (IF held[c] = 0 THEN 0 ELSE 1) = sent[c]

\* "Once a trade has entered the fan-in, finish handling it even if the caller
\* cancels" (pipeline.go:241): unless the handler failed, RunExchanges returns
\* only after everything the adapters sent has been handled.
ReturnsAfterDraining ==
  main = "returned" /\ result # "handler" =>
    \A c \in Clients : Cardinality(At(c, handled)) = sent[c]

\* A caller that cancels gets RunExchanges back.
CancelReturns == ctx # "live" ~> main = "returned"

\* When RunExchanges has returned, whatever the reason, every goroutine it
\* started ends.
NothingLeaks ==
  main = "returned" ~>
    /\ \A c \in Clients : ~forwarding[c] /\ ~errorForwarding[c] /\ adapter[c] = "closed"
    /\ closed = {"trades", "errs"}
=============================================================================
