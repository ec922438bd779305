----------------------------- MODULE FanInProofs -----------------------------
(***************************************************************************)
(* The fan-in keeps every trade and the order of each client: for any      *)
(* clients, any number of trades and errors, any interleaving of adapters, *)
(* forwarders, the closer, the loop and the caller.                        *)
(***************************************************************************)
EXTENDS FanIn, FiniteSetTheorems, SequenceTheorems, TLAPS

Entries == Clients \X Nat

(***************************************************************************)
(* The inductive invariant.                                                *)
(***************************************************************************)
Typed ==
  /\ handled \in Seq(Entries) /\ trades \in Seq(Entries)
  /\ held \in [Clients -> Nat] /\ sent \in [Clients -> Nat]
  /\ forwarding \in [Clients -> BOOLEAN] /\ stopped \in BOOLEAN
  /\ closed \subseteq {"trades", "errs"} /\ open \subseteq {"trades", "errs"}
  /\ main \in {"select", "unwinding", "returned"}
  /\ result \in {"nil", "deadline", "handler"}

Passed == handled \o trades
InHand(c) == IF held[c] = 0 THEN 0 ELSE 1

\* The n trades of c in a sequence are those numbered 1 .. n, in order.
InSequence(c, seq, n) ==
  /\ \A i \in At(c, seq) : seq[i][2] = Rank(c, seq, i)
  /\ IsFiniteSet(At(c, seq)) /\ Cardinality(At(c, seq)) = n

\* What a forwarder holds is the latest trade sent, and every other one has
\* been passed on.  (This stays so after forwarding is cancelled: the trade a
\* forwarder then drops is still told from those passed on.)
Numbered ==
  \A c \in Clients :
    /\ held[c] \in {0, sent[c]}
    /\ InSequence(c, Passed, sent[c] - InHand(c))

\* A forwarder that ends before forwarding is cancelled has nothing in hand,
\* and the channels are closed only when none is left.
EndsEmpty ==
  /\ ~stopped => \A c \in Clients : ~forwarding[c] => held[c] = 0
  /\ closed # {} => \A c \in Clients : ~forwarding[c]

\* The loop stops reading trades when none can come, and it ends with the
\* handler's error or after that.
ReadsToTheEnd ==
  /\ main = "select" => ~stopped
  /\ "trades" \notin open =>
       /\ trades = << >>
       /\ \A c \in Clients : ~forwarding[c] /\ held[c] = 0
  /\ main # "select" /\ result # "handler" => "trades" \notin open

IInv == Typed /\ Numbered /\ EndsEmpty /\ ReadsToTheEnd

-----------------------------------------------------------------------------
(***************************************************************************)
(* Counting the trades of a client.                                        *)
(***************************************************************************)
LEMMA AtIsFinite ==
  ASSUME NEW c, NEW s \in Seq(Entries)
  PROVE  IsFiniteSet(At(c, s))
<1>1. Len(s) \in Nat /\ DOMAIN s = 1 .. Len(s)
  BY LenProperties
<1>2. IsFiniteSet(1 .. Len(s))
  BY <1>1, FS_Interval
<1>3. At(c, s) \in SUBSET (1 .. Len(s))
  BY <1>1 DEF At
<1> QED BY <1>2, <1>3, FS_Subset

LEMMA NoneAtFirst ==
  ASSUME NEW c
  PROVE  InSequence(c, << >>, 0)
BY FS_EmptySet DEF InSequence, At

\* The next trade of a client, passed on last, is in order.
LEMMA NextInSequence ==
  ASSUME NEW c \in Clients, NEW s \in Seq(Entries), NEW n \in Nat,
         InSequence(c, s, n), NEW e \in Entries, e[1] = c, e[2] = n + 1
  PROVE  InSequence(c, Append(s, e), n + 1)
<1> DEFINE t == Append(s, e)
           m == Len(s)
<1>1. /\ m \in Nat /\ DOMAIN s = 1 .. m /\ DOMAIN t = 1 .. m + 1
      /\ \A i \in 1 .. m : t[i] = s[i]
      /\ t[m + 1] = e
  BY LenProperties, AppendProperties
<1>2. m + 1 \notin At(c, s) /\ At(c, s) \subseteq 1 .. m
  BY <1>1 DEF At
<1> HIDE DEF t, m
<1>3. At(c, t) = At(c, s) \cup {m + 1}
  <2>1. \A i : i \in At(c, t) <=> i \in 1 .. m + 1 /\ t[i][1] = c
    BY <1>1 DEF At
  <2>2. \A i : i \in At(c, s) <=> i \in 1 .. m /\ s[i][1] = c
    BY <1>1 DEF At
  <2>3. \A i : i \in 1 .. m + 1 <=> i \in 1 .. m \/ i = m + 1
    BY <1>1
  <2>4. ASSUME NEW i \in 1 .. m PROVE t[i][1] = s[i][1]
    BY <1>1
  <2>5. t[m + 1][1] = c
    BY <1>1
  <2> QED BY <2>1, <2>2, <2>3, <2>4, <2>5
<1>4. IsFiniteSet(At(c, t)) /\ Cardinality(At(c, t)) = n + 1
  <2>1. IsFiniteSet(At(c, s)) /\ Cardinality(At(c, s)) = n
    BY DEF InSequence
  <2>2. Cardinality(At(c, s) \cup {m + 1}) = Cardinality(At(c, s)) + 1
        /\ IsFiniteSet(At(c, s) \cup {m + 1})
    BY <1>2, <2>1, FS_AddElement
  <2> QED BY <1>3, <2>1, <2>2
<1>5. ASSUME NEW i \in At(c, t) PROVE t[i][2] = Rank(c, t, i)
  <2>1. CASE i \in At(c, s)
    <3>1. {j \in At(c, t) : j <= i} = {j \in At(c, s) : j <= i}
      BY <1>1, <1>2, <1>3, <2>1
    <3>2. Rank(c, t, i) = Rank(c, s, i)
      BY <3>1 DEF Rank
    <3> QED BY <1>1, <1>2, <2>1, <3>2 DEF InSequence
  <2>2. CASE i = m + 1
    <3>1. {j \in At(c, t) : j <= i} = At(c, t)
      BY <1>1, <1>2, <1>3, <2>2
    <3> QED BY <1>1, <1>4, <2>2, <3>1 DEF Rank
  <2> QED BY <1>3, <2>1, <2>2
<1> QED BY <1>4, <1>5 DEF InSequence, t

\* A trade of another client disturbs nothing.
LEMMA OtherInSequence ==
  ASSUME NEW c \in Clients, NEW s \in Seq(Entries), NEW n \in Nat,
         InSequence(c, s, n), NEW e \in Entries, e[1] # c
  PROVE  InSequence(c, Append(s, e), n)
<1> DEFINE t == Append(s, e)
           m == Len(s)
<1>1. /\ m \in Nat /\ DOMAIN s = 1 .. m /\ DOMAIN t = 1 .. m + 1
      /\ \A i \in 1 .. m : t[i] = s[i]
      /\ t[m + 1] = e
  BY LenProperties, AppendProperties
<1> HIDE DEF t, m
<1>2. At(c, t) = At(c, s)
  <2>1. \A i : i \in At(c, t) <=> i \in 1 .. m + 1 /\ t[i][1] = c
    BY <1>1 DEF At
  <2>2. \A i : i \in At(c, s) <=> i \in 1 .. m /\ s[i][1] = c
    BY <1>1 DEF At
  <2>3. \A i : i \in 1 .. m + 1 <=> i \in 1 .. m \/ i = m + 1
    BY <1>1
  <2>4. \A i \in 1 .. m : t[i][1] = s[i][1]
    BY <1>1
  <2>5. \A i : i \in At(c, t) <=> i \in At(c, s)
    BY <1>1, <2>1, <2>2, <2>3, <2>4
  <2>6. At(c, t) \subseteq At(c, s) /\ At(c, s) \subseteq At(c, t)
    BY <2>5
  <2> QED BY <2>6
<1>3. \A i \in At(c, s) : t[i] = s[i] /\ Rank(c, t, i) = Rank(c, s, i)
  BY <1>1, <1>2 DEF At, Rank
<1> QED BY <1>2, <1>3 DEF InSequence, t

\* Handling the first trade of the channel leaves what is passed on as it is.
LEMMA HandlingMoves ==
  ASSUME NEW h \in Seq(Entries), NEW q \in Seq(Entries), q # << >>
  PROVE  Append(h, Head(q)) \o Tail(q) = h \o q
<1>1. Head(q) \in Entries /\ Tail(q) \in Seq(Entries) /\ Len(Tail(q)) = Len(q) - 1
      /\ \A i \in 1 .. Len(Tail(q)) : Tail(q)[i] = q[i + 1]
  BY HeadTailProperties
<1>2. Head(q) = q[1] /\ Len(q) \in Nat \ {0} /\ Len(h) \in Nat
  BY EmptySeq, LenProperties
<1> DEFINE a == Append(h, Head(q))
           l == a \o Tail(q)
           r == h \o q
<1>3. /\ a \in Seq(Entries) /\ Len(a) = Len(h) + 1
      /\ \A i \in 1 .. Len(h) : a[i] = h[i]
      /\ a[Len(h) + 1] = q[1]
  BY <1>1, <1>2, AppendProperties
<1> HIDE DEF a
<1>4. /\ l \in Seq(Entries) /\ Len(l) = Len(h) + Len(q)
      /\ \A i \in 1 .. Len(h) + Len(q) :
           l[i] = IF i <= Len(h) + 1 THEN a[i] ELSE Tail(q)[i - (Len(h) + 1)]
  <2>1. /\ l \in Seq(Entries) /\ Len(l) = Len(a) + Len(Tail(q))
        /\ \A i \in 1 .. Len(a) + Len(Tail(q)) :
             l[i] = IF i <= Len(a) THEN a[i] ELSE Tail(q)[i - Len(a)]
    BY <1>1, <1>3, ConcatProperties
  <2>2. Len(a) + Len(Tail(q)) = Len(h) + Len(q)
    BY <1>1, <1>2, <1>3
  <2> HIDE DEF l
  <2> QED BY <1>3, <2>1, <2>2
<1>5. /\ r \in Seq(Entries) /\ Len(r) = Len(h) + Len(q)
      /\ \A i \in 1 .. Len(h) + Len(q) : r[i] = IF i <= Len(h) THEN h[i] ELSE q[i - Len(h)]
  BY ConcatProperties
<1> HIDE DEF l, r
<1>6. ASSUME NEW i \in 1 .. Len(h) + Len(q) PROVE l[i] = r[i]
  <2>1. CASE i <= Len(h)
    <3>1. i \in 1 .. Len(h) /\ i <= Len(h) + 1
      BY <1>2, <2>1
    <3>2. l[i] = a[i] /\ r[i] = h[i] /\ a[i] = h[i]
      BY <1>3, <1>4, <1>5, <2>1, <3>1
    <3> QED BY <3>2
  <2>2. CASE i = Len(h) + 1
    BY <1>2, <1>3, <1>4, <1>5, <2>2
  <2>3. CASE i > Len(h) + 1
    <3>1. i - (Len(h) + 1) \in 1 .. Len(Tail(q)) /\ (i - (Len(h) + 1)) + 1 = i - Len(h)
      BY <1>1, <1>2, <2>3
    <3> QED BY <1>1, <1>2, <1>4, <1>5, <2>3, <3>1
  <2> QED BY <1>2, <2>1, <2>2, <2>3
<1>7. l = r
  BY <1>4, <1>5, <1>6, SeqEqual
<1> QED BY <1>7 DEF l, r, a

\* Passing a trade on puts it last.
LEMMA ForwardingAppends ==
  ASSUME NEW h \in Seq(Entries), NEW q \in Seq(Entries), NEW e \in Entries
  PROVE  h \o Append(q, e) = Append(h \o q, e)
<1>1. <<e>> \in Seq(Entries) /\ h \o q \in Seq(Entries)
  BY ConcatProperties
<1>2. Append(q, e) = q \o <<e>> /\ Append(h \o q, e) = (h \o q) \o <<e>>
  BY <1>1, AppendIsConcat
<1> QED BY <1>1, <1>2, ConcatAssociative

-----------------------------------------------------------------------------
(***************************************************************************)
(* The invariant holds.                                                    *)
(***************************************************************************)
LEMMA InitIInv == Init => IInv
<1> SUFFICES ASSUME Init PROVE IInv
  OBVIOUS
<1>1. handled = << >> /\ trades = << >> /\ << >> \in Seq(Entries)
  BY EmptySeq DEF Init
<1>2. Typed
  <2>1. /\ held \in [Clients -> Nat] /\ sent \in [Clients -> Nat]
        /\ forwarding \in [Clients -> BOOLEAN]
    BY DEF Init
  <2>2. /\ stopped = FALSE /\ closed = {} /\ open = {"trades", "errs"}
        /\ main = "select" /\ result = "nil"
    BY DEF Init
  <2> QED BY <1>1, <2>1, <2>2 DEF Typed
<1>3. Passed = << >>
  BY <1>1, ConcatEmptySeq DEF Passed
<1>4. Numbered
  <2> SUFFICES ASSUME NEW c \in Clients
               PROVE  held[c] \in {0, sent[c]} /\ InSequence(c, Passed, sent[c] - InHand(c))
    BY DEF Numbered
  <2>1. held[c] = 0 /\ sent[c] = 0
    BY DEF Init
  <2> QED BY <1>3, <2>1, NoneAtFirst DEF InHand
<1>5. EndsEmpty /\ ReadsToTheEnd
  BY DEF EndsEmpty, ReadsToTheEnd, Init
<1> QED BY <1>2, <1>4, <1>5 DEF IInv

\* What Numbered is about.
ledger == <<handled, trades, held, sent>>

LEMMA NumberedStays ==
  ASSUME Numbered, Passed' = Passed, UNCHANGED <<held, sent>>
  PROVE  Numbered'
BY DEF Numbered, InHand

LEMMA SendIInv ==
  ASSUME IInv, NEW c \in Clients, SendTrade(c)
  PROVE  IInv'
<1>1. /\ held[c] = 0 /\ forwarding[c] = TRUE
      /\ sent' = [sent EXCEPT ![c] = @ + 1] /\ held' = [held EXCEPT ![c] = sent[c] + 1]
      /\ UNCHANGED <<handled, trades, forwarding, stopped, closed, open, main, result>>
  BY DEF SendTrade, contexts, fanVars, mainVars, IInv, Typed
<1>2. /\ held \in [Clients -> Nat] /\ sent \in [Clients -> Nat]
      /\ forwarding \in [Clients -> BOOLEAN]
  BY DEF IInv, Typed
<1>3. Typed'
  BY <1>1, <1>2 DEF IInv, Typed
<1>4. Passed' = Passed
  BY <1>1 DEF Passed
<1>5. Numbered'
  <2> SUFFICES ASSUME NEW d \in Clients
               PROVE  /\ held'[d] \in {0, sent'[d]}
                      /\ InSequence(d, Passed, sent'[d] - (IF held'[d] = 0 THEN 0 ELSE 1))
    BY <1>4 DEF Numbered, InHand
  <2>1. held[d] \in {0, sent[d]} /\ InSequence(d, Passed, sent[d] - (IF held[d] = 0 THEN 0 ELSE 1))
    BY DEF IInv, Numbered, InHand
  <2>2. CASE d = c
    <3>1. held'[d] = sent[d] + 1 /\ sent'[d] = sent[d] + 1 /\ held[d] = 0 /\ sent[d] \in Nat
      BY <1>1, <1>2, <2>2
    <3>2. /\ sent'[d] - (IF held'[d] = 0 THEN 0 ELSE 1) = sent[d]
          /\ sent[d] - (IF held[d] = 0 THEN 0 ELSE 1) = sent[d]
      BY <3>1
    <3> QED BY <2>1, <3>1, <3>2
  <2>3. CASE d # c
    <3>1. held'[d] = held[d] /\ sent'[d] = sent[d]
      BY <1>1, <1>2, <2>3
    <3> QED BY <2>1, <3>1
  <2> QED BY <2>2, <2>3
<1>6. \A d \in Clients : ~forwarding[d] => held'[d] = held[d]
  BY <1>1, <1>2
<1>7. EndsEmpty' /\ ReadsToTheEnd'
  BY <1>1, <1>6 DEF IInv, EndsEmpty, ReadsToTheEnd
<1> QED BY <1>3, <1>5, <1>7 DEF IInv

LEMMA ForwardIInv ==
  ASSUME IInv, NEW c \in Clients, ForwardTrade(c)
  PROVE  IInv'
<1>1. /\ forwarding[c] /\ forwarding \in [Clients -> BOOLEAN]
      /\ held \in [Clients -> Nat] /\ sent \in [Clients -> Nat]
      /\ handled \in Seq(Entries) /\ trades \in Seq(Entries)
      /\ UNCHANGED <<handled, sent, stopped, closed, open, main, result>>
  BY DEF ForwardTrade, contexts, adapterVars, mainVars, IInv, Typed
<1>2. CASE /\ held[c] # 0
           /\ trades' = Append(trades, <<c, held[c]>>)
           /\ held' = [held EXCEPT ![c] = 0]
           /\ UNCHANGED forwarding
  <2> DEFINE e == <<c, held[c]>>
  <2>1. e \in Entries /\ e[1] = c /\ e[2] = held[c] /\ trades' = Append(trades, e)
    BY <1>1, <1>2 DEF Entries
  <2> HIDE DEF e
  <2>2. Passed' = Append(Passed, e) /\ Passed \in Seq(Entries) /\ trades' \in Seq(Entries)
    BY <1>1, <2>1, ForwardingAppends, ConcatProperties, AppendProperties DEF Passed
  <2>3. Typed'
    BY <1>1, <1>2, <2>2 DEF IInv, Typed
  <2>4. Numbered'
    <3> SUFFICES ASSUME NEW d \in Clients
                 PROVE  /\ held'[d] \in {0, sent[d]}
                        /\ InSequence(d, Append(Passed, e), sent[d] - (IF held'[d] = 0 THEN 0 ELSE 1))
      BY <1>1, <2>2 DEF Numbered, InHand
    <3>1. /\ held[d] \in {0, sent[d]} /\ held[d] \in Nat /\ sent[d] \in Nat
          /\ InSequence(d, Passed, sent[d] - (IF held[d] = 0 THEN 0 ELSE 1))
      BY <1>1 DEF IInv, Numbered, InHand
    <3>2. CASE d = c
      <4>1. /\ held'[d] = 0 /\ held[d] = sent[d] /\ sent[d] - 1 \in Nat
            /\ (sent[d] - 1) + 1 = sent[d] /\ sent[d] - 0 = sent[d]
            /\ InSequence(d, Passed, sent[d] - 1)
        BY <1>1, <1>2, <3>1, <3>2
      <4>2. e[1] = d /\ e[2] = (sent[d] - 1) + 1
        BY <2>1, <3>2, <4>1
      <4>3. InSequence(d, Append(Passed, e), (sent[d] - 1) + 1)
        BY <2>1, <2>2, <4>1, <4>2, NextInSequence
      <4> QED BY <4>1, <4>3
    <3>3. CASE d # c
      <4>1. held'[d] = held[d] /\ e[1] # d
        BY <1>1, <1>2, <2>1, <3>3
      <4> DEFINE n == sent[d] - (IF held[d] = 0 THEN 0 ELSE 1)
      <4>2. n \in Nat
        BY <3>1
      <4>3. InSequence(d, Append(Passed, e), n)
        BY <2>1, <2>2, <3>1, <4>1, <4>2, OtherInSequence
      <4> QED BY <3>1, <4>1, <4>3
    <3> QED BY <3>2, <3>3
  <2>5. \A d \in Clients : ~forwarding[d] => held'[d] = held[d]
    BY <1>1, <1>2
  <2>6. "trades" \in open
    BY <1>1 DEF IInv, ReadsToTheEnd
  <2>7. EndsEmpty' /\ ReadsToTheEnd'
    BY <1>1, <1>2, <2>5, <2>6 DEF IInv, EndsEmpty, ReadsToTheEnd
  <2> QED BY <2>3, <2>4, <2>7 DEF IInv
<1>3. CASE /\ held[c] = 0 \/ stopped
           /\ forwarding' = [forwarding EXCEPT ![c] = FALSE]
           /\ UNCHANGED <<held, trades>>
  <2>1. Passed' = Passed
    BY <1>1, <1>3 DEF Passed
  <2>2. Typed'
    BY <1>1, <1>3 DEF IInv, Typed
  <2>3. Numbered'
    BY <1>1, <1>3, <2>1, NumberedStays DEF IInv
  <2>4. \A d \in Clients : forwarding'[d] = (IF d = c THEN FALSE ELSE forwarding[d])
    BY <1>1, <1>3
  <2>5. EndsEmpty' /\ ReadsToTheEnd'
    BY <1>1, <1>3, <2>4 DEF IInv, EndsEmpty, ReadsToTheEnd
  <2> QED BY <2>2, <2>3, <2>5 DEF IInv
<1> QED BY <1>2, <1>3 DEF ForwardTrade

LEMMA HandleIInv ==
  ASSUME IInv, NEW ok \in BOOLEAN, HandleTrade(ok)
  PROVE  IInv'
<1>1. /\ main = "select" /\ trades # << >>
      /\ trades' = Tail(trades) /\ handled' = Append(handled, Head(trades))
      /\ \/ UNCHANGED <<main, result>>
         \/ main' = "unwinding" /\ result' = "handler"
      /\ UNCHANGED <<held, sent, forwarding, stopped, closed, open>>
  BY DEF HandleTrade, Selecting, contexts, adapterVars, forwardVars
<1>2. handled \in Seq(Entries) /\ trades \in Seq(Entries)
  BY DEF IInv, Typed
<1>3. handled' \in Seq(Entries) /\ trades' \in Seq(Entries)
  BY <1>1, <1>2, HeadTailProperties, AppendProperties
<1>4. Typed'
  BY <1>1, <1>3 DEF IInv, Typed
<1>5. Passed' = Passed
  BY <1>1, <1>2, HandlingMoves DEF Passed
<1>6. Numbered'
  BY <1>1, <1>5, NumberedStays DEF IInv
<1>7. EndsEmpty' /\ ReadsToTheEnd'
  BY <1>1 DEF IInv, EndsEmpty, ReadsToTheEnd
<1> QED BY <1>4, <1>6, <1>7 DEF IInv

\* The steps that move no trade.
LEMMA OtherIInv ==
  ASSUME IInv, UNCHANGED <<ledger, forwarding>>,
         \/ UNCHANGED <<stopped, closed, open, main, result>>
         \/ \E channel \in {"trades", "errs"} :
              /\ \A c \in Clients : ~forwarding[c]
              /\ closed' = closed \cup {channel}
              /\ UNCHANGED <<stopped, open, main, result>>
         \/ \E channel \in {"trades", "errs"} :
              /\ main = "select" /\ channel \in closed
              /\ channel = "trades" => trades = << >>
              /\ open' = open \ {channel}
              /\ UNCHANGED <<stopped, closed, main, result>>
         \/ /\ main = "select" /\ open = {}
            /\ main' = "unwinding" /\ result' \in {"nil", "deadline"}
            /\ UNCHANGED <<stopped, closed, open>>
         \/ /\ main = "unwinding" /\ main' \in {"unwinding", "returned"}
            /\ stopped' \in BOOLEAN /\ (stopped => stopped')
            /\ UNCHANGED <<closed, open, result>>
  PROVE  IInv'
<1>1. UNCHANGED <<handled, trades, held, sent, forwarding>>
  BY DEF ledger
<1>2. Passed' = Passed
  BY <1>1 DEF Passed
<1>3. Numbered'
  BY <1>1, <1>2, NumberedStays DEF IInv
<1>4. Typed'
  BY <1>1 DEF IInv, Typed
<1>5. EndsEmpty'
  BY <1>1 DEF IInv, Typed, EndsEmpty
<1>6. ReadsToTheEnd'
  BY <1>1 DEF IInv, Typed, EndsEmpty, ReadsToTheEnd
<1> QED BY <1>3, <1>4, <1>5, <1>6 DEF IInv

LEMMA NextIInv == IInv /\ [Next]_vars => IInv'
<1> SUFFICES ASSUME IInv, [Next]_vars PROVE IInv'
  OBVIOUS
<1> USE DEF contexts, adapterVars, forwardVars, fanVars, mainVars, ledger
<1>1. ASSUME NEW reason \in {"canceled", "deadline"}, EndContext(reason) PROVE IInv'
  BY <1>1, OtherIInv DEF EndContext
<1>2. ASSUME NEW c \in Clients, SendTrade(c) PROVE IInv'
  BY <1>2, SendIInv
<1>3. ASSUME NEW c \in Clients, SendError(c) PROVE IInv'
  BY <1>3, OtherIInv DEF SendError
<1>4. ASSUME NEW c \in Clients, CloseErrors(c) PROVE IInv'
  BY <1>4, OtherIInv DEF CloseErrors
<1>5. ASSUME NEW c \in Clients, CloseTrades(c) PROVE IInv'
  BY <1>5, OtherIInv DEF CloseTrades
<1>6. ASSUME NEW c \in Clients, ForwardTrade(c) PROVE IInv'
  BY <1>6, ForwardIInv
<1>7. ASSUME NEW c \in Clients, ForwardError(c) PROVE IInv'
  <2>1. UNCHANGED <<ledger, forwarding, stopped, closed, open, main, result>>
    BY <1>7 DEF ForwardError
  <2> QED BY <2>1, OtherIInv
<1>8. ASSUME NEW channel \in {"trades", "errs"}, CloseShared(channel) PROVE IInv'
  <2>1. /\ \A c \in Clients : ~forwarding[c]
        /\ closed' = closed \cup {channel}
        /\ UNCHANGED <<ledger, forwarding, stopped, open, main, result>>
    BY <1>8 DEF CloseShared
  <2> QED BY <2>1, OtherIInv
<1>9. ASSUME NEW ok \in BOOLEAN, HandleTrade(ok) PROVE IInv'
  BY <1>9, HandleIInv
<1>10. CASE HandleError
  BY <1>10, OtherIInv DEF HandleError
<1>11. ASSUME NEW channel \in {"trades", "errs"}, ChannelClosed(channel) PROVE IInv'
  <2>1. /\ main = "select" /\ channel \in closed
        /\ channel = "trades" => trades = << >>
        /\ open' = open \ {channel}
        /\ UNCHANGED <<ledger, forwarding, stopped, closed, main, result>>
    BY <1>11 DEF ChannelClosed, Selecting
  <2> QED BY <2>1, OtherIInv
<1>12. CASE ContextDone
  BY <1>12, OtherIInv DEF ContextDone
<1>13. CASE Finish
  BY <1>13, OtherIInv DEF Finish
<1>14. CASE Unwind
  <2>1. /\ main = "unwinding" /\ main' \in {"unwinding", "returned"}
        /\ stopped' \in BOOLEAN /\ (stopped => stopped')
        /\ UNCHANGED <<ledger, forwarding, closed, open, result>>
    BY <1>14 DEF Unwind, IInv, Typed
  <2> QED BY <2>1, OtherIInv
<1>15. CASE UNCHANGED vars
  BY <1>15, OtherIInv DEF vars
<1> QED
  BY <1>1, <1>2, <1>3, <1>4, <1>5, <1>6, <1>7, <1>8, <1>9, <1>10, <1>11, <1>12, <1>13,
     <1>14, <1>15 DEF Next, MainStep

\* The invariant of RunExchanges.
THEOREM Invariance == Spec => []IInv
<1>1. Init => IInv
  BY InitIInv
<1>2. IInv /\ [Next]_vars => IInv'
  BY NextIInv
<1> QED BY <1>1, <1>2, PTL DEF Spec

(***************************************************************************)
(* The properties.                                                         *)
(***************************************************************************)

\* However clients, forwarders and the loop take turns, the trades of a client
\* pass through the fan-in in the order in which it sent them, and until
\* forwarding is cancelled none is skipped (RunExchanges, forwardTrades).
THEOREM OrderIsKept == Spec => []ClientOrderIsKept
<1>1. IInv => ClientOrderIsKept
  <2> SUFFICES ASSUME IInv, NEW c \in Clients
               PROVE  /\ \A i \in At(c, Passed) : Passed[i][2] = Rank(c, Passed, i)
                      /\ Cardinality(At(c, Passed)) + (IF held[c] = 0 THEN 0 ELSE 1) = sent[c]
    BY DEF ClientOrderIsKept, Passed
  <2>1. InSequence(c, Passed, sent[c] - (IF held[c] = 0 THEN 0 ELSE 1)) /\ sent[c] \in Nat
    BY DEF IInv, Typed, Numbered, InHand
  <2> QED BY <2>1 DEF InSequence
<1> QED BY <1>1, Invariance, PTL

\* Unless the handler fails, RunExchanges returns only after every trade the
\* adapters sent has been handled, whether the caller cancels or not.
THEOREM Drains == Spec => []ReturnsAfterDraining
<1>1. IInv => ReturnsAfterDraining
  <2> SUFFICES ASSUME IInv, main = "returned", result # "handler", NEW c \in Clients
               PROVE  Cardinality(At(c, handled)) = sent[c]
    BY DEF ReturnsAfterDraining
  <2>1. trades = << >> /\ held[c] = 0 /\ handled \in Seq(Entries) /\ sent[c] \in Nat
    BY DEF IInv, Typed, ReadsToTheEnd
  <2>2. Passed = handled /\ InHand(c) = 0 /\ sent[c] - 0 = sent[c]
    BY <2>1, ConcatEmptySeq DEF Passed, InHand
  <2>3. InSequence(c, handled, sent[c])
    BY <2>1, <2>2 DEF IInv, Numbered
  <2> QED BY <2>3 DEF InSequence
<1> QED BY <1>1, Invariance, PTL

=============================================================================
