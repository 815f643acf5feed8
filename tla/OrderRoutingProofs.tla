------------------------- MODULE OrderRoutingProofs -------------------------
(***************************************************************************)
(* The invariants of the order manager at its exchange, proved for every   *)
(* number of orders, every quantity, every bound on mishaps and on unread  *)
(* messages.                                                               *)
(*                                                                         *)
(* The inductive invariant is stated on the order manager's record s in    *)
(* the middle of a call: L are the orders that worked and U those not yet  *)
(* acknowledged when the call began, Q the messages still unread.  A       *)
(* helper of the source maps a record that satisfies a part to one that    *)
(* does, and Dispatch turns Works(s, L) into the exchange's working set.   *)
(***************************************************************************)
EXTENDS OrderRouting, OrderManagerProofs, FiniteSetTheorems

\* The messages of a wire; their order is never needed.
Mail(w) == {w[k] : k \in DOMAIN w}

Kinds == {"mapped", "fill351", "fill352", "cancelled", "failed", "rejected", "snapshot"}
Messages == [kind : Kinds, id : Baskets]

\* The orders that work once the requests sent so far have reached the gateway.
Works(s, L) == (L \ Cancels(s, "server")) \cup News(s)

\* What is known of the ids beside what Drawn and Sides say: in use means drawn,
\* the entry is on the side of the position, a guard drawn after the entry is of
\* this trade, a stop is never cancelled as an entry or exit, and a fill is
\* recorded of drawn ids only.
Ids(s) ==
  /\ s.entry <= s.seq /\ s.pendingCancel <= s.seq
  /\ s.unmapped \subseteq 1 .. s.seq /\ s.stops \subseteq 1 .. s.seq
  /\ s.seeded \subseteq 1 .. s.seq
  /\ s.pendingCancel # 0 => s.pendingCancel # s.entry
  /\ s.exit # 0 => s.exit # s.entry
  /\ s.entry \notin s.stops /\ s.exit \notin s.stops
  /\ s.unmapped \cap s.stops = {}
  /\ s.entry # 0 =>
       /\ s.entry \in s.buys <=> s.dir = "BUY"
       /\ \A b \in s.cancelled : b > s.entry => s.cancelTrade[b] = s.tradeSeq
  /\ \A b \in Baskets : b > s.seq => s.processed[b] = 0

\* An order that works has a name, or the startup snapshot will cancel it.
Named(s, L, Q) ==
  \A b \in Works(s, L) :
    b \in {s.entry, s.exit, s.stop} \cup s.cancelled \cup s.unmapped
      \/ Msg("snapshot", b) \in Q

\* An order that works and whose server id has been read can be cancelled by it:
\* it is the entry or the exit in the map, or the stop with its server id.
Reachable(s, L, U, Q) ==
  \A b \in Works(s, L) :
    \/ b \in U \cup News(s)
    \/ Msg("mapped", b) \in Q \/ Msg("snapshot", b) \in Q
    \/ b \in s.s2cOrders /\ b \in {s.entry, s.exit}
    \/ b = s.stop /\ s.stopServer = b

\* A guard with a server id, and a guard of an earlier process, does not work any
\* more; neither does the entry of a trade that is on.  Of what works no fill has
\* been read.
Stopped(s, L, Q) ==
  /\ \A b \in Works(s, L) :
       /\ b \in s.s2cCancelled \cup s.seeded => Msg("snapshot", b) \in Q
       /\ s.processed[b] = 0
  /\ s.state \in Trading => s.entry \notin Works(s, L)

\* Orders sent in this call are new, and an order reported cancelled, filled or
\* rejected does not work.
Sent(s, L, Q) ==
  /\ L \subseteq 1 .. s.seq /\ Works(s, L) \subseteq 1 .. s.seq /\ L \cap News(s) = {}
  /\ \A m \in Q :
       /\ m.id \in 1 .. s.seq
       /\ m.kind \in {"cancelled", "fill351", "fill352", "rejected"} => m.id \notin Works(s, L)

Tidy(s, L, U, Q) ==
  /\ Sent(s, L, Q)
  /\ Ids(s) /\ Named(s, L, Q) /\ Reachable(s, L, U, Q) /\ Stopped(s, L, Q)

\* A stop that works, or that has filled and will be booked.
Alive(s, L, Q, b) ==
  /\ b \in Works(s, L) \/ (s.processed[b] = 0 /\ Msg("fill351", b) \in Q)
  /\ b \notin s.unmapped /\ Msg("snapshot", b) \notin Q

\* The stop is alive, and so is every guard that a failed cancel can make the stop
\* again.
HasStop(s, L, Q) == s.stop # 0 /\ Alive(s, L, Q, s.stop)
Spare(s, L, Q) ==
  \A b \in s.cancelled \ s.s2cCancelled :
    s.cancelTrade[b] = s.tradeSeq => Alive(s, L, Q, b)
Covered(s, L, Q) == s.state \in InTrade => HasStop(s, L, Q) /\ Spare(s, L, Q)

\* The net position the order manager believes in.
Believed(s) ==
  IF s.state \in Trading THEN (IF s.dir = "BUY" THEN 1 ELSE -1) ELSE 0

\* A fill of b will be booked as a step of the leg.
Books(s, b) ==
  \/ s.state = "PENDING_ENTRY" /\ b = s.entry
  \/ s.state = "PENDING_EXIT" /\ b = s.exit
  \/ s.state \in InTrade
       /\ (b = s.stop \/ (b \in s.cancelled /\ s.cancelTrade[b] = s.tradeSeq))

Filled(Q) == {m.id : m \in {n \in Q : n.kind \in {"fill351", "fill352"}}}

\* Every fill on the wire has been booked, or there is one that will be.
Booked(s, net, Q) ==
  \/ /\ \A b \in Filled(Q) : s.processed[b] >= Qty
     /\ net = Believed(s)
  \/ \E b \in Filled(Q) :
       /\ Filled(Q) = {b} /\ s.processed[b] = 0 /\ Books(s, b)
       /\ Msg("cancelled", b) \notin Q /\ Msg("rejected", b) \notin Q
       /\ net = Believed(s) + (IF b \in s.buys THEN 1 ELSE -1)

\* A reject on the wire has set `exposed`, a snapshot `crossed`.
Posted(Q, h) ==
  \A m \in Q : /\ m.kind = "rejected" => h.exposed
               /\ m.kind = "snapshot" => h.crossed

Exchange == [live : SUBSET Baskets, unacked : SUBSET Baskets, net : Int]
History == [crossed : BOOLEAN, exposed : BOOLEAN, redriven : BOOLEAN,
            left : 0 .. MaxMishaps]

RShape ==
  /\ xc \in Exchange /\ xc.unacked \subseteq xc.live
  /\ wire \in Seq(Messages)
  /\ hist \in History

RInv ==
  /\ IInv /\ om.out = {}
  /\ RShape
  /\ Posted(Mail(wire), hist)
  /\ Tidy(om, xc.live, xc.unacked, Mail(wire))
  /\ ~hist.exposed /\ ~hist.redriven => Covered(om, xc.live, Mail(wire))
  /\ ~hist.crossed => Booked(om, xc.net, Mail(wire))

-----------------------------------------------------------------------------
(* The wire. *)

LEMMA MailConcat ==
  ASSUME NEW w \in Seq(Messages), NEW v \in Seq(Messages)
  PROVE  w \o v \in Seq(Messages) /\ Mail(w \o v) = Mail(w) \cup Mail(v)
<1>1. /\ w \o v \in Seq(Messages) /\ DOMAIN w = 1 .. Len(w) /\ DOMAIN v = 1 .. Len(v)
      /\ Len(w) \in Nat /\ Len(v) \in Nat /\ DOMAIN (w \o v) = 1 .. Len(w) + Len(v)
  OBVIOUS
<1>2. \A k \in 1 .. Len(w) + Len(v) :
        (w \o v)[k] = IF k <= Len(w) THEN w[k] ELSE v[k - Len(w)]
  OBVIOUS
<1> DEFINE z == w \o v
<1> HIDE DEF z
<1>3. Mail(z) \subseteq Mail(w) \cup Mail(v)
  <2> SUFFICES ASSUME NEW k \in DOMAIN z PROVE z[k] \in Mail(w) \cup Mail(v)
    BY DEF Mail
  <2>1. CASE k <= Len(w)
    <3>1. k \in DOMAIN w /\ z[k] = w[k]
      BY <1>1, <1>2, <2>1 DEF z
    <3> QED BY <3>1 DEF Mail
  <2>2. CASE ~(k <= Len(w))
    <3>1. k - Len(w) \in DOMAIN v /\ z[k] = v[k - Len(w)]
      BY <1>1, <1>2, <2>2 DEF z
    <3> QED BY <3>1 DEF Mail
  <2> QED BY <2>1, <2>2
<1>4. Mail(w) \subseteq Mail(z)
  <2> SUFFICES ASSUME NEW k \in DOMAIN w PROVE w[k] \in Mail(z)
    BY DEF Mail
  <2>1. k \in DOMAIN z /\ z[k] = w[k]
    BY <1>1, <1>2 DEF z
  <2> QED BY <2>1 DEF Mail
<1>5. Mail(v) \subseteq Mail(z)
  <2> SUFFICES ASSUME NEW k \in DOMAIN v PROVE v[k] \in Mail(z)
    BY DEF Mail
  <2>1. k + Len(w) \in DOMAIN z /\ z[k + Len(w)] = v[k]
    BY <1>1, <1>2 DEF z
  <2> QED BY <2>1 DEF Mail
<1> QED BY <1>1, <1>3, <1>4, <1>5 DEF z

LEMMA MailTail ==
  ASSUME NEW w \in Seq(Messages), w # << >>
  PROVE  /\ Tail(w) \in Seq(Messages) /\ Head(w) \in Messages
         /\ Mail(w) = {Head(w)} \cup Mail(Tail(w))
<1>1. /\ Tail(w) \in Seq(Messages) /\ Head(w) = w[1] /\ Len(w) \in Nat /\ Len(w) >= 1
      /\ DOMAIN w = 1 .. Len(w) /\ DOMAIN Tail(w) = 1 .. Len(w) - 1
      /\ \A k \in 1 .. Len(w) - 1 : Tail(w)[k] = w[k + 1]
  OBVIOUS
<1> DEFINE z == Tail(w)
<1> HIDE DEF z
<1>2. w[1] \in Messages /\ 1 \in DOMAIN w
  BY <1>1
<1>3. Mail(w) \subseteq {w[1]} \cup Mail(z)
  <2> SUFFICES ASSUME NEW k \in DOMAIN w, k # 1 PROVE w[k] \in Mail(z)
    BY DEF Mail
  <2>1. k - 1 \in DOMAIN z /\ z[k - 1] = w[k]
    BY <1>1 DEF z
  <2> QED BY <2>1 DEF Mail
<1>4. Mail(z) \subseteq Mail(w)
  <2> SUFFICES ASSUME NEW k \in DOMAIN z PROVE z[k] \in Mail(w)
    BY DEF Mail
  <2>1. k + 1 \in DOMAIN w /\ z[k] = w[k + 1]
    BY <1>1 DEF z
  <2> QED BY <2>1 DEF Mail
<1>5. w[1] \in Mail(w)
  BY <1>2 DEF Mail
<1> QED BY <1>1, <1>2, <1>3, <1>4, <1>5 DEF z

LEMMA MailAppend ==
  ASSUME NEW w \in Seq(Messages), NEW m \in Messages
  PROVE  /\ Append(w, m) \in Seq(Messages) /\ Mail(Append(w, m)) = Mail(w) \cup {m}
         /\ <<m>> \in Seq(Messages) /\ Mail(<<m>>) = {m} /\ Append(w, m) = w \o <<m>>
<1>1. <<m>> \in Seq(Messages) /\ Append(w, m) = w \o <<m>>
  OBVIOUS
<1>2. Mail(<<m>>) = {m}
  BY DEF Mail
<1> QED BY <1>1, <1>2, MailConcat

\* A finite set of messages is sent as a sequence of them, each once.
LEMMA MailSet ==
  ASSUME NEW S, S \subseteq Messages, IsFiniteSet(S)
  PROVE  SetToSeq(S) \in Seq(Messages) /\ Mail(SetToSeq(S)) = S
<1> DEFINE n == Cardinality(S)
           f == SetToSeq(S)
<1>1. n \in Nat /\ ExistsBijection(1 .. n, S)
  BY FS_CardinalityType
<1>2. \E g \in [1 .. n -> S] : IsInjective(g)
  BY <1>1 DEF ExistsBijection, Bijection, Injection
<1>3. f \in [1 .. n -> S] /\ IsInjective(f)
  BY <1>2 DEF SetToSeq
<1> HIDE DEF f
<1>4. f \in Injection(1 .. n, S)
  BY <1>3 DEF Injection
<1>5. Cardinality(1 .. n) = n
  BY <1>1, FS_Interval
<1>6. f \in Surjection(1 .. n, S)
  BY <1>4, <1>5, FS_Injection
<1>7. Mail(f) = S
  BY <1>3, <1>6 DEF Mail, Surjection
<1> HIDE DEF n
<1>8. f \in Seq(Messages)
  BY <1>1, <1>3
<1> QED BY <1>7, <1>8 DEF f

\* The messages of one kind about finitely many orders are finitely many.
LEMMA FiniteMail ==
  ASSUME NEW B, IsFiniteSet(B), NEW kind
  PROVE  IsFiniteSet({Msg(kind, b) : b \in B})
<1> DEFINE T == {Msg(kind, b) : b \in B}
           f == [b \in B |-> Msg(kind, b)]
<1>1. f \in Surjection(B, T)
  BY DEF Surjection
<1> HIDE DEF f, T
<1>2. IsFiniteSet(T)
  BY <1>1, FS_Surjection
<1> QED BY <1>2 DEF T

-----------------------------------------------------------------------------
(* The requests of a call. *)

LEMMA NothingSent ==
  ASSUME NEW s, s.out = {}
  PROVE  /\ News(s) = {} /\ \A by : Cancels(s, by) = {}
         /\ \A L : Works(s, L) = L
  BY DEF News, Cancels, Works

LEMMA SameSent ==
  ASSUME NEW s, NEW t, t.out = s.out
  PROVE  /\ News(t) = News(s) /\ \A by : Cancels(t, by) = Cancels(s, by)
         /\ \A L : Works(t, L) = Works(s, L)
  BY DEF News, Cancels, Works

LEMMA NewSent ==
  ASSUME NEW s, NEW t, NEW L, NEW o, o.op = "new", t.out = s.out \cup {o}
  PROVE  /\ \A x : x \in News(t) <=> x \in News(s) \/ x = o.id
         /\ \A x : x \in Works(t, L) <=> x \in Works(s, L) \/ x = o.id
<1>1. News(t) = News(s) \cup {o.id}
  BY DEF News
<1>2. Cancels(t, "server") = Cancels(s, "server")
  BY DEF Cancels
<1> QED BY <1>1, <1>2 DEF Works

LEMMA ServerCancelSent ==
  ASSUME NEW s, NEW t, NEW L, NEW c, c.op = "cancel", c.by = "server", t.out = s.out \cup {c}
  PROVE  /\ News(t) = News(s)
         /\ \A x : x \in Works(t, L) <=> x \in News(s) \/ (x \in Works(s, L) /\ x # c.id)
<1>1. News(t) = News(s)
  BY DEF News
<1>2. Cancels(t, "server") = Cancels(s, "server") \cup {c.id}
  BY DEF Cancels
<1> QED BY <1>1, <1>2 DEF Works

LEMMA ClientCancelSent ==
  ASSUME NEW s, NEW t, NEW L, NEW c, c.op = "cancel", c.by = "client", t.out = s.out \cup {c}
  PROVE  News(t) = News(s) /\ Works(t, L) = Works(s, L)
<1>1. News(t) = News(s)
  BY DEF News
<1>2. Cancels(t, "server") = Cancels(s, "server")
  BY DEF Cancels
<1> QED BY <1>1, <1>2 DEF Works
-----------------------------------------------------------------------------
(* The stop. *)

\* What the helpers of the stop leave alone.
Frame(t, s) ==
  /\ SamePosition(t, s) /\ t.tradeSeq = s.tradeSeq /\ t.pendingCancel = s.pendingCancel
  /\ t.s2cOrders = s.s2cOrders /\ t.unmapped = s.unmapped
  /\ t.processed = s.processed /\ t.seeded = s.seeded

LEMMA CancelStopFields ==
  ASSUME NEW s, Good(s), s.state \in Trading, s.stop # 0
  PROVE  LET t == cancel_stop_locked(s) IN
         /\ Frame(t, s) /\ t.seq = s.seq /\ t.buys = s.buys /\ t.stops = s.stops
         /\ t.stop = 0 /\ t.stopServer = 0 /\ t.cancelled = s.cancelled \cup {s.stop}
         /\ t.cancelTrade = [s.cancelTrade EXCEPT ![s.stop] = s.tradeSeq]
         /\ t.s2cCancelled = IF s.stopServer # 0 THEN s.s2cCancelled \cup {s.stop}
                                                 ELSE s.s2cCancelled
         /\ t.out = s.out \cup {[op |-> "cancel", id |-> s.stop,
                                 by |-> IF s.stopServer # 0 THEN "server" ELSE "client"]}
<1> DEFINE b == s.stop
           known == s.stopServer # 0
           c == [op |-> "cancel", id |-> b, by |-> IF known THEN "server" ELSE "client"]
           T == [s.cancelTrade EXCEPT ![b] = s.tradeSeq]
           t == cancel_stop_locked(s)
<1>3. t = [s EXCEPT !.lastStop = b,
                    !.cancelled = @ \cup {b},
                    !.cancelTrade = T,
                    !.s2cCancelled = IF known THEN @ \cup {b} ELSE @,
                    !.clientOnly = IF known THEN @ ELSE @ \cup {b},
                    !.dbRows = @ \cup {b},
                    !.dbServer = IF known THEN @ \cup {b} ELSE @,
                    !.out = @ \cup {c},
                    !.stop = 0, !.stopServer = 0]
  BY ZenonT(60), FieldNames
  DEF Fields, Good, IsOMState, cancel_stop_locked, guard_stop, cancel_persist,
      cancel_persist_server_id, send_cancel
<1> HIDE DEF t, c, T
<1>4. /\ t.cancelTrade = T /\ t.out = s.out \cup {c}
      /\ Frame(t, s) /\ t.seq = s.seq /\ t.buys = s.buys /\ t.stops = s.stops
      /\ t.stop = 0 /\ t.stopServer = 0 /\ t.cancelled = s.cancelled \cup {b}
      /\ t.s2cCancelled = IF known THEN s.s2cCancelled \cup {b} ELSE s.s2cCancelled
  BY <1>3, FieldNames DEF Fields, Good, IsOMState, Frame, SamePosition
<1> QED BY <1>4 DEF t, c, T

\* A cancelled stop stays named as a guard; known by its server id it is gone.
LEMMA CancelStopTidy ==
  ASSUME NEW s, Good(s), s.state \in Trading, NEW L, NEW U, NEW Q,
         Tidy(s, L, U, Q), News(s) = {}
  PROVE  LET t == cancel_stop_locked(s) IN
         /\ Tidy(t, L, U, Q) /\ News(t) = {} /\ t.stop = 0
         /\ Frame(t, s) /\ t.seq = s.seq /\ t.buys = s.buys /\ t.stops = s.stops
         /\ \A b : Books(s, b) => Books(t, b)
         /\ HasStop(s, L, Q) /\ Spare(s, L, Q) => Spare(t, L, Q)
<1> DEFINE t == cancel_stop_locked(s)
           b == s.stop
           p == [op |-> "cancel", id |-> b, by |-> IF s.stopServer # 0 THEN "server" ELSE "client"]
<1>1. CASE b = 0
  <2>1. t = s
    BY <1>1 DEF cancel_stop_locked
  <2> QED BY <1>1, <2>1 DEF Frame, SamePosition, HasStop
<1>2. CASE b # 0
  <2>1. /\ Frame(t, s) /\ t.seq = s.seq /\ t.buys = s.buys /\ t.stops = s.stops
        /\ t.stop = 0 /\ t.stopServer = 0 /\ t.cancelled = s.cancelled \cup {b}
        /\ t.cancelTrade = [s.cancelTrade EXCEPT ![b] = s.tradeSeq]
        /\ t.s2cCancelled = IF s.stopServer # 0 THEN s.s2cCancelled \cup {b}
                                                ELSE s.s2cCancelled
        /\ t.out = s.out \cup {p}
    BY <1>2, CancelStopFields
  <2> HIDE DEF t
  <2>2. /\ News(t) = {} /\ Works(t, L) \subseteq Works(s, L)
        /\ Works(s, L) \ {b} \subseteq Works(t, L)
        /\ s.stopServer # 0 => b \notin Works(t, L)
        /\ s.stopServer = 0 => Works(t, L) = Works(s, L)
    <3>1. CASE s.stopServer # 0
      <4>1. t.out = s.out \cup {p} /\ p.op = "cancel" /\ p.by = "server" /\ p.id = b
        BY <2>1, <3>1
      <4> HIDE DEF p
      <4>2. /\ News(t) = News(s)
            /\ \A x : x \in Works(t, L) <=> x \in News(s) \/ (x \in Works(s, L) /\ x # p.id)
        BY <4>1, ServerCancelSent
      <4> QED BY <3>1, <4>1, <4>2
    <3>2. CASE s.stopServer = 0
      <4>1. t.out = s.out \cup {p} /\ p.op = "cancel" /\ p.by = "client"
        BY <2>1, <3>2
      <4> HIDE DEF p
      <4>2. News(t) = News(s) /\ Works(t, L) = Works(s, L)
        BY <4>1, ClientCancelSent
      <4> QED BY <3>2, <4>2
    <3> QED BY <3>1, <3>2
  <2>3. /\ b \in Baskets /\ b \in 1 .. s.seq /\ \A x \in Baskets : x # b => t.cancelTrade[x] = s.cancelTrade[x]
        /\ t.cancelTrade[b] = s.tradeSeq /\ s.cancelled \subseteq Baskets
        /\ s.cancelTrade \in [Baskets -> BasketId]
    <3>1. /\ b \in BasketId /\ b <= s.seq /\ s.seq \in BasketId /\ s.cancelled \subseteq Baskets
          /\ s.cancelTrade \in [Baskets -> BasketId]
      BY DEF Good, IsOMState, Drawn
    <3>2. b \in Baskets /\ b \in 1 .. s.seq
      BY <1>2, <3>1, BasketsAssumption DEF Baskets, BasketId
    <3> QED BY <2>1, <3>1, <3>2
  <2>4. Ids(t)
    BY <2>1, <2>3 DEF Tidy, Sent, Ids, Frame, SamePosition
  <2>5. Named(t, L, Q)
    BY <2>1, <2>2 DEF Tidy, Sent, Named, Frame, SamePosition
  <2>6. b \in Works(t, L) =>
          b \in U \/ Msg("mapped", b) \in Q \/ Msg("snapshot", b) \in Q
            \/ (b \in s.s2cOrders /\ b \in {s.entry, s.exit})
    BY <1>2, <2>2 DEF Tidy, Sent, Reachable
  <2>7. Reachable(t, L, U, Q)
    BY <2>1, <2>2, <2>6 DEF Tidy, Sent, Reachable, Frame, SamePosition
  <2>8. Stopped(t, L, Q)
    BY <2>1, <2>2 DEF Tidy, Sent, Stopped, Frame, SamePosition
  <2>9. Tidy(t, L, U, Q)
    BY <2>1, <2>2, <2>4, <2>5, <2>7, <2>8 DEF Tidy, Sent
  <2>10. \A x : Books(s, x) => Books(t, x)
    BY <2>1, <2>3 DEF Books, Frame, SamePosition
  <2>11. ASSUME HasStop(s, L, Q), Spare(s, L, Q) PROVE Spare(t, L, Q)
    <3> SUFFICES ASSUME NEW x \in t.cancelled \ t.s2cCancelled,
                        t.cancelTrade[x] = t.tradeSeq
                 PROVE  Alive(t, L, Q, x)
      BY DEF Spare
    <3>1. CASE x = b
      BY <2>1, <2>2, <2>11, <3>1 DEF HasStop, Alive, Frame
    <3>2. CASE x # b
      <4>1. Alive(s, L, Q, x)
        BY <2>1, <2>3, <2>11, <3>2 DEF Spare, Frame
      <4> QED BY <2>1, <2>2, <3>2, <4>1 DEF Alive, Frame
    <3> QED BY <3>1, <3>2
  <2> QED BY <2>1, <2>2, <2>9, <2>10, <2>11 DEF t
<1> QED BY <1>1, <1>2

\* A new stop has a fresh id, is the stop, and is alive when it was sent.
LEMMA SubmitStopTidy ==
  ASSUME NEW s, Good(s), NEW L, NEW U, NEW Q, Tidy(s, L, U, Q), NEW ok \in BOOLEAN,
         s.seq + 1 <= MaxBaskets, s.stop = 0 \/ s.stop \notin Works(s, L)
  PROVE  LET t == submit_stop_order_locked(s, ok) IN
         /\ Tidy(t, L, U, Q) /\ Frame(t, s) /\ t.seq = s.seq + 1
         /\ t.cancelled = s.cancelled /\ t.cancelTrade = s.cancelTrade
         /\ \A b \in 1 .. s.seq : b \in t.buys <=> b \in s.buys
         /\ Spare(s, L, Q) => Spare(t, L, Q)
         /\ ok => HasStop(t, L, Q)
<1> DEFINE t == submit_stop_order_locked(s, ok)
           b == s.seq + 1
           isBuy == s.state # "LONG"
           o == [op |-> "new", id |-> b, kind |-> "stop", buy |-> isBuy]
<1>1. /\ Frame(t, s) /\ t.seq = b /\ t.stops = s.stops \cup {b} /\ t.stopServer = 0
      /\ t.buys = IF isBuy THEN s.buys \cup {b} ELSE s.buys
      /\ t.cancelled = s.cancelled /\ t.cancelTrade = s.cancelTrade
      /\ t.s2cCancelled = s.s2cCancelled
      /\ t.stop = IF ok THEN b ELSE 0
      /\ t.out = IF ok THEN s.out \cup {o} ELSE s.out
  <2>1. t = IF ok THEN [s EXCEPT !.seq = b, !.buys = IF isBuy THEN @ \cup {b} ELSE @,
                                 !.stops = @ \cup {b}, !.out = @ \cup {o},
                                 !.stop = b, !.stopServer = 0, !.dbRows = @ \cup {b}]
                  ELSE [s EXCEPT !.seq = b, !.buys = IF isBuy THEN @ \cup {b} ELSE @,
                                 !.stops = @ \cup {b}, !.stop = 0, !.stopServer = 0]
    BY FieldNames DEF submit_stop_order_locked, send_order, cancel_persist, Good, IsOMState, Fields
  <2> HIDE DEF t, o, isBuy
  <2> QED BY <2>1, FieldNames DEF Fields, Good, IsOMState, Frame, SamePosition
<1> HIDE DEF t
<1>2. /\ ok => News(t) = News(s) \cup {b} /\ Works(t, L) = Works(s, L) \cup {b}
      /\ ~ok => News(t) = News(s) /\ Works(t, L) = Works(s, L)
  <2>1. CASE ok
    <3>1. t.out = s.out \cup {o} /\ o.op = "new" /\ o.id = b
      BY <1>1, <2>1
    <3> HIDE DEF o, b
    <3>2. /\ \A x : x \in News(t) <=> x \in News(s) \/ x = b
          /\ \A x : x \in Works(t, L) <=> x \in Works(s, L) \/ x = b
      BY <3>1, NewSent
    <3> QED BY <2>1, <3>2
  <2>2. CASE ~ok
    BY <1>1, <2>2, SameSent
  <2> QED BY <2>1, <2>2
<1>3. /\ s.seq \in Nat /\ b \notin 1 .. s.seq /\ b \in 1 .. b /\ 1 .. s.seq \subseteq 1 .. b
      /\ s.entry <= s.seq /\ s.exit <= s.seq /\ s.entry \in Nat /\ s.exit \in Nat /\ b # 0
      /\ s.cancelled \subseteq 1 .. s.seq /\ s.s2cCancelled \subseteq 1 .. s.seq
      /\ s.pendingCancel \in Nat
  BY DEF Good, IsOMState, Guards, Drawn, BasketId, Tidy, Ids
<1>4. Ids(t)
  BY <1>1, <1>3 DEF Tidy, Sent, Ids, Frame, SamePosition, Baskets
<1>5. /\ Works(t, L) \subseteq Works(s, L) \cup {b}
      /\ s.processed[b] = 0 \/ b \notin Works(t, L)
  <2>1. CASE ok
    <3>1. b \in Baskets
      BY <1>3, BasketsAssumption DEF Baskets
    <3>2. s.processed[b] = 0
      BY <1>3, <3>1 DEF Tidy, Sent, Ids
    <3> QED BY <1>2, <2>1, <3>2
  <2>2. CASE ~ok
    BY <1>2, <1>3, <2>2 DEF Tidy, Sent
  <2> QED BY <2>1, <2>2
<1>6. Named(t, L, Q)
  BY <1>1, <1>2, <1>3 DEF Tidy, Sent, Named, Frame, SamePosition
<1>7. Reachable(t, L, U, Q)
  BY <1>1, <1>2, <1>3 DEF Tidy, Sent, Reachable, Frame, SamePosition
<1>8. Stopped(t, L, Q)
  BY <1>1, <1>2, <1>3, <1>5 DEF Tidy, Sent, Ids, Stopped, Frame, SamePosition
<1>9. Tidy(t, L, U, Q)
  <2>1. Sent(t, L, Q)
    BY <1>1, <1>2, <1>3 DEF Tidy, Sent
  <2> QED BY <2>1, <1>4, <1>6, <1>7, <1>8 DEF Tidy, Sent
<1>10. ASSUME Spare(s, L, Q) PROVE Spare(t, L, Q)
  BY <1>1, <1>2, <1>10 DEF Spare, Alive, Frame
<1>11. ASSUME ok PROVE HasStop(t, L, Q)
  <2>1. b \notin s.unmapped
    BY <1>3 DEF Tidy, Sent, Ids
  <2>2. Msg("snapshot", b) \notin Q
    BY <1>3 DEF Tidy, Sent, Msg
  <2> QED BY <1>1, <1>2, <1>3, <1>11, <2>1, <2>2 DEF HasStop, Alive, Frame
<1>12. \A x \in 1 .. s.seq : x \in t.buys <=> x \in s.buys
  BY <1>1, <1>3
<1> QED BY <1>1, <1>9, <1>10, <1>11, <1>12 DEF t

-----------------------------------------------------------------------------
(* Exits, entries. *)

\* What sending an exit leaves alone.
ExitFrame(t, c) ==
  /\ t.entry = c.entry /\ t.dir = c.dir /\ t.seq = c.seq + 1 /\ t.stops = c.stops
  /\ t.tradeSeq = c.tradeSeq /\ t.pendingCancel = c.pendingCancel
  /\ t.s2cOrders = c.s2cOrders /\ t.unmapped = c.unmapped
  /\ t.processed = c.processed /\ t.seeded = c.seeded
  /\ t.cancelled = c.cancelled /\ t.cancelTrade = c.cancelTrade
  /\ t.s2cCancelled = c.s2cCancelled /\ t.stop = c.stop /\ t.stopServer = c.stopServer
  /\ \A y \in 1 .. c.seq : y \in t.buys <=> y \in c.buys

LEMMA ExitOrderFields ==
  ASSUME NEW s, Good(s), Holding(s), NEW ok \in BOOLEAN
  PROVE  LET c == cancel_stop_locked(s)
             x == exit_sent(s, ok)
             r == exit_failed(s, ok) IN
         /\ ExitFrame(x, c) /\ ExitFrame(r, c) /\ c.seq = s.seq
         /\ x.state = "PENDING_EXIT" /\ x.exit = c.seq + 1
         /\ r.state = Held(s.dir) /\ r.exit = 0
         /\ \E o : o.op = "new" /\ o.id = c.seq + 1
                   /\ x.out = IF ok THEN c.out \cup {o} ELSE c.out
         /\ r.out = x.out
<1> DEFINE c == cancel_stop_locked(s)
           b == c.seq + 1
           isBuy == s.dir = "SELL"
           o == [op |-> "new", id |-> b, kind |-> "exit", buy |-> isBuy]
           B == IF isBuy THEN c.buys \cup {b} ELSE c.buys
           O == IF ok THEN c.out \cup {o} ELSE c.out
           h == exit_sent(s, ok).entryHalted \/ s.rejectedExits + 1 > 3
           x == exit_sent(s, ok)
           r == exit_failed(s, ok)
<1>1. Good(c) /\ c.seq = s.seq
  BY CancelStopGood DEF Holding, InTrade
<1>2. x = [[c EXCEPT !.seq = b, !.buys = B, !.stops = c.stops, !.out = O]
             EXCEPT !.state = "PENDING_EXIT", !.exit = b]
  <2> HIDE DEF c
  <2>1. exit_order(s, ok) = [c EXCEPT !.seq = b, !.buys = B, !.stops = c.stops, !.out = O]
    BY DEF exit_order, send_order, c
  <2> HIDE DEF b, B, O
  <2>2. x = [exit_order(s, ok) EXCEPT !.state = "PENDING_EXIT", !.exit = b]
    BY DEF exit_sent, c, b
  <2> HIDE DEF x
  <2> QED BY <2>1, <2>2
<1>3. r = [x EXCEPT !.exit = 0, !.state = Held(s.dir), !.rejectedExits = @ + 1, !.entryHalted = h]
  BY <1>1, <1>2, FieldNames DEF exit_failed, Fields, Good, IsOMState
<1>4. \A y \in 1 .. c.seq : y \in B <=> y \in c.buys
  BY <1>1 DEF Good, IsOMState, BasketId
<1>5. o.op = "new" /\ o.id = b
  OBVIOUS
<1> HIDE DEF c, o, B, O, h, x, r
<1>6. /\ x.seq = b /\ x.buys = B /\ x.out = O /\ x.state = "PENDING_EXIT" /\ x.exit = b
      /\ x.stops = c.stops /\ DOMAIN x = Fields
  BY <1>1, <1>2, FieldNames DEF Fields, Good, IsOMState
<1>7. ExitFrame(x, c)
  BY <1>1, <1>2, <1>4, <1>6, FieldNames DEF Fields, Good, IsOMState, ExitFrame
<1>8. /\ r.seq = b /\ r.buys = B /\ r.out = O /\ r.state = Held(s.dir) /\ r.exit = 0
  BY <1>3, <1>6 DEF Fields
<1>9. ExitFrame(r, c)
  BY <1>3, <1>6, <1>7 DEF Fields, ExitFrame
<1>10. \E q : q.op = "new" /\ q.id = b /\ x.out = IF ok THEN c.out \cup {q} ELSE c.out
  BY <1>5, <1>6 DEF O
<1> HIDE DEF b
<1> QED BY <1>1, <1>6, <1>7, <1>8, <1>9, <1>10 DEF c, x, r, b

\* The exit takes the place of the stop; when it cannot be sent a new stop does.
\* No fill is forgotten and the position believed in is the same.
LEMMA InitiateExitTidy ==
  ASSUME NEW s, Good(s), Holding(s), s.seq + 1 <= MaxBaskets,
         NEW ok \in BOOLEAN, NEW okStop \in BOOLEAN, ok \/ s.seq + 2 <= MaxBaskets,
         NEW L, NEW U, NEW Q, Tidy(s, L, U, Q), News(s) = {}
  PROVE  LET t == initiate_exit_locked(s, ok, okStop) IN
         /\ Tidy(t, L, U, Q) /\ t.processed = s.processed
         /\ Believed(t) = Believed(s)
         /\ ok => t.state = "PENDING_EXIT"
         /\ okStop /\ HasStop(s, L, Q) /\ Spare(s, L, Q) => Covered(t, L, Q)
<1> DEFINE c == cancel_stop_locked(s)
           x == exit_sent(s, ok)
           r == exit_failed(s, ok)
           b == s.seq + 1
           y == submit_stop_order_locked(r, okStop)
<1>1. /\ Good(c) /\ Tidy(c, L, U, Q) /\ News(c) = {} /\ c.stop = 0 /\ Frame(c, s)
      /\ c.seq = s.seq
      /\ HasStop(s, L, Q) /\ Spare(s, L, Q) => Spare(c, L, Q)
  BY CancelStopGood, CancelStopTidy DEF Holding, InTrade, Trading
<1>2. /\ Good(x) /\ Good(r) /\ Holding(r) /\ r.seq = b /\ r.stop = 0
  BY ExitOrderGood
<1>3. /\ ExitFrame(x, c) /\ ExitFrame(r, c)
      /\ x.state = "PENDING_EXIT" /\ x.exit = b
      /\ r.state = Held(s.dir) /\ r.exit = 0
      /\ \E o : o.op = "new" /\ o.id = b /\ x.out = IF ok THEN c.out \cup {o} ELSE c.out
      /\ r.out = x.out
  BY <1>1, ExitOrderFields
<1>4. initiate_exit_locked(s, ok, okStop) = IF ok THEN x ELSE y
  BY InitiateExitCases
<1> HIDE DEF c, x, r
<1>5. /\ s.seq \in Nat /\ b \notin 1 .. s.seq /\ b \in 1 .. b /\ 1 .. s.seq \subseteq 1 .. b
      /\ b # 0 /\ b \in Baskets /\ s.processed[b] = 0 /\ b \notin s.stops
      /\ b \notin c.s2cCancelled \cup c.seeded
      /\ c.entry \in Nat /\ c.pendingCancel \in Nat /\ c.exit = 0
  <2>a. s.seq \in BasketId
    BY DEF Good, IsOMState
  <2>1. b \in Baskets /\ s.seq \in Nat
    BY <2>a, BasketsAssumption DEF BasketId, Baskets
  <2>2. s.processed[b] = 0 /\ b \notin s.stops /\ b \notin c.seeded
    BY <1>1, <2>1 DEF Tidy, Sent, Ids
  <2>3. c.s2cCancelled \subseteq 1 .. c.seq
    BY <1>1 DEF Good, Guards, Drawn
  <2>4. c.entry \in Nat /\ c.pendingCancel \in Nat /\ c.exit = 0
    BY <1>1 DEF Good, IsOMState, BasketId, Frame, SamePosition, Holding
  <2> QED BY <1>1, <2>1, <2>2, <2>3, <2>4
<1>6. CASE ok
  <2>1. /\ \A z : z \in News(x) <=> z = b
        /\ \A z : z \in Works(x, L) <=> z \in Works(c, L) \/ z = b
    <3>1. PICK o : o.op = "new" /\ o.id = b /\ x.out = c.out \cup {o}
      BY <1>3, <1>6
    <3> QED BY <1>1, <3>1, NewSent
  <2>2. Ids(x)
    <3>1. Ids(c) /\ c.seq \in Nat
      BY <1>1, <1>5 DEF Tidy, Sent
    <3>2. /\ x.entry <= x.seq /\ x.pendingCancel <= x.seq
          /\ x.entry \notin x.stops /\ x.exit \notin x.stops
      BY <1>1, <1>3, <1>5, <3>1 DEF Ids, ExitFrame
    <3>3. /\ x.unmapped \subseteq 1 .. x.seq /\ x.stops \subseteq 1 .. x.seq
          /\ x.seeded \subseteq 1 .. x.seq
      BY <1>1, <1>3, <1>5, <3>1 DEF Ids, ExitFrame
    <3>4. x.entry # 0 => (x.entry \in x.buys <=> x.dir = "BUY")
      <4>1. x.entry # 0 => x.entry \in 1 .. c.seq
        BY <1>3, <1>5, <3>1 DEF Ids, ExitFrame
      <4> QED BY <1>3, <3>1, <4>1 DEF Ids, ExitFrame
    <3> QED BY <1>1, <1>3, <1>5, <3>1, <3>2, <3>3, <3>4 DEF Ids, ExitFrame, Baskets
  <2>3. Named(x, L, Q)
    BY <1>1, <1>3, <1>5, <2>1 DEF Tidy, Sent, Named, ExitFrame
  <2>4. Reachable(x, L, U, Q)
    BY <1>1, <1>3, <1>5, <2>1 DEF Tidy, Sent, Reachable, ExitFrame
  <2>5. Stopped(x, L, Q)
    <3>1. c.state \in Trading /\ c.processed = s.processed
      BY <1>1 DEF Frame, SamePosition, Holding, InTrade, Trading
    <3>2. c.entry # b
      BY <1>1, <1>5 DEF Tidy, Sent, Ids
    <3> QED BY <1>1, <1>3, <1>5, <2>1, <3>1, <3>2 DEF Tidy, Sent, Stopped, ExitFrame
  <2>6. Tidy(x, L, U, Q)
    <3>1. Sent(x, L, Q)
      BY <1>1, <1>3, <1>5, <2>1 DEF Tidy, Sent, ExitFrame
    <3> QED BY <2>2, <2>3, <2>4, <2>5, <3>1 DEF Tidy, Sent
  <2>7. x.processed = s.processed /\ Believed(x) = Believed(s) /\ Covered(x, L, Q)
    BY <1>1, <1>3
    DEF ExitFrame, Frame, SamePosition, Believed, Trading, Holding, InTrade, Covered
  <2> QED BY <1>3, <1>4, <1>6, <2>6, <2>7
<1>7. CASE ~ok
  <2>1. r.out = c.out /\ News(r) = {} /\ Works(r, L) = Works(c, L)
    <3>1. r.out = c.out
      BY <1>3, <1>7
    <3> QED BY <1>1, <3>1, SameSent
  <2>2. Ids(r)
    <3>1. Ids(c) /\ c.seq \in Nat
      BY <1>1, <1>5 DEF Tidy, Sent
    <3>2. /\ r.entry <= r.seq /\ r.pendingCancel <= r.seq
          /\ r.entry \notin r.stops /\ r.exit \notin r.stops
      BY <1>1, <1>3, <1>5, <3>1 DEF Ids, ExitFrame
    <3>3. /\ r.unmapped \subseteq 1 .. r.seq /\ r.stops \subseteq 1 .. r.seq
          /\ r.seeded \subseteq 1 .. r.seq
      BY <1>1, <1>3, <1>5, <3>1 DEF Ids, ExitFrame
    <3>4. r.entry # 0 => (r.entry \in r.buys <=> r.dir = "BUY")
      <4>1. r.entry # 0 => r.entry \in 1 .. c.seq
        BY <1>3, <1>5, <3>1 DEF Ids, ExitFrame
      <4> QED BY <1>3, <3>1, <4>1 DEF Ids, ExitFrame
    <3> QED BY <1>1, <1>3, <1>5, <3>1, <3>2, <3>3, <3>4 DEF Ids, ExitFrame, Baskets
  <2>3. Named(r, L, Q)
    BY <1>1, <1>3, <1>5, <2>1 DEF Tidy, Sent, Named, ExitFrame
  <2>4. Reachable(r, L, U, Q)
    BY <1>1, <1>3, <1>5, <2>1 DEF Tidy, Sent, Reachable, ExitFrame
  <2>5. Stopped(r, L, Q)
    <3>1. c.state \in Trading /\ c.processed = s.processed
      BY <1>1 DEF Frame, SamePosition, Holding, InTrade, Trading
    <3> QED BY <1>1, <1>3, <1>5, <2>1, <3>1 DEF Tidy, Sent, Stopped, ExitFrame
  <2>6. Tidy(r, L, U, Q)
    <3>1. Sent(r, L, Q)
      BY <1>1, <1>2, <1>5, <2>1 DEF Tidy, Sent
    <3> QED BY <2>2, <2>3, <2>4, <2>5, <3>1 DEF Tidy, Sent
  <2>7. r.seq + 1 <= MaxBaskets
    BY <1>2, <1>5, <1>7
  <2>8. /\ Tidy(y, L, U, Q) /\ Frame(y, r)
        /\ Spare(r, L, Q) => Spare(y, L, Q)
        /\ okStop => HasStop(y, L, Q)
    BY <1>2, <2>6, <2>7, SubmitStopTidy
  <2>9. Spare(c, L, Q) => Spare(r, L, Q)
    BY <1>3, <2>1 DEF Spare, Alive, ExitFrame
  <2> HIDE DEF y
  <2>10. y.processed = s.processed /\ Believed(y) = Believed(s)
    BY <1>1, <1>2, <1>3, <2>8
    DEF ExitFrame, Frame, SamePosition, Believed, Trading, Holding, InTrade
  <2> QED BY <1>1, <1>4, <1>7, <2>8, <2>9, <2>10 DEF Covered, y
<1> QED BY <1>6, <1>7

\* Cancel and resubmit: every stop of the trade stays booked.
LEMMA UpdateStopTidy ==
  ASSUME NEW s, Good(s), Holding(s), s.seq + 1 <= MaxBaskets, NEW ok \in BOOLEAN,
         NEW L, NEW U, NEW Q, Tidy(s, L, U, Q), News(s) = {}
  PROVE  LET t == update_stop_order_locked(s, ok) IN
         /\ Tidy(t, L, U, Q) /\ t.processed = s.processed
         /\ Believed(t) = Believed(s)
         /\ \A b \in Filled(Q) : /\ Books(s, b) => Books(t, b)
                                 /\ b \in t.buys <=> b \in s.buys
         /\ ok /\ HasStop(s, L, Q) /\ Spare(s, L, Q) => Covered(t, L, Q)
<1> DEFINE c == cancel_stop_locked(s)
           t == update_stop_order_locked(s, ok)
<1>1. /\ Good(c) /\ Tidy(c, L, U, Q) /\ c.stop = 0 /\ Frame(c, s)
      /\ c.seq = s.seq /\ c.buys = s.buys
      /\ \A b : Books(s, b) => Books(c, b)
      /\ HasStop(s, L, Q) /\ Spare(s, L, Q) => Spare(c, L, Q)
  BY CancelStopGood, CancelStopTidy DEF Holding, InTrade, Trading
<1> HIDE DEF c
<1>2. t = submit_stop_order_locked(c, ok)
  BY DEF update_stop_order_locked, c
<1>3. /\ Tidy(t, L, U, Q) /\ Frame(t, c)
      /\ t.cancelled = c.cancelled /\ t.cancelTrade = c.cancelTrade
      /\ \A b \in 1 .. c.seq : b \in t.buys <=> b \in c.buys
      /\ Spare(c, L, Q) => Spare(t, L, Q)
      /\ ok => HasStop(t, L, Q)
  BY <1>1, <1>2, SubmitStopTidy
<1> HIDE DEF t
<1>4. Filled(Q) \subseteq 1 .. s.seq
  BY DEF Tidy, Sent, Filled
<1>5. ASSUME NEW b \in Filled(Q), Books(s, b) PROVE Books(t, b)
  <2>1. Books(c, b) /\ b # 0 /\ c.state \in InTrade
    BY <1>1, <1>4, <1>5 DEF Frame, SamePosition, Holding, Good, IsOMState, BasketId
  <2>2. b \in c.cancelled /\ c.cancelTrade[b] = c.tradeSeq
    BY <1>1, <2>1 DEF Books, InTrade
  <2> QED BY <1>3, <2>1, <2>2 DEF Books, Frame, SamePosition
<1>6. t.processed = s.processed /\ Believed(t) = Believed(s)
  BY <1>1, <1>3 DEF Frame, SamePosition, Believed
<1> QED BY <1>1, <1>3, <1>4, <1>5, <1>6 DEF Covered, t


-----------------------------------------------------------------------------
(* Calls that send cancels only. *)

\* t is s but for what was sent, the persisted rows and the executor's flags.
Same(t, s) ==
  /\ Frame(t, s) /\ t.seq = s.seq /\ t.buys = s.buys /\ t.stops = s.stops
  /\ t.stop = s.stop /\ t.stopServer = s.stopServer
  /\ t.cancelled = s.cancelled /\ t.cancelTrade = s.cancelTrade
  /\ t.s2cCancelled = s.s2cCancelled

LEMMA BookedSame ==
  ASSUME NEW s, NEW t, NEW net, NEW Q, Booked(s, net, Q),
         t.processed = s.processed, Believed(t) = Believed(s),
         \A b \in Filled(Q) : Books(s, b) => Books(t, b) /\ (b \in t.buys <=> b \in s.buys)
  PROVE  Booked(t, net, Q)
<1> HIDE DEF Filled, Books, Believed
<1> QED BY DEF Booked

\* With no fill on the wire the books agree.
LEMMA BookedQuiet ==
  ASSUME NEW s, NEW net, NEW Q, Filled(Q) = {}
  PROVE  Booked(s, net, Q) <=> net = Believed(s)
  BY DEF Booked

\* Cancelling orders by server id that are not stops in use changes nothing else.
LEMMA SameTidy ==
  ASSUME NEW s, NEW t, Same(t, s), NEW L, NEW U, NEW Q, Tidy(s, L, U, Q),
         News(t) = News(s), Works(t, L) \subseteq Works(s, L)
  PROVE  /\ Tidy(t, L, U, Q) /\ Believed(t) = Believed(s) /\ t.processed = s.processed
         /\ \A b : Books(t, b) <=> Books(s, b)
         /\ (\A b \in Works(s, L) :
               b \in s.s2cCancelled \/ Msg("snapshot", b) \in Q \/ b \in Works(t, L))
            /\ s.stop \notin s.s2cCancelled
              => (Covered(s, L, Q) => Covered(t, L, Q))
<1>1. Sent(t, L, Q)
  BY DEF Tidy, Sent, Same, Frame, SamePosition
<1>2. Ids(t)
  BY DEF Tidy, Ids, Same, Frame, SamePosition
<1>3. Named(t, L, Q)
  BY DEF Tidy, Named, Same, Frame, SamePosition
<1>4. Reachable(t, L, U, Q)
  BY DEF Tidy, Reachable, Same, Frame, SamePosition
<1>5. Stopped(t, L, Q)
  BY DEF Tidy, Stopped, Same, Frame, SamePosition
<1>6. Tidy(t, L, U, Q)
  BY <1>1, <1>2, <1>3, <1>4, <1>5 DEF Tidy
<1>7. Believed(t) = Believed(s) /\ t.processed = s.processed
  BY DEF Believed, Same, Frame, SamePosition
<1>8. \A b : Books(t, b) <=> Books(s, b)
  BY DEF Books, Same, Frame, SamePosition
<1>9. ASSUME \A b \in Works(s, L) :
               b \in s.s2cCancelled \/ Msg("snapshot", b) \in Q \/ b \in Works(t, L),
             s.stop \notin s.s2cCancelled, Covered(s, L, Q)
      PROVE  Covered(t, L, Q)
  <2>1. SUFFICES ASSUME s.state \in InTrade PROVE HasStop(t, L, Q) /\ Spare(t, L, Q)
    BY DEF Covered, Same, Frame, SamePosition
  <2>2. HasStop(s, L, Q) /\ Spare(s, L, Q)
    BY <1>9, <2>1 DEF Covered
  <2>3. \A b : Alive(s, L, Q, b) /\ b \notin s.s2cCancelled => Alive(t, L, Q, b)
    BY <1>9 DEF Alive, Same, Frame
  <2>4. HasStop(t, L, Q)
    BY <1>9, <2>2, <2>3 DEF HasStop, Same
  <2>5. Spare(t, L, Q)
    BY <2>2, <2>3 DEF Spare, Same, Frame
  <2> QED BY <2>4, <2>5
<1> QED BY <1>6, <1>7, <1>8, <1>9

\* The maintenance of eod_loop before its watchdogs: cancels are sent again, by
\* server id of guards that have one.
Quiet(t, s) == Same(t, s) /\ News(t) = {} /\ Cancels(t, "server") \subseteq s.s2cCancelled

LEMMA QuietSteps ==
  ASSUME NEW s, NEW t, Good(t), HasShape(t), Quiet(t, s)
  PROVE  /\ Quiet(recancel_pending_stops(t), s) /\ Good(recancel_pending_stops(t))
         /\ HasShape(recancel_pending_stops(t))
         /\ Quiet(clear_post_close_recancels(t), s) /\ Good(clear_post_close_recancels(t))
         /\ HasShape(clear_post_close_recancels(t))
         /\ Quiet(pop_trade_completed(t), s) /\ Good(pop_trade_completed(t))
         /\ HasShape(pop_trade_completed(t))
<1>1. 1 \in Baskets /\ 1 \in 1 .. Qty
  BY BasketsAssumption, QtyAssumption DEF Baskets
<1>2. /\ Good(recancel_pending_stops(t)) /\ HasShape(recancel_pending_stops(t))
      /\ Good(clear_post_close_recancels(t)) /\ HasShape(clear_post_close_recancels(t))
      /\ Good(pop_trade_completed(t)) /\ HasShape(pop_trade_completed(t))
  BY <1>1, QuietGood
<1> DEFINE O == {[op |-> "cancel", id |-> b, by |-> "server"] : b \in t.s2cCancelled}
                  \cup {[op |-> "cancel", id |-> b, by |-> "client"] :
                          b \in t.cancelled \ t.s2cCancelled}
           r == recancel_pending_stops(t)
           c == clear_post_close_recancels(t)
           p == pop_trade_completed(t)
<1>3. Quiet(r, s)
  <2>1. r = [t EXCEPT !.out = O]
    BY DEF recancel_pending_stops
  <2>2. /\ \A q \in O : q.op # "new"
        /\ \A q \in O : q.by = "server" => q.id \in t.s2cCancelled
    OBVIOUS
  <2> HIDE DEF O, r
  <2>3. Same(r, t) /\ r.out = O
    BY <2>1, FieldNames DEF Good, IsOMState, Fields, Same, Frame, SamePosition
  <2>4. News(r) = {} /\ Cancels(r, "server") \subseteq t.s2cCancelled
    BY <2>2, <2>3 DEF News, Cancels
  <2> QED BY <2>3, <2>4 DEF Quiet, Same, Frame, SamePosition
<1>4. Quiet(c, s)
  <2>1. Same(c, t) /\ c.out = t.out
    BY FieldNames DEF clear_post_close_recancels, Good, IsOMState, Fields, Same, Frame, SamePosition
  <2> HIDE DEF c
  <2>2. News(c) = News(t) /\ Cancels(c, "server") = Cancels(t, "server")
    BY <2>1, SameSent
  <2> QED BY <2>1, <2>2 DEF Quiet, Same, Frame, SamePosition
<1>5. Quiet(p, s)
  <2>1. Same(p, t) /\ p.out = t.out
    BY FieldNames DEF pop_trade_completed, Good, IsOMState, Fields, Same, Frame, SamePosition
  <2> HIDE DEF p
  <2>2. News(p) = News(t) /\ Cancels(p, "server") = Cancels(t, "server")
    BY <2>1, SameSent
  <2> QED BY <2>1, <2>2 DEF Quiet, Same, Frame, SamePosition
<1> QED BY <1>2, <1>3, <1>4, <1>5

LEMMA QuietTidy ==
  ASSUME NEW s, Good(s), s.out = {}, NEW t, Quiet(t, s), NEW L, NEW U, NEW Q, Tidy(s, L, U, Q)
  PROVE  /\ Tidy(t, L, U, Q) /\ Believed(t) = Believed(s) /\ t.processed = s.processed
         /\ \A b : Books(t, b) <=> Books(s, b)
         /\ Covered(s, L, Q) => Covered(t, L, Q)
<1>1. News(s) = {} /\ Works(s, L) = L
  BY NothingSent
<1>2. Same(t, s) /\ News(t) = News(s) /\ Works(t, L) \subseteq Works(s, L)
  BY <1>1 DEF Quiet, Works
<1>3. \A b \in Works(s, L) :
        b \in s.s2cCancelled \/ Msg("snapshot", b) \in Q \/ b \in Works(t, L)
  BY <1>1 DEF Quiet, Works
<1>4. s.stop \notin s.s2cCancelled
  BY DEF Good, Guards
<1> QED BY <1>2, <1>3, <1>4, SameTidy

-----------------------------------------------------------------------------
(* The calls of the executor's own loops. *)

\* An entry order has a fresh id; a failed send takes it back.
LEMMA SignalTidy ==
  ASSUME NEW s, Good(s), HasShape(s), s.state = "FLAT", s.seq + 1 <= MaxBaskets,
         NEW sig \in {"BUY", "SELL"}, NEW ok \in BOOLEAN,
         NEW L, NEW U, NEW Q, Tidy(s, L, U, Q), News(s) = {}
  PROVE  LET t == on_signal(s, sig, TRUE, ok) IN
         Tidy(t, L, U, Q) /\ t.state \notin Trading /\ t.processed = s.processed
<1> DEFINE t == on_signal(s, sig, TRUE, ok)
           b == s.seq + 1
           isBuy == sig = "BUY"
           o == [op |-> "new", id |-> b, kind |-> "entry", buy |-> isBuy]
           B == IF isBuy THEN s.buys \cup {b} ELSE s.buys
           p == [s EXCEPT !.state = "PENDING_ENTRY", !.dir = sig, !.entry = b,
                          !.exit = 0, !.stop = 0, !.tradeSeq = @ + 1]
           u == [p EXCEPT !.seq = b, !.buys = B, !.stops = p.stops, !.out = s.out \cup {o}]
           v == [p EXCEPT !.seq = b, !.buys = B, !.stops = p.stops, !.out = s.out]
           w == reset_position(v)
<1>1. CASE s.entryHalted \/ s.ghostHalted
  <2>1. t = s
    BY <1>1 DEF on_signal
  <2> QED BY <2>1 DEF Trading
<1>2. CASE ~(s.entryHalted \/ s.ghostHalted)
  <2>1. /\ DOMAIN p = Fields /\ p.state = "PENDING_ENTRY" /\ p.dir = sig /\ p.entry = b
        /\ p.exit = 0 /\ p.stop = 0 /\ p.seq = s.seq /\ p.out = s.out /\ p.buys = s.buys
        /\ p.stops = s.stops /\ p.pendingCancel = s.pendingCancel /\ p.s2cOrders = s.s2cOrders
        /\ p.unmapped = s.unmapped /\ p.processed = s.processed /\ p.seeded = s.seeded
        /\ p.cancelled = s.cancelled /\ p.cancelTrade = s.cancelTrade
        /\ p.s2cCancelled = s.s2cCancelled /\ p.stopServer = s.stopServer
    BY FieldNames DEF Good, IsOMState, Fields
  <2>2. t = IF ok THEN u ELSE w
    <3>1. /\ ok => send_order(p, "entry", sig = "BUY", ok) = u
          /\ ~ok => send_order(p, "entry", sig = "BUY", ok) = v
      <4> HIDE DEF p, o
      <4>1. send_order(p, "entry", sig = "BUY", ok) =
              [p EXCEPT !.seq = b, !.buys = B, !.stops = p.stops,
                        !.out = IF ok THEN s.out \cup {o} ELSE s.out]
        BY <2>1 DEF send_order, o
      <4> QED BY <4>1
    <3>2. t = IF ok THEN send_order(p, "entry", sig = "BUY", ok)
              ELSE reset_position(send_order(p, "entry", sig = "BUY", ok))
      BY <1>2 DEF on_signal
    <3> HIDE DEF t, u, v, p
    <3> QED BY <3>1, <3>2
  <2> HIDE DEF p, t
  <2>3. /\ s.seq \in Nat /\ b \notin 1 .. s.seq /\ b \in 1 .. b /\ 1 .. s.seq \subseteq 1 .. b
        /\ b # 0 /\ b \in Baskets /\ s.processed[b] = 0
        /\ s.cancelled \subseteq 1 .. s.seq /\ s.s2cCancelled \subseteq 1 .. s.seq
        /\ s.buys \subseteq 1 .. s.seq /\ s.stops \subseteq 1 .. s.seq
        /\ s.seeded \subseteq 1 .. s.seq /\ s.unmapped \cap s.stops = {}
        /\ s.unmapped \subseteq 1 .. s.seq /\ s.pendingCancel <= s.seq
        /\ s.pendingCancel \in Nat
        /\ \A x \in Baskets : x > s.seq => s.processed[x] = 0
    <3>1. s.seq \in BasketId /\ s.pendingCancel \in BasketId
      BY DEF Good, IsOMState
    <3>2. s.seq \in Nat /\ b \in Baskets /\ s.pendingCancel \in Nat
      BY <3>1, BasketsAssumption DEF BasketId, Baskets
    <3>3. s.cancelled \subseteq 1 .. s.seq /\ s.buys \subseteq 1 .. s.seq
          /\ s.s2cCancelled \subseteq 1 .. s.seq
      BY DEF Good, Guards, Drawn
    <3>4. Ids(s)
      BY DEF Tidy
    <3> QED BY <3>2, <3>3, <3>4 DEF Ids
  <2>4. s.entry = 0 /\ s.exit = 0 /\ s.stop = 0
    BY DEF HasShape
  <2>5. \A x \in Works(s, L) : x \in 1 .. s.seq /\ x # 0
    BY <2>3 DEF Tidy, Sent
  <2>6. Sent(s, L, Q) /\ Named(s, L, Q) /\ Reachable(s, L, U, Q) /\ Stopped(s, L, Q)
    BY DEF Tidy
  <2>7. CASE ok
    <3>0. t = u
      BY <2>2, <2>7
    <3>1. /\ t.state = "PENDING_ENTRY" /\ t.dir = sig /\ t.entry = b /\ t.out = s.out \cup {o}
          /\ t.exit = 0 /\ t.stop = 0 /\ t.seq = b /\ t.buys = B
          /\ t.stops = s.stops /\ t.pendingCancel = s.pendingCancel
          /\ t.unmapped = s.unmapped /\ t.processed = s.processed /\ t.seeded = s.seeded
          /\ t.cancelled = s.cancelled /\ t.s2cCancelled = s.s2cCancelled
      <4> HIDE DEF o, B
      <4> QED BY <2>1, <3>0 DEF Fields
    <3>2. o.op = "new" /\ o.id = b
      OBVIOUS
    <3> HIDE DEF o, u
    <3>3. /\ \A x : x \in News(t) <=> x = b
          /\ \A x : x \in Works(t, L) <=> x \in Works(s, L) \/ x = b
      BY SMTT(30), <3>1, <3>2, NewSent
    <3> HIDE DEF b
    <3>4. Sent(t, L, Q)
      BY <2>3, <2>6, <3>1, <3>3 DEF Sent
    <3>5. Ids(t)
      <4>1. t.entry \in t.buys <=> t.dir = "BUY"
        BY <2>3, <3>1
      <4>2. \A x \in t.cancelled : x > t.entry => t.cancelTrade[x] = t.tradeSeq
        BY <2>3, <3>1 DEF b
      <4>3. \A x \in Baskets : x > t.seq => t.processed[x] = 0
        BY <2>3, <3>1 DEF b, Baskets
      <4> HIDE DEF B
      <4> QED BY <2>3, <3>1, <4>1, <4>2, <4>3 DEF Ids, b
    <3>6. Named(t, L, Q)
      BY <2>4, <2>5, <2>6, <3>1, <3>3 DEF Named
    <3>7. Reachable(t, L, U, Q)
      BY <2>4, <2>5, <2>6, <3>1, <3>3 DEF Reachable
    <3>8. Stopped(t, L, Q)
      BY <2>3, <2>6, <3>1, <3>3 DEF Stopped, Trading
    <3> QED BY <3>1, <3>4, <3>5, <3>6, <3>7, <3>8 DEF Tidy, Trading, t
  <2>8. CASE ~ok
    <3>0. t = w
      BY <2>2, <2>8
    <3>1. /\ t.state = "FLAT" /\ t.entry = 0 /\ t.out = s.out
          /\ t.exit = 0 /\ t.stop = 0 /\ t.seq = b
          /\ t.stops = s.stops /\ t.pendingCancel = s.pendingCancel
          /\ t.unmapped = s.unmapped /\ t.processed = s.processed /\ t.seeded = s.seeded
          /\ t.cancelled = s.cancelled /\ t.s2cCancelled = s.s2cCancelled
      <4> HIDE DEF B
      <4> QED BY <2>1, <3>0 DEF Fields, reset_position
    <3>2. News(t) = {} /\ Works(t, L) = Works(s, L)
      BY <3>1, SameSent
    <3> HIDE DEF b, w
    <3>4. Sent(t, L, Q)
      BY <2>3, <2>6, <3>1, <3>2 DEF Sent
    <3>5. Ids(t)
      BY <2>3, <3>1 DEF Ids, b, Baskets
    <3>6. Named(t, L, Q)
      BY <2>4, <2>5, <2>6, <3>1, <3>2 DEF Named
    <3>7. Reachable(t, L, U, Q)
      BY <2>4, <2>5, <2>6, <3>1, <3>2 DEF Reachable
    <3>8. Stopped(t, L, Q)
      BY <2>6, <3>1, <3>2 DEF Stopped, Trading
    <3> QED BY <3>1, <3>4, <3>5, <3>6, <3>7, <3>8 DEF Tidy, Trading, t
  <2> QED BY <2>7, <2>8
<1> QED BY <1>1, <1>2

\* Cancelling an entry or exit: known by its server id it is gone, else its cancel
\* waits for that id.
LEMMA CancelOrderFields ==
  ASSUME NEW s, Good(s), NEW b, NEW L, News(s) = {}
  PROVE  LET t == cancel_order_locked(s, b) IN
         /\ \A f \in Fields \ {"out", "unmapped"} : t[f] = s[f]
         /\ DOMAIN t = Fields /\ News(t) = {}
         /\ b \in s.s2cOrders =>
              t.unmapped = s.unmapped /\ \A x : x \in Works(t, L) <=> x \in Works(s, L) /\ x # b
         /\ b \notin s.s2cOrders =>
              t.unmapped = s.unmapped \cup {b} /\ Works(t, L) = Works(s, L)
<1> DEFINE t == cancel_order_locked(s, b)
           m == [s EXCEPT !.unmapped = @ \cup {b}]
           p == [op |-> "cancel", id |-> b, by |-> "server"]
           q == [op |-> "cancel", id |-> b, by |-> "client"]
           S == s.out \cup {p}
           C == s.out \cup {q}
<1>0. DOMAIN s = Fields
  BY FieldNames DEF Good, IsOMState
<1>1. CASE b \in s.s2cOrders
  <2>1. t = [s EXCEPT !.out = S]
    BY <1>1 DEF cancel_order_locked, send_cancel
  <2> HIDE DEF t
  <2>2. t.out = S
    <3> HIDE DEF S
    <3> QED BY <1>0, <2>1 DEF Fields
  <2>3. News(t) = {} /\ \A x : x \in Works(t, L) <=> x \in Works(s, L) /\ x # b
    <3>1. t.out = s.out \cup {p} /\ p.op = "cancel" /\ p.by = "server" /\ p.id = b
      BY <2>2
    <3> HIDE DEF p
    <3>2. /\ News(t) = News(s)
          /\ \A x : x \in Works(t, L) <=> x \in News(s) \/ (x \in Works(s, L) /\ x # p.id)
      BY <3>1, ServerCancelSent
    <3> QED BY <3>1, <3>2
  <2> HIDE DEF S
  <2>4. DOMAIN t = Fields /\ \A f \in Fields \ {"out"} : t[f] = s[f]
    BY <1>0, <2>1
  <2>5. t.unmapped = s.unmapped
    BY <2>4 DEF Fields
  <2> QED BY <1>1, <2>3, <2>4, <2>5 DEF t
<1>2. CASE b \notin s.s2cOrders
  <2>1. t = [m EXCEPT !.out = C]
    <3>1. t = send_cancel(m, b, "client")
      BY <1>2 DEF cancel_order_locked
    <3>2. m.out = s.out
      BY <1>0 DEF Fields
    <3> HIDE DEF m, t
    <3> QED BY <3>1, <3>2 DEF send_cancel
  <2> HIDE DEF t
  <2>2. t.out = C
    <3> HIDE DEF C
    <3> QED BY <1>0, <2>1 DEF Fields
  <2>3. News(t) = {} /\ Works(t, L) = Works(s, L)
    <3>1. t.out = s.out \cup {q} /\ q.op = "cancel" /\ q.by = "client"
      BY <2>2
    <3> HIDE DEF q
    <3> QED BY <3>1, ClientCancelSent
  <2> HIDE DEF C
  <2>4. DOMAIN t = Fields /\ \A f \in Fields \ {"out", "unmapped"} : t[f] = s[f]
    BY <1>0, <2>1
  <2>5. t.unmapped = s.unmapped \cup {b}
    BY <1>0, <2>1 DEF Fields
  <2> QED BY <1>2, <2>3, <2>4, <2>5 DEF t
<1> QED BY <1>1, <1>2

\* A cancelled entry is gone or its cancel waits for the server id.
LEMMA CancelEntryTidy ==
  ASSUME NEW s, Good(s), HasShape(s), s.state = "PENDING_ENTRY",
         NEW L, NEW U, NEW Q, Tidy(s, L, U, Q), News(s) = {}
  PROVE  LET t == cancel_pending_entry(s) IN
         Tidy(t, L, U, Q) /\ t.state = "FLAT" /\ t.processed = s.processed
<1> DEFINE e == s.entry
           p == [s EXCEPT !.pendingCancel = e]
           c == cancel_order_locked(p, e)
           t == reset_position(c)
<1>1. /\ e \in 1 .. s.seq /\ e # 0 /\ s.exit = 0 /\ s.stop = 0
  <2>1. e \in BasketId /\ e # 0 /\ s.seq \in BasketId
    BY DEF HasShape, Good, IsOMState
  <2>2. e <= s.seq
    BY DEF Tidy, Ids
  <2> QED BY <2>1, <2>2 DEF HasShape, BasketId
<1>2. Good(p) /\ \A f \in Fields \ {"pendingCancel"} : p[f] = s[f]
  <2>1. Good(p)
    BY FieldNames DEF Fields, Good, IsOMState, Guards, Drawn, Sides
  <2>2. \A f \in Fields \ {"pendingCancel"} : p[f] = s[f]
    BY FieldNames DEF Good, IsOMState
  <2> QED BY <2>1, <2>2
<1>3. p.pendingCancel = e /\ p.out = s.out /\ p.unmapped = s.unmapped /\ p.s2cOrders = s.s2cOrders
  BY FieldNames DEF Fields, Good, IsOMState
<1> HIDE DEF p
<1>4. News(p) = {} /\ Works(p, L) = Works(s, L)
  <2>1. News(p) = News(s) /\ Works(p, L) = Works(s, L)
    BY <1>3, SameSent
  <2> QED BY <2>1
<1>5. /\ \A f \in Fields \ {"out", "unmapped"} : c[f] = p[f]
      /\ DOMAIN c = Fields /\ News(c) = {}
      /\ e \in p.s2cOrders =>
           c.unmapped = p.unmapped /\ \A x : x \in Works(c, L) <=> x \in Works(p, L) /\ x # e
      /\ e \notin p.s2cOrders =>
           c.unmapped = p.unmapped \cup {e} /\ Works(c, L) = Works(p, L)
  <2> HIDE DEF e
  <2>1. Good(p) /\ News(p) = {}
    BY <1>2, <1>4
  <2> QED BY <2>1, CancelOrderFields
<1> HIDE DEF c
<1>6. /\ t.state = "FLAT" /\ t.entry = 0 /\ t.exit = 0 /\ t.stop = 0 /\ t.out = c.out
      /\ t.unmapped = c.unmapped /\ t.pendingCancel = e
      /\ t.processed = s.processed /\ t.seq = s.seq /\ t.stops = s.stops
      /\ t.seeded = s.seeded /\ t.cancelled = s.cancelled /\ t.s2cCancelled = s.s2cCancelled
  BY <1>2, <1>3, <1>5 DEF Fields, reset_position
<1> HIDE DEF t
<1>7. News(t) = {} /\ Works(t, L) = Works(c, L)
  BY <1>5, <1>6, SameSent
<1>8. /\ Works(t, L) \subseteq Works(s, L)
      /\ e \in Works(t, L) => e \in t.unmapped /\ e \notin s.s2cOrders
      /\ s.unmapped \subseteq t.unmapped /\ t.unmapped \subseteq s.unmapped \cup {e}
  <2>1. CASE e \in s.s2cOrders
    BY <1>3, <1>4, <1>5, <1>6, <1>7, <2>1
  <2>2. CASE e \notin s.s2cOrders
    BY <1>3, <1>4, <1>5, <1>6, <1>7, <2>2
  <2> QED BY <2>1, <2>2
<1> HIDE DEF e
<1>9. \A x \in Works(t, L) : x # 0
  BY <1>8 DEF Tidy, Sent
<1>10. Sent(t, L, Q)
  BY <1>6, <1>7, <1>8 DEF Tidy, Sent
<1>11. Ids(t)
  <2>1. e \notin s.stops
    BY DEF Tidy, Ids, e
  <2>2. s.seq \in Nat
    BY DEF Good, IsOMState, BasketId
  <2> QED BY <1>1, <1>6, <1>8, <2>1, <2>2 DEF Tidy, Ids
<1>12. Named(t, L, Q)
  BY <1>1, <1>6, <1>8, <1>9 DEF Tidy, Named, e
<1>13. Reachable(t, L, U, Q)
  BY <1>1, <1>6, <1>7, <1>8, <1>9 DEF Tidy, Reachable, e
<1>14. Stopped(t, L, Q)
  BY <1>6, <1>8 DEF Tidy, Stopped, Trading
<1> QED BY <1>6, <1>10, <1>11, <1>12, <1>13, <1>14 DEF Tidy, cancel_pending_entry, t, c, p, e

\* The stuck exit becomes a guard of its trade and another one is sent.
LEMMA RetryTidy ==
  ASSUME NEW s, Good(s), HasShape(s), s.state = "PENDING_EXIT", s.seq + 2 <= MaxBaskets,
         NEW ok \in BOOLEAN, NEW okStop \in BOOLEAN,
         NEW L, NEW U, NEW Q, Tidy(s, L, U, Q), News(s) = {}
  PROVE  LET t == retry_stuck_exit(s, ok, okStop) IN
         /\ Tidy(t, L, U, Q) /\ t.processed = s.processed
         /\ Believed(t) = Believed(s)
         /\ ok => t.state = "PENDING_EXIT"
<1> DEFINE b == s.exit
           known == b \in s.s2cOrders
           p == [op |-> "cancel", id |-> b, by |-> IF known THEN "server" ELSE "client"]
           O == s.out \cup {p}
           T == [s.cancelTrade EXCEPT ![b] = s.tradeSeq]
           r == released(s)
<1>1. /\ retry_stuck_exit(s, ok, okStop) = initiate_exit_locked(r, ok, okStop)
      /\ Good(r) /\ Holding(r) /\ r.seq = s.seq
  BY ReleasedGood
<1>2. /\ r.s2cCancelled = IF known THEN s.s2cCancelled \cup {b} ELSE s.s2cCancelled
      /\ r.cancelTrade = T /\ r.out = O
      /\ r.unmapped = IF known THEN s.unmapped ELSE s.unmapped \cup {b}
      /\ r.cancelled = s.cancelled \cup {b}
      /\ r.exit = 0 /\ r.state = Held(s.dir)
      /\ r.dir = s.dir /\ r.entry = s.entry /\ r.stop = s.stop /\ r.stopServer = s.stopServer
      /\ r.tradeSeq = s.tradeSeq /\ r.pendingCancel = s.pendingCancel
      /\ r.s2cOrders = s.s2cOrders /\ r.processed = s.processed /\ r.seeded = s.seeded
      /\ r.buys = s.buys /\ r.stops = s.stops
  <2>1. r = [s EXCEPT !.s2cCancelled = IF known THEN @ \cup {b} ELSE @,
                      !.clientOnly = IF known THEN @ ELSE @ \cup {b},
                      !.cancelTrade = T,
                      !.unmapped = IF known THEN @ ELSE @ \cup {b},
                      !.out = O,
                      !.cancelled = @ \cup {b}, !.lastStop = b, !.dbRows = @ \cup {b},
                      !.exit = 0, !.state = Held(s.dir)]
    BY FieldNames DEF released, Good, IsOMState, Fields
  <2> HIDE DEF r, O, T
  <2> QED BY <2>1, FieldNames DEF Good, IsOMState, Fields
<1> HIDE DEF r
<1>3. /\ b \in 1 .. s.seq /\ b # 0 /\ b # s.entry /\ b \notin s.stops /\ s.stop = 0
      /\ s.entry # 0
  BY DEF Good, IsOMState, HasShape, Drawn, BasketId, Tidy, Ids
<1>4. /\ News(r) = {}
      /\ known => \A x : x \in Works(r, L) <=> x \in Works(s, L) /\ x # b
      /\ ~known => Works(r, L) = Works(s, L)
  <2>1. CASE known
    <3>1. r.out = s.out \cup {p} /\ p.op = "cancel" /\ p.by = "server" /\ p.id = b
      BY <1>2, <2>1
    <3> HIDE DEF p, b
    <3>2. /\ News(r) = News(s)
          /\ \A x : x \in Works(r, L) <=> x \in News(s) \/ (x \in Works(s, L) /\ x # p.id)
      BY <3>1, ServerCancelSent
    <3> QED BY <2>1, <3>1, <3>2
  <2>2. CASE ~known
    <3>1. r.out = s.out \cup {p} /\ p.op = "cancel" /\ p.by = "client"
      BY <1>2, <2>2
    <3> HIDE DEF p, b
    <3>2. News(r) = News(s) /\ Works(r, L) = Works(s, L)
      BY <3>1, ClientCancelSent
    <3> QED BY <2>2, <3>2
  <2> QED BY <2>1, <2>2
<1> HIDE DEF O, b
<1>5. \A x \in s.cancelled : x > s.entry => r.cancelTrade[x] = s.tradeSeq
  BY <1>2, <1>3 DEF Tidy, Ids, Good, IsOMState
<1>6. r.cancelTrade[b] = s.tradeSeq
  <2>1. s.seq \in BasketId /\ s.cancelTrade \in [Baskets -> BasketId]
    BY DEF Good, IsOMState
  <2>2. b \in Baskets
    BY <1>3, <2>1, BasketsAssumption DEF BasketId, Baskets
  <2> QED BY <1>2, <2>1, <2>2
<1>7. Sent(r, L, Q)
  BY <1>1, <1>4 DEF Tidy, Sent
<1>8. Ids(r)
  <2>1. r.unmapped \subseteq 1 .. r.seq /\ r.unmapped \cap r.stops = {}
    BY <1>1, <1>2, <1>3 DEF Tidy, Ids
  <2>2. 0 \notin r.stops
    BY <1>2 DEF Tidy, Ids
  <2> QED BY <1>1, <1>2, <1>5, <1>6, <2>1, <2>2 DEF Tidy, Ids
<1>9. Named(r, L, Q)
  BY <1>2, <1>4 DEF Tidy, Named, b
<1>10. Reachable(r, L, U, Q)
  BY <1>2, <1>4 DEF Tidy, Reachable, b
<1>11. Stopped(r, L, Q)
  BY <1>2, <1>4 DEF Tidy, Stopped, Trading
<1>12. Tidy(r, L, U, Q)
  BY <1>7, <1>8, <1>9, <1>10, <1>11 DEF Tidy
<1>13. Believed(r) = Believed(s)
  BY <1>2 DEF Believed, Trading, Held
<1>14. r.seq + 1 <= MaxBaskets /\ r.seq + 2 <= MaxBaskets
  BY <1>1, BasketsAssumption DEF Good, IsOMState, BasketId
<1>15. LET t == initiate_exit_locked(r, ok, okStop) IN
       /\ Tidy(t, L, U, Q) /\ t.processed = r.processed
       /\ Believed(t) = Believed(r)
       /\ ok => t.state = "PENDING_EXIT"
  BY <1>1, <1>4, <1>12, <1>14, InitiateExitTidy
<1> QED BY <1>1, <1>2, <1>13, <1>15

\* The software stop, the target and the end of day: an entry is cancelled, a
\* position exited.
LEMMA FlattenTidy ==
  ASSUME NEW s, Good(s), HasShape(s), s.state \in InTrade, s.seq + 2 <= MaxBaskets,
         NEW ok \in BOOLEAN, NEW okStop \in BOOLEAN,
         NEW L, NEW U, NEW Q, Tidy(s, L, U, Q), News(s) = {}
  PROVE  LET t == flatten_now(s, ok, okStop) IN
         /\ Tidy(t, L, U, Q) /\ t.processed = s.processed
         /\ Believed(t) = Believed(s)
         /\ okStop /\ Covered(s, L, Q) => Covered(t, L, Q)
<1>1. flatten_now(s, ok, okStop) = initiate_exit_locked(s, ok, okStop)
  BY DEF flatten_now, InTrade
<1>2. Holding(s) /\ s.seq + 1 <= MaxBaskets
  BY HoldingShape, BasketsAssumption DEF Good, IsOMState, BasketId
<1>3. LET t == initiate_exit_locked(s, ok, okStop) IN
       /\ Tidy(t, L, U, Q) /\ t.processed = s.processed
       /\ Believed(t) = Believed(s)
       /\ okStop /\ HasStop(s, L, Q) /\ Spare(s, L, Q) => Covered(t, L, Q)
  BY <1>2, InitiateExitTidy
<1> QED BY <1>1, <1>3 DEF Covered

-----------------------------------------------------------------------------
(* The messages. *)

\* What reading a server id leaves alone.
Kept(t, s) ==
  /\ SamePosition(t, s) /\ t.stop = s.stop /\ t.seq = s.seq /\ t.tradeSeq = s.tradeSeq
  /\ t.pendingCancel = s.pendingCancel
  /\ t.cancelled = s.cancelled /\ t.cancelTrade = s.cancelTrade
  /\ t.processed = s.processed /\ t.seeded = s.seeded
  /\ t.buys = s.buys /\ t.stops = s.stops

LEMMA KeptBooks ==
  ASSUME NEW s, NEW t, Kept(t, s)
  PROVE  /\ Believed(t) = Believed(s) /\ \A b : Books(t, b) <=> Books(s, b)
  BY DEF Kept, SamePosition, Believed, Books

\* A message that is neither a server id nor a line of the snapshot names no order
\* that works.
LEMMA ReadTidy ==
  ASSUME NEW s, NEW L, NEW U, NEW R, NEW Q, NEW n, \A m : m \in R <=> m = n \/ m \in Q,
         n.kind \notin {"mapped", "snapshot"}, Tidy(s, L, U, R)
  PROVE  /\ Tidy(s, L, U, Q)
         /\ Msg("snapshot", n.id) \in R => Msg("snapshot", n.id) \in Q
<1>1. \A b : /\ Msg("mapped", b) \in R => Msg("mapped", b) \in Q
             /\ Msg("snapshot", b) \in R => Msg("snapshot", b) \in Q
  BY DEF Msg
<1>2. Sent(s, L, Q) /\ Ids(s)
  BY DEF Tidy, Sent
<1>3. Named(s, L, Q) /\ Reachable(s, L, U, Q) /\ Stopped(s, L, Q)
  <2> HIDE DEF Msg
  <2> QED BY <1>1 DEF Tidy, Named, Reachable, Stopped
<1> QED BY <1>1, <1>2, <1>3 DEF Tidy

\* Unless it was the fill of a stop that counts, the position stays covered.
LEMMA ReadCovered ==
  ASSUME NEW s, NEW L, NEW R, NEW Q, NEW n, \A m : m \in R <=> m = n \/ m \in Q,
         n.kind # "fill351" \/ s.processed[n.id] # 0
           \/ (n.id # s.stop
                 /\ (n.id \in s.cancelled => s.cancelTrade[n.id] # s.tradeSeq)),
         n.id \notin Works(s, L), Covered(s, L, R)
  PROVE  Covered(s, L, Q)
<1>1. SUFFICES ASSUME s.state \in InTrade PROVE HasStop(s, L, Q) /\ Spare(s, L, Q)
  BY DEF Covered
<1>2. HasStop(s, L, R) /\ Spare(s, L, R)
  BY <1>1 DEF Covered
<1>3. \A b : Alive(s, L, R, b) /\ (n.kind # "fill351" \/ s.processed[b] # 0 \/ b # n.id)
        => Alive(s, L, Q, b)
  <2>1. \A b : Msg("fill351", b).kind = "fill351" /\ Msg("fill351", b).id = b
    BY DEF Msg
  <2>2. \A b : (n.kind # "fill351" \/ b # n.id) /\ Msg("fill351", b) \in R
                 => Msg("fill351", b) \in Q
    BY <2>1
  <2> HIDE DEF Msg
  <2> QED BY <2>2 DEF Alive
<1>4. HasStop(s, L, Q)
  BY <1>2, <1>3 DEF HasStop
<1>5. Spare(s, L, Q)
  BY <1>2, <1>3 DEF Spare
<1> QED BY <1>4, <1>5

\* The books once a message that is no fill has been read.
LEMMA ReadBooked ==
  ASSUME NEW s, NEW net, NEW R, NEW Q, NEW n, \A m : m \in R <=> m = n \/ m \in Q,
         n.kind \notin {"fill351", "fill352"}, Booked(s, net, R)
  PROVE  Booked(s, net, Q)
<1>1. \A b : b \in Filled(Q) <=> b \in Filled(R)
  BY DEF Filled
<1>2. Filled(Q) = Filled(R) /\ \A m \in Q : m \in R
  BY <1>1
<1> QED BY <1>2 DEF Booked

LEMMA MapTidy ==
  ASSUME NEW s, Good(s), NEW b, NEW L, NEW U, NEW Q, Tidy(s, L, U, Q), News(s) = {}
  PROVE  LET t == map_server_basket(s, b) IN
         /\ Tidy(t, L, U, Q) /\ News(t) = {} /\ Works(t, L) \subseteq Works(s, L)
         /\ Kept(t, s) /\ b \in t.s2cOrders /\ b \notin t.unmapped
         /\ t.stopServer = s.stopServer
         /\ Covered(s, L, Q) => Covered(t, L, Q)
<1> DEFINE t == map_server_basket(s, b)
           m == [s EXCEPT !.s2cOrders = @ \cup {b}, !.unmapped = @ \ {b}]
           g == IF b \in s.cancelled
                THEN [m EXCEPT !.s2cCancelled = @ \cup {b}, !.clientOnly = @ \ {b}] ELSE m
           p == [op |-> "cancel", id |-> b, by |-> "server"]
<1>1. /\ t.s2cOrders = s.s2cOrders \cup {b} /\ t.unmapped = s.unmapped \ {b}
      /\ Kept(t, s) /\ t.stopServer = s.stopServer
      /\ s.s2cCancelled \subseteq t.s2cCancelled
      /\ t.s2cCancelled \subseteq s.s2cCancelled \cup {b}
      /\ b \notin s.unmapped => t.s2cCancelled = s.s2cCancelled
      /\ t.out = IF b \in s.unmapped THEN s.out \cup {p} ELSE s.out
  <2>0. DOMAIN s = Fields
    BY FieldNames DEF Good, IsOMState
  <2>1. /\ DOMAIN m = Fields /\ m.s2cOrders = s.s2cOrders \cup {b} /\ m.unmapped = s.unmapped \ {b}
        /\ Kept(m, s) /\ m.stopServer = s.stopServer /\ m.s2cCancelled = s.s2cCancelled
        /\ m.out = s.out
    BY <2>0 DEF Fields, Kept, SamePosition
  <2> HIDE DEF m
  <2>2. /\ DOMAIN g = Fields /\ g.s2cOrders = m.s2cOrders /\ g.unmapped = m.unmapped
        /\ Kept(g, m) /\ g.stopServer = m.stopServer /\ g.out = m.out
        /\ m.s2cCancelled \subseteq g.s2cCancelled
        /\ g.s2cCancelled \subseteq m.s2cCancelled \cup {b}
    <3>1. CASE b \in s.cancelled
      BY <2>1, <3>1 DEF Fields, Kept, SamePosition
    <3>2. CASE b \notin s.cancelled
      BY <2>1, <3>2 DEF Kept, SamePosition
    <3> QED BY <3>1, <3>2
  <2>3. t = IF b \in s.unmapped THEN send_cancel(g, b, "server") ELSE m
    BY DEF map_server_basket, m
  <2> HIDE DEF g, t
  <2>4. CASE b \in s.unmapped
    <3>1. t = [g EXCEPT !.out = g.out \cup {p}]
      BY <2>3, <2>4 DEF send_cancel
    <3> HIDE DEF p
    <3> QED BY <2>1, <2>2, <2>4, <3>1 DEF Fields, Kept, SamePosition
  <2>5. CASE b \notin s.unmapped
    BY <2>1, <2>3, <2>5
  <2> QED BY <2>4, <2>5
<1> HIDE DEF t
<1>2. /\ News(t) = {} /\ Works(t, L) \subseteq Works(s, L)
      /\ \A x \in Works(s, L) : x \notin s.unmapped \/ x # b => x \in Works(t, L)
      /\ b \in s.unmapped => b \notin Works(t, L)
  <2>1. CASE b \in s.unmapped
    <3>1. p.op = "cancel" /\ p.by = "server" /\ p.id = b /\ t.out = s.out \cup {p}
      BY <1>1, <2>1
    <3> HIDE DEF p
    <3>2. /\ News(t) = News(s)
          /\ \A x : x \in Works(t, L) <=> x \in News(s) \/ (x \in Works(s, L) /\ x # p.id)
      BY <3>1, ServerCancelSent
    <3> QED BY <2>1, <3>1, <3>2
  <2>2. CASE b \notin s.unmapped
    <3>1. News(t) = News(s) /\ Works(t, L) = Works(s, L)
      BY <1>1, <2>2, SameSent
    <3> QED BY <2>2, <3>1
  <2> QED BY <2>1, <2>2
<1>3. Sent(t, L, Q)
  BY <1>1, <1>2 DEF Tidy, Sent, Kept
<1>4. Ids(t)
  BY <1>1 DEF Tidy, Ids, Kept, SamePosition
<1>5. Named(t, L, Q)
  BY <1>1, <1>2 DEF Tidy, Named, Kept, SamePosition
<1>6. Reachable(t, L, U, Q)
  BY <1>1, <1>2 DEF Tidy, Reachable, Kept, SamePosition
<1>7. Stopped(t, L, Q)
  <2>1. \A x \in Works(t, L) : x \in t.s2cCancelled => x \in s.s2cCancelled
    BY <1>1, <1>2
  <2> QED BY <1>1, <1>2, <2>1 DEF Tidy, Stopped, Kept, SamePosition
<1>8. Tidy(t, L, U, Q)
  BY <1>3, <1>4, <1>5, <1>6, <1>7 DEF Tidy
<1>9. ASSUME Covered(s, L, Q) PROVE Covered(t, L, Q)
  <2>1. \A x : Alive(s, L, Q, x) => Alive(t, L, Q, x)
    BY <1>1, <1>2 DEF Alive, Kept
  <2>2. HasStop(s, L, Q) => HasStop(t, L, Q)
    BY <1>1, <2>1 DEF HasStop, Kept
  <2>3. Spare(s, L, Q) => Spare(t, L, Q)
    BY <1>1, <2>1 DEF Spare, Kept
  <2> QED BY <1>1, <1>9, <2>2, <2>3 DEF Covered, Kept, SamePosition
<1> QED BY <1>1, <1>2, <1>8, <1>9 DEF t

\* The server id makes the stop cancellable, or cancels the guard that waited.
LEMMA StopMappedTidy ==
  ASSUME NEW s, Good(s), NEW b, b # 0, b \in s.s2cOrders, b \notin s.unmapped,
         NEW L, NEW U, NEW R, NEW Q, \A m : m \in R <=> m = Msg("mapped", b) \/ m \in Q,
         Tidy(s, L, U, R), News(s) = {}
  PROVE  LET t == on_stop_server_mapped(s, b) IN
         /\ Tidy(t, L, U, Q) /\ News(t) = {} /\ Works(t, L) \subseteq Works(s, L)
         /\ Kept(t, s)
         /\ Covered(s, L, Q) => Covered(t, L, Q)
<1> DEFINE t == on_stop_server_mapped(s, b)
           p == [op |-> "cancel", id |-> b, by |-> "server"]
           l == [s EXCEPT !.stopServer = b]
           n == [s EXCEPT !.s2cCancelled = @ \cup {b}, !.clientOnly = @ \ {b}]
           late == s.stop # b /\ b \in s.cancelled \ s.s2cCancelled
<1>0. DOMAIN s = Fields
  BY FieldNames DEF Good, IsOMState
<1>1. /\ Kept(t, s) /\ t.s2cOrders = s.s2cOrders /\ t.unmapped = s.unmapped
      /\ t.stopServer = IF s.stop = b THEN b ELSE s.stopServer
      /\ t.s2cCancelled = IF late THEN s.s2cCancelled \cup {b} ELSE s.s2cCancelled
      /\ t.out = IF late THEN s.out \cup {p} ELSE s.out
  <2>1. CASE s.stop = b /\ s.stopServer = b
    <3>1. t = s
      BY <2>1 DEF on_stop_server_mapped
    <3> HIDE DEF t
    <3> QED BY <2>1, <3>1 DEF Kept, SamePosition
  <2>2. CASE s.stop = b /\ s.stopServer # b
    <3>1. t = [l EXCEPT !.dbServer = IF b \in l.dbRows THEN @ \cup {b} ELSE @]
      BY <2>2 DEF on_stop_server_mapped, cancel_persist_server_id
    <3> HIDE DEF t
    <3> QED BY <1>0, <2>2, <3>1 DEF Fields, Kept, SamePosition
  <2>3. CASE late
    <3>1. t = send_cancel(cancel_persist_server_id(n, b), b, "server")
      BY <2>3 DEF on_stop_server_mapped
    <3> HIDE DEF t, n
    <3>2. t = [cancel_persist_server_id(n, b) EXCEPT !.out = @ \cup {p}]
      BY <3>1 DEF send_cancel
    <3>3. /\ DOMAIN n = Fields /\ Kept(n, s) /\ n.s2cOrders = s.s2cOrders
          /\ n.unmapped = s.unmapped /\ n.stopServer = s.stopServer /\ n.out = s.out
          /\ n.s2cCancelled = s.s2cCancelled \cup {b}
      BY <1>0 DEF n, Fields, Kept, SamePosition
    <3> HIDE DEF p
    <3> QED BY <2>3, <3>2, <3>3 DEF Fields, Kept, SamePosition, cancel_persist_server_id
  <2>4. CASE s.stop # b /\ ~late
    <3>1. t = s
      BY <2>4 DEF on_stop_server_mapped
    <3> HIDE DEF t
    <3> QED BY <2>4, <3>1 DEF Kept, SamePosition
  <2> QED BY <2>1, <2>2, <2>3, <2>4
<1> HIDE DEF t
<1>2. /\ News(t) = {} /\ Works(t, L) \subseteq Works(s, L)
      /\ \A x \in Works(s, L) : ~late \/ x # b => x \in Works(t, L)
      /\ late => b \notin Works(t, L)
  <2>1. CASE late
    <3>1. p.op = "cancel" /\ p.by = "server" /\ p.id = b /\ t.out = s.out \cup {p}
      BY <1>1, <2>1
    <3> HIDE DEF p
    <3>2. /\ News(t) = News(s)
          /\ \A x : x \in Works(t, L) <=> x \in News(s) \/ (x \in Works(s, L) /\ x # p.id)
      BY <3>1, ServerCancelSent
    <3> QED BY <2>1, <3>1, <3>2
  <2>2. CASE ~late
    <3>1. News(t) = News(s) /\ Works(t, L) = Works(s, L)
      BY <1>1, <2>2, SameSent
    <3> QED BY <2>2, <3>1
  <2> QED BY <2>1, <2>2
<1>3. \A x : /\ Msg("mapped", x) \in R => Msg("mapped", x) \in Q \/ x = b
             /\ Msg("snapshot", x) \in R <=> Msg("snapshot", x) \in Q
  BY DEF Msg
<1>4. Sent(t, L, Q)
  BY <1>1, <1>2 DEF Tidy, Sent, Kept
<1>5. Ids(t)
  BY <1>1 DEF Tidy, Ids, Kept, SamePosition
<1>6. Named(t, L, Q)
  BY <1>1, <1>2, <1>3 DEF Tidy, Named, Kept, SamePosition
<1>7. Stopped(t, L, Q)
  <2>1. \A x \in Works(t, L) : x \in t.s2cCancelled => x \in s.s2cCancelled
    BY <1>1, <1>2
  <2> QED BY <1>1, <1>2, <1>3, <2>1 DEF Tidy, Stopped, Kept, SamePosition
<1>8. b \in Works(t, L) =>
        \/ b \in {t.entry, t.exit} \/ (b = t.stop /\ t.stopServer = b)
        \/ Msg("snapshot", b) \in Q
  <2>1. SUFFICES ASSUME b \in Works(t, L), b \notin {t.entry, t.exit}, b # t.stop
                 PROVE  Msg("snapshot", b) \in Q
    BY <1>1 DEF Kept
  <2>2. ~late /\ b # s.stop
    BY <1>1, <1>2, <2>1 DEF Kept
  <2>3. b \in s.cancelled => Msg("snapshot", b) \in Q
    BY <1>2, <1>3, <2>1, <2>2 DEF Tidy, Stopped
  <2> QED BY <1>1, <1>2, <1>3, <2>1, <2>2, <2>3 DEF Tidy, Named, Kept, SamePosition
<1>9. Reachable(t, L, U, Q)
  <2> SUFFICES ASSUME NEW x \in Works(t, L)
               PROVE  \/ x \in U \cup News(t)
                      \/ Msg("mapped", x) \in Q \/ Msg("snapshot", x) \in Q
                      \/ x \in t.s2cOrders /\ x \in {t.entry, t.exit}
                      \/ x = t.stop /\ t.stopServer = x
    BY DEF Reachable
  <2>1. CASE x = b
    BY <1>1, <1>8, <2>1 DEF Kept
  <2>2. CASE x # b
    <3>1. x \in Works(s, L)
      BY <1>2
    <3> HIDE DEF late
    <3> QED BY <1>1, <1>2, <1>3, <2>2, <3>1 DEF Tidy, Reachable, Kept, SamePosition
  <2> QED BY <2>1, <2>2
<1>10. Tidy(t, L, U, Q)
  BY <1>4, <1>5, <1>6, <1>7, <1>9 DEF Tidy
<1>11. ASSUME Covered(s, L, Q) PROVE Covered(t, L, Q)
  <2>1. \A x : Alive(s, L, Q, x) /\ (~late \/ x # b) => Alive(t, L, Q, x)
    BY <1>1, <1>2 DEF Alive, Kept
  <2>2. HasStop(s, L, Q) => HasStop(t, L, Q)
    BY <1>1, <2>1 DEF HasStop, Kept
  <2>3. Spare(s, L, Q) => Spare(t, L, Q)
    BY <1>1, <2>1 DEF Spare, Kept
  <2> QED BY <1>1, <1>11, <2>2, <2>3 DEF Covered, Kept, SamePosition
<1> QED BY <1>1, <1>2, <1>10, <1>11 DEF t

\* A tid=351 with both ids.
LEMMA MappedTidy ==
  ASSUME NEW s, Good(s), HasShape(s), NEW b \in Baskets,
         NEW L, NEW U, NEW R, NEW Q, \A m : m \in R <=> m = Msg("mapped", b) \/ m \in Q,
         Tidy(s, L, U, R), News(s) = {}
  PROVE  LET t == mapped(s, b) IN
         /\ Good(t) /\ HasShape(t)
         /\ Tidy(t, L, U, Q) /\ News(t) = {} /\ Works(t, L) \subseteq Works(s, L)
         /\ Kept(t, s)
         /\ Covered(s, L, Q) => Covered(t, L, Q)
<1> DEFINE m == map_server_basket(s, b)
           t == on_stop_server_mapped(m, b)
<1>1. /\ Good(m) /\ HasShape(m) /\ b # 0
  BY MapServerBasketGood DEF Baskets
<1>2. /\ Tidy(m, L, U, R) /\ News(m) = {} /\ Works(m, L) \subseteq Works(s, L)
      /\ Kept(m, s) /\ b \in m.s2cOrders /\ b \notin m.unmapped
      /\ m.stopServer = s.stopServer
  BY MapTidy
<1>3. Covered(s, L, Q) => Covered(m, L, Q)
  <2>1. \A x : Msg("fill351", x) \in R <=> Msg("fill351", x) \in Q
    BY DEF Msg
  <2>2. \A x : Msg("snapshot", x) \in R <=> Msg("snapshot", x) \in Q
    BY DEF Msg
  <2>3. \A z, x : Alive(z, L, R, x) <=> Alive(z, L, Q, x)
    <3> HIDE DEF Msg
    <3> QED BY <2>1, <2>2 DEF Alive
  <2>4. \A z : Covered(z, L, R) <=> Covered(z, L, Q)
    BY <2>3 DEF Covered, HasStop, Spare
  <2>5. Covered(s, L, R) => Covered(m, L, R)
    BY MapTidy
  <2> QED BY <2>4, <2>5
<1> HIDE DEF m
<1>4. Good(t) /\ HasShape(t)
  BY <1>1, StopMappedGood
<1>5. /\ Tidy(t, L, U, Q) /\ News(t) = {} /\ Works(t, L) \subseteq Works(m, L)
      /\ Kept(t, m)
      /\ Covered(m, L, Q) => Covered(t, L, Q)
  BY <1>1, <1>2, StopMappedTidy
<1> HIDE DEF t
<1>6. mapped(s, b) = t
  BY DEF mapped, t, m
<1> QED BY <1>2, <1>3, <1>4, <1>5, <1>6 DEF Kept, SamePosition

\* More messages on the wire.
LEMMA MoreTidy ==
  ASSUME NEW s, NEW L, NEW U, NEW Q, NEW R, Q \subseteq R, Tidy(s, L, U, Q),
         \A m \in R : m \in Q
           \/ /\ m.id \in 1 .. s.seq
              /\ m.kind \in {"cancelled", "fill351", "fill352", "rejected"}
                   => m.id \notin Works(s, L)
  PROVE  Tidy(s, L, U, R)
<1>1. Sent(s, L, R)
  BY DEF Tidy, Sent
<1>2. Named(s, L, R) /\ Reachable(s, L, U, R) /\ Stopped(s, L, R)
  BY DEF Tidy, Named, Reachable, Stopped
<1> QED BY <1>1, <1>2 DEF Tidy

LEMMA MoreCovered ==
  ASSUME NEW s, NEW L, NEW Q, NEW R, Q \subseteq R,
         \A m \in R : m \in Q \/ m.kind # "snapshot", Covered(s, L, Q)
  PROVE  Covered(s, L, R)
<1>1. \A b : Msg("snapshot", b) \in R => Msg("snapshot", b) \in Q
  BY DEF Msg
<1> HIDE DEF Msg
<1>2. \A b : Alive(s, L, Q, b) => Alive(s, L, R, b)
  BY <1>1 DEF Alive
<1> QED BY <1>2 DEF Covered, HasStop, Spare

\* The books once it has been read that an order does not work any more.
LEMMA GoneBooked ==
  ASSUME NEW s, NEW t, NEW net, NEW R, NEW Q, NEW b, NEW k \in {"cancelled", "rejected"},
         \A m : m \in R <=> m = Msg(k, b) \/ m \in Q,
         Booked(s, net, R), t.processed = s.processed, Believed(t) = Believed(s),
         \A x \in Filled(Q) :
           x # b /\ Books(s, x) => Books(t, x) /\ (x \in t.buys <=> x \in s.buys)
  PROVE  Booked(t, net, Q)
<1>1. \A x : x \in Filled(Q) <=> x \in Filled(R)
  BY DEF Filled, Msg
<1>2. Filled(Q) = Filled(R) /\ \A m \in Q : m \in R
  BY <1>1
<1>3. Msg("cancelled", b) \in R \/ Msg("rejected", b) \in R
  OBVIOUS
<1> HIDE DEF Filled, Books, Believed, Msg
<1> QED BY <1>2, <1>3 DEF Booked

\* An acknowledged cancel drops the guard of an order that does not work.
LEMMA ConfirmTidy ==
  ASSUME NEW s, Good(s), NEW b, NEW L, b \notin Works(s, L),
         NEW U, NEW Q, Tidy(s, L, U, Q), News(s) = {}
  PROVE  LET t == on_cancel_confirmed(s, b) IN
         /\ Tidy(t, L, U, Q) /\ News(t) = {}
         /\ t.processed = s.processed /\ t.buys = s.buys
         /\ Believed(t) = Believed(s)
         /\ \A x : x # b /\ Books(s, x) => Books(t, x)
         /\ Covered(s, L, Q) => Covered(t, L, Q)
<1> DEFINE t == on_cancel_confirmed(s, b)
<1>1. /\ SamePosition(t, s) /\ t.stop = s.stop /\ t.seq = s.seq /\ t.tradeSeq = s.tradeSeq
      /\ t.pendingCancel = s.pendingCancel /\ t.cancelTrade = s.cancelTrade
      /\ t.processed = s.processed /\ t.seeded = s.seeded
      /\ t.buys = s.buys /\ t.stops = s.stops
      /\ t.cancelled = s.cancelled \ {b} /\ t.s2cCancelled = s.s2cCancelled \ {b}
      /\ t.stopServer = s.stopServer /\ t.s2cOrders = s.s2cOrders /\ t.unmapped = s.unmapped
      /\ t.out = s.out
  BY FieldNames DEF on_cancel_confirmed, drop_guard, cancel_remove, Good, IsOMState, Fields,
                    SamePosition
<1> HIDE DEF t
<1>2. News(t) = {} /\ Works(t, L) = Works(s, L)
  BY <1>1, SameSent
<1>3. Sent(t, L, Q) /\ Ids(t)
  BY <1>1, <1>2 DEF Tidy, Sent, Ids, SamePosition
<1>4. Named(t, L, Q) /\ Reachable(t, L, U, Q) /\ Stopped(t, L, Q)
  BY <1>1, <1>2 DEF Tidy, Named, Reachable, Stopped, SamePosition
<1>5. Believed(t) = Believed(s) /\ \A x : x # b /\ Books(s, x) => Books(t, x)
  BY <1>1 DEF Believed, Books, SamePosition
<1>6. ASSUME Covered(s, L, Q) PROVE Covered(t, L, Q)
  BY <1>1, <1>2, <1>6 DEF Covered, HasStop, Spare, Alive, SamePosition
<1> QED BY <1>1, <1>2, <1>3, <1>4, <1>5, <1>6 DEF Tidy, t

\* The startup snapshot: what works is cancelled by its server id.
LEMMA SnapshotTidy ==
  ASSUME NEW s, Good(s), NEW b, NEW L, NEW U, NEW R, NEW Q,
         \A m : m \in R <=> m = Msg("snapshot", b) \/ m \in Q,
         Tidy(s, L, U, R), News(s) = {}
  PROVE  LET t == send_cancel(s, b, "server") IN
         /\ Tidy(t, L, U, Q) /\ News(t) = {}
         /\ Covered(s, L, R) => Covered(t, L, Q)
<1> DEFINE t == send_cancel(s, b, "server")
           p == [op |-> "cancel", id |-> b, by |-> "server"]
<1>1. Same(t, s) /\ t.out = s.out \cup {p}
  <2>1. t = [s EXCEPT !.out = s.out \cup {p}]
    BY DEF send_cancel
  <2> HIDE DEF p, t
  <2> QED BY <2>1, FieldNames DEF Good, IsOMState, Fields, Same, Frame, SamePosition
<1>2. p.op = "cancel" /\ p.by = "server" /\ p.id = b
  OBVIOUS
<1> HIDE DEF p, t
<1>3. /\ News(t) = News(s)
      /\ \A x : x \in Works(t, L) <=> x \in News(s) \/ (x \in Works(s, L) /\ x # p.id)
  BY <1>1, <1>2, ServerCancelSent
<1>4. /\ Works(t, L) \subseteq Works(s, L) /\ b \notin Works(t, L)
      /\ \A x \in Works(s, L) : x # b => x \in Works(t, L)
  BY <1>2, <1>3
<1>5. \A x : /\ Msg("mapped", x) \in R <=> Msg("mapped", x) \in Q
             /\ Msg("fill351", x) \in R <=> Msg("fill351", x) \in Q
             /\ Msg("snapshot", x) \in R => Msg("snapshot", x) \in Q \/ x = b
             /\ Msg("snapshot", b) \in R
  BY DEF Msg
<1>6. Sent(t, L, Q) /\ Ids(t)
  BY <1>1, <1>3, <1>4 DEF Tidy, Sent, Ids, Same, Frame, SamePosition
<1>7. Named(t, L, Q) /\ Reachable(t, L, U, Q) /\ Stopped(t, L, Q)
  BY <1>1, <1>3, <1>4, <1>5 DEF Tidy, Named, Reachable, Stopped, Same, Frame, SamePosition
<1>8. ASSUME Covered(s, L, R) PROVE Covered(t, L, Q)
  <2>1. \A x : Msg("snapshot", x) \in Q => Msg("snapshot", x) \in R
    OBVIOUS
  <2>2. \A x : Alive(s, L, R, x) => Alive(t, L, Q, x)
    BY <1>1, <1>4, <1>5, <2>1 DEF Alive, Same, Frame
  <2>3. HasStop(s, L, R) => HasStop(t, L, Q)
    BY <1>1, <2>2 DEF HasStop, Same, Frame
  <2>4. Spare(s, L, R) => Spare(t, L, Q)
    BY <1>1, <2>2 DEF Spare, Same, Frame
  <2> QED BY <1>1, <1>8, <2>3, <2>4 DEF Covered, Same, Frame, SamePosition
<1> QED BY <1>3, <1>6, <1>7, <1>8 DEF Tidy, t

\* A failed cancel by client id makes the guard the stop again; its replacement is
\* cancelled and becomes the guard.
LEMMA FailedTidy ==
  ASSUME NEW s, Good(s), NEW b \in Baskets, NEW L, NEW U, NEW Q, Tidy(s, L, U, Q), News(s) = {}
  PROVE  LET t == on_cancel_failed(s, b, "client") IN
         /\ Tidy(t, L, U, Q) /\ News(t) = {}
         /\ t.processed = s.processed /\ t.buys = s.buys
         /\ Believed(t) = Believed(s)
         /\ \A x : x # 0 /\ Books(s, x) => Books(t, x)
         /\ Covered(s, L, Q) => Covered(t, L, Q)
<1> DEFINE t == on_cancel_failed(s, b, "client")
           c == cancel_stop_locked(s)
<1>1. CASE ~readopts(s, b, "client")
  <2>1. t = s
    BY <1>1 DEF on_cancel_failed
  <2> HIDE DEF t
  <2> QED BY <2>1 DEF t
<1>2. CASE readopts(s, b, "client")
  <2>1. /\ b \in s.cancelled \ s.s2cCancelled /\ s.state \in InTrade
        /\ s.cancelTrade[b] = s.tradeSeq /\ s.stop # b /\ b # 0
    BY <1>2 DEF readopts, Good, Guards, Baskets
  <2>2. /\ Good(c) /\ Tidy(c, L, U, Q) /\ News(c) = {} /\ c.stop = 0
        /\ Frame(c, s) /\ c.seq = s.seq /\ c.buys = s.buys /\ c.stops = s.stops
        /\ \A x : Books(s, x) => Books(c, x)
        /\ HasStop(s, L, Q) /\ Spare(s, L, Q) => Spare(c, L, Q)
    <3>1. s.state \in Trading /\ s.state \in {"LONG", "SHORT", "PENDING_EXIT"}
      BY <2>1 DEF InTrade, Trading
    <3>2. Good(c) /\ c.stop = 0
      BY <3>1, CancelStopGood
    <3> QED BY <3>1, <3>2, CancelStopTidy
  <2>3. b \in c.cancelled \ c.s2cCancelled /\ c.cancelTrade[b] = c.tradeSeq
    <3>1. CASE s.stop = 0
      <4>1. c = s
        BY <3>1 DEF cancel_stop_locked
      <4> QED BY <2>1, <4>1
    <3>2. CASE s.stop # 0
      <4>1. s.state \in Trading
        BY <2>1 DEF InTrade, Trading
      <4>2. /\ Frame(c, s) /\ c.cancelled = s.cancelled \cup {s.stop}
            /\ c.cancelTrade = [s.cancelTrade EXCEPT ![s.stop] = s.tradeSeq]
            /\ c.s2cCancelled = IF s.stopServer # 0 THEN s.s2cCancelled \cup {s.stop}
                                                    ELSE s.s2cCancelled
        BY <3>2, <4>1, CancelStopFields
      <4> HIDE DEF c
      <4> QED BY <2>1, <4>2 DEF Frame, Good, IsOMState
    <3> QED BY <3>1, <3>2
  <2>4. t = [cancel_remove(drop_guard(c, b), b) EXCEPT !.stop = b, !.stopServer = 0]
    <3>1. (IF s.stop # 0 /\ s.stop # b THEN cancel_stop_locked(s) ELSE s) = c
      BY <2>1 DEF cancel_stop_locked
    <3> HIDE DEF c
    <3> QED BY <1>2, <3>1 DEF on_cancel_failed
  <2> HIDE DEF c, t
  <2>5. /\ SamePosition(t, c) /\ t.stop = b /\ t.stopServer = 0 /\ t.seq = c.seq
        /\ t.tradeSeq = c.tradeSeq
        /\ t.pendingCancel = c.pendingCancel /\ t.cancelTrade = c.cancelTrade
        /\ t.processed = c.processed /\ t.seeded = c.seeded
        /\ t.buys = c.buys /\ t.stops = c.stops
        /\ t.cancelled = c.cancelled \ {b} /\ t.s2cCancelled = c.s2cCancelled \ {b}
        /\ t.s2cOrders = c.s2cOrders /\ t.unmapped = c.unmapped
        /\ t.out = c.out
    BY <2>2, <2>4, FieldNames
    DEF drop_guard, cancel_remove, Good, IsOMState, Fields, SamePosition
  <2>6. News(t) = {} /\ Works(t, L) = Works(c, L)
    BY <2>2, <2>5, SameSent
  <2>7. Sent(t, L, Q) /\ Ids(t)
    BY <2>2, <2>5, <2>6 DEF Tidy, Sent, Ids, SamePosition
  <2>8. \A x \in Works(c, L) : x # 0
    BY <2>2 DEF Tidy, Sent
  <2>9. Named(t, L, Q) /\ Reachable(t, L, U, Q) /\ Stopped(t, L, Q)
    BY <2>2, <2>5, <2>6, <2>8 DEF Tidy, Named, Reachable, Stopped, SamePosition
  <2>10. /\ t.processed = s.processed /\ t.buys = s.buys /\ Believed(t) = Believed(s)
         /\ t.state = s.state
    BY <2>2, <2>5 DEF Believed, Frame, SamePosition
  <2>11. \A x : x # 0 /\ Books(c, x) => Books(t, x)
    BY <2>2, <2>5 DEF Books, SamePosition
  <2>12. ASSUME Covered(s, L, Q) PROVE Covered(t, L, Q)
    <3>1. Spare(c, L, Q)
      BY <2>1, <2>2, <2>12 DEF Covered
    <3>2. Alive(c, L, Q, b)
      BY <2>3, <3>1 DEF Spare
    <3>3. \A x : Alive(c, L, Q, x) => Alive(t, L, Q, x)
      BY <2>5, <2>6 DEF Alive
    <3>4. HasStop(t, L, Q)
      BY <2>1, <2>5, <3>2, <3>3 DEF HasStop
    <3>5. Spare(t, L, Q)
      BY <2>5, <3>1, <3>3 DEF Spare
    <3> QED BY <3>4, <3>5 DEF Covered
  <2>13. Tidy(t, L, U, Q)
    BY <2>7, <2>9 DEF Tidy
  <2> QED BY <2>2, <2>6, <2>10, <2>11, <2>12, <2>13 DEF t
<1> QED BY <1>1, <1>2

\* A reject of the entry takes the trade back, one of the exit is answered by
\* another exit, or by none after the third, and one of the stop leaves none.
LEMMA RejectedTidy ==
  ASSUME NEW s, Good(s), HasShape(s), NEW b \in Baskets,
         NEW ok \in BOOLEAN, NEW okStop \in BOOLEAN,
         NEW L, b \notin Works(s, L), NEW U, NEW Q, Tidy(s, L, U, Q), News(s) = {},
         s.exit = b /\ s.state = "PENDING_EXIT" /\ s.rejectedExits < 3
           => s.seq + 1 <= MaxBaskets /\ (ok \/ s.seq + 2 <= MaxBaskets)
  PROVE  LET t == on_order_rejected(s, b, "client", ok, okStop) IN
         /\ Tidy(t, L, U, Q) /\ t.processed = s.processed
         /\ Believed(t) = Believed(s)
         /\ \A x : x # b /\ x # 0 /\ Books(s, x) => Books(t, x) /\ t.buys = s.buys
<1> DEFINE t == on_order_rejected(s, b, "client", ok, okStop)
           x == [s EXCEPT !.state = Held(s.dir), !.exit = 0, !.rejectedExits = @ + 1]
           h == [x EXCEPT !.entryHalted = TRUE]
           z == [cancel_remove(s, s.stop) EXCEPT !.stop = 0, !.stopServer = 0]
<1>1. b # 0 /\ DOMAIN s = Fields /\ (b # s.stop \/ s.stop # 0)
  BY FieldNames DEF Baskets, Good, IsOMState
<1>2. CASE s.entry = b /\ s.state = "PENDING_ENTRY"
  <2>1. t = reset_position(s)
    BY <1>1, <1>2 DEF on_order_rejected
  <2> HIDE DEF t
  <2>2. /\ t.state = "FLAT" /\ t.entry = 0 /\ t.exit = 0 /\ t.stop = 0 /\ t.out = s.out
        /\ t.unmapped = s.unmapped /\ t.pendingCancel = s.pendingCancel
        /\ t.processed = s.processed /\ t.seq = s.seq /\ t.stops = s.stops
        /\ t.seeded = s.seeded /\ t.cancelled = s.cancelled /\ t.s2cCancelled = s.s2cCancelled
        /\ t.buys = s.buys
    BY <1>1, <2>1 DEF Fields, reset_position
  <2>3. News(t) = {} /\ Works(t, L) = Works(s, L)
    BY <2>2, SameSent
  <2>4. s.exit = 0 /\ s.stop = 0
    BY <1>2 DEF HasShape
  <2>5. \A y \in Works(s, L) : y # 0 /\ y # s.entry
    BY <1>2 DEF Tidy, Sent
  <2>6. Sent(t, L, Q) /\ Ids(t)
    <3>1. s.seq \in Nat
      BY DEF Good, IsOMState, BasketId
    <3> QED BY <2>2, <2>3, <3>1 DEF Tidy, Sent, Ids
  <2>7. Named(t, L, Q) /\ Reachable(t, L, U, Q) /\ Stopped(t, L, Q)
    BY <2>2, <2>3, <2>4, <2>5 DEF Tidy, Named, Reachable, Stopped, Trading
  <2>8. Believed(t) = Believed(s)
    BY <1>2, <2>2 DEF Believed, Trading
  <2>9. \A y : y # b => ~Books(s, y)
    BY <1>2 DEF Books, InTrade
  <2> QED BY <2>2, <2>6, <2>7, <2>8, <2>9 DEF Tidy, t
<1>3. CASE s.exit = b /\ s.state = "PENDING_EXIT"
  <2>1. t = IF x.rejectedExits <= 3 THEN initiate_exit_locked(x, ok, okStop) ELSE h
    BY <1>1, <1>3 DEF on_order_rejected
  <2> HIDE DEF t
  <2>2. /\ DOMAIN x = Fields /\ x.state = Held(s.dir) /\ x.exit = 0
        /\ x.rejectedExits = s.rejectedExits + 1
        /\ x.dir = s.dir /\ x.entry = s.entry /\ x.stop = s.stop /\ x.stopServer = s.stopServer
        /\ x.tradeSeq = s.tradeSeq /\ x.pendingCancel = s.pendingCancel
        /\ x.s2cOrders = s.s2cOrders /\ x.processed = s.processed /\ x.seeded = s.seeded
        /\ x.buys = s.buys /\ x.stops = s.stops /\ x.out = s.out /\ x.seq = s.seq
        /\ x.unmapped = s.unmapped /\ x.cancelled = s.cancelled
        /\ x.cancelTrade = s.cancelTrade /\ x.s2cCancelled = s.s2cCancelled
    BY <1>1 DEF Fields
  <2>3. Good(x) /\ Holding(x)
    <3>1. Held(s.dir) \in Trading /\ Held(s.dir) \in InTrade
      BY DEF Held, Trading, InTrade
    <3>2. s.dir # "NONE" /\ s.entry # 0
      BY <1>3 DEF HasShape
    <3>3. 0 \in BasketId /\ 0 <= s.seq /\ s.rejectedExits + 1 \in Nat
          /\ s.entryHalted \in BOOLEAN /\ s.state \in Trading
      BY <1>3, BasketsAssumption DEF Good, IsOMState, BasketId, Trading
    <3> DEFINE y == [s EXCEPT !.state = Held(s.dir), !.exit = 0,
                              !.rejectedExits = s.rejectedExits + 1,
                              !.entryHalted = s.entryHalted]
    <3>4. Good(y)
      BY <3>1, <3>3, TradeStateGood
    <3>5. y = x
      BY <1>1 DEF Fields
    <3> HIDE DEF x, y
    <3> QED BY <2>2, <3>1, <3>2, <3>4, <3>5 DEF Holding
  <2>4. /\ DOMAIN h = Fields /\ \A f \in Fields \ {"entryHalted"} : h[f] = x[f]
    BY <2>2
  <2> HIDE DEF x, h
  <2>5. News(x) = {} /\ Works(x, L) = Works(s, L)
    BY <2>2, SameSent
  <2>6. \A y \in Works(s, L) : y # 0 /\ y # s.exit
    BY <1>3 DEF Tidy, Sent
  <2>7. Sent(x, L, Q) /\ Ids(x)
    BY <2>2, <2>5 DEF Tidy, Sent, Ids
  <2>8. Named(x, L, Q) /\ Reachable(x, L, U, Q) /\ Stopped(x, L, Q)
    BY <1>3, <2>2, <2>5, <2>6 DEF Tidy, Named, Reachable, Stopped, Trading
  <2>9. Tidy(x, L, U, Q) /\ Believed(x) = Believed(s)
    <3>1. Believed(x) = Believed(s)
      BY <1>3, <2>2 DEF Believed, Trading, Held
    <3> QED BY <2>7, <2>8, <3>1 DEF Tidy
  <2>10. \A y : y # b => ~Books(s, y)
    BY <1>3 DEF Books, InTrade
  <2>11. CASE x.rejectedExits <= 3
    <3>1. s.rejectedExits < 3
      BY <2>2, <2>11 DEF Good, IsOMState
    <3>2. x.seq + 1 <= MaxBaskets /\ (ok \/ x.seq + 2 <= MaxBaskets)
      BY <1>3, <2>2, <3>1
    <3>3. LET e == initiate_exit_locked(x, ok, okStop) IN
          /\ Tidy(e, L, U, Q) /\ e.processed = x.processed /\ Believed(e) = Believed(x)
      BY <2>3, <2>5, <2>9, <3>2, InitiateExitTidy
    <3> QED BY <2>1, <2>2, <2>9, <2>10, <2>11, <3>3 DEF t
  <2>12. CASE ~(x.rejectedExits <= 3)
    <3>1. t = h
      BY <2>1, <2>12
    <3>2. Same(h, x) /\ h.out = x.out
      BY <2>4 DEF Fields, Same, Frame, SamePosition
    <3>3. News(h) = News(x) /\ Works(h, L) \subseteq Works(x, L)
      BY <3>2, SameSent
    <3>4. Tidy(h, L, U, Q) /\ Believed(h) = Believed(x) /\ h.processed = x.processed
      BY <2>9, <3>2, <3>3, SameTidy
    <3> QED BY <2>2, <2>9, <2>10, <3>1, <3>4 DEF t
  <2> QED BY <2>11, <2>12
<1>4. CASE b = s.stop /\ ~(s.entry = b /\ s.state = "PENDING_ENTRY")
           /\ ~(s.exit = b /\ s.state = "PENDING_EXIT")
  <2>1. t = z
    BY <1>1, <1>4 DEF on_order_rejected
  <2> HIDE DEF t
  <2>2. /\ SamePosition(t, s) /\ t.stop = 0 /\ t.stopServer = 0
        /\ t.tradeSeq = s.tradeSeq /\ t.pendingCancel = s.pendingCancel
        /\ t.s2cOrders = s.s2cOrders /\ t.processed = s.processed /\ t.seeded = s.seeded
        /\ t.buys = s.buys /\ t.stops = s.stops /\ t.out = s.out /\ t.seq = s.seq
        /\ t.unmapped = s.unmapped /\ t.cancelled = s.cancelled
        /\ t.cancelTrade = s.cancelTrade /\ t.s2cCancelled = s.s2cCancelled
    BY <1>1, <2>1 DEF Fields, SamePosition, cancel_remove
  <2>3. News(t) = {} /\ Works(t, L) = Works(s, L)
    BY <2>2, SameSent
  <2>4. Sent(t, L, Q) /\ Ids(t)
    BY <2>2, <2>3 DEF Tidy, Sent, Ids, SamePosition
  <2>5. Named(t, L, Q) /\ Reachable(t, L, U, Q) /\ Stopped(t, L, Q)
    BY <1>4, <2>2, <2>3 DEF Tidy, Named, Reachable, Stopped, SamePosition
  <2>6. Believed(t) = Believed(s)
    BY <2>2 DEF Believed, SamePosition
  <2>7. \A y : y # b /\ y # 0 /\ Books(s, y) => Books(t, y)
    BY <1>4, <2>2 DEF Books, SamePosition
  <2> QED BY <2>2, <2>4, <2>5, <2>6, <2>7 DEF Tidy, t
<1>5. CASE b # s.stop /\ ~(s.entry = b /\ s.state = "PENDING_ENTRY")
           /\ ~(s.exit = b /\ s.state = "PENDING_EXIT")
  <2>1. t = s
    BY <1>1, <1>5 DEF on_order_rejected
  <2> HIDE DEF t
  <2> QED BY <2>1 DEF t
<1> QED BY <1>2, <1>3, <1>4, <1>5

-----------------------------------------------------------------------------
(* The fills. *)

\* A recorded fill is of an order that does not work any more.
LEMMA RecordTidy ==
  ASSUME NEW s, Good(s), HasShape(s), NEW b \in Baskets, b <= s.seq,
         NEW L, b \notin Works(s, L), NEW U, NEW Q, Tidy(s, L, U, Q), News(s) = {}
  PROVE  LET t == record_fill(s, b, Qty) IN
         /\ Good(t) /\ HasShape(t)
         /\ t.processed[b] >= Qty
         /\ Tidy(t, L, U, Q) /\ News(t) = {} /\ Works(t, L) = Works(s, L)
         /\ SamePosition(t, s) /\ t.stop = s.stop /\ t.cancelled = s.cancelled
         /\ t.cancelTrade = s.cancelTrade /\ t.tradeSeq = s.tradeSeq /\ t.seq = s.seq
         /\ t.buys = s.buys /\ t.unmapped = s.unmapped /\ t.s2cCancelled = s.s2cCancelled
         /\ \A x \in Baskets : x # b => t.processed[x] = s.processed[x]
<1> DEFINE t == record_fill(s, b, Qty)
<1>0. Qty \in 1 .. Qty /\ DOMAIN s = Fields
  BY QtyAssumption, FieldNames DEF Good, IsOMState
<1>1. Good(t) /\ HasShape(t)
  BY <1>0, QuietGood
<1>2. /\ SamePosition(t, s) /\ t.stop = s.stop /\ t.cancelled = s.cancelled
      /\ t.cancelTrade = s.cancelTrade /\ t.tradeSeq = s.tradeSeq /\ t.seq = s.seq
      /\ t.buys = s.buys /\ t.unmapped = s.unmapped /\ t.s2cCancelled = s.s2cCancelled
      /\ t.pendingCancel = s.pendingCancel /\ t.s2cOrders = s.s2cOrders
      /\ t.seeded = s.seeded /\ t.stops = s.stops /\ t.stopServer = s.stopServer
      /\ t.out = s.out
      /\ t.processed[b] >= Qty /\ \A x \in Baskets : x # b => t.processed[x] = s.processed[x]
      /\ DOMAIN t = Fields
  <2>1. CASE s.processed[b] >= Qty
    BY <1>0, <2>1 DEF record_fill, SamePosition
  <2>2. CASE ~(s.processed[b] >= Qty)
    <3>1. t = [s EXCEPT !.processed = [s.processed EXCEPT ![b] = Qty]]
      BY <2>2 DEF record_fill
    <3>2. s.processed \in [Baskets -> 0 .. Qty] /\ Qty >= Qty
      BY QtyAssumption DEF Good, IsOMState
    <3>3. [s.processed EXCEPT ![b] = Qty][b] = Qty
      BY <3>2
    <3>4. \A x \in Baskets : x # b => [s.processed EXCEPT ![b] = Qty][x] = s.processed[x]
      BY <3>2, Zenon
    <3> DEFINE P == [s.processed EXCEPT ![b] = Qty]
    <3> HIDE DEF P, t
    <3>5. t = [s EXCEPT !.processed = P] /\ P[b] = Qty /\ \A x \in Baskets : x # b => P[x] = s.processed[x]
      BY <3>1, <3>3, <3>4 DEF P
    <3> QED BY <1>0, <3>2, <3>5 DEF Fields, SamePosition
  <2> QED BY <2>1, <2>2
<1> HIDE DEF t
<1>3. News(t) = {} /\ Works(t, L) = Works(s, L)
  BY <1>2, SameSent
<1>4. Sent(t, L, Q) /\ Ids(t)
  <2>1. Sent(t, L, Q)
    BY <1>2, <1>3 DEF Tidy, Sent
  <2>2. \A x \in Baskets : x > t.seq => x # b
    BY <1>2 DEF Baskets, Good, IsOMState, BasketId
  <2>3. \A x \in Baskets : x > t.seq => t.processed[x] = 0
    BY <1>2, <2>2 DEF Tidy, Ids
  <2>4. Ids(t)
    BY <1>2, <2>3 DEF Tidy, Ids, SamePosition
  <2> QED BY <2>1, <2>4
<1>5. Named(t, L, Q) /\ Reachable(t, L, U, Q) /\ Stopped(t, L, Q)
  <2>1. Named(t, L, Q) /\ Reachable(t, L, U, Q)
    BY <1>2, <1>3 DEF Tidy, Named, Reachable, SamePosition
  <2>2. \A x \in Works(s, L) : x \in Baskets /\ x # b
    <3>1. Works(s, L) \subseteq 1 .. s.seq /\ s.seq \in BasketId
      BY DEF Tidy, Sent, Good, IsOMState
    <3> QED BY <3>1, BasketsAssumption DEF BasketId, Baskets
  <2>3. Stopped(t, L, Q)
    BY <1>2, <1>3, <2>2 DEF Tidy, Stopped, SamePosition
  <2> QED BY <2>1, <2>3
<1> QED BY <1>1, <1>2, <1>3, <1>4, <1>5 DEF Tidy, t

\* The entry has filled: its stop is sent.
LEMMA TakenTidy ==
  ASSUME NEW s, Good(s), HasShape(s), s.state = "PENDING_ENTRY", s.seq + 1 <= MaxBaskets,
         NEW ok \in BOOLEAN,
         NEW L, s.entry \notin Works(s, L), NEW U, NEW Q, Tidy(s, L, U, Q), News(s) = {}
  PROVE  LET t == submit_stop_order_locked(taken(s), ok) IN
         /\ Tidy(t, L, U, Q) /\ t.processed = s.processed
         /\ Believed(t) = IF s.entry \in s.buys THEN 1 ELSE -1
         /\ Believed(s) = 0
         /\ ok => Covered(t, L, Q)
<1> DEFINE u == taken(s)
           t == submit_stop_order_locked(u, ok)
<1>1. Good(u) /\ Holding(u) /\ u.seq = s.seq /\ u.stop = 0
  BY TakenGood
<1>2. /\ u.state = Held(s.dir) /\ u.pendingCancel = 0
      /\ u.dir = s.dir /\ u.entry = s.entry /\ u.exit = s.exit
      /\ u.stop = s.stop /\ u.stopServer = s.stopServer /\ u.tradeSeq = s.tradeSeq
      /\ u.s2cOrders = s.s2cOrders /\ u.processed = s.processed /\ u.seeded = s.seeded
      /\ u.buys = s.buys /\ u.stops = s.stops /\ u.out = s.out
      /\ u.unmapped = s.unmapped /\ u.cancelled = s.cancelled
      /\ u.cancelTrade = s.cancelTrade /\ u.s2cCancelled = s.s2cCancelled
  BY FieldNames DEF taken, Good, IsOMState, Fields
<1> HIDE DEF u
<1>3. News(u) = {} /\ Works(u, L) = Works(s, L)
  BY <1>2, SameSent
<1>4. Sent(u, L, Q) /\ Ids(u)
  <2>1. s.seq \in Nat
    BY DEF Good, IsOMState, BasketId
  <2> QED BY <1>1, <1>2, <1>3, <2>1 DEF Tidy, Sent, Ids
<1>5. Named(u, L, Q) /\ Reachable(u, L, U, Q) /\ Stopped(u, L, Q)
  BY <1>2, <1>3 DEF Tidy, Named, Reachable, Stopped
<1>6. /\ Tidy(t, L, U, Q) /\ Frame(t, u)
      /\ Spare(u, L, Q) => Spare(t, L, Q)
      /\ ok => HasStop(t, L, Q)
  <2>1. Tidy(u, L, U, Q)
    BY <1>4, <1>5 DEF Tidy
  <2> QED BY <1>1, <2>1, SubmitStopTidy
<1> HIDE DEF t
<1>7. Spare(u, L, Q)
  BY <1>2 DEF Spare, Good, Sides
<1>8. s.entry # 0 /\ (s.entry \in s.buys <=> s.dir = "BUY")
  BY DEF HasShape, Tidy, Ids
<1>9. Believed(t) = IF s.entry \in s.buys THEN 1 ELSE -1
  BY <1>2, <1>6, <1>8 DEF Believed, Trading, Held, Frame, SamePosition
<1>10. Believed(s) = 0
  BY DEF Believed, Trading
<1> QED BY <1>2, <1>6, <1>7, <1>9, <1>10 DEF Covered, Frame, t, u

\* The exit or a stop has filled: what is left of the trade is a guard with a
\* cancel that can still be sent again.
LEMMA ClosedTidy ==
  ASSUME NEW s, Good(s), HasShape(s), s.state \in Trading, NEW b \in Baskets,
         s.state = "PENDING_EXIT" => b = s.exit,
         NEW L, b \notin Works(s, L), NEW U, NEW Q, Tidy(s, L, U, Q), News(s) = {}
  PROVE  LET t == fill_exit(s, b) IN
         /\ Tidy(t, L, U, Q) /\ t.processed = s.processed
         /\ t.state = "FLAT" /\ Believed(t) = 0
<1> DEFINE d == drop_guard(s, b)
           e == [d EXCEPT !.cancelTrade = [d.cancelTrade EXCEPT ![b] = 0]]
           g == unguarded(s, b)
           c == IF g.stop = b THEN cancel_remove(g, b) ELSE cancel_stop_locked(g)
           f == reset_position(c)
           K == c.cancelled \cap (c.s2cCancelled \cup c.clientOnly)
           t == fill_exit(s, b)
<1>0. b # 0 /\ b \in BasketId /\ DOMAIN s = Fields
  BY FieldNames DEF Baskets, BasketId, Good, IsOMState
<1>1. Good(g) /\ SamePosition(g, s) /\ g.stop = s.stop /\ b \notin g.cancelled
  BY <1>0, UnguardedGood
<1>2. /\ g.tradeSeq = s.tradeSeq /\ g.seq = s.seq /\ g.stopServer = s.stopServer
      /\ g.s2cOrders = s.s2cOrders /\ g.processed = s.processed /\ g.seeded = s.seeded
      /\ g.buys = s.buys /\ g.stops = s.stops /\ g.out = s.out
      /\ g.pendingCancel = s.pendingCancel
      /\ g.unmapped = s.unmapped
      /\ g.cancelled = s.cancelled \ {b} /\ g.s2cCancelled = s.s2cCancelled \ {b}
      /\ \A x \in Baskets : x # b => g.cancelTrade[x] = s.cancelTrade[x]
  <2>1. CASE b \in s.cancelled
    <3>1. g = cancel_remove(e, b)
      BY <2>1 DEF unguarded
    <3>2. /\ DOMAIN d = Fields
          /\ d.tradeSeq = s.tradeSeq /\ d.seq = s.seq /\ d.stopServer = s.stopServer
          /\ d.s2cOrders = s.s2cOrders /\ d.processed = s.processed /\ d.seeded = s.seeded
          /\ d.buys = s.buys /\ d.stops = s.stops /\ d.out = s.out
          /\ d.pendingCancel = s.pendingCancel
          /\ d.unmapped = s.unmapped
          /\ d.cancelled = s.cancelled \ {b} /\ d.s2cCancelled = s.s2cCancelled \ {b}
          /\ d.cancelTrade = s.cancelTrade
      BY <1>0 DEF drop_guard, Fields
    <3>3. \A x \in Baskets : x # b => [d.cancelTrade EXCEPT ![b] = 0][x] = d.cancelTrade[x]
      <4>1. d.cancelTrade \in [Baskets -> BasketId]
        BY <3>2 DEF Good, IsOMState
      <4> HIDE DEF d
      <4> QED BY <4>1, Zenon
    <3> DEFINE T == [d.cancelTrade EXCEPT ![b] = 0]
    <3> HIDE DEF d, T, g
    <3>4. e = [d EXCEPT !.cancelTrade = T] /\ \A x \in Baskets : x # b => T[x] = d.cancelTrade[x]
      BY <3>3 DEF T
    <3> HIDE DEF e
    <3> QED BY <1>0, <3>1, <3>2, <3>4 DEF Fields, cancel_remove
  <2>2. CASE b \notin s.cancelled
    <3>1. g = s
      BY <2>2 DEF unguarded
    <3>2. b \notin s.s2cCancelled
      BY <2>2 DEF Good, Guards
    <3> HIDE DEF g
    <3> QED BY <2>2, <3>1, <3>2
  <2> QED BY <2>1, <2>2
<1>3. fill_exit(s, b) =
        [f EXCEPT !.rejectedExits = 0, !.entryHalted = FALSE,
                  !.tradeCompleted = TRUE, !.s2cOrders = {}, !.cancelled = K,
                  !.unwinds = {}, !.dbRows = @ \ (c.cancelled \ K),
                  !.dbServer = @ \ (c.cancelled \ K)]
  BY DEF fill_exit, keep_at_flat, unguarded
<1> HIDE DEF g
<1>4. News(g) = {} /\ Works(g, L) = Works(s, L)
  BY <1>2, SameSent
<1>5. Tidy(g, L, U, Q)
  <2>1. Sent(g, L, Q)
    BY <1>2, <1>4 DEF Tidy, Sent
  <2>2. \A x \in g.cancelled : x \in Baskets /\ x # b /\ x \in s.cancelled
    BY <1>2 DEF Good, IsOMState
  <2>3. \A x \in g.cancelled : g.cancelTrade[x] = s.cancelTrade[x]
    BY <1>2, <2>2
  <2>4. Ids(g)
    BY <1>1, <1>2, <2>2, <2>3 DEF Tidy, Ids, SamePosition
  <2>5. Named(g, L, Q) /\ Reachable(g, L, U, Q) /\ Stopped(g, L, Q)
    BY <1>1, <1>2, <1>4 DEF Tidy, Named, Reachable, Stopped, SamePosition
  <2> QED BY <2>1, <2>4, <2>5 DEF Tidy
<1>6. /\ Good(c) /\ Tidy(c, L, U, Q) /\ News(c) = {} /\ Works(c, L) \subseteq Works(s, L)
      /\ c.state = s.state /\ c.entry = s.entry /\ c.exit = s.exit
      /\ c.stop \in {0, b} /\ c.processed = s.processed
  <2>1. CASE g.stop = b
    <3>1. c = cancel_remove(g, b)
      BY <2>1
    <3>2. Same(c, g) /\ c.out = g.out
      BY ZenonT(60), <1>1, <3>1, FieldNames DEF cancel_remove, Good, IsOMState, Fields, Same, Frame, SamePosition
    <3>3. Good(c)
      BY <1>0, <1>1, <3>1, CancelRemoveGood
    <3> HIDE DEF c
    <3>4. News(c) = News(g) /\ Works(c, L) = Works(g, L)
      BY <3>2, SameSent
    <3>5. Tidy(c, L, U, Q)
      BY <1>5, <3>2, <3>4, SameTidy
    <3> QED BY <1>1, <1>2, <1>4, <2>1, <3>2, <3>3, <3>4, <3>5 DEF Same, Frame, SamePosition
  <2>2. CASE g.stop # b
    <3>1. c = cancel_stop_locked(g)
      BY <2>2
    <3>2. g.state \in Trading /\ g.state \in {"LONG", "SHORT", "PENDING_EXIT"}
      BY <1>1 DEF SamePosition, Trading
    <3>3. Good(c) /\ c.stop = 0
      BY <1>1, <3>1, <3>2, CancelStopGood
    <3>4. Tidy(c, L, U, Q) /\ News(c) = {} /\ Frame(c, g)
      BY <1>1, <1>4, <1>5, <3>1, <3>2, CancelStopTidy
    <3>5. Works(c, L) \subseteq Works(g, L)
      <4>1. CASE g.stop = 0
        BY <3>1, <4>1 DEF cancel_stop_locked
      <4>2. CASE g.stop # 0
        <5>1. \E p : c.out = g.out \cup {p} /\ p.op = "cancel"
                     /\ p.by = IF g.stopServer # 0 THEN "server" ELSE "client"
          <6> DEFINE p == [op |-> "cancel", id |-> g.stop,
                           by |-> IF g.stopServer # 0 THEN "server" ELSE "client"]
          <6>1. c.out = g.out \cup {p}
            BY <1>1, <3>1, <3>2, <4>2, CancelStopFields
          <6>2. p.op = "cancel" /\ p.by = IF g.stopServer # 0 THEN "server" ELSE "client"
            OBVIOUS
          <6> HIDE DEF p, c
          <6> QED BY <6>1, <6>2
        <5> HIDE DEF c
        <5>2. PICK p : c.out = g.out \cup {p} /\ p.op = "cancel"
                       /\ p.by = IF g.stopServer # 0 THEN "server" ELSE "client"
          BY <5>1
        <5>3. Cancels(g, "server") \subseteq Cancels(c, "server") /\ News(c) = News(g)
          BY <5>2 DEF Cancels, News
        <5> QED BY <5>3 DEF Works
      <4> QED BY <4>1, <4>2
    <3> HIDE DEF c
    <3> QED BY <1>1, <1>2, <1>4, <3>3, <3>4, <3>5 DEF Frame, SamePosition
  <2> QED BY <2>1, <2>2
<1> HIDE DEF c, t
<1>7. /\ t.state = "FLAT" /\ t.entry = 0 /\ t.exit = 0 /\ t.stop = 0 /\ t.out = c.out
      /\ t.unmapped = c.unmapped /\ t.pendingCancel = c.pendingCancel
      /\ t.processed = c.processed /\ t.seq = c.seq /\ t.stops = c.stops
      /\ t.seeded = c.seeded /\ t.cancelled = K /\ t.s2cCancelled = c.s2cCancelled
  <2>1. t = [f EXCEPT !.rejectedExits = 0, !.entryHalted = FALSE,
                      !.tradeCompleted = TRUE, !.s2cOrders = {}, !.cancelled = K,
                      !.unwinds = {}, !.dbRows = @ \ (c.cancelled \ K),
                      !.dbServer = @ \ (c.cancelled \ K)]
    BY <1>3 DEF t
  <2>2. /\ DOMAIN f = Fields /\ f.state = "FLAT" /\ f.entry = 0 /\ f.exit = 0 /\ f.stop = 0
        /\ f.out = c.out /\ f.unmapped = c.unmapped /\ f.pendingCancel = c.pendingCancel
        /\ f.processed = c.processed /\ f.seq = c.seq /\ f.stops = c.stops
        /\ f.seeded = c.seeded /\ f.s2cCancelled = c.s2cCancelled
    BY <1>6, FieldNames DEF Good, IsOMState, Fields, reset_position
  <2> HIDE DEF f, K
  <2> QED BY <2>1, <2>2 DEF Fields
<1>8. News(t) = {} /\ Works(t, L) = Works(c, L)
  BY <1>6, <1>7, SameSent
<1>9. \A x \in c.cancelled : x \notin c.seeded => x \in K
  BY <1>6 DEF Good, Guards
<1>10. \A x \in Works(c, L) : x # 0 /\ x # b /\ x # c.entry /\ x # c.exit /\ x # c.stop
  <2>1. \A x \in Works(c, L) : x # 0 /\ x # b /\ x # c.entry
    BY <1>6 DEF Tidy, Sent, Stopped
  <2>2. s.state \in InTrade => s.exit = 0
    BY DEF HasShape
  <2> QED BY <1>6, <2>1, <2>2 DEF Trading, InTrade
<1>11. Sent(t, L, Q)
  BY <1>6, <1>7, <1>8 DEF Tidy, Sent
<1>12. Ids(t)
  <2>1. c.seq \in Nat
    BY <1>6 DEF Good, IsOMState, BasketId
  <2> QED BY <1>6, <1>7, <2>1 DEF Tidy, Ids
<1>13. Named(t, L, Q)
  <2>1. \A x \in Works(c, L) : x \in c.seeded => Msg("snapshot", x) \in Q
    BY <1>6 DEF Tidy, Stopped
  <2> HIDE DEF K
  <2> QED BY <1>6, <1>7, <1>8, <1>9, <1>10, <2>1 DEF Tidy, Named
<1>14. Reachable(t, L, U, Q)
  BY <1>6, <1>7, <1>8, <1>10 DEF Tidy, Reachable
<1>15. Stopped(t, L, Q)
  BY <1>6, <1>7, <1>8 DEF Tidy, Stopped, Trading
<1>16. Believed(t) = 0
  BY <1>7 DEF Believed, Trading
<1> QED BY <1>6, <1>7, <1>11, <1>12, <1>13, <1>14, <1>15, <1>16 DEF Tidy, t

-----------------------------------------------------------------------------
(* The requests of a call reach the gateway. *)

LEMMA FewMessages ==
  ASSUME NEW B, B \subseteq Baskets, NEW kind \in Kinds
  PROVE  {Msg(kind, b) : b \in B} \subseteq Messages /\ IsFiniteSet({Msg(kind, b) : b \in B})
<1>1. IsFiniteSet(Baskets)
  BY BasketsAssumption, FS_Interval DEF Baskets
<1>2. IsFiniteSet(B)
  BY <1>1, FS_Subset
<1>3. IsFiniteSet({Msg(kind, b) : b \in B})
  BY <1>2, FiniteMail
<1>4. {Msg(kind, b) : b \in B} \subseteq Messages
  BY DEF Messages, Msg
<1> QED BY <1>3, <1>4

\* What is tidy in the middle of the call is tidy once its requests have arrived.
LEMMA DispatchTidy ==
  ASSUME NEW t, Good(t), HasShape(t), xc \in Exchange, xc.unacked \subseteq xc.live,
         NEW w \in Seq(Messages), Tidy(t, xc.live, xc.unacked, Mail(w)),
         \A m \in Mail(w) : m.kind \in {"fill351", "fill352"} => m.id \notin xc.live,
         Dispatch(t, w)
  PROVE  /\ Good(om') /\ HasShape(om') /\ om'.out = {}
         /\ xc' \in Exchange /\ xc'.unacked \subseteq xc'.live
         /\ wire' \in Seq(Messages)
         /\ \A m \in Mail(wire') : m \in Mail(w) \/ m.kind \in {"cancelled", "failed"}
         /\ Tidy(om', xc'.live, xc'.unacked, Mail(wire'))
         /\ Covered(t, xc.live, Mail(w)) => Covered(om', xc'.live, Mail(wire'))
         /\ Booked(t, xc.net, Mail(w)) => Booked(om', xc'.net, Mail(wire'))
<1> DEFINE L == xc.live
           U == xc.unacked
           Q == Mail(w)
           C == Cancels(t, "server")
           gone == C \cap L
           failed == (Cancels(t, "client") \cap L) \ gone
           G == {Msg("cancelled", b) : b \in gone}
           F == {Msg("failed", b) : b \in failed}
           Z == Mail(wire')
<1>1. /\ om' = Call(t)
      /\ xc' = [xc EXCEPT !.live = (@ \ gone) \cup News(t), !.unacked = (@ \ gone) \cup News(t)]
      /\ wire' = w \o SetToSeq(G \cup F)
  BY DEF Dispatch
<1>2. /\ xc = [live |-> L, unacked |-> U, net |-> xc.net] /\ L \subseteq Baskets
      /\ U \subseteq L /\ xc.net \in Int
  BY DEF Exchange
<1>3. /\ xc'.live = (L \ gone) \cup News(t) /\ xc'.unacked = (U \ gone) \cup News(t)
      /\ xc'.net = xc.net /\ xc' = [live |-> xc'.live, unacked |-> xc'.unacked, net |-> xc'.net]
  <2> DEFINE X == (L \ gone) \cup News(t)
             Y == (U \ gone) \cup News(t)
  <2>1. xc' = [xc EXCEPT !.live = X, !.unacked = Y]
    BY <1>1
  <2> HIDE DEF X, Y, L, U, C, gone
  <2>2. xc'.live = X /\ xc'.unacked = Y /\ xc'.net = xc.net
        /\ xc' = [live |-> xc'.live, unacked |-> xc'.unacked, net |-> xc'.net]
    BY <2>1, <1>2
  <2> QED BY <2>2 DEF X, Y
<1>4. xc'.live = Works(t, L)
  BY <1>3 DEF Works
<1>5. /\ L \subseteq 1 .. t.seq /\ Works(t, L) \subseteq 1 .. t.seq /\ L \cap News(t) = {}
      /\ t.seq \in BasketId
  BY DEF Tidy, Sent, Good, IsOMState
<1>6. Works(t, L) \subseteq Baskets
  BY <1>5, BasketsAssumption DEF BasketId, Baskets
<1>7. wire' \in Seq(Messages) /\ Z = Q \cup G \cup F
  <2>1. gone \subseteq Baskets /\ failed \subseteq Baskets
    BY <1>2
  <2>2. "cancelled" \in Kinds /\ "failed" \in Kinds
    BY DEF Kinds
  <2> HIDE DEF gone, failed
  <2>3. G \subseteq Messages /\ IsFiniteSet(G) /\ F \subseteq Messages /\ IsFiniteSet(F)
    BY <2>1, <2>2, FewMessages
  <2> DEFINE S == G \cup F
  <2>4. S \subseteq Messages /\ IsFiniteSet(S)
    BY <2>3, FS_Union
  <2>5. wire' = w \o SetToSeq(S)
    BY <1>1
  <2> HIDE DEF G, F, S
  <2>6. SetToSeq(S) \in Seq(Messages) /\ Mail(SetToSeq(S)) = S
    BY <2>4, MailSet
  <2> DEFINE v == SetToSeq(S)
  <2> HIDE DEF v
  <2>7. w \o v \in Seq(Messages) /\ Mail(w \o v) = Mail(w) \cup Mail(v)
    BY <2>6, MailConcat DEF v
  <2> QED BY <2>5, <2>6, <2>7 DEF v, S
<1>8. \A m \in Z : m \in Q \/ m \in G \/ m \in F
  BY <1>7
<1>9. \A m \in G : m.kind = "cancelled" /\ m.id \in gone
  BY DEF Msg
<1>10. \A m \in F : m.kind = "failed" /\ m.id \in L
  BY DEF Msg
<1>11. \A b \in gone : b \in L /\ b \notin Works(t, L)
  BY <1>5 DEF Works
<1> HIDE DEF G, F, Z, gone, failed
<1>12. Tidy(t, L, U, Z) /\ (Covered(t, L, Q) => Covered(t, L, Z))
  <2>1. Q \subseteq Z
    BY <1>7
  <2>2. \A m \in Z : m \in Q
           \/ /\ m.id \in 1 .. t.seq
              /\ m.kind \in {"cancelled", "fill351", "fill352", "rejected"}
                   => m.id \notin Works(t, L)
    BY <1>5, <1>8, <1>9, <1>10, <1>11
  <2>3. \A m \in Z : m \in Q \/ m.kind # "snapshot"
    BY <1>8, <1>9, <1>10
  <2>4. Tidy(t, L, U, Q)
    OBVIOUS
  <2> HIDE DEF Q, L, U
  <2>5. Tidy(t, L, U, Z)
    BY <2>1, <2>2, <2>4, MoreTidy
  <2>6. ASSUME Covered(t, L, Q) PROVE Covered(t, L, Z)
    BY <2>1, <2>3, <2>6, MoreCovered
  <2> QED BY <2>5, <2>6
<1>13. Good(om') /\ HasShape(om') /\ SamePosition(om', t) /\ om'.stop = t.stop /\ om'.out = {}
  <2>1. Good(Call(t)) /\ SamePosition(Call(t), t) /\ Call(t).stop = t.stop
    BY CallGood
  <2>2. HasShape(Call(t))
    BY <2>1, SameShape
  <2>3. Call(t).out = {}
    BY FieldNames DEF Call, Good, IsOMState, Fields
  <2> QED BY <1>1, <2>1, <2>2, <2>3
<1>14. /\ om'.stopServer = t.stopServer /\ om'.tradeSeq = t.tradeSeq /\ om'.seq = t.seq
       /\ om'.s2cOrders = t.s2cOrders /\ om'.processed = t.processed
       /\ om'.seeded = t.seeded /\ om'.buys = t.buys /\ om'.stops = t.stops
       /\ om'.unmapped = t.unmapped /\ om'.cancelled = t.cancelled
       /\ om'.pendingCancel = t.pendingCancel
       /\ om'.cancelTrade = t.cancelTrade /\ om'.s2cCancelled = t.s2cCancelled
  BY <1>1, FieldNames DEF Call, Good, IsOMState, Fields
<1>15. News(om') = {} /\ Works(om', xc'.live) = Works(t, L)
  BY <1>4, <1>13, NothingSent
<1>16. \A b \in Works(t, L) : b \in U \cup News(t) => b \in xc'.unacked
  BY <1>3, <1>11
<1> HIDE DEF L, U, Q, C
<1>17. Tidy(om', xc'.live, xc'.unacked, Z)
  <2>1. Sent(om', xc'.live, Z)
    BY <1>4, <1>5, <1>12, <1>14, <1>15 DEF Tidy, Sent
  <2>2. Ids(om')
    BY <1>12, <1>13, <1>14 DEF Tidy, Ids, SamePosition
  <2>3. Named(om', xc'.live, Z)
    BY <1>12, <1>13, <1>14, <1>15 DEF Tidy, Named, SamePosition
  <2>4. Reachable(om', xc'.live, xc'.unacked, Z)
    BY <1>12, <1>13, <1>14, <1>15, <1>16 DEF Tidy, Reachable, SamePosition
  <2>5. Stopped(om', xc'.live, Z)
    BY <1>12, <1>13, <1>14, <1>15 DEF Tidy, Stopped, SamePosition
  <2> QED BY <2>1, <2>2, <2>3, <2>4, <2>5 DEF Tidy
<1>18. Covered(t, L, Q) => Covered(om', xc'.live, Z)
  BY <1>12, <1>13, <1>14, <1>15 DEF Covered, HasStop, Spare, Alive, SamePosition
<1>19. Booked(t, xc.net, Q) => Booked(om', xc'.net, Z)
  <2>1. Filled(Z) = Filled(Q)
    <3>1. \A m \in Z : m.kind \in {"fill351", "fill352"} <=> m \in Q /\ m.kind \in {"fill351", "fill352"}
      BY <1>8, <1>9, <1>10
    <3>2. Q \subseteq Z
      BY <1>7
    <3> QED BY <3>1, <3>2 DEF Filled
  <2>2. \A b \in Filled(Q) : b \notin gone
    BY <1>11 DEF Filled, Q, L
  <2>3. \A b \in Filled(Q) : /\ Msg("cancelled", b) \in Z => Msg("cancelled", b) \in Q
                             /\ Msg("rejected", b) \in Z => Msg("rejected", b) \in Q
    <3>1. \A b : Msg("cancelled", b).kind = "cancelled" /\ Msg("cancelled", b).id = b
                 /\ Msg("rejected", b).kind = "rejected"
      BY DEF Msg
    <3> QED BY <2>2, <3>1, <1>8, <1>9, <1>10
  <2>4. Believed(om') = Believed(t) /\ \A b : Books(om', b) <=> Books(t, b)
    BY <1>13, <1>14 DEF Believed, Books, SamePosition
  <2> QED BY <1>3, <1>14, <2>1, <2>3, <2>4 DEF Booked
<1>20. xc' \in Exchange /\ xc'.unacked \subseteq xc'.live
  <2>1. xc'.unacked \subseteq xc'.live /\ xc'.live \subseteq Baskets
    BY <1>2, <1>3, <1>4, <1>6
  <2> QED BY <1>2, <1>3, <2>1 DEF Exchange
<1>21. \A m \in Z : m \in Q \/ m.kind \in {"cancelled", "failed"}
  BY <1>8, <1>9, <1>10
<1> QED BY <1>7, <1>13, <1>17, <1>18, <1>19, <1>20, <1>21 DEF L, Q, Z

-----------------------------------------------------------------------------
(* Routing a fill. *)

\* Which order a fill that the order manager owns is of.
LEMMA OwnsCases ==
  ASSUME NEW s, Good(s), HasShape(s), Ids(s), NEW b \in Baskets
  PROVE  /\ Books(s, b) => owns(s, b)
         /\ Books(s, b) /\ s.state = "PENDING_ENTRY" => b = s.entry /\ ~is_stop_basket(s, b)
         /\ Books(s, b) /\ s.state # "PENDING_ENTRY" =>
              /\ s.state \in Trading /\ b # s.entry
              /\ s.state = "PENDING_EXIT" => b = s.exit
              /\ b \in s.buys <=> s.dir = "SELL"
         /\ owns(s, b) /\ ~Books(s, b) =>
              b = s.entry /\ ~is_stop_basket(s, b) /\ s.state \in Trading
<1>1. b # 0 /\ s.state \in {"FLAT", "PENDING_ENTRY", "LONG", "SHORT", "PENDING_EXIT"}
      /\ s.dir \in {"BUY", "SELL", "NONE"}
  BY DEF Baskets, Good, IsOMState, PosState, OrbSignal
<1>2. s.state = "FLAT" => ~owns(s, b) /\ ~Books(s, b)
  BY <1>1 DEF HasShape, owns, Books, is_entry_basket, is_stop_basket, is_exit_basket, InTrade
<1>3. s.state = "PENDING_ENTRY" =>
        /\ Books(s, b) <=> b = s.entry
        /\ owns(s, b) <=> b = s.entry
        /\ ~is_stop_basket(s, b)
  BY <1>1 DEF HasShape, owns, Books, is_entry_basket, is_stop_basket, is_exit_basket, InTrade
<1>4. ASSUME s.state = "PENDING_EXIT"
      PROVE  /\ Books(s, b) <=> b = s.exit
             /\ owns(s, b) <=> b = s.exit \/ b = s.entry
             /\ ~is_stop_basket(s, b) /\ s.exit # s.entry
             /\ b = s.exit => (b \in s.buys <=> s.dir = "SELL")
  BY <1>1, <1>4
  DEF HasShape, owns, Books, is_entry_basket, is_stop_basket, is_exit_basket, InTrade,
      Ids, Good, Sides
<1>5. ASSUME s.state \in InTrade
      PROVE  /\ Books(s, b) <=> is_stop_basket(s, b)
             /\ owns(s, b) <=> is_stop_basket(s, b) \/ b = s.entry
             /\ is_stop_basket(s, b) => (b \in s.buys <=> s.dir = "SELL") /\ b # s.entry
  <2>1. /\ Books(s, b) <=> is_stop_basket(s, b)
        /\ owns(s, b) <=> is_stop_basket(s, b) \/ b = s.entry
    BY <1>1, <1>5
    DEF HasShape, owns, Books, is_entry_basket, is_stop_basket, is_exit_basket, InTrade
  <2>2. is_stop_basket(s, b) => (b \in s.buys <=> s.dir = "SELL")
    BY <1>1, <1>5 DEF is_stop_basket, Good, Sides, InTrade
  <2>3. (s.entry \in s.buys <=> s.dir = "BUY") /\ s.dir # "NONE"
    BY <1>5 DEF HasShape, Ids
  <2> QED BY <1>1, <2>1, <2>2, <2>3
<1>6. s.state \in Trading <=> s.state = "PENDING_EXIT" \/ s.state \in InTrade
  BY DEF Trading, InTrade
<1>7. s.state \in InTrade => s.state # "PENDING_EXIT" /\ s.state # "PENDING_ENTRY"
  BY DEF InTrade
<1> QED BY <1>1, <1>2, <1>3, <1>4, <1>5, <1>6, <1>7 DEF InTrade

\* What reading a fill does: nothing the second time, no more than a note of it
\* when it belongs to no step of the trade.
LEMMA RouteCases ==
  ASSUME NEW s, Good(s), HasShape(s), Ids(s), NEW b \in Baskets, NEW ok \in BOOLEAN
  PROVE  LET t == route_fill(s, b, ok).s
             r == record_fill(s, b, Qty) IN
         /\ s.processed[b] >= Qty => t = s
         /\ ~(s.processed[b] >= Qty) =>
              /\ ~Books(s, b) => t = r
              /\ Books(s, b) /\ s.state = "PENDING_ENTRY" =>
                   t = submit_stop_order_locked(taken(r), ok)
              /\ Books(s, b) /\ s.state # "PENDING_ENTRY" => t = fill_exit(r, b)
<1> DEFINE t == route_fill(s, b, ok).s
           r == record_fill(s, b, Qty)
<1>1. ASSUME s.processed[b] >= Qty PROVE t = s
  BY <1>1 DEF route_fill, fill_already_processed, unowned_fill_is_duplicate
<1>2. ASSUME ~(s.processed[b] >= Qty)
      PROVE /\ ~Books(s, b) => t = r
            /\ Books(s, b) /\ s.state = "PENDING_ENTRY" =>
                 t = submit_stop_order_locked(taken(r), ok)
            /\ Books(s, b) /\ s.state # "PENDING_ENTRY" => t = fill_exit(r, b)
  <2>1. /\ SamePosition(r, s) /\ r.pendingCancel = s.pendingCancel /\ r.processed[b] >= Qty
        /\ r.processed[b] >= Qty
    <3>1. r = [s EXCEPT !.processed = [s.processed EXCEPT ![b] = Qty]]
      BY <1>2 DEF record_fill
    <3>2. [s.processed EXCEPT ![b] = Qty][b] = Qty /\ Qty >= Qty
      BY QtyAssumption DEF Good, IsOMState
    <3> DEFINE P == [s.processed EXCEPT ![b] = Qty]
    <3> HIDE DEF P, r
    <3>3. r = [s EXCEPT !.processed = P] /\ P[b] >= Qty
      BY <3>1, <3>2 DEF P
    <3> QED BY <3>3, FieldNames DEF Fields, Good, IsOMState, SamePosition
  <2>2. ASSUME owns(s, b)
        PROVE t = on_fill_notification(r, b, Qty,
                    is_entry_basket(s, b) /\ ~is_stop_basket(s, b), ok)
    BY <1>2, <2>2 DEF route_fill, fill_already_processed
  <2>3. ASSUME ~owns(s, b) PROVE t = r
    <3>1. t = handle_unowned_fill(r, b, ok).s
      BY <1>2, <2>3 DEF route_fill, unowned_fill_is_duplicate, fill_already_processed
    <3> HIDE DEF r
    <3> QED BY <2>1, <3>1
            DEF handle_unowned_fill, unowned_fill_is_duplicate, fill_already_processed
  <2>4. ASSUME is_entry_basket(s, b) /\ ~is_stop_basket(s, b), owns(s, b)
        PROVE t = fill_entry(r, b, Qty, ok)
    BY <2>2, <2>4 DEF on_fill_notification
  <2>5. ASSUME Books(s, b), s.state = "PENDING_ENTRY"
        PROVE t = submit_stop_order_locked(taken(r), ok)
    <3>1. b = s.entry /\ ~is_stop_basket(s, b) /\ owns(s, b)
      BY <2>5, OwnsCases
    <3>2. t = fill_entry(r, b, Qty, ok)
      BY <2>4, <3>1 DEF is_entry_basket
    <3>3. Qty >= Qty
      BY QtyAssumption
    <3> HIDE DEF r, t
    <3> QED BY <2>1, <2>5, <3>1, <3>2, <3>3 DEF fill_entry, taken, SamePosition
  <2>6. ASSUME Books(s, b), s.state # "PENDING_ENTRY" PROVE t = fill_exit(r, b)
    <3>1. owns(s, b) /\ s.state \in Trading /\ b # s.entry
      BY <2>6, OwnsCases
    <3>2. t = on_fill_notification(r, b, Qty, FALSE, ok)
      <4>1. ~is_entry_basket(s, b)
        BY <3>1 DEF is_entry_basket
      <4>2. (is_entry_basket(s, b) /\ ~is_stop_basket(s, b)) = FALSE
        BY <4>1
      <4> QED BY <2>2, <3>1, <4>2
    <3>3. r.state \in InTrade \cup {"PENDING_EXIT"} /\ r.state \notin {"FLAT", "PENDING_ENTRY"}
      BY <2>1, <3>1 DEF SamePosition, Trading, InTrade
    <3>4. Qty >= Qty
      BY QtyAssumption
    <3> HIDE DEF r, t
    <3> QED BY <3>2, <3>3, <3>4 DEF on_fill_notification
  <2>7. ASSUME owns(s, b), ~Books(s, b) PROVE t = r
    <3>1. b = s.entry /\ ~is_stop_basket(s, b) /\ s.state \in Trading
      BY <2>7, OwnsCases
    <3>2. t = fill_entry(r, b, Qty, ok)
      BY <2>4, <2>7, <3>1 DEF is_entry_basket
    <3>3. s.pendingCancel # 0 => s.pendingCancel # b
      BY <3>1 DEF Ids
    <3>4. s.state # "PENDING_ENTRY"
      BY <3>1 DEF Trading
    <3> HIDE DEF r, t
    <3> QED BY <2>1, <3>2, <3>3, <3>4 DEF fill_entry, SamePosition
  <2> QED BY <2>3, <2>5, <2>6, <2>7
<1> QED BY <1>1, <1>2

LEMMA RouteTidy ==
  ASSUME NEW s, Good(s), HasShape(s), NEW b \in Baskets, b <= s.seq, NEW ok \in BOOLEAN,
         NEW L, b \notin Works(s, L), NEW U, NEW Q, Tidy(s, L, U, Q), News(s) = {},
         route_fill(s, b, ok).s.seq <= MaxBaskets
  PROVE  LET t == route_fill(s, b, ok).s IN
         /\ Good(t) /\ HasShape(t) /\ Tidy(t, L, U, Q)
         /\ t.processed[b] >= Qty
         /\ \A x \in Baskets : x # b => t.processed[x] = s.processed[x]
         /\ s.processed[b] >= Qty => t = s
         /\ ~(s.processed[b] >= Qty) /\ Books(s, b) =>
              /\ Believed(t) = Believed(s) + (IF b \in s.buys THEN 1 ELSE -1)
              /\ ok => Covered(t, L, Q)
         /\ ~Books(s, b) =>
              /\ Believed(t) = Believed(s)
              /\ Covered(s, L, Q) => Covered(t, L, Q)
<1> DEFINE t == route_fill(s, b, ok).s
           r == record_fill(s, b, Qty)
<1>0. Ids(s)
  BY DEF Tidy
<1>1. CASE s.processed[b] >= Qty
  <2>1. t = s
    BY <1>0, <1>1, RouteCases
  <2> HIDE DEF t
  <2> QED BY <1>1, <2>1 DEF t
<1>2. CASE ~(s.processed[b] >= Qty)
  <2>1. /\ ~Books(s, b) => t = r
        /\ Books(s, b) /\ s.state = "PENDING_ENTRY" =>
             t = submit_stop_order_locked(taken(r), ok)
        /\ Books(s, b) /\ s.state # "PENDING_ENTRY" => t = fill_exit(r, b)
    BY <1>0, <1>2, RouteCases
  <2>2. /\ Good(r) /\ HasShape(r)
        /\ r.processed[b] >= Qty
        /\ Tidy(r, L, U, Q) /\ News(r) = {} /\ Works(r, L) = Works(s, L)
        /\ SamePosition(r, s) /\ r.stop = s.stop /\ r.cancelled = s.cancelled
        /\ r.cancelTrade = s.cancelTrade /\ r.tradeSeq = s.tradeSeq /\ r.seq = s.seq
        /\ r.buys = s.buys /\ r.unmapped = s.unmapped /\ r.s2cCancelled = s.s2cCancelled
        /\ \A x \in Baskets : x # b => r.processed[x] = s.processed[x]
    BY RecordTidy
  <2>3. t.seq <= MaxBaskets
    BY DEF t
  <2> HIDE DEF r, t
  <2>4. CASE ~Books(s, b)
    <3>1. t = r
      BY <2>1, <2>4
    <3>2. Believed(t) = Believed(s)
      BY <2>2, <3>1 DEF Believed, SamePosition
    <3>3. ASSUME Covered(s, L, Q) PROVE Covered(t, L, Q)
      <4>1. CASE s.state \notin InTrade
        BY <2>2, <3>1, <4>1 DEF Covered, SamePosition
      <4>2. CASE s.state \in InTrade
        <5>1. b # s.stop /\ (b \in s.cancelled => s.cancelTrade[b] # s.tradeSeq)
          BY <2>4, <4>2 DEF Books
        <5>2. \A x \in Baskets : x # b /\ Alive(s, L, Q, x) => Alive(r, L, Q, x)
          BY <2>2 DEF Alive
        <5>3. HasStop(s, L, Q) /\ Spare(s, L, Q)
          BY <3>3, <4>2 DEF Covered
        <5>4. s.stop # 0 /\ s.stop \in BasketId
          BY <5>3 DEF HasStop, Good, IsOMState
        <5>5. s.stop \in Baskets
          BY <5>4, BasketsAssumption DEF BasketId, Baskets
        <5>6. HasStop(r, L, Q)
          BY <2>2, <5>1, <5>2, <5>3, <5>5 DEF HasStop
        <5>7. Spare(r, L, Q)
          <6>1. s.cancelled \subseteq Baskets
            BY DEF Good, IsOMState
          <6> QED BY <2>2, <5>1, <5>2, <5>3, <6>1 DEF Spare
        <5> QED BY <3>1, <5>6, <5>7 DEF Covered
      <4> QED BY <4>1, <4>2
    <3> QED BY <1>2, <2>2, <2>4, <3>1, <3>2, <3>3 DEF t
  <2>5. CASE Books(s, b) /\ s.state = "PENDING_ENTRY"
    <3>1. t = submit_stop_order_locked(taken(r), ok) /\ b = s.entry
      BY <1>0, <2>1, <2>5, OwnsCases
    <3>2. r.state = "PENDING_ENTRY" /\ r.entry = b
      BY <2>2, <2>5, <3>1 DEF SamePosition
    <3>3. Good(taken(r)) /\ Holding(taken(r)) /\ taken(r).seq = r.seq
      BY <2>2, <3>2, TakenGood
    <3>4. r.seq + 1 <= MaxBaskets
      <4> DEFINE u == taken(r)
      <4>1. DOMAIN u = Fields /\ u.seq = r.seq
        BY <3>3, FieldNames DEF Good, IsOMState
      <4> HIDE DEF u
      <4>2. submit_stop_order_locked(u, ok).seq = r.seq + 1
        BY <4>1 DEF submit_stop_order_locked, send_order, cancel_persist, Fields
      <4> QED BY <2>3, <3>1, <4>2 DEF u
    <3>5. /\ Tidy(t, L, U, Q) /\ t.processed = r.processed
          /\ Believed(t) = IF r.entry \in r.buys THEN 1 ELSE -1
          /\ Believed(r) = 0
          /\ ok => Covered(t, L, Q)
      BY <2>2, <3>1, <3>2, <3>4, TakenTidy
    <3>6. Good(t) /\ HasShape(t)
      <4> DEFINE u == taken(r)
      <4>1. u.state \in InTrade /\ u.dir # "NONE" /\ u.state = Held(u.dir) /\ u.seq + 1 <= MaxBaskets
        BY <3>3, <3>4 DEF Holding
      <4>2. Good(u) /\ Holding(u)
        BY <3>3
      <4> HIDE DEF u
      <4>3. Good(submit_stop_order_locked(u, ok)) /\ SamePosition(submit_stop_order_locked(u, ok), u)
        BY <4>1, <4>2, SubmitStopGood
      <4>4. SamePosition(t, u) /\ Good(t)
        BY <3>1, <4>3 DEF u
      <4>5. HasShape(t)
        BY <4>2, <4>4 DEF HasShape, Holding, SamePosition, InTrade
      <4> QED BY <4>4, <4>5
    <3>7. Believed(s) = 0
      BY <2>5 DEF Believed, Trading
    <3>8. Believed(t) = Believed(s) + (IF b \in s.buys THEN 1 ELSE -1)
      BY <2>2, <3>2, <3>5, <3>7
    <3> QED BY <1>2, <2>2, <2>5, <3>5, <3>6, <3>8 DEF t
  <2>6. CASE Books(s, b) /\ s.state # "PENDING_ENTRY"
    <3>1. /\ t = fill_exit(r, b)
          /\ s.state \in Trading /\ b # s.entry
          /\ s.state = "PENDING_EXIT" => b = s.exit
          /\ b \in s.buys <=> s.dir = "SELL"
      BY <1>0, <2>1, <2>6, OwnsCases
    <3>2. r.state \in Trading /\ (r.state = "PENDING_EXIT" => b = r.exit)
      BY <2>2, <3>1 DEF SamePosition
    <3>3. /\ Tidy(t, L, U, Q) /\ t.processed = r.processed
          /\ t.state = "FLAT" /\ Believed(t) = 0
      BY <2>2, <3>1, <3>2, ClosedTidy
    <3>4. Good(t) /\ HasShape(t)
      <4>1. b \in BasketId
        BY DEF Baskets, BasketId
      <4> QED BY <2>2, <3>1, <3>2, <4>1, FillExitGood
    <3>5. Covered(t, L, Q)
      BY <3>3 DEF Covered, InTrade
    <3>6. s.dir \in {"BUY", "SELL"}
      BY <3>1 DEF HasShape, Trading, InTrade, Good, IsOMState, OrbSignal
    <3>7. Believed(t) = Believed(s) + (IF b \in s.buys THEN 1 ELSE -1)
      <4>1. CASE s.dir = "BUY"
        BY <3>1, <3>3, <4>1 DEF Believed
      <4>2. CASE s.dir = "SELL"
        BY <3>1, <3>3, <4>2 DEF Believed
      <4> QED BY <3>6, <4>1, <4>2
    <3> QED BY <1>2, <2>2, <2>6, <3>3, <3>4, <3>5, <3>7 DEF t
  <2> QED BY <2>4, <2>5, <2>6
<1> QED BY <1>1, <1>2

\* Reading a fill, from the outcome of routing it: the position stays covered, and
\* the books stay right.
LEMMA RouteCovered ==
  ASSUME NEW s, NEW t, NEW b \in Baskets, NEW L, b \notin Works(s, L),
         NEW R, NEW Q, NEW k \in {"fill351", "fill352"},
         \A m : m \in R <=> m = Msg(k, b) \/ m \in Q,
         s.processed[b] \in 0 .. Qty,
         s.processed[b] >= Qty => t = s,
         ~(s.processed[b] >= Qty) /\ Books(s, b) => Covered(t, L, Q),
         ~Books(s, b) /\ Covered(s, L, Q) => Covered(t, L, Q),
         Covered(s, L, R)
  PROVE  Covered(t, L, Q)
<1> DEFINE n == Msg(k, b)
<1>1. n.kind = k /\ n.id = b /\ \A m : m \in R <=> m = n \/ m \in Q
  BY DEF Msg
<1> HIDE DEF n
<1>2. CASE s.processed[b] >= Qty
  <2>1. s.processed[b] # 0
    BY <1>2, QtyAssumption
  <2>2. Covered(s, L, Q)
    BY <1>1, <2>1, ReadCovered
  <2> QED BY <1>2, <2>2
<1>3. CASE ~(s.processed[b] >= Qty) /\ Books(s, b)
  BY <1>3
<1>4. CASE ~Books(s, b)
  <2>1. CASE s.state \in InTrade
    <3>1. b # s.stop /\ (b \in s.cancelled => s.cancelTrade[b] # s.tradeSeq)
      BY <1>4, <2>1 DEF Books
    <3>2. Covered(s, L, Q)
      BY <1>1, <3>1, ReadCovered
    <3> QED BY <1>4, <3>2
  <2>2. CASE s.state \notin InTrade
    BY <1>4, <2>2 DEF Covered
  <2> QED BY <2>1, <2>2
<1> QED BY <1>2, <1>3, <1>4

LEMMA RouteBooked ==
  ASSUME NEW s, NEW t, NEW b \in Baskets, NEW net,
         NEW R, NEW Q, NEW k \in {"fill351", "fill352"},
         \A m : m \in R <=> m = Msg(k, b) \/ m \in Q,
         t.processed[b] >= Qty,
         s.processed[b] >= Qty => t = s,
         ~(s.processed[b] >= Qty) /\ Books(s, b) =>
           Believed(t) = Believed(s) + (IF b \in s.buys THEN 1 ELSE -1),
         Booked(s, net, R)
  PROVE  Booked(t, net, Q)
<1>1. b \in Filled(R) /\ Filled(Q) \subseteq Filled(R)
  <2> DEFINE n == Msg(k, b)
  <2>1. n.kind = k /\ n.id = b /\ n \in R
    BY DEF Msg
  <2> HIDE DEF n
  <2>2. b \in Filled(R)
    BY <2>1 DEF Filled
  <2>3. Q \subseteq R
    OBVIOUS
  <2> QED BY <2>2, <2>3 DEF Filled
<1>2. CASE (\A x \in Filled(R) : s.processed[x] >= Qty) /\ net = Believed(s)
  <2>1. s.processed[b] >= Qty /\ t = s
    BY <1>1, <1>2
  <2> QED BY <1>1, <1>2, <2>1 DEF Booked
<1>3. ASSUME NEW x \in Filled(R), Filled(R) = {x}, s.processed[x] = 0, Books(s, x),
             net = Believed(s) + (IF x \in s.buys THEN 1 ELSE -1)
      PROVE  Booked(t, net, Q)
  <2>1. x = b
    BY <1>1, <1>3
  <2>2. ~(s.processed[b] >= Qty)
    BY <1>3, <2>1, QtyAssumption
  <2>3. net = Believed(t)
    BY <1>3, <2>1, <2>2
  <2>4. \A y \in Filled(Q) : t.processed[y] >= Qty
    BY <1>1, <1>3, <2>1
  <2> QED BY <2>3, <2>4 DEF Booked
<1> QED BY <1>2, <1>3 DEF Booked

-----------------------------------------------------------------------------
(* Handling a message. *)

\* Reading a message keeps the position covered and the books right.
KeepsCover(s, t, L, R, Q) == Covered(s, L, R) => Covered(t, L, Q)
KeepsBooks(s, t, R, Q) == \A net \in Int : Booked(s, net, R) => Booked(t, net, Q)

\* Fills are of orders sent.
LEMMA FilledIds ==
  ASSUME NEW s, NEW L, NEW U, NEW Q, Tidy(s, L, U, Q)
  PROVE  \A x \in Filled(Q) : x \in 1 .. s.seq /\ x # 0
BY DEF Tidy, Sent, Filled

\* A message with both ids maps before it is handled.
LEMMA MappedFirst ==
  ASSUME NEW s, Good(s), HasShape(s), NEW b \in Baskets, b \in 1 .. s.seq,
         NEW L, NEW U, NEW R, Tidy(s, L, U, R), News(s) = {}
  PROVE  LET t == mapped(s, b) IN
         /\ Good(t) /\ HasShape(t)
         /\ Tidy(t, L, U, R) /\ News(t) = {} /\ Works(t, L) \subseteq Works(s, L)
         /\ Kept(t, s)
         /\ KeepsCover(s, t, L, R, R) /\ KeepsBooks(s, t, R, R)
<1> DEFINE t == mapped(s, b)
           n == Msg("mapped", b)
           Z == R \cup {n}
<1>1. n.kind = "mapped" /\ n.id = b
  BY DEF Msg
<1>2. R \subseteq Z /\ (\A m : m \in Z <=> m = Msg("mapped", b) \/ m \in R)
  OBVIOUS
<1>3. \A m \in Z : m \in R
         \/ /\ m.id \in 1 .. s.seq
            /\ m.kind \in {"cancelled", "fill351", "fill352", "rejected"}
                 => m.id \notin Works(s, L)
  BY <1>1
<1> HIDE DEF n, Z, t
<1>4. Tidy(s, L, U, Z)
  BY <1>2, <1>3, MoreTidy
<1>5. /\ Good(t) /\ HasShape(t)
      /\ Tidy(t, L, U, R) /\ News(t) = {} /\ Works(t, L) \subseteq Works(s, L)
      /\ Kept(t, s)
      /\ Covered(s, L, R) => Covered(t, L, R)
  BY <1>2, <1>4, MappedTidy DEF t
<1>6. Believed(t) = Believed(s) /\ \A x : Books(t, x) <=> Books(s, x)
  BY <1>5, KeptBooks
<1>7. ASSUME NEW net \in Int, Booked(s, net, R) PROVE Booked(t, net, R)
  <2>1. t.processed = s.processed /\ t.buys = s.buys
    BY <1>5 DEF Kept
  <2>2. \A x \in Filled(R) : Books(s, x) => Books(t, x) /\ (x \in t.buys <=> x \in s.buys)
    BY <1>6, <2>1
  <2> QED BY <1>6, <1>7, <2>1, <2>2, BookedSame
<1> QED BY <1>5, <1>7 DEF KeepsCover, KeepsBooks, t

LEMMA HandleMapped ==
  ASSUME NEW s, Good(s), HasShape(s), NEW b \in Baskets,
         NEW L, NEW U, NEW R, NEW Q, \A m : m \in R <=> m = Msg("mapped", b) \/ m \in Q,
         Tidy(s, L, U, R), News(s) = {}
  PROVE  LET t == mapped(s, b) IN
         /\ Good(t) /\ HasShape(t) /\ Tidy(t, L, U, Q)
         /\ KeepsCover(s, t, L, R, Q) /\ KeepsBooks(s, t, R, Q)
<1> DEFINE t == mapped(s, b)
           n == Msg("mapped", b)
<1>1. /\ Good(t) /\ HasShape(t)
      /\ Tidy(t, L, U, Q) /\ News(t) = {} /\ Works(t, L) \subseteq Works(s, L)
      /\ Kept(t, s)
      /\ Covered(s, L, Q) => Covered(t, L, Q)
  BY MappedTidy
<1>2. n.kind = "mapped" /\ n.id = b /\ \A m : m \in R <=> m = n \/ m \in Q
  BY DEF Msg
<1> HIDE DEF t, n
<1>3. ASSUME Covered(s, L, R) PROVE Covered(s, L, Q)
  <2>1. \A x : Msg("fill351", x) \in R => Msg("fill351", x) \in Q
    <3>1. \A x : Msg("fill351", x).kind = "fill351"
      BY DEF Msg
    <3> QED BY <1>2, <3>1
  <2>2. \A x : Alive(s, L, R, x) => Alive(s, L, Q, x)
    BY <1>2, <2>1 DEF Alive
  <2> QED BY <1>3, <2>2 DEF Covered, HasStop, Spare
<1>4. Believed(t) = Believed(s) /\ \A x : Books(t, x) <=> Books(s, x)
  BY <1>1, KeptBooks
<1>5. ASSUME NEW net \in Int, Booked(s, net, R) PROVE Booked(t, net, Q)
  <2>1. Booked(s, net, Q)
    BY <1>2, <1>5, ReadBooked
  <2>2. t.processed = s.processed /\ t.buys = s.buys
    BY <1>1 DEF Kept
  <2>3. \A x \in Filled(Q) : Books(s, x) => Books(t, x) /\ (x \in t.buys <=> x \in s.buys)
    BY <1>4, <2>2
  <2> QED BY <1>4, <2>1, <2>2, <2>3, BookedSame
<1> QED BY <1>1, <1>3, <1>5 DEF KeepsCover, KeepsBooks, t

\* A fill on tid=351 or tid=352, after its ids were mapped.
LEMMA HandleFill ==
  ASSUME NEW s, Good(s), HasShape(s), NEW b \in Baskets, NEW ok \in BOOLEAN,
         NEW k \in {"fill351", "fill352"},
         NEW L, NEW U, NEW R, NEW Q, \A m : m \in R <=> m = Msg(k, b) \/ m \in Q,
         Tidy(s, L, U, R), News(s) = {},
         NEW v, v = IF k = "fill351" THEN mapped(s, b) ELSE map_server_basket(s, b),
         route_fill(v, b, ok).s.seq <= MaxBaskets
  PROVE  LET t == route_fill(v, b, ok).s IN
         /\ Good(t) /\ HasShape(t) /\ Tidy(t, L, U, Q)
         /\ ok => KeepsCover(s, t, L, R, Q)
         /\ KeepsBooks(s, t, R, Q)
<1> DEFINE t == route_fill(v, b, ok).s
           n == Msg(k, b)
<1>1. n.kind = k /\ n.id = b /\ n \in R /\ \A m : m \in R <=> m = n \/ m \in Q
  BY DEF Msg
<1> HIDE DEF t, n
<1>2. b \in 1 .. s.seq /\ b \notin Works(s, L)
  BY <1>1 DEF Tidy, Sent
<1>3. /\ Good(v) /\ HasShape(v)
      /\ Tidy(v, L, U, R) /\ News(v) = {} /\ Works(v, L) \subseteq Works(s, L)
      /\ Kept(v, s)
      /\ KeepsCover(s, v, L, R, R) /\ KeepsBooks(s, v, R, R)
  <2>1. CASE k = "fill351"
    BY <1>2, <2>1, MappedFirst
  <2>2. CASE k = "fill352"
    <3> DEFINE u == map_server_basket(s, b)
    <3>1. v = u
      BY <2>2
    <3>2. /\ Tidy(u, L, U, R) /\ News(u) = {} /\ Works(u, L) \subseteq Works(s, L)
          /\ Kept(u, s) /\ b \in u.s2cOrders /\ b \notin u.unmapped
          /\ u.stopServer = s.stopServer
          /\ Covered(s, L, R) => Covered(u, L, R)
      BY MapTidy
    <3>3. Good(u) /\ HasShape(u)
      BY MapServerBasketGood
    <3> HIDE DEF u
    <3>4. Believed(u) = Believed(s) /\ \A x : Books(u, x) <=> Books(s, x)
      BY <3>2, KeptBooks
    <3>5. ASSUME NEW net \in Int, Booked(s, net, R) PROVE Booked(u, net, R)
      <4>1. u.processed = s.processed /\ u.buys = s.buys
        BY <3>2 DEF Kept
      <4>2. \A x \in Filled(R) : Books(s, x) => Books(u, x) /\ (x \in u.buys <=> x \in s.buys)
        BY <3>4, <4>1
      <4> QED BY <3>4, <3>5, <4>1, <4>2, BookedSame
    <3> QED BY <3>1, <3>2, <3>3, <3>5 DEF KeepsCover, KeepsBooks
  <2> QED BY <2>1, <2>2
<1>4. b <= v.seq /\ b \notin Works(v, L)
  BY <1>2, <1>3 DEF Kept, Good, IsOMState, BasketId
<1>5. Tidy(v, L, U, Q)
  <2>1. n.kind \notin {"mapped", "snapshot"}
    BY <1>1
  <2> QED BY <1>1, <1>3, <2>1, ReadTidy
<1>6. /\ Good(t) /\ HasShape(t) /\ Tidy(t, L, U, Q)
      /\ t.processed[b] >= Qty
      /\ \A x \in Baskets : x # b => t.processed[x] = v.processed[x]
      /\ v.processed[b] >= Qty => t = v
      /\ ~(v.processed[b] >= Qty) /\ Books(v, b) =>
           /\ Believed(t) = Believed(v) + (IF b \in v.buys THEN 1 ELSE -1)
           /\ ok => Covered(t, L, Q)
      /\ ~Books(v, b) =>
           /\ Believed(t) = Believed(v)
           /\ Covered(v, L, Q) => Covered(t, L, Q)
  BY <1>3, <1>4, <1>5, RouteTidy DEF t
<1>7. v.processed[b] \in 0 .. Qty
  BY <1>3 DEF Good, IsOMState
<1>8. ASSUME ok, Covered(s, L, R) PROVE Covered(t, L, Q)
  <2>1. Covered(v, L, R)
    BY <1>3, <1>8 DEF KeepsCover
  <2>2. ~(v.processed[b] >= Qty) /\ Books(v, b) => Covered(t, L, Q)
    BY <1>6, <1>8
  <2>3. ~Books(v, b) /\ Covered(v, L, Q) => Covered(t, L, Q)
    BY <1>6
  <2>4. v.processed[b] >= Qty => t = v
    BY <1>6
  <2> QED BY <1>4, <1>7, <2>1, <2>2, <2>3, <2>4, RouteCovered
<1>9. ASSUME NEW net \in Int, Booked(s, net, R) PROVE Booked(t, net, Q)
  <2>1. Booked(v, net, R)
    BY <1>3, <1>9 DEF KeepsBooks
  <2>2. /\ t.processed[b] >= Qty
        /\ v.processed[b] >= Qty => t = v
        /\ ~(v.processed[b] >= Qty) /\ Books(v, b) =>
             Believed(t) = Believed(v) + (IF b \in v.buys THEN 1 ELSE -1)
    BY <1>6
  <2> QED BY <2>1, <2>2, RouteBooked
<1> QED BY <1>6, <1>8, <1>9 DEF KeepsCover, KeepsBooks, t

LEMMA HandleCancelled ==
  ASSUME NEW s, Good(s), HasShape(s), NEW b \in Baskets,
         NEW L, NEW U, NEW R, NEW Q, \A m : m \in R <=> m = Msg("cancelled", b) \/ m \in Q,
         Tidy(s, L, U, R), News(s) = {}
  PROVE  LET t == on_cancel_confirmed(mapped(s, b), b) IN
         /\ Good(t) /\ HasShape(t) /\ Tidy(t, L, U, Q)
         /\ KeepsCover(s, t, L, R, Q) /\ KeepsBooks(s, t, R, Q)
<1> DEFINE v == mapped(s, b)
           t == on_cancel_confirmed(v, b)
           n == Msg("cancelled", b)
<1>1. n.kind = "cancelled" /\ n.id = b /\ n \in R /\ \A m : m \in R <=> m = n \/ m \in Q
  BY DEF Msg
<1> HIDE DEF n
<1>2. b \in 1 .. s.seq /\ b \notin Works(s, L)
  BY <1>1 DEF Tidy, Sent
<1>3. /\ Good(v) /\ HasShape(v)
      /\ Tidy(v, L, U, R) /\ News(v) = {} /\ Works(v, L) \subseteq Works(s, L)
      /\ Kept(v, s)
      /\ KeepsCover(s, v, L, R, R) /\ KeepsBooks(s, v, R, R)
  BY <1>2, MappedFirst
<1> HIDE DEF v
<1>4. b \notin Works(v, L) /\ b \in BasketId
  BY <1>2, <1>3 DEF Baskets, BasketId
<1>5. Tidy(v, L, U, Q)
  <2>1. n.kind \notin {"mapped", "snapshot"}
    BY <1>1
  <2> QED BY <1>1, <1>3, <2>1, ReadTidy
<1>6. /\ Tidy(t, L, U, Q) /\ News(t) = {}
      /\ t.processed = v.processed /\ t.buys = v.buys
      /\ Believed(t) = Believed(v)
      /\ \A x : x # b /\ Books(v, x) => Books(t, x)
      /\ Covered(v, L, Q) => Covered(t, L, Q)
  BY <1>3, <1>4, <1>5, ConfirmTidy
<1>7. Good(t) /\ HasShape(t)
  <2>1. Good(t) /\ SamePosition(t, v) /\ t.stop = v.stop
    BY <1>3, <1>4, ConfirmGood
  <2> QED BY <1>3, <2>1, SameShape
<1> HIDE DEF t
<1>8. ASSUME Covered(s, L, R) PROVE Covered(t, L, Q)
  <2>1. Covered(v, L, R)
    BY <1>3, <1>8 DEF KeepsCover
  <2>2. n.kind # "fill351"
    BY <1>1
  <2>3. Covered(v, L, Q)
    BY <1>1, <1>4, <2>1, <2>2, ReadCovered
  <2> QED BY <1>6, <2>3
<1>9. ASSUME NEW net \in Int, Booked(s, net, R) PROVE Booked(t, net, Q)
  <2>1. Booked(v, net, R)
    BY <1>3, <1>9 DEF KeepsBooks
  <2>2. \A x \in Filled(Q) :
           x # b /\ Books(v, x) => Books(t, x) /\ (x \in t.buys <=> x \in v.buys)
    BY <1>6
  <2> QED BY <1>6, <2>1, <2>2, GoneBooked
<1> QED BY <1>6, <1>7, <1>8, <1>9 DEF KeepsCover, KeepsBooks, t, v

LEMMA HandleFailed ==
  ASSUME NEW s, Good(s), HasShape(s), NEW b \in Baskets,
         NEW L, NEW U, NEW R, NEW Q, \A m : m \in R <=> m = Msg("failed", b) \/ m \in Q,
         Tidy(s, L, U, R), News(s) = {}
  PROVE  LET t == on_cancel_failed(s, b, "client") IN
         /\ Good(t) /\ HasShape(t) /\ Tidy(t, L, U, Q)
         /\ KeepsCover(s, t, L, R, Q) /\ KeepsBooks(s, t, R, Q)
<1> DEFINE t == on_cancel_failed(s, b, "client")
           n == Msg("failed", b)
<1>1. n.kind = "failed" /\ n.id = b /\ \A m : m \in R <=> m = n \/ m \in Q
  BY DEF Msg
<1> HIDE DEF n
<1>2. Tidy(s, L, U, Q)
  <2>1. n.kind \notin {"mapped", "snapshot"}
    BY <1>1
  <2> QED BY <1>1, <2>1, ReadTidy
<1>3. /\ Tidy(t, L, U, Q) /\ News(t) = {}
      /\ t.processed = s.processed /\ t.buys = s.buys
      /\ Believed(t) = Believed(s)
      /\ \A x : x # 0 /\ Books(s, x) => Books(t, x)
      /\ Covered(s, L, Q) => Covered(t, L, Q)
  BY <1>2, FailedTidy
<1>4. Good(t) /\ HasShape(t)
  BY CancelFailedGood
<1> HIDE DEF t
<1>5. ASSUME Covered(s, L, R) PROVE Covered(s, L, Q)
  <2>1. \A x : Msg("fill351", x) \in R => Msg("fill351", x) \in Q
    <3>1. \A x : Msg("fill351", x).kind = "fill351"
      BY DEF Msg
    <3> QED BY <1>1, <3>1
  <2>2. \A x : Alive(s, L, R, x) => Alive(s, L, Q, x)
    BY <1>1, <2>1 DEF Alive
  <2> QED BY <1>5, <2>2 DEF Covered, HasStop, Spare
<1>6. ASSUME NEW net \in Int, Booked(s, net, R) PROVE Booked(t, net, Q)
  <2>1. n.kind \notin {"fill351", "fill352"}
    BY <1>1
  <2>2. Booked(s, net, Q)
    BY <1>1, <1>6, <2>1, ReadBooked
  <2>3. \A x \in Filled(Q) : x # 0
    BY <1>2, FilledIds
  <2>4. \A x \in Filled(Q) : Books(s, x) => Books(t, x) /\ (x \in t.buys <=> x \in s.buys)
    BY <1>3, <2>3
  <2> QED BY <1>3, <2>2, <2>4, BookedSame
<1> QED BY <1>3, <1>4, <1>5, <1>6 DEF KeepsCover, KeepsBooks, t

\* Exiting draws an id for the exit and, when it could not be sent, one for the stop.
LEMMA InitiateExitSeq ==
  ASSUME NEW s, Good(s), Holding(s), NEW ok \in BOOLEAN, NEW okStop \in BOOLEAN
  PROVE  initiate_exit_locked(s, ok, okStop).seq = s.seq + (IF ok THEN 1 ELSE 2)
<1> DEFINE c == cancel_stop_locked(s)
           y == exit_order(s, ok)
           x == exit_sent(s, ok)
           r == exit_failed(s, ok)
<1>1. Good(c) /\ c.seq = s.seq
  BY CancelStopGood DEF Holding, InTrade
<1>2. DOMAIN c = Fields /\ c.seq \in Nat
  BY <1>1, FieldNames DEF Good, IsOMState, BasketId
<1>3. y.seq = c.seq + 1 /\ DOMAIN y = Fields
  <2>1. y = send_order(c, "exit", s.dir = "SELL", ok)
    BY DEF exit_order
  <2> HIDE DEF c, y
  <2> QED BY <1>2, <2>1 DEF send_order, Fields
<1>4. x.seq = c.seq + 1 /\ DOMAIN x = Fields
  <2>1. x = [y EXCEPT !.state = "PENDING_EXIT", !.exit = c.seq + 1]
    BY DEF exit_sent
  <2> HIDE DEF c, y, x
  <2> QED BY <1>3, <2>1 DEF Fields
<1>5. r.seq = c.seq + 1 /\ DOMAIN r = Fields
  <2> DEFINE h == x.entryHalted \/ s.rejectedExits + 1 > 3
             d == x.rejectedExits + 1
  <2>1. r = [x EXCEPT !.exit = 0, !.state = Held(s.dir), !.rejectedExits = d, !.entryHalted = h]
    <3> HIDE DEF x
    <3> QED BY <1>4 DEF exit_failed, x, Fields
  <2> HIDE DEF c, x, r, h, d
  <2> QED BY <1>4, <2>1 DEF Fields
<1>6. CASE ok
  BY <1>1, <1>4, <1>6, InitiateExitCases
<1>7. CASE ~ok
  <2>1. initiate_exit_locked(s, ok, okStop) = submit_stop_order_locked(r, okStop)
    BY <1>7, InitiateExitCases
  <2> HIDE DEF r, c
  <2>2. submit_stop_order_locked(r, okStop).seq = r.seq + 1
    BY <1>5 DEF submit_stop_order_locked, send_order, cancel_persist, Fields
  <2> QED BY <1>1, <1>2, <1>5, <1>7, <2>1, <2>2
<1> QED BY <1>6, <1>7

LEMMA HandleRejected ==
  ASSUME NEW s, Good(s), HasShape(s), NEW b \in Baskets, NEW ok \in BOOLEAN,
         NEW okStop \in BOOLEAN, on_order_rejected(s, b, "client", ok, okStop).seq <= MaxBaskets,
         NEW L, NEW U, NEW R, NEW Q, \A m : m \in R <=> m = Msg("rejected", b) \/ m \in Q,
         Tidy(s, L, U, R), News(s) = {}
  PROVE  LET t == on_order_rejected(s, b, "client", ok, okStop) IN
         /\ Good(t) /\ HasShape(t) /\ Tidy(t, L, U, Q) /\ KeepsBooks(s, t, R, Q)
<1> DEFINE t == on_order_rejected(s, b, "client", ok, okStop)
           n == Msg("rejected", b)
<1>1. n.kind = "rejected" /\ n.id = b /\ n \in R /\ \A m : m \in R <=> m = n \/ m \in Q
  BY DEF Msg
<1> HIDE DEF n
<1>2. b \notin Works(s, L)
  BY <1>1 DEF Tidy, Sent
<1>3. Tidy(s, L, U, Q)
  <2>1. n.kind \notin {"mapped", "snapshot"}
    BY <1>1
  <2> QED BY <1>1, <2>1, ReadTidy
<1>4. ASSUME s.exit = b, s.state = "PENDING_EXIT", s.rejectedExits < 3
      PROVE  s.seq + 1 <= MaxBaskets /\ (ok \/ s.seq + 2 <= MaxBaskets)
  <2> DEFINE x == [s EXCEPT !.state = Held(s.dir), !.exit = 0, !.rejectedExits = @ + 1]
  <2>1. t = initiate_exit_locked(x, ok, okStop)
    <3>1. x.rejectedExits <= 3
      BY <1>4, FieldNames DEF Good, IsOMState, Fields
    <3>2. b # 0
      BY DEF Baskets
    <3> HIDE DEF x
    <3> QED BY <1>4, <3>1, <3>2 DEF on_order_rejected, x
  <2>2. Good(x) /\ Holding(x) /\ x.seq = s.seq
    <3>1. s.dir \in {"BUY", "SELL"}
      BY <1>4 DEF HasShape, Good, IsOMState, OrbSignal
    <3>2. x = [s EXCEPT !.state = Held(s.dir), !.exit = 0,
                        !.rejectedExits = s.rejectedExits + 1, !.entryHalted = s.entryHalted]
      BY FieldNames DEF Good, IsOMState, Fields
    <3>3. /\ s.state \in Trading /\ Held(s.dir) \in Trading /\ 0 \in BasketId /\ 0 <= s.seq
          /\ s.rejectedExits + 1 \in Nat /\ s.entryHalted \in BOOLEAN
      <4>1. s.seq \in BasketId /\ s.rejectedExits \in Nat /\ s.entryHalted \in BOOLEAN
        BY DEF Good, IsOMState
      <4>2. s.seq \in Nat /\ 0 \in BasketId
        BY <4>1, BasketsAssumption DEF BasketId
      <4>3. s.state \in Trading /\ Held(s.dir) \in Trading
        BY <1>4 DEF Trading, Held
      <4> QED BY <4>1, <4>2, <4>3
    <3>4. Good([s EXCEPT !.state = Held(s.dir), !.exit = 0,
                         !.rejectedExits = s.rejectedExits + 1, !.entryHalted = s.entryHalted])
      BY <3>3, TradeStateGood
    <3>5. x.state = Held(s.dir) /\ x.dir = s.dir /\ x.entry = s.entry /\ x.exit = 0 /\ x.seq = s.seq
      BY FieldNames DEF Good, IsOMState, Fields
    <3>6. Good(x)
      BY <3>2, <3>4
    <3> HIDE DEF x
    <3>7. Holding(x)
      BY <1>4, <3>1, <3>5 DEF Holding, Held, InTrade, HasShape
    <3> QED BY <3>5, <3>6, <3>7
  <2>3. t.seq <= MaxBaskets
    OBVIOUS
  <2> HIDE DEF x, t
  <2>4. t.seq = s.seq + (IF ok THEN 1 ELSE 2)
    BY <2>1, <2>2, InitiateExitSeq
  <2>5. s.seq \in Nat /\ MaxBaskets \in Nat
    BY BasketsAssumption DEF Good, IsOMState, BasketId
  <2> QED BY <2>3, <2>4, <2>5
<1>5. /\ Tidy(t, L, U, Q) /\ t.processed = s.processed
      /\ Believed(t) = Believed(s)
      /\ \A x : x # b /\ x # 0 /\ Books(s, x) => Books(t, x) /\ t.buys = s.buys
  BY <1>2, <1>3, <1>4, RejectedTidy
<1>6. Good(t) /\ HasShape(t)
  BY <1>4, RejectRoom
<1> HIDE DEF t
<1>7. ASSUME NEW net \in Int, Booked(s, net, R) PROVE Booked(t, net, Q)
  <2>1. \A x \in Filled(Q) : x # 0
    BY <1>3, FilledIds
  <2>2. \A x \in Filled(Q) :
           x # b /\ Books(s, x) => Books(t, x) /\ (x \in t.buys <=> x \in s.buys)
    BY <1>5, <2>1
  <2> QED BY <1>5, <1>7, <2>2, GoneBooked
<1> QED BY <1>5, <1>6, <1>7 DEF KeepsBooks, t

LEMMA HandleSnapshot ==
  ASSUME NEW s, Good(s), HasShape(s), NEW b \in Baskets,
         NEW L, NEW U, NEW R, NEW Q, \A m : m \in R <=> m = Msg("snapshot", b) \/ m \in Q,
         Tidy(s, L, U, R), News(s) = {}
  PROVE  LET t == send_cancel(s, b, "server") IN
         /\ Good(t) /\ HasShape(t) /\ Tidy(t, L, U, Q)
         /\ KeepsCover(s, t, L, R, Q)
<1> DEFINE t == send_cancel(s, b, "server")
<1>1. Good(t) /\ SamePosition(t, s) /\ t.stop = s.stop
  BY SendCancelGood
<1>2. /\ Tidy(t, L, U, Q) /\ News(t) = {}
      /\ Covered(s, L, R) => Covered(t, L, Q)
  BY SnapshotTidy
<1> HIDE DEF t
<1>3. HasShape(t)
  BY <1>1, SameShape
<1> QED BY <1>1, <1>2, <1>3 DEF KeepsCover, t

-----------------------------------------------------------------------------
(* The steps. *)

\* What RInv says of the order manager at the start of a call.
LEMMA CallStart ==
  ASSUME RInv
  PROVE  /\ Good(om) /\ HasShape(om) /\ News(om) = {} /\ Works(om, xc.live) = xc.live
         /\ xc \in Exchange /\ xc.unacked \subseteq xc.live /\ wire \in Seq(Messages)
         /\ hist \in History
         /\ Tidy(om, xc.live, xc.unacked, Mail(wire))
         /\ xc.live \subseteq 1 .. om.seq
         /\ \A m \in Mail(wire) :
              /\ m.id \in 1 .. om.seq
              /\ m.kind \in {"cancelled", "fill351", "fill352", "rejected"} => m.id \notin xc.live
         /\ om.seq \in Nat
<1>1. /\ Good(om) /\ HasShape(om) /\ om.out = {}
      /\ xc \in Exchange /\ xc.unacked \subseteq xc.live /\ wire \in Seq(Messages)
      /\ hist \in History
      /\ Tidy(om, xc.live, xc.unacked, Mail(wire))
  BY DEF RInv, IInv, RShape
<1>2. News(om) = {} /\ Works(om, xc.live) = xc.live
  BY <1>1, NothingSent
<1>3. om.seq \in Nat
  BY <1>1 DEF Good, IsOMState, BasketId
<1> QED BY <1>1, <1>2, <1>3 DEF Tidy, Sent

\* A call that keeps its part of the invariant keeps all of it.
LEMMA CallInv ==
  ASSUME RInv, NEW t, Good(t), HasShape(t),
         NEW w \in Seq(Messages), Mail(w) \subseteq Mail(wire),
         Tidy(t, xc.live, xc.unacked, Mail(w)), Dispatch(t, w),
         hist' \in History,
         hist.exposed => hist'.exposed, hist.crossed => hist'.crossed,
         hist.redriven => hist'.redriven,
         ~hist'.exposed /\ ~hist'.redriven =>
           KeepsCover(om, t, xc.live, Mail(wire), Mail(w)),
         ~hist'.crossed => KeepsBooks(om, t, Mail(wire), Mail(w))
  PROVE  RInv'
<1>1. \A m \in Mail(w) : m.kind \in {"fill351", "fill352"} => m.id \notin xc.live
  BY CallStart
<1>2. /\ Good(om') /\ HasShape(om') /\ om'.out = {}
      /\ xc' \in Exchange /\ xc'.unacked \subseteq xc'.live
      /\ wire' \in Seq(Messages)
      /\ \A m \in Mail(wire') : m \in Mail(w) \/ m.kind \in {"cancelled", "failed"}
      /\ Tidy(om', xc'.live, xc'.unacked, Mail(wire'))
      /\ Covered(t, xc.live, Mail(w)) => Covered(om', xc'.live, Mail(wire'))
      /\ Booked(t, xc.net, Mail(w)) => Booked(om', xc'.net, Mail(wire'))
  BY <1>1, CallStart, DispatchTidy
<1>3. Posted(Mail(wire'), hist')
  <2>1. Posted(Mail(wire), hist)
    BY DEF RInv
  <2> QED BY <1>2, <2>1 DEF Posted
<1>4. ASSUME ~hist'.exposed, ~hist'.redriven PROVE Covered(om', xc'.live, Mail(wire'))
  <2>1. Covered(om, xc.live, Mail(wire))
    BY <1>4 DEF RInv
  <2> QED BY <1>2, <1>4, <2>1 DEF KeepsCover
<1>5. ASSUME ~hist'.crossed PROVE Booked(om', xc'.net, Mail(wire'))
  <2>1. Booked(om, xc.net, Mail(wire)) /\ xc.net \in Int
    BY <1>5, CallStart DEF RInv, Exchange
  <2> QED BY <1>2, <1>5, <2>1 DEF KeepsBooks
<1>6. IInv' /\ om'.out = {}
  BY <1>2 DEF IInv
<1>7. RShape'
  BY <1>2 DEF RShape
<1> QED BY <1>2, <1>3, <1>4, <1>5, <1>6, <1>7 DEF RInv

LEMMA Spending ==
  ASSUME hist \in History, NEW ok \in BOOLEAN, NEW okStop \in BOOLEAN, Sends(ok, okStop)
  PROVE  hist.left - Spent(ok, okStop) \in 0 .. MaxMishaps
<1>1. hist.left \in 0 .. MaxMishaps /\ MaxMishaps \in Nat
  BY MishapsAssumption DEF History
<1>2. CASE ok /\ okStop
  BY <1>1, <1>2 DEF Spent
<1>3. CASE ~(ok /\ okStop)
  BY <1>1, <1>3 DEF Spent, Sends
<1> QED BY <1>2, <1>3

\* Without a fill on the wire the books are the position.
LEMMA QuietBooks ==
  ASSUME NEW s, NEW t, wire \in Seq(Messages), ~FillsOnWire, Believed(t) = Believed(s)
  PROVE  KeepsBooks(s, t, Mail(wire), Mail(wire))
<1>1. Filled(Mail(wire)) = {}
  BY DEF FillsOnWire, Filled, Mail
<1> QED BY <1>1, BookedQuiet DEF KeepsBooks

\* The calls of the executor's own loops.
LEMMA CallsInv ==
  ASSUME RInv, NEW t, NEW ok \in BOOLEAN, NEW okStop \in BOOLEAN, NEW acts \in BOOLEAN,
         Calls(t, ok, okStop, acts), Good(t), HasShape(t),
         Tidy(t, xc.live, xc.unacked, Mail(wire)),
         okStop => KeepsCover(om, t, xc.live, Mail(wire), Mail(wire)),
         ~acts \/ ~FillsOnWire => KeepsBooks(om, t, Mail(wire), Mail(wire))
  PROVE  RInv'
<1>1. /\ Sends(ok, okStop) /\ Dispatch(t, wire)
      /\ hist' = [hist EXCEPT !.left = @ - Spent(ok, okStop),
                              !.exposed = @ \/ ~okStop,
                              !.crossed = @ \/ (acts /\ FillsOnWire)]
  BY DEF Calls, Crosses
<1>2. wire \in Seq(Messages) /\ hist \in History
  BY CallStart
<1>3. hist.left - Spent(ok, okStop) \in 0 .. MaxMishaps
  BY <1>1, <1>2, Spending
<1>4. /\ hist' \in History
      /\ hist'.exposed <=> hist.exposed \/ ~okStop
      /\ hist'.crossed <=> hist.crossed \/ (acts /\ FillsOnWire)
      /\ hist'.redriven <=> hist.redriven
  BY <1>1, <1>2, <1>3 DEF History
<1> QED BY <1>1, <1>2, <1>4, CallInv

LEMMA SignalInv == RInv /\ ROnSignal => RInv'
<1> SUFFICES ASSUME RInv, ROnSignal PROVE RInv'
  OBVIOUS
<1>1. PICK sig \in Signals : \E ok \in BOOLEAN :
             Calls(on_signal(om, sig, TRUE, ok), ok, TRUE, TRUE)
  BY DEF ROnSignal
<1>2. PICK ok \in BOOLEAN : Calls(on_signal(om, sig, TRUE, ok), ok, TRUE, TRUE)
  BY <1>1
<1> DEFINE t == on_signal(om, sig, TRUE, ok)
<1>3. om.state = "FLAT" /\ om.seq + 1 <= MaxBaskets /\ sig \in {"BUY", "SELL"}
  <2>1. om.state = "FLAT" /\ om.seq + (1 + (1 + hist.left)) <= MaxBaskets
    BY DEF ROnSignal, Room, Reserve
  <2>2. hist.left \in Nat /\ om.seq \in Nat /\ MaxBaskets \in Nat
    BY CallStart, BasketsAssumption, MishapsAssumption DEF History
  <2> QED BY <2>1, <2>2, SignalsAssumption
<1>4. Good(t) /\ HasShape(t)
  BY <1>3, CallStart, OnSignalGood
<1>5. Tidy(t, xc.live, xc.unacked, Mail(wire)) /\ t.state \notin Trading
  BY <1>3, CallStart, SignalTidy
<1> HIDE DEF t
<1>6. KeepsCover(om, t, xc.live, Mail(wire), Mail(wire))
  BY <1>5 DEF KeepsCover, Covered, Trading, InTrade
<1>7. Believed(t) = Believed(om)
  BY <1>3, <1>5 DEF Believed, Trading
<1>8. ~FillsOnWire => KeepsBooks(om, t, Mail(wire), Mail(wire))
  BY <1>7, CallStart, QuietBooks
<1>9. Calls(t, ok, TRUE, TRUE)
  BY <1>2 DEF t
<1> QED BY <1>4, <1>5, <1>6, <1>8, <1>9, CallsInv

LEMMA TickInv == RInv /\ RTick => RInv'
<1> SUFFICES ASSUME RInv, RTick PROVE RInv'
  OBVIOUS
<1>1. om.state \in InTrade /\ om.seq + 1 <= MaxBaskets /\ om.seq + 2 <= MaxBaskets
  <2>1. om.state \in InTrade /\ om.seq + (1 + (1 + hist.left)) <= MaxBaskets
    BY DEF RTick, Room, Reserve
  <2>2. hist.left \in Nat /\ om.seq \in Nat /\ MaxBaskets \in Nat
    BY CallStart, BasketsAssumption, MishapsAssumption DEF History
  <2> QED BY <2>1, <2>2
<1>2. Holding(om)
  BY <1>1, CallStart, HoldingShape
<1>3. ASSUME NEW ok \in BOOLEAN, NEW okStop \in BOOLEAN,
             Calls(flatten_now(om, ok, okStop), ok, okStop, TRUE)
      PROVE  RInv'
  <2> DEFINE t == flatten_now(om, ok, okStop)
  <2>1. Good(t) /\ HasShape(t)
    BY <1>1, CallStart, FlattenGood
  <2>2. /\ Tidy(t, xc.live, xc.unacked, Mail(wire)) /\ t.processed = om.processed
        /\ Believed(t) = Believed(om)
        /\ okStop /\ Covered(om, xc.live, Mail(wire)) => Covered(t, xc.live, Mail(wire))
    BY <1>1, CallStart, FlattenTidy
  <2>3. Calls(t, ok, okStop, TRUE)
    BY <1>3
  <2> HIDE DEF t
  <2>4. okStop => KeepsCover(om, t, xc.live, Mail(wire), Mail(wire))
    BY <2>2 DEF KeepsCover
  <2>5. ~FillsOnWire => KeepsBooks(om, t, Mail(wire), Mail(wire))
    BY <2>2, CallStart, QuietBooks
  <2> QED BY <2>1, <2>2, <2>3, <2>4, <2>5, CallsInv
<1>4. ASSUME NEW okStop \in BOOLEAN,
             Calls(update_stop_order_locked(om, okStop), TRUE, okStop, FALSE)
      PROVE  RInv'
  <2> DEFINE t == update_stop_order_locked(om, okStop)
             Q == Mail(wire)
  <2>1. Good(t) /\ HasShape(t)
    BY <1>1, <1>2, CallStart, UpdateStopGood
  <2>2. /\ Tidy(t, xc.live, xc.unacked, Q) /\ t.processed = om.processed
        /\ Believed(t) = Believed(om)
        /\ \A b \in Filled(Q) : /\ Books(om, b) => Books(t, b)
                                /\ b \in t.buys <=> b \in om.buys
        /\ okStop /\ HasStop(om, xc.live, Q) /\ Spare(om, xc.live, Q)
             => Covered(t, xc.live, Q)
    BY <1>1, <1>2, CallStart, UpdateStopTidy
  <2>3. Calls(t, TRUE, okStop, FALSE)
    BY <1>4
  <2> HIDE DEF t, Q
  <2>4. okStop => KeepsCover(om, t, xc.live, Q, Q)
    BY <1>1, <2>2 DEF KeepsCover, Covered
  <2>5. KeepsBooks(om, t, Q, Q)
    <3>1. ASSUME NEW net \in Int, Booked(om, net, Q) PROVE Booked(t, net, Q)
      BY <2>2, <3>1, BookedSame
    <3> QED BY <3>1 DEF KeepsBooks
  <2> QED BY <2>1, <2>2, <2>3, <2>4, <2>5, CallsInv DEF Q
<1>5. PICK ok \in BOOLEAN : \E okStop \in BOOLEAN :
           \/ Calls(flatten_now(om, ok, okStop), ok, okStop, TRUE)
           \/ ok /\ Calls(update_stop_order_locked(om, okStop), TRUE, okStop, FALSE)
  BY DEF RTick
<1>6. PICK okStop \in BOOLEAN :
           \/ Calls(flatten_now(om, ok, okStop), ok, okStop, TRUE)
           \/ ok /\ Calls(update_stop_order_locked(om, okStop), TRUE, okStop, FALSE)
  BY <1>5
<1> QED BY <1>3, <1>4, <1>6

\* Before its watchdogs eod_loop only sends cancels again.
LEMMA MaintenanceQuiet ==
  ASSUME NEW s, Good(s), HasShape(s), s.out = {},
         NEW expired \in BOOLEAN, NEW due \in BOOLEAN, NEW window \in BOOLEAN,
         NEW open \in BOOLEAN
  PROVE  LET p == popped(s)
             w == IF window THEN windowed(p, ~open) ELSE p
             r == IF ~open THEN retried(w, due) ELSE w IN
         Quiet(r, s) /\ Good(r) /\ HasShape(r)
<1> DEFINE p == popped(s)
           w == IF window THEN windowed(p, ~open) ELSE p
           r == IF ~open THEN retried(w, due) ELSE w
           Fine(x) == Quiet(x, s) /\ Good(x) /\ HasShape(x)
<1>1. Fine(s)
  BY NothingSent DEF Quiet, Same, Frame, SamePosition
<1>2. \A x : Fine(x) => /\ Fine(recancel_pending_stops(x))
                        /\ Fine(clear_post_close_recancels(x))
                        /\ Fine(pop_trade_completed(x))
  <2> TAKE x
  <2> HAVE Fine(x)
  <2> QED BY QuietSteps
<1> HIDE DEF Fine
<1>3. Fine(p)
  BY <1>1, <1>2 DEF popped
<1> HIDE DEF p
<1>4. Fine(w)
  BY <1>2, <1>3 DEF windowed
<1> HIDE DEF w
<1>5. Fine(r)
  BY <1>2, <1>4 DEF retried
<1> QED BY <1>5 DEF Fine, r, w, p

LEMMA EodInv == RInv /\ REodTick => RInv'
<1> SUFFICES ASSUME RInv, REodTick PROVE RInv'
  OBVIOUS
<1> DEFINE Body(expired, due, stuck, ok, okStop) ==
    LET window == ctl.window \/ om.tradeCompleted
        open == window /\ ~expired
        p == popped(om)
        w == IF window THEN windowed(p, ~open) ELSE p
        r == IF ~open THEN retried(w, due) ELSE w
        s == watched(r, stuck, ok, okStop) IN
    /\ (ok /\ okStop) \/ (stuck /\ om.state = "PENDING_EXIT")
    /\ (expired => window) /\ (due => ~open)
    /\ stuck => om.state \in {"PENDING_ENTRY", "PENDING_EXIT"}
    /\ stuck /\ om.state = "PENDING_EXIT" => Room(1 + Reserve)
    /\ Sends(ok, okStop)
    /\ Dispatch(s, wire)
    /\ ctl' = [ctl EXCEPT !.window = open]
    /\ hist' = [hist EXCEPT !.left = @ - Spent(ok, okStop), !.exposed = @ \/ ~okStop,
                            !.redriven = @ \/ ~ok,
                            !.crossed = @ \/ Crosses(s # r)]
<1>1. \E expired, due, stuck, ok, okStop \in BOOLEAN : Body(expired, due, stuck, ok, okStop)
  BY DEF REodTick
<1>2. PICK expired \in BOOLEAN :
        \E due, stuck, ok, okStop \in BOOLEAN : Body(expired, due, stuck, ok, okStop)
  <2> HIDE DEF Body
  <2> QED BY <1>1
<1>3. PICK due \in BOOLEAN :
        \E stuck, ok, okStop \in BOOLEAN : Body(expired, due, stuck, ok, okStop)
  <2> HIDE DEF Body
  <2> QED BY <1>2
<1>4. PICK stuck \in BOOLEAN : \E ok, okStop \in BOOLEAN : Body(expired, due, stuck, ok, okStop)
  <2> HIDE DEF Body
  <2> QED BY <1>3
<1>5. PICK ok \in BOOLEAN : \E okStop \in BOOLEAN : Body(expired, due, stuck, ok, okStop)
  <2> HIDE DEF Body
  <2> QED BY <1>4
<1>6. PICK okStop \in BOOLEAN : Body(expired, due, stuck, ok, okStop)
  <2> HIDE DEF Body
  <2> QED BY <1>5
<1> DEFINE window == ctl.window \/ om.tradeCompleted
           open == window /\ ~expired
           p == popped(om)
           w == IF window THEN windowed(p, ~open) ELSE p
           r == IF ~open THEN retried(w, due) ELSE w
           s == watched(r, stuck, ok, okStop)
           L == xc.live
           U == xc.unacked
           Q == Mail(wire)
<1>7. Quiet(r, om) /\ Good(r) /\ HasShape(r)
  <2>1. /\ Good(om) /\ HasShape(om) /\ om.out = {}
    BY CallStart DEF RInv
  <2>2. ASSUME NEW a \in BOOLEAN, NEW o \in BOOLEAN
        PROVE LET q == popped(om)
                  v == IF a THEN windowed(q, ~o) ELSE q
                  z == IF ~o THEN retried(v, due) ELSE v IN
              Quiet(z, om) /\ Good(z) /\ HasShape(z)
    BY <2>1, MaintenanceQuiet
  <2>3. CASE window /\ ~expired
    BY <2>2, <2>3
  <2>4. CASE window /\ expired
    BY <2>2, <2>4
  <2>5. CASE ~window
    BY <2>2, <2>5
  <2> QED BY <2>3, <2>4, <2>5
<1>8. /\ (ok /\ okStop) \/ (stuck /\ om.state = "PENDING_EXIT")
      /\ stuck => om.state \in {"PENDING_ENTRY", "PENDING_EXIT"}
      /\ stuck /\ om.state = "PENDING_EXIT" => Room(1 + Reserve)
      /\ Sends(ok, okStop)
      /\ Dispatch(s, wire)
      /\ hist' = [hist EXCEPT !.left = @ - Spent(ok, okStop), !.exposed = @ \/ ~okStop,
                              !.redriven = @ \/ ~ok,
                              !.crossed = @ \/ (s # r /\ FillsOnWire)]
  BY <1>6 DEF Crosses
<1> HIDE DEF Body, r, L, U, Q, s
<1>9. wire \in Seq(Messages) /\ hist \in History /\ Good(om) /\ om.out = {} /\ News(om) = {}
      /\ Tidy(om, L, U, Q)
  BY CallStart DEF RInv, L, U, Q
<1>10. hist.left - Spent(ok, okStop) \in 0 .. MaxMishaps
  BY <1>8, <1>9, Spending
<1>11. /\ hist' \in History
       /\ hist'.exposed <=> hist.exposed \/ ~okStop
       /\ hist'.redriven <=> hist.redriven \/ ~ok
       /\ hist'.crossed <=> hist.crossed \/ (s # r /\ FillsOnWire)
  <2>1. hist' = [hist EXCEPT !.left = hist.left - Spent(ok, okStop),
                             !.exposed = hist.exposed \/ ~okStop,
                             !.redriven = hist.redriven \/ ~ok,
                             !.crossed = hist.crossed \/ (s # r /\ FillsOnWire)]
    BY <1>8
  <2> QED BY <1>9, <1>10, <2>1 DEF History
<1>12. /\ Tidy(r, L, U, Q) /\ Believed(r) = Believed(om) /\ r.processed = om.processed
       /\ \A b : Books(r, b) <=> Books(om, b)
       /\ Covered(om, L, Q) => Covered(r, L, Q)
  BY <1>7, <1>9, QuietTidy
<1>13. News(r) = {} /\ r.state = om.state /\ r.seq = om.seq /\ r.buys = om.buys
  BY <1>7 DEF Quiet, Same, Frame, SamePosition
<1>14. ASSUME Good(s), HasShape(s), Tidy(s, L, U, Q),
              ok /\ okStop => KeepsCover(om, s, L, Q, Q),
              s = r \/ ~FillsOnWire => KeepsBooks(om, s, Q, Q)
       PROVE  RInv'
  BY <1>8, <1>9, <1>11, <1>14, CallInv DEF L, U, Q
<1>15. CASE s = r
  <2>1. KeepsCover(om, r, L, Q, Q)
    BY <1>12 DEF KeepsCover
  <2>2. KeepsBooks(om, r, Q, Q)
    <3>1. ASSUME NEW net \in Int, Booked(om, net, Q) PROVE Booked(r, net, Q)
      BY <1>12, <1>13, <3>1, BookedSame
    <3> QED BY <3>1 DEF KeepsBooks
  <2> QED BY <1>7, <1>12, <1>14, <1>15, <2>1, <2>2
<1>16. CASE stuck /\ r.state = "PENDING_ENTRY"
  <2>1. s = cancel_pending_entry(r)
    BY <1>16 DEF s, watched, pending_entry_timeout_check
  <2>2. Good(s) /\ HasShape(s)
    BY <1>7, <1>16, <2>1, CancelPendingEntryGood
  <2>3. Tidy(s, L, U, Q) /\ s.state = "FLAT" /\ s.processed = r.processed
    BY <1>7, <1>12, <1>13, <1>16, <2>1, CancelEntryTidy
  <2>4. KeepsCover(om, s, L, Q, Q)
    BY <2>3 DEF KeepsCover, Covered, InTrade
  <2>5. Believed(s) = Believed(om)
    BY <1>13, <1>16, <2>3 DEF Believed, Trading
  <2>6. ~FillsOnWire => KeepsBooks(om, s, Q, Q)
    BY <1>9, <2>5, QuietBooks DEF Q
  <2>7. CASE FillsOnWire /\ s = r
    BY <1>15, <2>7
  <2>8. CASE ~(FillsOnWire /\ s = r)
    BY <1>14, <2>2, <2>3, <2>4, <2>6, <2>8
  <2> QED BY <2>7, <2>8
<1>17. CASE stuck /\ r.state = "PENDING_EXIT"
  <2>1. s = retry_stuck_exit(r, ok, okStop)
    BY <1>17 DEF s, watched
  <2>2. r.seq + 2 <= MaxBaskets
    <3>1. om.seq + (1 + (1 + hist.left)) <= MaxBaskets
      BY <1>8, <1>13, <1>17 DEF Room, Reserve
    <3>2. hist.left \in Nat /\ om.seq \in Nat /\ MaxBaskets \in Nat
      BY CallStart, BasketsAssumption, MishapsAssumption DEF History
    <3> QED BY <1>13, <3>1, <3>2
  <2>3. Good(s) /\ HasShape(s)
    BY <1>7, <2>1, <2>2, RetryStuckExitGood
  <2>4. /\ Tidy(s, L, U, Q) /\ s.processed = r.processed
        /\ Believed(s) = Believed(r)
        /\ ok => s.state = "PENDING_EXIT"
    BY <1>7, <1>12, <1>13, <1>17, <2>1, <2>2, RetryTidy
  <2>5. ok => KeepsCover(om, s, L, Q, Q)
    BY <2>4 DEF KeepsCover, Covered, InTrade
  <2>6. ~FillsOnWire => KeepsBooks(om, s, Q, Q)
    BY <1>9, <1>12, <2>4, QuietBooks DEF Q
  <2>7. CASE FillsOnWire /\ s = r
    BY <1>15, <2>7
  <2>8. CASE ~(FillsOnWire /\ s = r)
    BY <1>14, <2>3, <2>4, <2>5, <2>6, <2>8
  <2> QED BY <2>7, <2>8
<1>18. s = r \/ (stuck /\ r.state = "PENDING_ENTRY") \/ (stuck /\ r.state = "PENDING_EXIT")
  BY DEF s, watched
<1> QED BY <1>15, <1>16, <1>17, <1>18

\* op_loop handles one message, whatever its kind.
LEMMA HandleCases ==
  ASSUME NEW s, Good(s), HasShape(s), NEW n \in Messages, NEW ok \in BOOLEAN,
         NEW okStop \in BOOLEAN, handle_message(s, n, ok, okStop).s.seq <= MaxBaskets,
         NEW L, NEW U, NEW R, NEW Q, \A m : m \in R <=> m = n \/ m \in Q,
         Tidy(s, L, U, R), News(s) = {}
  PROVE  LET t == handle_message(s, n, ok, okStop).s IN
         /\ Good(t) /\ HasShape(t) /\ Tidy(t, L, U, Q)
         /\ n.kind = "rejected" \/ ~ok \/ KeepsCover(s, t, L, R, Q)
         /\ n.kind # "snapshot" => KeepsBooks(s, t, R, Q)
<1> DEFINE b == n.id
           h == handle_message(s, n, ok, okStop)
           t == h.s
<1>1. n.kind \in Kinds /\ b \in Baskets /\ n = [kind |-> n.kind, id |-> n.id]
  BY DEF Messages
<1>2. \A k : n.kind = k => \A m : m \in R <=> m = Msg(k, b) \/ m \in Q
  BY <1>1 DEF Msg
<1>3. CASE n.kind = "mapped"
  <2>1. t = mapped(s, b)
    BY <1>3 DEF handle_message
  <2> HIDE DEF t, b
  <2> QED BY <1>1, <1>2, <1>3, <2>1, HandleMapped DEF t
<1>4. CASE n.kind \in {"fill351", "fill352"}
  <2> DEFINE v == IF n.kind = "fill351" THEN mapped(s, b) ELSE map_server_basket(s, b)
             k == n.kind
  <2>1. t = route_fill(v, b, ok).s
    BY <1>4 DEF handle_message
  <2>2. route_fill(v, b, ok).s.seq <= MaxBaskets
    BY <2>1
  <2>3. v = IF k = "fill351" THEN mapped(s, b) ELSE map_server_basket(s, b)
    OBVIOUS
  <2>4. k \in {"fill351", "fill352"} /\ \A m : m \in R <=> m = Msg(k, b) \/ m \in Q
    BY <1>2, <1>4
  <2> HIDE DEF t, v, b
  <2>5. /\ Good(t) /\ HasShape(t) /\ Tidy(t, L, U, Q)
        /\ ok => KeepsCover(s, t, L, R, Q)
        /\ KeepsBooks(s, t, R, Q)
    <3> HIDE DEF k
    <3> QED BY <1>1, <2>1, <2>2, <2>3, <2>4, HandleFill
  <2> QED BY <2>5 DEF t
<1>5. CASE n.kind = "cancelled"
  <2>1. t = on_cancel_confirmed(mapped(s, b), b)
    BY <1>5 DEF handle_message
  <2> HIDE DEF t, b
  <2> QED BY <1>1, <1>2, <1>5, <2>1, HandleCancelled DEF t
<1>6. CASE n.kind = "failed"
  <2>1. t = on_cancel_failed(s, b, "client")
    BY <1>6 DEF handle_message
  <2> HIDE DEF t, b
  <2> QED BY <1>1, <1>2, <1>6, <2>1, HandleFailed DEF t
<1>7. CASE n.kind = "rejected"
  <2>1. t = on_order_rejected(s, b, "client", ok, okStop)
    BY <1>7 DEF handle_message
  <2>2. t.seq <= MaxBaskets
    OBVIOUS
  <2> HIDE DEF t, b
  <2>3. on_order_rejected(s, b, "client", ok, okStop).seq <= MaxBaskets
    BY <2>1, <2>2
  <2> QED BY <1>1, <1>2, <1>7, <2>1, <2>3, HandleRejected DEF t
<1>8. CASE n.kind = "snapshot"
  <2>1. t = send_cancel(s, b, "server")
    BY <1>8 DEF handle_message
  <2> HIDE DEF t, b
  <2> QED BY <1>1, <1>2, <1>8, <2>1, HandleSnapshot DEF t
<1> QED BY <1>1, <1>3, <1>4, <1>5, <1>6, <1>7, <1>8 DEF Kinds

LEMMA MessageInv == RInv /\ HandleMessage => RInv'
<1> SUFFICES ASSUME RInv, HandleMessage PROVE RInv'
  OBVIOUS
<1> DEFINE n == Head(wire)
           w == Tail(wire)
           L == xc.live
           U == xc.unacked
           R == Mail(wire)
           Q == Mail(w)
<1>1. wire \in Seq(Messages) /\ wire # << >>
  BY CallStart DEF HandleMessage
<1>2. w \in Seq(Messages) /\ n \in Messages /\ R = {n} \cup Q
  BY <1>1, MailTail
<1>3. PICK ok \in BOOLEAN : \E okStop \in BOOLEAN :
        LET h == handle_message(om, n, ok, okStop) IN
        /\ Sends(ok, okStop)
        /\ h.s.seq <= MaxBaskets
        /\ Dispatch(h.s, w)
        /\ hist' = [hist EXCEPT !.left = @ - Spent(ok, okStop),
                                !.exposed = @ \/ ~okStop \/ (~ok /\ n.kind # "rejected")]
  BY DEF HandleMessage
<1>4. PICK okStop \in BOOLEAN :
        LET h == handle_message(om, n, ok, okStop) IN
        /\ Sends(ok, okStop)
        /\ h.s.seq <= MaxBaskets
        /\ Dispatch(h.s, w)
        /\ hist' = [hist EXCEPT !.left = @ - Spent(ok, okStop),
                                !.exposed = @ \/ ~okStop \/ (~ok /\ n.kind # "rejected")]
  BY <1>3
<1> DEFINE t == handle_message(om, n, ok, okStop).s
<1>5. \A m : m \in R <=> m = n \/ m \in Q
  BY <1>2
<1>6. t.seq <= MaxBaskets /\ Dispatch(t, w) /\ Sends(ok, okStop)
      /\ hist' = [hist EXCEPT !.left = @ - Spent(ok, okStop),
                              !.exposed = @ \/ ~okStop \/ (~ok /\ n.kind # "rejected")]
  BY <1>4
<1>7. hist \in History /\ Posted(R, hist)
  BY CallStart DEF RInv
<1>8. Good(om) /\ HasShape(om) /\ News(om) = {} /\ Tidy(om, L, U, R)
  BY CallStart
<1> HIDE DEF n, w, L, U, R, Q
<1>9. /\ Good(t) /\ HasShape(t) /\ Tidy(t, L, U, Q)
      /\ n.kind = "rejected" \/ ~ok \/ KeepsCover(om, t, L, R, Q)
      /\ n.kind # "snapshot" => KeepsBooks(om, t, R, Q)
  BY <1>2, <1>5, <1>6, <1>8, HandleCases
<1> HIDE DEF t
<1>10. hist.left - Spent(ok, okStop) \in 0 .. MaxMishaps
  BY <1>6, <1>7, Spending
<1>11. /\ hist' \in History
       /\ hist'.exposed <=> hist.exposed \/ ~okStop \/ (~ok /\ n.kind # "rejected")
       /\ hist'.crossed <=> hist.crossed
       /\ hist'.redriven <=> hist.redriven
  <2>1. hist' = [hist EXCEPT !.left = hist.left - Spent(ok, okStop),
                             !.exposed = hist.exposed \/ ~okStop \/ (~ok /\ n.kind # "rejected")]
    BY <1>6
  <2> QED BY <1>7, <1>10, <2>1 DEF History
<1>12. (n.kind = "rejected" => hist.exposed) /\ (n.kind = "snapshot" => hist.crossed)
  BY <1>5, <1>7 DEF Posted
<1>13. ~hist'.exposed /\ ~hist'.redriven => KeepsCover(om, t, L, R, Q)
  BY <1>9, <1>11, <1>12
<1>14. ~hist'.crossed => KeepsBooks(om, t, R, Q)
  BY <1>9, <1>11, <1>12
<1>15. Q \subseteq R
  BY <1>5
<1> QED BY <1>2, <1>6, <1>9, <1>11, <1>13, <1>14, <1>15, CallInv DEF L, U, R, Q

-----------------------------------------------------------------------------
(* The steps of the gateway, and a restart. *)

\* An order has stopped working.
LEMMA FewerTidy ==
  ASSUME NEW s, NEW L, NEW U, NEW Q, Tidy(s, L, U, Q), News(s) = {}, Works(s, L) = L,
         NEW M, M \subseteq L, Works(s, M) = M, NEW V, \A x \in M : x \in U => x \in V
  PROVE  Tidy(s, M, V, Q)
<1>1. Sent(s, M, Q)
  BY DEF Tidy, Sent
<1>2. Named(s, M, Q) /\ Stopped(s, M, Q)
  BY DEF Tidy, Named, Stopped
<1>3. Reachable(s, M, V, Q)
  BY DEF Tidy, Reachable
<1> QED BY <1>1, <1>2, <1>3 DEF Tidy

LEMMA AcknowledgeInv == RInv /\ Acknowledge => RInv'
<1> SUFFICES ASSUME RInv, Acknowledge PROVE RInv'
  OBVIOUS
<1>1. PICK b \in xc.unacked : /\ wire' = Append(wire, Msg("mapped", b))
                              /\ xc' = [xc EXCEPT !.unacked = @ \ {b}]
  BY DEF Acknowledge
<1>2. om' = om /\ hist' = hist
  BY DEF Acknowledge
<1> DEFINE n == Msg("mapped", b)
           L == xc.live
           U == xc.unacked
           V == xc'.unacked
           Q == Mail(wire)
           Z == Mail(wire')
<1>3. /\ wire \in Seq(Messages) /\ xc \in Exchange /\ xc.unacked \subseteq xc.live
      /\ Works(om, xc.live) = xc.live /\ News(om) = {} /\ Tidy(om, L, U, Q)
      /\ L \subseteq 1 .. om.seq
  BY CallStart
<1>4. b \in L /\ b \in Baskets /\ n \in Messages /\ n.kind = "mapped" /\ n.id = b
  BY <1>3 DEF Exchange, Messages, Kinds, Msg
<1>5. wire' \in Seq(Messages) /\ Z = Q \cup {n}
  BY <1>1, <1>3, <1>4, MailAppend
<1>6. xc' \in Exchange /\ xc'.live = L /\ V = U \ {b} /\ xc'.net = xc.net
  BY <1>1, <1>3 DEF Exchange
<1>7. Q \subseteq Z /\ Msg("mapped", b) \in Z /\ \A m \in Z : m \in Q \/ m = n
  BY <1>5
<1>8. Tidy(om, L, U, Z)
  <2>1. \A m \in Z : m \in Q
         \/ /\ m.id \in 1 .. om.seq
            /\ m.kind \in {"cancelled", "fill351", "fill352", "rejected"}
                 => m.id \notin Works(om, L)
    BY <1>3, <1>4, <1>7
  <2> HIDE DEF n, L, U, Q, Z
  <2> QED BY <1>3, <1>7, <2>1, MoreTidy
<1>9. Tidy(om, L, V, Z)
  <2>1. Reachable(om, L, V, Z)
    BY <1>6, <1>7, <1>8 DEF Tidy, Reachable
  <2> QED BY <1>8, <2>1 DEF Tidy
<1>10. ASSUME Covered(om, L, Q) PROVE Covered(om, L, Z)
  <2>1. \A m \in Z : m \in Q \/ m.kind # "snapshot"
    BY <1>4, <1>7
  <2> HIDE DEF Q, Z, L
  <2> QED BY <1>7, <1>10, <2>1, MoreCovered
<1>11. ASSUME Booked(om, xc.net, Q) PROVE Booked(om, xc.net, Z)
  <2>1. Filled(Z) = Filled(Q)
    BY <1>4, <1>7 DEF Filled
  <2>2. \A x : /\ Msg("cancelled", x) \in Z => Msg("cancelled", x) \in Q
               /\ Msg("rejected", x) \in Z => Msg("rejected", x) \in Q
    <3>1. \A x : Msg("cancelled", x).kind = "cancelled" /\ Msg("rejected", x).kind = "rejected"
      BY DEF Msg
    <3> QED BY <1>4, <1>7, <3>1
  <2> QED BY <1>11, <2>1, <2>2 DEF Booked
<1>12. Posted(Z, hist)
  <2>1. Posted(Q, hist)
    BY DEF RInv
  <2> QED BY <1>4, <1>7, <2>1 DEF Posted
<1>13. RShape'
  <2>1. V \subseteq L
    BY <1>3, <1>6
  <2> QED BY <1>2, <1>5, <1>6, <2>1, CallStart DEF RShape
<1>14. /\ IInv /\ om.out = {}
       /\ ~hist.exposed /\ ~hist.redriven => Covered(om, L, Q)
       /\ ~hist.crossed => Booked(om, xc.net, Q)
  BY DEF RInv
<1>15. IInv' /\ om'.out = {}
  BY <1>2, <1>14 DEF IInv
<1> QED BY <1>2, <1>6, <1>9, <1>10, <1>11, <1>12, <1>13, <1>14, <1>15 DEF RInv

LEMMA RejectInv == RInv /\ Reject => RInv'
<1> SUFFICES ASSUME RInv, Reject PROVE RInv'
  OBVIOUS
<1>1. PICK b \in xc.live :
         /\ xc' = [xc EXCEPT !.live = @ \ {b}, !.unacked = @ \ {b}]
         /\ wire' = Append(wire, Msg("rejected", b))
         /\ hist' = [hist EXCEPT !.left = @ - 1, !.exposed = TRUE]
  BY DEF Reject
<1>2. om' = om /\ hist.left > 0
  BY DEF Reject
<1> DEFINE n == Msg("rejected", b)
           L == xc.live
           U == xc.unacked
           M == xc'.live
           V == xc'.unacked
           Q == Mail(wire)
           Z == Mail(wire')
<1>3. /\ wire \in Seq(Messages) /\ xc \in Exchange /\ xc.unacked \subseteq xc.live
      /\ Works(om, xc.live) = xc.live /\ News(om) = {} /\ Tidy(om, L, U, Q)
      /\ L \subseteq 1 .. om.seq /\ hist \in History /\ om.out = {}
      /\ \A m \in Q : m.kind \in {"cancelled", "fill351", "fill352", "rejected"} => m.id \notin L
  BY CallStart DEF RInv
<1>4. b \in Baskets /\ n \in Messages /\ n.kind = "rejected" /\ n.id = b
  BY <1>3 DEF Exchange, Messages, Kinds, Msg
<1>5. wire' \in Seq(Messages) /\ Z = Q \cup {n}
  BY <1>1, <1>3, <1>4, MailAppend
<1>6. xc' \in Exchange /\ M = L \ {b} /\ V = U \ {b} /\ xc'.net = xc.net
  BY <1>1, <1>3 DEF Exchange
<1>7. Q \subseteq Z /\ \A m \in Z : m \in Q \/ m = n
  BY <1>5
<1>8. Works(om, M) = M
  BY <1>3, NothingSent
<1>9. Tidy(om, M, V, Q)
  <2>1. M \subseteq L /\ \A x \in M : x \in U => x \in V
    BY <1>6
  <2> HIDE DEF L, U, M, V, Q
  <2>2. Works(om, L) = L
    BY <1>3 DEF L
  <2> QED BY <1>3, <1>8, <2>1, <2>2, FewerTidy
<1>10. Tidy(om, M, V, Z)
  <2>1. \A m \in Z : m \in Q
         \/ /\ m.id \in 1 .. om.seq
            /\ m.kind \in {"cancelled", "fill351", "fill352", "rejected"}
                 => m.id \notin Works(om, M)
    BY <1>3, <1>4, <1>6, <1>7, <1>8
  <2> HIDE DEF n, M, V, Q, Z
  <2> QED BY <1>7, <1>9, <2>1, MoreTidy
<1>11. ASSUME Booked(om, xc.net, Q) PROVE Booked(om, xc.net, Z)
  <2>1. Filled(Z) = Filled(Q)
    BY <1>4, <1>7 DEF Filled
  <2>2. \A x \in Filled(Q) : x # b
    BY <1>3 DEF Filled
  <2>3. \A x \in Filled(Q) : /\ Msg("cancelled", x) \in Z => Msg("cancelled", x) \in Q
                             /\ Msg("rejected", x) \in Z => Msg("rejected", x) \in Q
    <3>1. \A x : Msg("cancelled", x).kind = "cancelled" /\ Msg("rejected", x).id = x
      BY DEF Msg
    <3> QED BY <1>4, <1>7, <2>2, <3>1
  <2> QED BY <1>11, <2>1, <2>3 DEF Booked
<1>12. hist' \in History /\ hist'.exposed = TRUE /\ hist'.crossed = hist.crossed
  <2>1. hist.left - 1 \in 0 .. MaxMishaps
    BY <1>2, <1>3, MishapsAssumption DEF History
  <2> QED BY <1>1, <1>3, <2>1 DEF History
<1>13. Posted(Z, hist')
  <2>1. Posted(Q, hist)
    BY DEF RInv
  <2> QED BY <1>4, <1>7, <1>12, <2>1 DEF Posted
<1>14. RShape'
  <2>1. V \subseteq M
    BY <1>3, <1>6
  <2> QED BY <1>5, <1>6, <1>12, <2>1 DEF RShape
<1>15. IInv /\ (~hist.crossed => Booked(om, xc.net, Q))
  BY DEF RInv
<1>16. IInv' /\ om'.out = {}
  BY <1>2, <1>3, <1>15 DEF IInv
<1> QED BY <1>2, <1>6, <1>10, <1>11, <1>12, <1>13, <1>14, <1>15, <1>16 DEF RInv

\* An expected fill is of an order whose fill will be booked.
LEMMA ExpectedBooks ==
  ASSUME RInv, ~hist.crossed, NEW b \in xc.live, Expected(b)
  PROVE  Books(om, b)
<1>1. /\ Tidy(om, xc.live, xc.unacked, Mail(wire)) /\ Works(om, xc.live) = xc.live
      /\ HasShape(om) /\ Good(om)
  BY CallStart
<1>2. Msg("snapshot", b) \notin Mail(wire)
  <2>1. Posted(Mail(wire), hist)
    BY DEF RInv
  <2> QED BY <2>1 DEF Posted, Msg
<1>3. b \in {om.entry, om.exit, om.stop} \cup om.cancelled \cup om.unmapped
  BY <1>1, <1>2 DEF Tidy, Named
<1>4. CASE om.state = "PENDING_ENTRY" /\ b = om.entry
  BY <1>4 DEF Books
<1>5. CASE om.state = "PENDING_EXIT" /\ b = om.exit
  BY <1>5 DEF Books
<1>6. CASE om.state \in InTrade /\ b \in om.stops /\ b > om.entry
  <2>1. om.exit = 0 /\ om.entry # 0
    BY <1>1, <1>6 DEF HasShape
  <2>2. om.entry \in BasketId
    BY <1>1 DEF Good, IsOMState
  <2>3. om.entry \in Nat
    BY <2>2, BasketsAssumption DEF BasketId
  <2>4. b # om.entry /\ b # 0
    BY <1>6, <2>3
  <2>5. b \notin om.unmapped
    BY <1>1, <1>6 DEF Tidy, Ids
  <2>6. b \in om.cancelled => om.cancelTrade[b] = om.tradeSeq
    BY <1>1, <1>6, <2>1 DEF Tidy, Ids
  <2> QED BY <1>3, <1>6, <2>1, <2>4, <2>5, <2>6 DEF Books
<1> QED BY <1>4, <1>5, <1>6 DEF Expected

LEMMA FillInv == RInv /\ Fill => RInv'
<1> SUFFICES ASSUME RInv, Fill PROVE RInv'
  OBVIOUS
<1>1. PICK b \in xc.live : \E twice \in BOOLEAN :
         /\ xc' = [xc EXCEPT !.live = @ \ {b}, !.unacked = @ \ {b},
                             !.net = IF b \in om.buys THEN @ + 1 ELSE @ - 1]
         /\ wire' = wire \o (IF twice THEN <<Msg("fill352", b), Msg("fill351", b)>>
                                      ELSE <<Msg("fill351", b)>>)
         /\ hist' = [hist EXCEPT !.crossed = @ \/ ~Expected(b)]
  BY DEF Fill
<1>2. PICK twice \in BOOLEAN :
         /\ xc' = [xc EXCEPT !.live = @ \ {b}, !.unacked = @ \ {b},
                             !.net = IF b \in om.buys THEN @ + 1 ELSE @ - 1]
         /\ wire' = wire \o (IF twice THEN <<Msg("fill352", b), Msg("fill351", b)>>
                                      ELSE <<Msg("fill351", b)>>)
         /\ hist' = [hist EXCEPT !.crossed = @ \/ ~Expected(b)]
  BY <1>1
<1>3. om' = om
  BY DEF Fill
<1> DEFINE n1 == Msg("fill351", b)
           n2 == Msg("fill352", b)
           L == xc.live
           U == xc.unacked
           M == xc'.live
           V == xc'.unacked
           Q == Mail(wire)
           Z == Mail(wire')
<1>4. /\ wire \in Seq(Messages) /\ xc \in Exchange /\ xc.unacked \subseteq xc.live
      /\ Works(om, xc.live) = xc.live /\ News(om) = {} /\ Tidy(om, L, U, Q)
      /\ L \subseteq 1 .. om.seq /\ hist \in History /\ om.out = {}
      /\ \A m \in Q : m.kind \in {"cancelled", "fill351", "fill352", "rejected"} => m.id \notin L
  BY CallStart DEF RInv
<1>5. /\ b \in Baskets /\ n1 \in Messages /\ n2 \in Messages
      /\ n1.kind = "fill351" /\ n1.id = b /\ n2.kind = "fill352" /\ n2.id = b
  BY <1>4 DEF Exchange, Messages, Kinds, Msg
<1>6. wire' \in Seq(Messages) /\ n1 \in Z /\ Q \subseteq Z /\ \A m \in Z : m \in Q \/ m = n1 \/ m = n2
  <2> HIDE DEF n1, n2
  <2>1. CASE ~twice
    <3>1. wire' = wire \o <<n1>>
      BY <1>2, <2>1 DEF n1
    <3>2. <<n1>> \in Seq(Messages) /\ Mail(<<n1>>) = {n1}
      BY <1>4, <1>5, MailAppend
    <3>3. wire' \in Seq(Messages) /\ Mail(wire \o <<n1>>) = Mail(wire) \cup Mail(<<n1>>)
      BY <1>4, <3>1, <3>2, MailConcat
    <3> QED BY <3>1, <3>2, <3>3
  <2>2. CASE twice
    <3> DEFINE v == <<n2, n1>>
    <3>1. wire' = wire \o v
      BY <1>2, <2>2 DEF n1, n2
    <3>2. v \in Seq(Messages) /\ Mail(v) = {n2, n1}
      <4>1. <<n2>> \in Seq(Messages) /\ Mail(<<n2>>) = {n2}
        BY <1>4, <1>5, MailAppend
      <4> DEFINE u == <<n2>>
      <4>2. v = Append(u, n1)
        OBVIOUS
      <4> HIDE DEF u, v
      <4>3. u \in Seq(Messages) /\ Mail(u) = {n2}
        BY <4>1 DEF u
      <4>4. Append(u, n1) \in Seq(Messages) /\ Mail(Append(u, n1)) = Mail(u) \cup {n1}
        BY <1>5, <4>3, MailAppend
      <4> QED BY <4>2, <4>3, <4>4
    <3> HIDE DEF v
    <3>3. wire \o v \in Seq(Messages) /\ Mail(wire \o v) = Mail(wire) \cup Mail(v)
      BY <1>4, <3>2, MailConcat
    <3> QED BY <3>1, <3>2, <3>3
  <2> QED BY <2>1, <2>2
<1>7. /\ xc' \in Exchange /\ M = L \ {b} /\ V = U \ {b}
      /\ xc'.net = IF b \in om.buys THEN xc.net + 1 ELSE xc.net - 1
  <2> DEFINE d == IF b \in om.buys THEN xc.net + 1 ELSE xc.net - 1
  <2>1. xc.net \in Int
    BY <1>4 DEF Exchange
  <2>2. d \in Int
    BY <2>1
  <2>3. xc' = [xc EXCEPT !.live = L \ {b}, !.unacked = U \ {b}, !.net = d]
    BY <1>2, <1>4 DEF Exchange
  <2> HIDE DEF d
  <2> QED BY <1>4, <2>2, <2>3 DEF Exchange, d
<1>8. Works(om, M) = M
  BY <1>4, NothingSent
<1>9. Tidy(om, M, V, Q)
  <2>1. M \subseteq L /\ \A x \in M : x \in U => x \in V
    BY <1>7
  <2> HIDE DEF L, U, M, V, Q
  <2>2. Works(om, L) = L
    BY <1>4 DEF L
  <2> QED BY <1>4, <1>8, <2>1, <2>2, FewerTidy
<1>10. Tidy(om, M, V, Z)
  <2>1. \A m \in Z : m \in Q
         \/ /\ m.id \in 1 .. om.seq
            /\ m.kind \in {"cancelled", "fill351", "fill352", "rejected"}
                 => m.id \notin Works(om, M)
    BY <1>4, <1>5, <1>6, <1>7, <1>8
  <2> HIDE DEF n1, n2, M, V, Q, Z
  <2> QED BY <1>6, <1>9, <2>1, MoreTidy
<1>11. om.processed[b] = 0
  BY <1>4 DEF Tidy, Stopped
<1>12. ASSUME Covered(om, L, Q) PROVE Covered(om, M, Z)
  <2>1. \A x : /\ Msg("snapshot", x) \in Z => Msg("snapshot", x) \in Q
               /\ Msg("fill351", x) \in Q => Msg("fill351", x) \in Z
    <3>1. \A x : Msg("snapshot", x).kind = "snapshot"
      BY DEF Msg
    <3> QED BY <1>5, <1>6, <3>1
  <2>2. \A x : Alive(om, L, Q, x) => Alive(om, M, Z, x)
    <3>1. Msg("fill351", b) \in Z
      BY <1>6
    <3>2. Works(om, L) = L /\ Works(om, M) = M /\ M = L \ {b}
      BY <1>4, <1>7, <1>8
    <3> HIDE DEF n1, n2, L, M, Q, Z
    <3> TAKE x
    <3> HAVE Alive(om, L, Q, x)
    <3>3. CASE x = b
      BY <1>11, <2>1, <3>1, <3>3 DEF Alive
    <3>4. CASE x # b
      BY <2>1, <3>2, <3>4 DEF Alive
    <3> QED BY <3>3, <3>4
  <2> QED BY <1>12, <2>2 DEF Covered, HasStop, Spare
<1>13. /\ hist' \in History /\ hist'.exposed = hist.exposed /\ hist'.redriven = hist.redriven
       /\ hist'.crossed <=> hist.crossed \/ ~Expected(b)
  BY <1>2, <1>4 DEF History
<1>14. ASSUME ~hist'.crossed PROVE Booked(om, xc'.net, Z)
  <2>1. ~hist.crossed /\ Expected(b)
    BY <1>13, <1>14
  <2>2. Books(om, b)
    BY <2>1, ExpectedBooks
  <2>3. Filled(Q) = {}
    BY <1>4, <2>1 DEF Expected, FillsOnWire, Filled, Mail
  <2>4. Filled(Z) = {b}
    <3>1. \A m \in Z : m.kind \in {"fill351", "fill352"} => m = n1 \/ m = n2
      BY <1>6, <2>3 DEF Filled
    <3> HIDE DEF n1, n2, Z
    <3> QED BY <1>5, <1>6, <3>1 DEF Filled
  <2>5. Msg("cancelled", b) \notin Z /\ Msg("rejected", b) \notin Z
    <3>1. /\ Msg("cancelled", b).kind = "cancelled" /\ Msg("cancelled", b).id = b
          /\ Msg("rejected", b).kind = "rejected" /\ Msg("rejected", b).id = b
      BY DEF Msg
    <3> QED BY <1>4, <1>5, <1>6, <3>1
  <2>6. Booked(om, xc.net, Q) /\ xc.net \in Int
    BY <1>4, <2>1 DEF RInv, Exchange
  <2>7. xc.net = Believed(om)
    BY <2>3, <2>6, BookedQuiet
  <2>8. xc'.net = Believed(om) + (IF b \in om.buys THEN 1 ELSE -1)
    BY <1>7, <2>6, <2>7
  <2> QED BY <1>11, <2>2, <2>4, <2>5, <2>8 DEF Booked
<1>15. Posted(Z, hist')
  <2>1. Posted(Q, hist)
    BY DEF RInv
  <2> QED BY <1>5, <1>6, <1>13, <2>1 DEF Posted
<1>16. RShape'
  <2>1. V \subseteq M
    BY <1>4, <1>7
  <2> QED BY <1>6, <1>7, <1>13, <2>1 DEF RShape
<1>17. IInv /\ (~hist.exposed /\ ~hist.redriven => Covered(om, L, Q))
  BY DEF RInv
<1>18. IInv' /\ om'.out = {}
  BY <1>3, <1>4, <1>17 DEF IInv
<1> QED BY <1>3, <1>10, <1>12, <1>13, <1>14, <1>15, <1>16, <1>17, <1>18 DEF RInv

LEMMA RestartInv == RInv /\ Restart => RInv'
<1> SUFFICES ASSUME RInv, Restart PROVE RInv'
  OBVIOUS
<1> DEFINE L == xc.live
           S == {Msg("snapshot", b) : b \in L}
           t == startup(om)
           Z == Mail(wire')
<1>1. /\ hist.left > 0 /\ om' = Call(t) /\ wire' = SetToSeq(S)
      /\ xc' = [xc EXCEPT !.unacked = {}]
      /\ hist' = [hist EXCEPT !.left = @ - 1, !.crossed = TRUE]
  BY DEF Restart
<1>2. /\ Good(om) /\ xc \in Exchange /\ hist \in History /\ L \subseteq 1 .. om.seq
      /\ Works(om, L) = L /\ Tidy(om, L, xc.unacked, Mail(wire)) /\ om.seq \in Nat
  BY CallStart
<1>3. wire' \in Seq(Messages) /\ Z = S
  <2>1. L \subseteq Baskets /\ "snapshot" \in Kinds
    BY <1>2 DEF Exchange, Kinds
  <2> HIDE DEF L
  <2>2. S \subseteq Messages /\ IsFiniteSet(S)
    BY <2>1, FewMessages
  <2> HIDE DEF S
  <2>3. SetToSeq(S) \in Seq(Messages) /\ Mail(SetToSeq(S)) = S
    BY <2>2, MailSet
  <2> QED BY <1>1, <2>3
<1>4. (\A b \in L : Msg("snapshot", b) \in Z) /\ \A m \in Z : m.kind = "snapshot" /\ m.id \in L
  BY <1>3 DEF Msg
<1>5. Good(om') /\ HasShape(om') /\ om'.out = {}
  <2>1. Good(t) /\ HasShape(t)
    BY <1>2, StartupGood
  <2> HIDE DEF t
  <2>2. Good(Call(t)) /\ SamePosition(Call(t), t) /\ Call(t).stop = t.stop
    BY <2>1, CallGood
  <2>3. HasShape(Call(t))
    BY <2>1, <2>2, SameShape
  <2>4. Call(t).out = {}
    BY <2>1, FieldNames DEF Call, Good, IsOMState, Fields
  <2> QED BY <1>1, <2>2, <2>3, <2>4
<1>6. /\ om'.state = "FLAT" /\ om'.entry = 0 /\ om'.exit = 0 /\ om'.pendingCancel = 0
      /\ om'.unmapped = {} /\ om'.seq = om.seq /\ om'.stops = om.stops
      /\ om'.seeded = om.dbRows /\ om'.processed = [b \in Baskets |-> 0]
  BY <1>1, FieldNames DEF startup, recancel_pending_stops, Call, Empty, Fields
<1>7. xc' \in Exchange /\ xc'.live = L /\ xc'.unacked = {}
  BY <1>1, <1>2 DEF Exchange
<1>8. /\ hist' \in History /\ hist'.crossed = TRUE /\ hist'.exposed = hist.exposed
  <2>1. hist.left - 1 \in 0 .. MaxMishaps
    BY <1>1, <1>2, MishapsAssumption DEF History
  <2> QED BY <1>1, <1>2, <2>1 DEF History
<1> HIDE DEF L, S, t, Z
<1>9. News(om') = {} /\ Works(om', L) = L
  BY <1>5, NothingSent
<1>10. Tidy(om', L, {}, Z)
  <2>1. Sent(om', L, Z)
    BY <1>2, <1>4, <1>6, <1>9 DEF Sent
  <2>2. Ids(om')
    <3>1. om.stops \subseteq 1 .. om.seq /\ om.dbRows \subseteq 1 .. om.seq
      BY <1>2 DEF Tidy, Ids, Good, Drawn
    <3> QED BY <1>2, <1>6, <3>1 DEF Ids
  <2>3. Named(om', L, Z) /\ Reachable(om', L, {}, Z)
    BY <1>4, <1>9 DEF Named, Reachable
  <2>4. Stopped(om', L, Z)
    <3>1. L \subseteq Baskets
      BY <1>2, <1>7 DEF Exchange
    <3> QED BY <1>4, <1>6, <1>9, <3>1 DEF Stopped, Trading
  <2> QED BY <2>1, <2>2, <2>3, <2>4 DEF Tidy
<1>11. Covered(om', L, Z)
  BY <1>6 DEF Covered, InTrade
<1>12. Posted(Z, hist')
  BY <1>4, <1>8 DEF Posted
<1>13. RShape'
  BY <1>3, <1>7, <1>8 DEF RShape
<1>14. IInv' /\ om'.out = {}
  BY <1>5 DEF IInv
<1> QED BY <1>7, <1>8, <1>10, <1>11, <1>12, <1>13, <1>14 DEF RInv, Z

-----------------------------------------------------------------------------
(* The theorems. *)

LEMMA RInitInv == RInit => RInv
<1> SUFFICES ASSUME RInit PROVE RInv
  OBVIOUS
<1>1. /\ om = Empty /\ xc = [live |-> {}, unacked |-> {}, net |-> 0] /\ wire = << >>
      /\ hist = [crossed |-> FALSE, exposed |-> FALSE, redriven |-> FALSE, left |-> MaxMishaps]
  BY DEF RInit
<1>2. wire \in Seq(Messages) /\ Mail(wire) = {}
  BY <1>1 DEF Mail
<1>3. xc \in Exchange /\ xc.live = {} /\ xc.unacked = {} /\ xc.net = 0
  BY <1>1 DEF Exchange
<1>4. hist \in History
  BY <1>1, MishapsAssumption DEF History
<1>5. Good(om) /\ HasShape(om)
  BY <1>1, EmptyGood
<1>6. /\ om.out = {} /\ om.state = "FLAT" /\ om.entry = 0 /\ om.exit = 0 /\ om.seq = 0
      /\ om.pendingCancel = 0 /\ om.unmapped = {} /\ om.stops = {} /\ om.seeded = {}
      /\ om.processed = [b \in Baskets |-> 0]
  BY <1>1 DEF Empty
<1>7. News(om) = {} /\ Works(om, {}) = {}
  BY <1>6, NothingSent
<1>8. Tidy(om, {}, {}, {})
  <2>1. Sent(om, {}, {})
    BY <1>7 DEF Sent
  <2>2. Ids(om)
    BY <1>6 DEF Ids
  <2>3. Named(om, {}, {}) /\ Reachable(om, {}, {}, {})
    BY <1>7 DEF Named, Reachable
  <2>4. Stopped(om, {}, {})
    BY <1>7 DEF Stopped
  <2> QED BY <2>1, <2>2, <2>3, <2>4 DEF Tidy
<1>9. Covered(om, {}, {})
  BY <1>6 DEF Covered, InTrade
<1>10. Booked(om, 0, {})
  BY <1>6 DEF Booked, Filled, Believed, Trading
<1>11. Posted({}, hist)
  BY DEF Posted
<1>12. IInv /\ RShape
  BY <1>2, <1>3, <1>4, <1>5 DEF IInv, RShape
<1> QED BY <1>2, <1>3, <1>6, <1>8, <1>9, <1>10, <1>11, <1>12 DEF RInv

LEMMA RNextInv == RInv /\ [RNext]_rvars => RInv'
<1>1. ASSUME RInv, UNCHANGED rvars PROVE RInv'
  <2>1. om' = om /\ xc' = xc /\ wire' = wire /\ hist' = hist
    BY <1>1 DEF rvars
  <2>2. IInv' /\ om'.out = {} /\ RShape'
    BY <1>1, <2>1 DEF RInv, IInv, RShape
  <2> QED BY <1>1, <2>1, <2>2 DEF RInv
<1>2. RInv /\ RNext => RInv'
  BY MessageInv, SignalInv, TickInv, EodInv, AcknowledgeInv, FillInv, RejectInv, RestartInv
  DEF RNext
<1> QED BY <1>1, <1>2

THEOREM RoutingInvariance == RSpec => []RInv
  BY RInitInv, RNextInv, PTL DEF RSpec

\* Type correctness of the composition: the order manager's record is a state of
\* the class, and what works at the exchange or is on the wire has been drawn.
THEOREM RoutingTypes == RSpec => []RTypeOK
<1>1. RInv => RTypeOK
  <2> SUFFICES ASSUME RInv PROVE RTypeOK
    OBVIOUS
  <2>1. IsOMState(om) /\ xc.live \subseteq Known /\ xc.unacked \subseteq xc.live /\ xc.net \in Int
        /\ hist.left \in 0 .. MaxMishaps
    BY CallStart DEF Good, Known, Exchange, History
  <2>2. \A k \in DOMAIN wire : wire[k].id \in Known
    BY CallStart DEF Mail, Known
  <2> QED BY <2>1, <2>2 DEF RTypeOK
<1> QED BY <1>1, RoutingInvariance, PTL

\* No order works at the exchange without a name in the order manager: it is the
\* entry, the exit or the stop, or its cancel is remembered and re-sent
\* (cancel_stop_locked, retry_stuck_exit, cancel_order_locked, the snapshot).
THEOREM NoOrphanTheorem == RSpec => []NoOrphanOrder
<1>1. RInv => NoOrphanOrder
  <2> SUFFICES ASSUME RInv, NEW b \in xc.live
               PROVE  \/ b \in {om.entry, om.exit, om.stop}
                      \/ b \in om.cancelled \cup om.unmapped
                      \/ \E k \in DOMAIN wire : wire[k] = Msg("snapshot", b)
    BY DEF NoOrphanOrder
  <2>1. \/ b \in {om.entry, om.exit, om.stop} \cup om.cancelled \cup om.unmapped
        \/ Msg("snapshot", b) \in Mail(wire)
    BY CallStart DEF Tidy, Named
  <2> QED BY <2>1 DEF Mail
<1> QED BY <1>1, RoutingInvariance, PTL

\* A trade that is over leaves nothing working: once flat, with every order
\* acknowledged and every message read, an order that worked would be one whose
\* server id was read without a cancel by it being sent
\* (map_server_basket, on_stop_server_mapped).
THEOREM TradeEndsCleanTheorem == RSpec => []TradeEndsClean
<1>1. RInv => TradeEndsClean
  <2> SUFFICES ASSUME RInv, om.state = "FLAT", wire = << >>, xc.unacked = {}, NEW b \in xc.live
               PROVE  FALSE
    BY DEF TradeEndsClean
  <2>1. Mail(wire) = {}
    BY DEF Mail
  <2>2. om.entry = 0 /\ om.exit = 0 /\ om.stop = 0
    BY CallStart DEF HasShape
  <2>3. b # 0
    BY CallStart
  <2>4. Reachable(om, xc.live, xc.unacked, Mail(wire)) /\ b \in Works(om, xc.live) /\ News(om) = {}
    BY CallStart DEF Tidy
  <2> QED BY <2>1, <2>2, <2>3, <2>4 DEF Reachable
<1> QED BY <1>1, RoutingInvariance, PTL

\* An open position has its stop working at the exchange whenever the wire is
\* quiet: the guards of the current trade are as alive as the stop, so the
\* re-adoption of one (on_cancel_failed) is too.
THEOREM ProtectedTheorem == RSpec => []Protected
<1>1. RInv => Protected
  <2> SUFFICES ASSUME RInv, ~hist.exposed, ~hist.redriven, om.state \in InTrade, wire = << >>
               PROVE  om.stop \in xc.live
    BY DEF Protected, Naked
  <2>1. Mail(wire) = {}
    BY DEF Mail
  <2>2. Alive(om, xc.live, Mail(wire), om.stop)
    BY DEF RInv, Covered, HasStop
  <2> QED BY <2>1, <2>2, CallStart DEF Alive
<1> QED BY <1>1, RoutingInvariance, PTL

\* Once every message is read the position the order manager believes in is the
\* exchange's, as long as no two fills crossed: a fill on the wire is the next
\* step of the trade and is booked once, whichever delivery is read first
\* (fill_already_processed, is_stop_basket, fill_exit).
THEOREM BookMatchesTheorem == RSpec => []BookMatchesExchange
<1>1. RInv => BookMatchesExchange
  <2> SUFFICES ASSUME RInv, wire = << >>, ~hist.crossed
               PROVE CASE om.state \in {"FLAT", "PENDING_ENTRY"} -> xc.net = 0
                       [] om.state \in InTrade \cup {"PENDING_EXIT"} ->
                            xc.net = IF om.dir = "BUY" THEN 1 ELSE -1
    BY DEF BookMatchesExchange
  <2>1. Filled(Mail(wire)) = {}
    BY DEF Filled, Mail
  <2>2. xc.net = Believed(om)
    BY <2>1, BookedQuiet DEF RInv
  <2>3. om.state \in {"FLAT", "PENDING_ENTRY", "LONG", "SHORT", "PENDING_EXIT"}
    BY CallStart DEF Good, IsOMState, PosState
  <2> QED BY <2>2, <2>3 DEF Believed, Trading, InTrade
<1> QED BY <1>1, RoutingInvariance, PTL
=============================================================================
