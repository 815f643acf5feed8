------------------------- MODULE OrderManagerProofs -------------------------
(***************************************************************************)
(* The invariants of the order manager, proved for every number of orders  *)
(* and every quantity.                                                     *)
(***************************************************************************)
EXTENDS OrderManager, TLAPS

(***************************************************************************)
(* The inductive invariant, as predicates on a state record: a helper of   *)
(* the source maps a state that satisfies Good to one that does, while the *)
(* shape of the position holds only between public calls.                  *)
(***************************************************************************)

\* The guards and their rows: what GuardsPersisted, RetriesAreGuarded and
\* SessionGuardsCovered say, and that the last cancelled order is a guard whose
\* cancel is still waiting, so that the purge at FLAT keeps it.
Guards(s) ==
  /\ s.cancelled \subseteq s.dbRows
  /\ s.s2cCancelled \cup s.clientOnly \subseteq s.cancelled
  /\ s.cancelled \ s.seeded \subseteq s.s2cCancelled \cup s.clientOnly
  /\ s.lastStop \in s.s2cCancelled \cup s.clientOnly \cup {0}
  /\ s.stop \notin s.cancelled
  /\ s.dbServer \subseteq s.dbRows

\* Every id in use has been drawn: the next one is fresh.
Drawn(s) ==
  /\ s.dbRows \subseteq 1 .. s.seq
  /\ s.buys \subseteq 1 .. s.seq
  /\ s.stop <= s.seq
  /\ s.exit <= s.seq
  /\ s.tradeSeq <= s.seq

\* The orders of the current trade point out of the position, the guarded ones
\* too; a pending entry has none.
Sides(s) ==
  /\ s.stop # 0 => (s.stop \in s.buys <=> s.dir = "SELL")
  /\ s.exit # 0 => (s.exit \in s.buys <=> s.dir = "SELL")
  /\ \A b \in Baskets : s.cancelTrade[b] <= s.tradeSeq
  /\ s.state = "PENDING_ENTRY" =>
       \A b \in s.cancelled : s.cancelTrade[b] # s.tradeSeq
  /\ s.state \in {"LONG", "SHORT", "PENDING_EXIT"} =>
       \A b \in s.cancelled :
         s.cancelTrade[b] = s.tradeSeq => (b \in s.buys <=> s.dir = "SELL")

Good(s) == IsOMState(s) /\ Guards(s) /\ Drawn(s) /\ Sides(s)

IInv == Good(om) /\ HasShape(om)

-----------------------------------------------------------------------------
(* The helpers. *)

Fields == {"state", "dir", "entry", "exit", "stop", "stopServer", "lastStop",
           "pendingCancel", "seq", "tradeSeq", "cancelled", "cancelTrade",
           "s2cCancelled", "clientOnly", "s2cOrders", "unmapped", "unwinds",
           "processed", "rejectedExits", "entryHalted", "ghostHalted",
           "tradeCompleted", "dbRows", "dbServer", "out", "buys", "stops", "seeded"}

\* t and s hold the same position, but for its stop.
SamePosition(t, s) ==
  t.state = s.state /\ t.dir = s.dir /\ t.entry = s.entry /\ t.exit = s.exit

\* The members of the class, by name.
LEMMA FieldNames == DOMAIN Empty = Fields
  BY DEF Empty, Fields

\* A public call forgets what the last one sent (order_cb_ and cancel_cb_ are
\* not state of the class).
LEMMA CallGood ==
  ASSUME NEW s, Good(s)
  PROVE  /\ Good(Call(s))
         /\ SamePosition(Call(s), s)
         /\ Call(s).stop = s.stop /\ Call(s).seq = s.seq
  BY FieldNames DEF Fields, Call, Good, IsOMState, Guards, Drawn, Sides, SamePosition

\* pos_ = Position{} keeps the guards.
LEMMA ResetGood ==
  ASSUME NEW s, Good(s)
  PROVE  Good(reset_position(s)) /\ HasShape(reset_position(s))
<1>1. IsOMState(reset_position(s))
  BY BasketsAssumption, FieldNames
  DEF Fields, reset_position, Good, IsOMState, BasketId, PosState, OrbSignal
<1>2. Guards(reset_position(s)) /\ Drawn(reset_position(s)) /\ Sides(reset_position(s))
  BY FieldNames
  DEF Fields, reset_position, Good, IsOMState, Guards, Drawn, Sides, BasketId, Baskets
<1>3. HasShape(reset_position(s))
  BY FieldNames DEF Fields, reset_position, Good, IsOMState, HasShape, InTrade
<1> QED BY <1>1, <1>2, <1>3 DEF Good

\* new_basket_id() and order_cb_: a fresh id, on the side that was asked for.
LEMMA SendOrderGood ==
  ASSUME NEW s, Good(s), s.seq + 1 <= MaxBaskets,
         NEW kind \in {"entry", "exit", "stop", "unwind"},
         NEW isBuy \in BOOLEAN, NEW ok \in BOOLEAN
  PROVE  /\ Good(send_order(s, kind, isBuy, ok))
         /\ SamePosition(send_order(s, kind, isBuy, ok), s)
         /\ send_order(s, kind, isBuy, ok).stop = s.stop
         /\ send_order(s, kind, isBuy, ok).seq = s.seq + 1
         /\ s.seq + 1 \in send_order(s, kind, isBuy, ok).buys <=> isBuy
         /\ s.seq + 1 \notin send_order(s, kind, isBuy, ok).dbRows
<1> DEFINE b == s.seq + 1
           o == [op |-> "new", id |-> b, kind |-> kind, buy |-> isBuy]
           t == send_order(s, kind, isBuy, ok)
<1>1. b \in Baskets /\ b \in BasketId /\ b \notin 1 .. s.seq /\ 1 .. s.seq \subseteq 1 .. b
      /\ b \in 1 .. b /\ s.seq \in Nat
  BY SMTT(30), BasketsAssumption DEF Baskets, BasketId, Good, IsOMState
<1>2. o \in NewOrder
  BY <1>1 DEF NewOrder
<1> HIDE DEF o
<1>3. t = [s EXCEPT !.seq = b,
                    !.buys = IF isBuy THEN @ \cup {b} ELSE @,
                    !.stops = IF kind = "stop" THEN @ \cup {b} ELSE @,
                    !.out = IF ok THEN @ \cup {o} ELSE @]
  BY DEF send_order, o
<1> HIDE DEF t
<1>4. IsOMState(t)
  BY <1>1, <1>2, <1>3, FieldNames DEF Fields, Good, IsOMState
<1>5. Guards(t)
  BY <1>3, FieldNames DEF Fields, Good, IsOMState, Guards
<1>6. Drawn(t)
  BY <1>1, <1>3, FieldNames DEF Fields, Good, IsOMState, Drawn, BasketId
<1>7. Sides(t)
  BY SMTT(30), <1>1, <1>3, FieldNames DEF Fields, Good, IsOMState, Guards, Drawn, Sides, BasketId, Baskets
<1>8. /\ SamePosition(t, s) /\ t.stop = s.stop /\ t.seq = s.seq + 1
      /\ s.seq + 1 \in t.buys <=> isBuy
      /\ s.seq + 1 \notin t.dbRows
  BY <1>1, <1>3, FieldNames DEF Fields, Good, IsOMState, SamePosition, Drawn
<1> QED BY <1>4, <1>5, <1>6, <1>7, <1>8 DEF Good, t

\* cancel_cb_ changes nothing of the class.
LEMMA SendCancelGood ==
  ASSUME NEW s, Good(s), NEW b \in Baskets, NEW by \in {"server", "client"}
  PROVE  /\ Good(send_cancel(s, b, by))
         /\ SamePosition(send_cancel(s, b, by), s)
         /\ send_cancel(s, b, by).stop = s.stop
         /\ send_cancel(s, b, by).seq = s.seq
<1> DEFINE c == [op |-> "cancel", id |-> b, by |-> by]
           t == send_cancel(s, b, by)
<1>1. c \in CancelOrder
  BY DEF CancelOrder
<1> HIDE DEF c
<1>2. t = [s EXCEPT !.out = @ \cup {c}]
  BY DEF send_cancel, c
<1> HIDE DEF t
<1> QED
  BY <1>1, <1>2, FieldNames
  DEF Fields, Good, IsOMState, Guards, Drawn, Sides, SamePosition, t

\* A sent stop is the live stop, tracked in the DB, on the closing side.
LEMMA SubmitStopGood ==
  ASSUME NEW s, Good(s), s.seq + 1 <= MaxBaskets, NEW ok \in BOOLEAN,
         s.state \in InTrade, s.dir # "NONE", s.state = Held(s.dir)
  PROVE  /\ Good(submit_stop_order_locked(s, ok))
         /\ SamePosition(submit_stop_order_locked(s, ok), s)
         /\ submit_stop_order_locked(s, ok).seq = s.seq + 1
<1> DEFINE b == s.seq + 1
           isBuy == s.state # "LONG"
           u == send_order(s, "stop", isBuy, ok)
           t == submit_stop_order_locked(s, ok)
<1>1. /\ Good(u) /\ SamePosition(u, s) /\ u.stop = s.stop /\ u.seq = b
      /\ b \in u.buys <=> isBuy
      /\ b \notin u.dbRows
  <2>1. isBuy \in BOOLEAN
    OBVIOUS
  <2> HIDE DEF isBuy
  <2> QED BY <2>1, SendOrderGood
<1>2. b \in Baskets /\ b \in BasketId /\ 0 \in BasketId
  BY SMTT(30), BasketsAssumption DEF Baskets, BasketId, Good, IsOMState
<1>3. s.state # "LONG" <=> s.dir = "SELL"
  BY DEF InTrade, Held, Good, IsOMState, OrbSignal
<1>4. t = IF ok THEN [u EXCEPT !.stop = b, !.stopServer = 0, !.dbRows = @ \cup {b}]
                ELSE [u EXCEPT !.stop = 0, !.stopServer = 0]
  BY <1>1, FieldNames DEF submit_stop_order_locked, cancel_persist, Good, IsOMState, Fields
<1> HIDE DEF u, t
<1>5. IsOMState(t)
  BY <1>1, <1>2, <1>4, FieldNames DEF Fields, Good, IsOMState
<1>6. Guards(t)
  BY <1>1, <1>2, <1>4, FieldNames DEF Fields, Good, IsOMState, Guards, Baskets
<1>7. Drawn(t)
  <2>1. b \in 1 .. b /\ 0 <= b /\ b <= b
    BY <1>2 DEF Baskets
  <2> QED BY <1>1, <1>4, <2>1, FieldNames DEF Fields, Good, IsOMState, Drawn
<1>8. Sides(t)
  BY SMTT(60), <1>1, <1>2, <1>3, <1>4, FieldNames
  DEF Fields, Good, IsOMState, Sides, SamePosition, BasketId, Baskets
<1>9. SamePosition(t, s) /\ t.seq = b
  BY <1>1, <1>4, FieldNames DEF Fields, Good, IsOMState, SamePosition
<1> QED BY <1>5, <1>6, <1>7, <1>8, <1>9 DEF Good, t

\* A cancelled stop becomes a guard of the current trade, waiting for an ACK or
\* for a server id, with its row in the DB.
LEMMA CancelStopGood ==
  ASSUME NEW s, Good(s), s.state \in {"LONG", "SHORT", "PENDING_EXIT"}
  PROVE  /\ Good(cancel_stop_locked(s))
         /\ SamePosition(cancel_stop_locked(s), s)
         /\ cancel_stop_locked(s).stop = 0
         /\ cancel_stop_locked(s).seq = s.seq
<1> DEFINE b == s.stop
           known == s.stopServer # 0
           c == [op |-> "cancel", id |-> b, by |-> IF known THEN "server" ELSE "client"]
           t == cancel_stop_locked(s)
<1>1. CASE b = 0
  BY <1>1, FieldNames DEF cancel_stop_locked, SamePosition
<1>2. CASE b # 0
  <2>1. b \in Baskets /\ 0 \in BasketId
    BY <1>2, BasketsAssumption DEF Good, IsOMState, Baskets, BasketId
  <2>2. c \in CancelOrder
    BY <2>1 DEF CancelOrder
  <2> HIDE DEF c
  <2>3. t = [s EXCEPT !.lastStop = b,
                      !.cancelled = @ \cup {b},
                      !.cancelTrade = [@ EXCEPT ![b] = s.tradeSeq],
                      !.s2cCancelled = IF known THEN @ \cup {b} ELSE @,
                      !.clientOnly = IF known THEN @ ELSE @ \cup {b},
                      !.dbRows = @ \cup {b},
                      !.dbServer = IF known THEN @ \cup {b} ELSE @,
                      !.out = @ \cup {c},
                      !.stop = 0, !.stopServer = 0]
    BY ZenonT(60), <1>2, FieldNames
    DEF Fields, Good, IsOMState, cancel_stop_locked, guard_stop, cancel_persist,
        cancel_persist_server_id, send_cancel, c
  <2> HIDE DEF t
  <2>4. IsOMState(t)
    BY ZenonT(60), <2>1, <2>2, <2>3, FieldNames DEF Fields, Good, IsOMState
  <2>5. Guards(t) /\ Drawn(t)
    BY SMTT(30), <2>1, <2>3, FieldNames
    DEF Fields, Good, IsOMState, Guards, Drawn, BasketId, Baskets
  <2>6. Sides(t)
    BY SMTT(30), <2>1, <2>3, FieldNames
    DEF Fields, Good, IsOMState, Sides, BasketId, Baskets
  <2>7. SamePosition(t, s) /\ t.stop = 0 /\ t.seq = s.seq
    BY <2>3, FieldNames DEF Fields, Good, IsOMState, SamePosition
  <2> QED BY <2>4, <2>5, <2>6, <2>7 DEF Good, t
<1> QED BY <1>1, <1>2

\* The states in which a trade is on.
Trading == {"LONG", "SHORT", "PENDING_EXIT"}

\* Moving between the states of a trade, with or without an exit order on the
\* closing side, keeps the invariant; so do the rejection counter and its halt.
LEMMA TradeStateGood ==
  ASSUME NEW s, Good(s), s.state \in Trading, NEW st \in Trading,
         NEW x \in BasketId, x <= s.seq, x # 0 => (x \in s.buys <=> s.dir = "SELL"),
         NEW n \in Nat, NEW h \in BOOLEAN
  PROVE  Good([s EXCEPT !.state = st, !.exit = x, !.rejectedExits = n, !.entryHalted = h])
<1> DEFINE t == [s EXCEPT !.state = st, !.exit = x, !.rejectedExits = n, !.entryHalted = h]
<1>1. IsOMState(t)
  BY FieldNames DEF Fields, Good, IsOMState, Trading, PosState
<1>2. Guards(t) /\ Drawn(t)
  BY FieldNames DEF Fields, Good, IsOMState, Guards, Drawn
<1>3. Sides(t)
  BY FieldNames DEF Fields, Good, IsOMState, Sides, Trading
<1> QED BY <1>1, <1>2, <1>3 DEF Good

\* A position in its trade: what initiate_exit_locked starts from.
Holding(s) ==
  /\ s.state \in InTrade
  /\ s.dir # "NONE"
  /\ s.state = Held(s.dir)
  /\ s.entry # 0
  /\ s.exit = 0

LEMMA HoldingShape ==
  ASSUME NEW s, HasShape(s), s.state \in InTrade
  PROVE  Holding(s)
  BY DEF HasShape, Holding

\* The two outcomes of the exit order: it was sent, or it was not and the position
\* is as before, without its stop.
exit_order(s, ok) == send_order(cancel_stop_locked(s), "exit", s.dir = "SELL", ok)
exit_sent(s, ok) ==
  [exit_order(s, ok) EXCEPT !.state = "PENDING_EXIT", !.exit = cancel_stop_locked(s).seq + 1]
exit_failed(s, ok) ==
  [exit_sent(s, ok) EXCEPT !.exit = 0, !.state = Held(s.dir), !.rejectedExits = @ + 1,
                           !.entryHalted = @ \/ s.rejectedExits + 1 > 3]

LEMMA InitiateExitCases ==
  ASSUME NEW s, NEW ok \in BOOLEAN, NEW okStop \in BOOLEAN
  PROVE  initiate_exit_locked(s, ok, okStop) =
           IF ok THEN exit_sent(s, ok) ELSE submit_stop_order_locked(exit_failed(s, ok), okStop)
  BY DEF initiate_exit_locked, exit_sent, exit_failed, exit_order

LEMMA ExitOrderGood ==
  ASSUME NEW s, Good(s), Holding(s), s.seq + 1 <= MaxBaskets, NEW ok \in BOOLEAN
  PROVE  /\ Good(exit_sent(s, ok)) /\ HasShape(exit_sent(s, ok))
         /\ Good(exit_failed(s, ok)) /\ Holding(exit_failed(s, ok))
         /\ exit_failed(s, ok).seq = s.seq + 1 /\ exit_failed(s, ok).stop = 0
<1> DEFINE c == cancel_stop_locked(s)
           isBuy == s.dir = "SELL"
           o == send_order(c, "exit", isBuy, ok)
           b == c.seq + 1
           x == [o EXCEPT !.state = "PENDING_EXIT", !.exit = b]
           r == [x EXCEPT !.exit = 0, !.state = Held(s.dir),
                          !.rejectedExits = @ + 1,
                          !.entryHalted = @ \/ s.rejectedExits + 1 > 3]
<1>1. Good(c) /\ SamePosition(c, s) /\ c.stop = 0 /\ c.seq = s.seq
  BY CancelStopGood DEF Holding, InTrade
<1>2. /\ s.seq \in Nat /\ s.seq + 1 <= MaxBaskets /\ b \in BasketId /\ b # 0 /\ 0 \in BasketId
  BY <1>1, BasketsAssumption DEF Good, IsOMState, BasketId
<1>3. /\ Good(o) /\ SamePosition(o, c) /\ o.stop = 0 /\ o.seq = b
      /\ b \in o.buys <=> isBuy
  <2>1. isBuy \in BOOLEAN
    OBVIOUS
  <2> HIDE DEF isBuy, c
  <2> QED BY <1>1, <1>2, <2>1, SendOrderGood
<1>0. x = exit_sent(s, ok) /\ r = exit_failed(s, ok)
  BY DEF exit_sent, exit_failed, exit_order
<1> HIDE DEF c, o
<1>4. o.state \in Trading /\ o.dir = s.dir /\ o.entry = s.entry
  BY <1>1, <1>3 DEF SamePosition, Holding, InTrade, Trading
<1>5. Good(x) /\ HasShape(x)
  <2>1. x = [o EXCEPT !.state = "PENDING_EXIT", !.exit = b,
                      !.rejectedExits = o.rejectedExits, !.entryHalted = o.entryHalted]
    BY <1>3, FieldNames DEF Fields, Good, IsOMState
  <2>2. Good(x)
    <3>1. "PENDING_EXIT" \in Trading /\ b <= o.seq /\ (b \in o.buys <=> o.dir = "SELL")
      BY <1>2, <1>3, <1>4 DEF Trading, BasketId
    <3>2. o.rejectedExits \in Nat /\ o.entryHalted \in BOOLEAN
      BY <1>3 DEF Good, IsOMState
    <3> HIDE DEF b
    <3>3. Good([o EXCEPT !.state = "PENDING_EXIT", !.exit = b,
                         !.rejectedExits = o.rejectedExits, !.entryHalted = o.entryHalted])
      BY <1>2, <1>3, <1>4, <3>1, <3>2, TradeStateGood
    <3> QED BY <2>1, <3>3
  <2>3. HasShape(x)
    BY <1>2, <1>3, <1>4, FieldNames DEF Fields, Good, IsOMState, HasShape, Holding, InTrade
  <2> QED BY <2>2, <2>3
<1>6. Good(r) /\ Holding(r) /\ r.seq = b /\ r.stop = 0
  <2> DEFINE h == o.entryHalted \/ s.rejectedExits + 1 > 3
  <2>1. r = [o EXCEPT !.state = Held(s.dir), !.exit = 0,
                      !.rejectedExits = o.rejectedExits + 1, !.entryHalted = h]
    BY <1>3, FieldNames DEF Fields, Good, IsOMState
  <2>2. Held(s.dir) \in Trading /\ Held(s.dir) \in InTrade
    BY DEF Held, Trading, InTrade
  <2>3. o.rejectedExits + 1 \in Nat /\ h \in BOOLEAN
    BY <1>3 DEF Good, IsOMState
  <2>4. 0 <= o.seq
    BY <1>3, <1>2 DEF BasketId
  <2>5. Good(r)
    <3> HIDE DEF h
    <3>1. Good([o EXCEPT !.state = Held(s.dir), !.exit = 0,
                         !.rejectedExits = o.rejectedExits + 1, !.entryHalted = h])
      BY <1>2, <1>3, <1>4, <2>2, <2>3, <2>4, TradeStateGood
    <3> QED BY <2>1, <3>1
  <2>6. Holding(r) /\ r.seq = b /\ r.stop = 0
    BY <1>3, <1>4, <2>1, <2>2, FieldNames DEF Fields, Good, IsOMState, Holding
  <2> QED BY <2>5, <2>6
<1> HIDE DEF x, r
<1> QED BY <1>0, <1>1, <1>5, <1>6

\* An exit replaces the stop, or both are put back: either way the position has
\* the shape its state promises.
LEMMA InitiateExitRoom ==
  ASSUME NEW s, Good(s), Holding(s), s.seq + 1 <= MaxBaskets,
         NEW ok \in BOOLEAN, NEW okStop \in BOOLEAN, ok \/ s.seq + 2 <= MaxBaskets
  PROVE  /\ Good(initiate_exit_locked(s, ok, okStop))
         /\ HasShape(initiate_exit_locked(s, ok, okStop))
<1> DEFINE x == exit_sent(s, ok)
           r == exit_failed(s, ok)
           y == submit_stop_order_locked(r, okStop)
<1>1. Good(x) /\ HasShape(x) /\ Good(r) /\ Holding(r) /\ r.seq = s.seq + 1
  BY ExitOrderGood
<1>2. initiate_exit_locked(s, ok, okStop) = IF ok THEN x ELSE y
  BY InitiateExitCases
<1> HIDE DEF r, x
<1>3. ASSUME ~ok PROVE Good(y) /\ HasShape(y)
  <2>1. r.seq + 1 <= MaxBaskets
    BY <1>1, <1>3 DEF Good, IsOMState, BasketId
  <2>2. Good(y) /\ SamePosition(y, r)
    BY <1>1, <2>1, SubmitStopGood DEF Holding
  <2> HIDE DEF y
  <2>3. HasShape(y)
    BY <1>1, <2>2 DEF Holding, SamePosition, HasShape, InTrade
  <2> QED BY <2>2, <2>3
<1> HIDE DEF y
<1> QED BY <1>1, <1>2, <1>3

LEMMA InitiateExitGood ==
  ASSUME NEW s, Good(s), Holding(s), s.seq + 2 <= MaxBaskets,
         NEW ok \in BOOLEAN, NEW okStop \in BOOLEAN
  PROVE  /\ Good(initiate_exit_locked(s, ok, okStop))
         /\ HasShape(initiate_exit_locked(s, ok, okStop))
<1>1. s.seq + 1 <= MaxBaskets
  BY BasketsAssumption DEF Good, IsOMState, BasketId
<1> QED BY <1>1, InitiateExitRoom

\* The stop is replaced, or submitted when there was none.
LEMMA UpdateStopGood ==
  ASSUME NEW s, Good(s), Holding(s), s.seq + 1 <= MaxBaskets, NEW ok \in BOOLEAN
  PROVE  /\ Good(update_stop_order_locked(s, ok))
         /\ HasShape(update_stop_order_locked(s, ok))
<1> DEFINE c == cancel_stop_locked(s)
           y == submit_stop_order_locked(c, ok)
<1>1. Good(c) /\ SamePosition(c, s) /\ c.seq = s.seq
  BY CancelStopGood DEF Holding, InTrade
<1> HIDE DEF c
<1>2. Good(y) /\ SamePosition(y, c)
  BY <1>1, SubmitStopGood DEF Holding, SamePosition
<1>3. update_stop_order_locked(s, ok) = y
  BY DEF update_stop_order_locked, c
<1> HIDE DEF y
<1>4. HasShape(y)
  BY <1>1, <1>2 DEF Holding, SamePosition, HasShape, InTrade
<1> QED BY <1>2, <1>3, <1>4

\* A row is deleted only of an order that is not guarded.
LEMMA CancelRemoveGood ==
  ASSUME NEW s, Good(s), NEW b \in BasketId, b \notin s.cancelled
  PROVE  /\ Good(cancel_remove(s, b))
         /\ SamePosition(cancel_remove(s, b), s)
         /\ cancel_remove(s, b).stop = s.stop
         /\ cancel_remove(s, b).seq = s.seq
         /\ cancel_remove(s, b).cancelled = s.cancelled
  BY FieldNames
  DEF Fields, cancel_remove, Good, IsOMState, Guards, Drawn, Sides, SamePosition

\* A resolved guard leaves every map at once.
LEMMA DropGuardGood ==
  ASSUME NEW s, Good(s), NEW b \in BasketId
  PROVE  /\ Good(drop_guard(s, b))
         /\ SamePosition(drop_guard(s, b), s)
         /\ drop_guard(s, b).stop = s.stop
         /\ drop_guard(s, b).seq = s.seq
         /\ drop_guard(s, b).cancelled = s.cancelled \ {b}
<1> DEFINE t == drop_guard(s, b)
<1>1. IsOMState(t)
  BY BasketsAssumption, FieldNames DEF Fields, drop_guard, Good, IsOMState, BasketId
<1>2. Guards(t)
  BY FieldNames DEF Fields, drop_guard, Good, IsOMState, Guards
<1>3. Drawn(t) /\ Sides(t)
  BY FieldNames DEF Fields, drop_guard, Good, IsOMState, Drawn, Sides
<1>4. SamePosition(t, s) /\ t.stop = s.stop /\ t.seq = s.seq /\ t.cancelled = s.cancelled \ {b}
  BY FieldNames DEF Fields, drop_guard, Good, IsOMState, SamePosition
<1> QED BY <1>1, <1>2, <1>3, <1>4 DEF Good

\* on_cancel_confirmed: the guard and its row go together.
LEMMA ConfirmGood ==
  ASSUME NEW s, Good(s), NEW b \in BasketId
  PROVE  /\ Good(on_cancel_confirmed(s, b))
         /\ SamePosition(on_cancel_confirmed(s, b), s)
         /\ on_cancel_confirmed(s, b).stop = s.stop
         /\ on_cancel_confirmed(s, b).seq = s.seq
         /\ on_cancel_confirmed(s, b).cancelled = s.cancelled \ {b}
<1> DEFINE d == drop_guard(s, b)
<1>1. /\ Good(d) /\ SamePosition(d, s) /\ d.stop = s.stop /\ d.seq = s.seq
      /\ d.cancelled = s.cancelled \ {b}
  BY DropGuardGood
<1> HIDE DEF d
<1>2. /\ Good(cancel_remove(d, b)) /\ SamePosition(cancel_remove(d, b), d)
      /\ cancel_remove(d, b).stop = d.stop /\ cancel_remove(d, b).seq = d.seq
      /\ cancel_remove(d, b).cancelled = d.cancelled
  BY <1>1, CancelRemoveGood
<1>3. on_cancel_confirmed(s, b) = cancel_remove(d, b)
  BY DEF on_cancel_confirmed, d
<1> QED BY <1>1, <1>2, <1>3 DEF SamePosition

\* The shape is a matter of the position alone.
LEMMA SameShape ==
  ASSUME NEW s, NEW t, HasShape(s), SamePosition(t, s), t.stop = s.stop
  PROVE  HasShape(t)
  BY DEF HasShape, SamePosition

-----------------------------------------------------------------------------
(* The public methods. *)

LEMMA OnSignalGood ==
  ASSUME NEW s, Good(s), HasShape(s), s.seq + 1 <= MaxBaskets,
         NEW sig \in {"BUY", "SELL"}, NEW canTrade \in BOOLEAN, NEW ok \in BOOLEAN
  PROVE  Good(on_signal(s, sig, canTrade, ok)) /\ HasShape(on_signal(s, sig, canTrade, ok))
<1> DEFINE isBuy == sig = "BUY"
           b == s.seq + 1
           u == send_order(s, "entry", isBuy, ok)
           t == [u EXCEPT !.state = "PENDING_ENTRY", !.dir = sig, !.entry = b,
                          !.exit = 0, !.stop = 0, !.tradeSeq = @ + 1]
           p == [s EXCEPT !.state = "PENDING_ENTRY", !.dir = sig, !.entry = b,
                          !.exit = 0, !.stop = 0, !.tradeSeq = @ + 1]
<1>1. /\ Good(u) /\ u.seq = b /\ SamePosition(u, s) /\ u.tradeSeq = s.tradeSeq
  <2>1. isBuy \in BOOLEAN
    OBVIOUS
  <2>2. u.tradeSeq = s.tradeSeq
    BY FieldNames DEF Fields, send_order, Good, IsOMState
  <2> HIDE DEF isBuy
  <2> QED BY <2>1, <2>2, SendOrderGood
<1>2. s.tradeSeq + 1 \in BasketId /\ s.tradeSeq + 1 <= b /\ b \in BasketId /\ b # 0 /\ 0 \in BasketId
  BY BasketsAssumption DEF Good, IsOMState, Drawn, BasketId
<1>3. send_order(p, "entry", isBuy, ok) = t
  <2> DEFINE B == IF isBuy THEN s.buys \cup {b} ELSE s.buys
             O == IF ok THEN s.out \cup {[op |-> "new", id |-> b, kind |-> "entry",
                                          buy |-> isBuy]} ELSE s.out
  <2>1. u = [s EXCEPT !.seq = b, !.buys = B, !.stops = s.stops, !.out = O]
    BY DEF send_order
  <2>2. /\ p.seq = s.seq /\ p.buys = s.buys /\ p.stops = s.stops /\ p.out = s.out
    BY FieldNames DEF Fields, Good, IsOMState
  <2> HIDE DEF p
  <2>3. send_order(p, "entry", isBuy, ok)
          = [p EXCEPT !.seq = b, !.buys = B, !.stops = s.stops, !.out = O]
    BY <2>2 DEF send_order
  <2> HIDE DEF u, B, O, b
  <2> QED BY ZenonT(60), <2>1, <2>3, FieldNames DEF Fields, Good, IsOMState, p
<1> HIDE DEF u
<1>4. IsOMState(t)
  BY <1>1, <1>2, FieldNames DEF Fields, Good, IsOMState, PosState, OrbSignal
<1>5. Guards(t)
  BY <1>1, FieldNames DEF Fields, Good, IsOMState, Guards, Baskets
<1>6. Drawn(t)
  BY <1>1, <1>2, FieldNames DEF Fields, Good, IsOMState, Drawn, BasketId
<1>7. Sides(t)
  BY <1>1, <1>2, FieldNames DEF Fields, Good, IsOMState, Sides, BasketId
<1>8. HasShape(t)
  BY <1>1, <1>2, FieldNames DEF Fields, Good, IsOMState, HasShape, InTrade
<1>9. Good(t)
  BY <1>4, <1>5, <1>6, <1>7 DEF Good
<1>10. Good(reset_position(t)) /\ HasShape(reset_position(t))
  BY <1>9, ResetGood
<1>11. \/ on_signal(s, sig, canTrade, ok) = s
       \/ on_signal(s, sig, canTrade, ok) = t
       \/ on_signal(s, sig, canTrade, ok) = reset_position(t)
  BY <1>3 DEF on_signal
<1> HIDE DEF t
<1> QED BY <1>8, <1>9, <1>10, <1>11

\* An unwind order is sent, registered or not, without touching the position.
LEMMA UnwindGood ==
  ASSUME NEW s, Good(s), HasShape(s), s.seq + 1 <= MaxBaskets, NEW isBuy \in BOOLEAN,
         NEW ok \in BOOLEAN
  PROVE  LET t == send_order(s, "unwind", isBuy, ok) IN
         /\ Good(t) /\ HasShape(t)
         /\ Good([t EXCEPT !.unwinds = @ \cup {s.seq + 1}])
         /\ HasShape([t EXCEPT !.unwinds = @ \cup {s.seq + 1}])
<1> DEFINE t == send_order(s, "unwind", isBuy, ok)
           b == s.seq + 1
           v == [t EXCEPT !.unwinds = @ \cup {b}]
<1>1. Good(t) /\ SamePosition(t, s) /\ t.stop = s.stop
  BY SendOrderGood
<1>2. b \in Baskets
  <2>1. s.seq \in 0 .. MaxBaskets
    BY DEF Good, IsOMState, BasketId
  <2> QED BY <2>1, BasketsAssumption DEF Baskets
<1> HIDE DEF t, b
<1>3. Good(v) /\ SamePosition(v, t) /\ v.stop = t.stop
  BY <1>1, <1>2, FieldNames DEF Fields, Good, IsOMState, Guards, Drawn, Sides, SamePosition
<1> HIDE DEF v
<1>4. HasShape(t) /\ HasShape(v)
  BY <1>1, <1>3 DEF HasShape, SamePosition
<1> QED BY <1>1, <1>3, <1>4 DEF v, t, b

\* The entry has filled: the position is held, its stop not yet sent.
taken(s) == [s EXCEPT !.state = Held(s.dir), !.pendingCancel = 0]

LEMMA TakenGood ==
  ASSUME NEW s, Good(s), HasShape(s), s.state = "PENDING_ENTRY"
  PROVE  Good(taken(s)) /\ Holding(taken(s)) /\ taken(s).seq = s.seq /\ taken(s).stop = 0
<1> DEFINE p == [s EXCEPT !.state = Held(s.dir), !.pendingCancel = 0]
<1>1. s.dir # "NONE" /\ s.entry # 0 /\ s.exit = 0 /\ s.stop = 0 /\ s.dir \in OrbSignal
  BY DEF HasShape, Good, IsOMState
<1>2. Held(s.dir) \in InTrade /\ Held(s.dir) \in PosState /\ 0 \in BasketId
  BY BasketsAssumption DEF Held, InTrade, PosState, BasketId
<1>3. IsOMState(p) /\ Guards(p) /\ Drawn(p)
  BY <1>2, FieldNames DEF Fields, Good, IsOMState, Guards, Drawn
<1>4. Sides(p)
  BY <1>2, FieldNames DEF Fields, Good, IsOMState, Sides, InTrade
<1>5. Holding(p) /\ p.seq = s.seq /\ p.stop = 0
  BY <1>1, <1>2, FieldNames DEF Fields, Good, IsOMState, Holding
<1> QED BY <1>3, <1>4, <1>5 DEF Good, taken

\* The fill of the entry sends the stop, that of a cancelled entry an unwind.
LEMMA FillEntryGood ==
  ASSUME NEW s, Good(s), HasShape(s), s.seq + 1 <= MaxBaskets, NEW b \in BasketId,
         NEW q \in 1 .. Qty, NEW ok \in BOOLEAN
  PROVE  Good(fill_entry(s, b, q, ok)) /\ HasShape(fill_entry(s, b, q, ok))
<1> DEFINE late == s.state # "PENDING_ENTRY" /\ s.pendingCancel # 0 /\ b = s.pendingCancel
           full == s.state = "PENDING_ENTRY" /\ s.entry = b /\ q >= Qty
<1>1. CASE late
  <2> DEFINE isBuy == b \notin s.buys
             p == [s EXCEPT !.pendingCancel = 0]
  <2>1. isBuy \in BOOLEAN
    OBVIOUS
  <2>2. fill_entry(s, b, q, ok) = send_order(p, "unwind", isBuy, ok)
    BY <1>1 DEF fill_entry
  <2>3. Good(p) /\ SamePosition(p, s) /\ p.stop = s.stop /\ p.seq = s.seq
    BY BasketsAssumption, FieldNames
    DEF Fields, Good, IsOMState, Guards, Drawn, Sides, SamePosition, BasketId
  <2> HIDE DEF p, isBuy
  <2>4. HasShape(p)
    BY <2>3 DEF SamePosition, HasShape
  <2> QED BY <2>1, <2>2, <2>3, <2>4, UnwindGood
<1>2. CASE full
  <2> DEFINE p == taken(s)
             y == submit_stop_order_locked(p, ok)
  <2>1. fill_entry(s, b, q, ok) = submit_stop_order_locked(p, ok)
    BY <1>2 DEF fill_entry, taken
  <2>2. Good(p) /\ Holding(p) /\ p.seq = s.seq
    BY <1>2, TakenGood
  <2> HIDE DEF p
  <2>3. Good(y) /\ SamePosition(y, p)
    BY <2>2, SubmitStopGood DEF Holding
  <2> HIDE DEF y
  <2>4. HasShape(y)
    BY <2>2, <2>3 DEF Holding, SamePosition, HasShape, InTrade
  <2> QED BY <2>1, <2>3, <2>4 DEF y
<1>3. CASE ~late /\ ~full
  <2>1. fill_entry(s, b, q, ok) = s
    BY <1>3 DEF fill_entry
  <2> QED BY <2>1
<1> QED BY <1>1, <1>2, <1>3

LEMMA FillFlatGood ==
  ASSUME NEW s, Good(s), HasShape(s), s.seq + 1 <= MaxBaskets, NEW b \in BasketId,
         NEW ok \in BOOLEAN
  PROVE  Good(fill_flat(s, b, ok)) /\ HasShape(fill_flat(s, b, ok))
<1> DEFINE guarded == b # 0 /\ (b = s.lastStop \/ b \in s.cancelled)
           unwind == b \in s.unwinds /\ b # s.lastStop /\ b \notin s.cancelled
<1>1. CASE guarded
  <2> DEFINE d == on_cancel_confirmed(s, b)
             isBuy == b \notin d.buys
             t == send_order(d, "unwind", isBuy, ok)
             v == [t EXCEPT !.unwinds = @ \cup {d.seq + 1}]
  <2>1. fill_flat(s, b, ok) = IF ok THEN v ELSE t
    BY <1>1 DEF fill_flat, send_unwind_order, on_cancel_confirmed
  <2>2. Good(d) /\ SamePosition(d, s) /\ d.stop = s.stop /\ d.seq = s.seq
    BY ConfirmGood
  <2>3. isBuy \in BOOLEAN
    OBVIOUS
  <2> HIDE DEF d, isBuy
  <2>4. HasShape(d)
    BY <2>2 DEF SamePosition, HasShape
  <2>5. Good(t) /\ HasShape(t) /\ Good(v) /\ HasShape(v)
    BY <2>2, <2>3, <2>4, UnwindGood
  <2> QED BY <2>1, <2>5
<1>2. CASE ~guarded
  <2> DEFINE U == IF unwind THEN s.unwinds \ {b} ELSE s.unwinds
             h == ~unwind
             t == [s EXCEPT !.unwinds = U, !.ghostHalted = h]
  <2>1. fill_flat(s, b, ok) = t
    <3>1. CASE unwind
      BY <1>2, <3>1, FieldNames DEF fill_flat, Fields, Good, IsOMState
    <3>2. CASE ~unwind
      <4>1. fill_flat(s, b, ok) = [s EXCEPT !.ghostHalted = TRUE]
        BY <1>2, <3>2 DEF fill_flat
      <4> QED BY <3>2, <4>1, FieldNames DEF Fields, Good, IsOMState
    <3> QED BY <3>1, <3>2
  <2>2. U \in SUBSET Baskets /\ h \in BOOLEAN
    BY DEF Good, IsOMState
  <2> HIDE DEF U, h
  <2>3. Good(t) /\ SamePosition(t, s) /\ t.stop = s.stop
    BY <2>2, FieldNames DEF Fields, Good, IsOMState, Guards, Drawn, Sides, SamePosition
  <2> HIDE DEF t
  <2> QED BY <2>1, <2>3 DEF SamePosition, HasShape
<1> QED BY <1>1, <1>2

\* The order that filled is no guard any more.
unguarded(s, b) ==
  IF b \in s.cancelled
  THEN cancel_remove([drop_guard(s, b) EXCEPT !.cancelTrade[b] = 0], b) ELSE s

LEMMA UnguardedGood ==
  ASSUME NEW s, Good(s), NEW b \in BasketId
  PROVE  LET g == unguarded(s, b) IN
         Good(g) /\ SamePosition(g, s) /\ g.stop = s.stop /\ b \notin g.cancelled
<1> DEFINE d == drop_guard(s, b)
           e == [d EXCEPT !.cancelTrade[b] = 0]
<1>1. CASE b \in s.cancelled
  <2>1. Good(d) /\ SamePosition(d, s) /\ d.stop = s.stop /\ d.cancelled = s.cancelled \ {b}
    BY DropGuardGood
  <2>2. b \in Baskets /\ 0 \in BasketId
    BY <1>1, BasketsAssumption DEF Good, IsOMState, BasketId
  <2> HIDE DEF d
  <2>3. IsOMState(e) /\ Guards(e) /\ Drawn(e)
    BY <2>1, <2>2, FieldNames DEF Fields, Good, IsOMState, Guards, Drawn
  <2>4. Sides(e)
    BY <2>1, <2>2, FieldNames DEF Fields, Good, IsOMState, Sides, BasketId
  <2>5. SamePosition(e, d) /\ e.stop = d.stop /\ e.cancelled = d.cancelled
    BY <2>1, FieldNames DEF Fields, Good, IsOMState, SamePosition
  <2> HIDE DEF e
  <2>6. /\ Good(cancel_remove(e, b)) /\ SamePosition(cancel_remove(e, b), e)
        /\ cancel_remove(e, b).stop = e.stop
        /\ cancel_remove(e, b).cancelled = e.cancelled
    BY <2>1, <2>3, <2>4, <2>5, CancelRemoveGood DEF Good
  <2>7. unguarded(s, b) = cancel_remove(e, b)
    BY <1>1 DEF unguarded, e, d
  <2> QED BY <2>1, <2>5, <2>6, <2>7 DEF SamePosition
<1>2. CASE b \notin s.cancelled
  <2>1. unguarded(s, b) = s
    BY <1>2 DEF unguarded
  <2> QED BY <1>2, <2>1 DEF SamePosition
<1> QED BY <1>1, <1>2

\* The close: the guard of the order that filled is dropped, the stop that did not
\* fill is cancelled, and the purge keeps what is not acknowledged.
LEMMA FillExitGood ==
  ASSUME NEW s, Good(s), s.state \in Trading, NEW b \in BasketId
  PROVE  Good(fill_exit(s, b)) /\ HasShape(fill_exit(s, b))
<1> DEFINE g == unguarded(s, b)
           c == IF g.stop = b THEN cancel_remove(g, b) ELSE cancel_stop_locked(g)
           f == reset_position(c)
           K == c.cancelled \cap (c.s2cCancelled \cup c.clientOnly)
           t == [f EXCEPT !.rejectedExits = 0, !.entryHalted = FALSE,
                          !.tradeCompleted = TRUE, !.s2cOrders = {}, !.cancelled = K,
                          !.unwinds = {}, !.dbRows = @ \ (c.cancelled \ K),
                          !.dbServer = @ \ (c.cancelled \ K)]
<1>1. fill_exit(s, b) = t
  BY DEF fill_exit, keep_at_flat, unguarded
<1>2. Good(g) /\ SamePosition(g, s) /\ g.stop = s.stop /\ b \notin g.cancelled
  BY UnguardedGood
<1> HIDE DEF g
<1>3. Good(c)
  <2>1. g.state \in {"LONG", "SHORT", "PENDING_EXIT"}
    BY <1>2 DEF SamePosition, Trading
  <2> QED BY <1>2, <2>1, CancelRemoveGood, CancelStopGood
<1> HIDE DEF c
<1>4. Good(f) /\ HasShape(f)
  BY <1>3, ResetGood
<1>5. /\ f.state = "FLAT" /\ f.stop = 0
      /\ f.cancelled = c.cancelled /\ f.s2cCancelled = c.s2cCancelled
      /\ f.clientOnly = c.clientOnly
  BY <1>3, FieldNames DEF Fields, reset_position, Good, IsOMState
<1>6. K \subseteq f.cancelled /\ f.s2cCancelled \cup f.clientOnly \subseteq K
  BY <1>4, <1>5 DEF Good, Guards
<1> HIDE DEF f, K
<1>7. IsOMState(t)
  BY <1>4, <1>5, <1>6, FieldNames DEF Fields, Good, IsOMState
<1>8. Guards(t)
  BY <1>4, <1>5, <1>6, FieldNames DEF Fields, Good, IsOMState, Guards
<1>9. Drawn(t) /\ Sides(t)
  BY <1>4, <1>5, <1>6, FieldNames DEF Fields, Good, IsOMState, Drawn, Sides
<1>10. HasShape(t)
  BY <1>4, <1>5, FieldNames DEF Fields, Good, IsOMState, HasShape
<1> QED BY <1>1, <1>7, <1>8, <1>9, <1>10 DEF Good

LEMMA FillGood ==
  ASSUME NEW s, Good(s), HasShape(s), s.seq + 1 <= MaxBaskets, NEW b \in BasketId,
         NEW q \in 1 .. Qty, NEW isEntry \in BOOLEAN, NEW ok \in BOOLEAN
  PROVE  /\ Good(on_fill_notification(s, b, q, isEntry, ok))
         /\ HasShape(on_fill_notification(s, b, q, isEntry, ok))
<1>1. s.state \in PosState
  BY DEF Good, IsOMState
<1>2. CASE isEntry
  <2>1. on_fill_notification(s, b, q, isEntry, ok) = fill_entry(s, b, q, ok)
    BY <1>2 DEF on_fill_notification
  <2> QED BY <2>1, FillEntryGood
<1>3. CASE ~isEntry /\ s.state \in {"FLAT", "PENDING_ENTRY"}
  <2>1. on_fill_notification(s, b, q, isEntry, ok) = fill_flat(s, b, ok)
    BY <1>3 DEF on_fill_notification, InTrade
  <2> QED BY <2>1, FillFlatGood
<1>4. CASE ~isEntry /\ s.state \in Trading
  <2>1. on_fill_notification(s, b, q, isEntry, ok) = IF q >= Qty THEN fill_exit(s, b) ELSE s
    BY <1>4 DEF on_fill_notification, InTrade, Trading
  <2> QED BY <1>4, <2>1, FillExitGood
<1> QED BY <1>1, <1>2, <1>3, <1>4 DEF PosState, Trading

\* Cancelling an entry or an exit order only adds to unmapped_order_cancels_.
LEMMA CancelOrderGood ==
  ASSUME NEW s, Good(s), NEW b \in Baskets
  PROVE  /\ Good(cancel_order_locked(s, b))
         /\ SamePosition(cancel_order_locked(s, b), s)
         /\ cancel_order_locked(s, b).stop = s.stop
         /\ cancel_order_locked(s, b).seq = s.seq
         /\ cancel_order_locked(s, b).cancelled = s.cancelled
<1> DEFINE m == [s EXCEPT !.unmapped = @ \cup {b}]
<1>1. Good(m) /\ SamePosition(m, s) /\ m.stop = s.stop /\ m.seq = s.seq /\ m.cancelled = s.cancelled
  BY FieldNames DEF Fields, Good, IsOMState, Guards, Drawn, Sides, SamePosition
<1>2. cancel_order_locked(s, b) = IF b \in s.s2cOrders THEN send_cancel(s, b, "server")
                                  ELSE send_cancel(m, b, "client")
  BY DEF cancel_order_locked
<1>3. /\ send_cancel(s, b, "server").cancelled = s.cancelled
      /\ send_cancel(m, b, "client").cancelled = s.cancelled
  BY FieldNames DEF Fields, Good, IsOMState, send_cancel
<1> HIDE DEF m
<1> QED BY <1>1, <1>2, <1>3, SendCancelGood DEF SamePosition

\* A cancelled entry leaves the position flat and its basket in the late-fill guard.
LEMMA CancelPendingEntryGood ==
  ASSUME NEW s, Good(s), HasShape(s), s.state = "PENDING_ENTRY"
  PROVE  Good(cancel_pending_entry(s)) /\ HasShape(cancel_pending_entry(s))
<1> DEFINE p == [s EXCEPT !.pendingCancel = s.entry]
<1>1. s.entry \in Baskets
  BY BasketsAssumption DEF Good, IsOMState, HasShape, Baskets, BasketId
<1>2. Good(p)
  BY <1>1, FieldNames DEF Fields, Good, IsOMState, Guards, Drawn, Sides
<1> HIDE DEF p
<1>3. Good(cancel_order_locked(p, s.entry))
  BY <1>1, <1>2, CancelOrderGood
<1> QED BY <1>3, ResetGood DEF cancel_pending_entry, p

LEMMA FlattenGood ==
  ASSUME NEW s, Good(s), HasShape(s), s.seq + 2 <= MaxBaskets,
         NEW ok \in BOOLEAN, NEW okStop \in BOOLEAN
  PROVE  Good(flatten_now(s, ok, okStop)) /\ HasShape(flatten_now(s, ok, okStop))
<1>1. s.state \in PosState
  BY DEF Good, IsOMState
<1>2. CASE s.state = "PENDING_ENTRY"
  BY <1>2, CancelPendingEntryGood DEF flatten_now, InTrade
<1>3. CASE s.state \in InTrade
  <2>1. flatten_now(s, ok, okStop) = initiate_exit_locked(s, ok, okStop)
    BY <1>3 DEF flatten_now, InTrade
  <2> QED BY <1>3, <2>1, HoldingShape, InitiateExitGood
<1>4. CASE s.state \in {"FLAT", "PENDING_EXIT"}
  <2>1. flatten_now(s, ok, okStop) = s
    BY <1>4 DEF flatten_now, InTrade
  <2> QED BY <2>1
<1> QED BY <1>1, <1>2, <1>3, <1>4 DEF PosState, InTrade

\* The stuck exit as a guard of its trade, its cancel sent, the position held again.
released(s) ==
  LET b == s.exit
      known == b \in s.s2cOrders IN
  [s EXCEPT !.s2cCancelled = IF known THEN @ \cup {b} ELSE @,
            !.clientOnly = IF known THEN @ ELSE @ \cup {b},
            !.cancelTrade = [@ EXCEPT ![b] = s.tradeSeq],
            !.unmapped = IF known THEN @ ELSE @ \cup {b},
            !.out = @ \cup {[op |-> "cancel", id |-> b,
                              by |-> IF known THEN "server" ELSE "client"]},
            !.cancelled = @ \cup {b}, !.lastStop = b, !.dbRows = @ \cup {b},
            !.exit = 0, !.state = Held(s.dir)]

\* The stuck exit becomes a guard of the trade and a fresh exit replaces it.
LEMMA ReleasedGood ==
  ASSUME NEW s, Good(s), HasShape(s), s.state = "PENDING_EXIT",
         NEW ok \in BOOLEAN, NEW okStop \in BOOLEAN
  PROVE  /\ retry_stuck_exit(s, ok, okStop) = initiate_exit_locked(released(s), ok, okStop)
         /\ Good(released(s)) /\ Holding(released(s)) /\ released(s).seq = s.seq
<1> DEFINE b == s.exit
           known == b \in s.s2cOrders
           g == [s EXCEPT !.s2cCancelled = IF known THEN @ \cup {b} ELSE @,
                          !.clientOnly = IF known THEN @ ELSE @ \cup {b},
                          !.cancelTrade = [@ EXCEPT ![b] = s.tradeSeq]]
           k == cancel_order_locked(g, b)
           c == cancel_persist([k EXCEPT !.cancelled = @ \cup {b}, !.lastStop = b], b)
           r == [c EXCEPT !.exit = 0, !.state = Held(s.dir)]
<1>1. retry_stuck_exit(s, ok, okStop) = initiate_exit_locked(r, ok, okStop)
  BY DEF retry_stuck_exit
<1>2. /\ b \in Baskets /\ 0 \in BasketId /\ b <= s.seq /\ b \in 1 .. s.seq
      /\ s.dir # "NONE" /\ s.dir \in OrbSignal
      /\ s.entry # 0 /\ s.stop = 0 /\ (b \in s.buys <=> s.dir = "SELL")
  <2>1. /\ s.dir # "NONE" /\ s.dir \in OrbSignal /\ s.entry # 0 /\ s.stop = 0 /\ b # 0
    BY DEF Good, IsOMState, HasShape
  <2>2. b \in 0 .. MaxBaskets /\ s.seq \in 0 .. MaxBaskets /\ b <= s.seq
    BY DEF Good, IsOMState, Drawn, BasketId
  <2>3. b \in s.buys <=> s.dir = "SELL"
    BY <2>1 DEF Good, Sides
  <2> QED BY <2>1, <2>2, <2>3, BasketsAssumption DEF Baskets, BasketId
<1>3. Held(s.dir) \in InTrade /\ Held(s.dir) \in PosState
  BY DEF Held, InTrade, PosState
<1> DEFINE S == IF known THEN s.s2cCancelled \cup {b} ELSE s.s2cCancelled
           C == IF known THEN s.clientOnly ELSE s.clientOnly \cup {b}
           T == [s.cancelTrade EXCEPT ![b] = s.tradeSeq]
           M == IF known THEN s.unmapped ELSE s.unmapped \cup {b}
           O == s.out \cup {[op |-> "cancel", id |-> b,
                             by |-> IF known THEN "server" ELSE "client"]}
<1>4. r = [s EXCEPT !.s2cCancelled = S, !.clientOnly = C, !.cancelTrade = T,
                    !.unmapped = M, !.out = O, !.cancelled = @ \cup {b},
                    !.lastStop = b, !.dbRows = @ \cup {b},
                    !.exit = 0, !.state = Held(s.dir)]
  <2>1. g = [s EXCEPT !.s2cCancelled = S, !.clientOnly = C, !.cancelTrade = T]
    OBVIOUS
  <2>2. g.s2cOrders = s.s2cOrders /\ g.unmapped = s.unmapped /\ g.out = s.out
    BY FieldNames DEF Fields, Good, IsOMState
  <2> HIDE DEF g
  <2>3. k = [g EXCEPT !.unmapped = M, !.out = O]
    <3>1. CASE known
      <4>1. k = [g EXCEPT !.out = O]
        BY <3>1, <2>2 DEF cancel_order_locked, send_cancel
      <4>2. M = g.unmapped /\ DOMAIN g = Fields
        BY <3>1, <2>1, <2>2, FieldNames DEF Good, IsOMState
      <4> HIDE DEF k, M, O
      <4> QED BY <4>1, <4>2 DEF Fields
    <3>2. CASE ~known
      BY <3>2, <2>1, <2>2, FieldNames
      DEF Fields, Good, IsOMState, cancel_order_locked, send_cancel
    <3> QED BY <3>1, <3>2
  <2> HIDE DEF k, S, C, T, M, O
  <2> QED BY <2>1, <2>3, FieldNames DEF Fields, Good, IsOMState, cancel_persist
<1>5. /\ S \subseteq Baskets /\ C \subseteq Baskets /\ M \subseteq Baskets
      /\ T \in [Baskets -> BasketId]
  BY <1>2 DEF Good, IsOMState
<1>6. S \cup C = s.s2cCancelled \cup s.clientOnly \cup {b}
  OBVIOUS
<1>7. O \subseteq NewOrder \cup CancelOrder
  BY <1>2 DEF Good, IsOMState, CancelOrder
<1> HIDE DEF r, S, C, M, O
<1>8. IsOMState(r)
  <2> HIDE DEF T
  <2> QED BY ZenonT(60), <1>2, <1>3, <1>4, <1>5, <1>7, FieldNames
      DEF Fields, Good, IsOMState, Baskets, BasketId
<1>9. Guards(r)
  BY <1>2, <1>4, <1>6, FieldNames DEF Fields, Good, IsOMState, Guards, Baskets
<1>10. Drawn(r)
  BY <1>2, <1>4, FieldNames DEF Fields, Good, IsOMState, Drawn, BasketId
<1>11. Sides(r)
  BY <1>2, <1>3, <1>4, FieldNames DEF Fields, Good, IsOMState, Sides, InTrade, BasketId
<1>12. Holding(r) /\ r.seq = s.seq
  BY <1>2, <1>3, <1>4, FieldNames DEF Fields, Good, IsOMState, Holding
<1>13. released(s) = r
  BY <1>4 DEF released, S, C, T, M, O
<1> QED BY <1>1, <1>8, <1>9, <1>10, <1>11, <1>12, <1>13 DEF Good

LEMMA RetryStuckExitGood ==
  ASSUME NEW s, Good(s), HasShape(s), s.seq + 2 <= MaxBaskets,
         NEW ok \in BOOLEAN, NEW okStop \in BOOLEAN
  PROVE  Good(retry_stuck_exit(s, ok, okStop)) /\ HasShape(retry_stuck_exit(s, ok, okStop))
<1>1. CASE s.state # "PENDING_EXIT"
  <2>1. retry_stuck_exit(s, ok, okStop) = s
    BY <1>1 DEF retry_stuck_exit
  <2> QED BY <2>1
<1>2. CASE s.state = "PENDING_EXIT"
  BY <1>2, ReleasedGood, InitiateExitGood
<1> QED BY <1>1, <1>2

LEMMA RejectRoom ==
  ASSUME NEW s, Good(s), HasShape(s), NEW b \in Baskets,
         NEW by \in {"server", "client"}, NEW ok \in BOOLEAN, NEW okStop \in BOOLEAN,
         s.exit = b /\ s.state = "PENDING_EXIT" /\ s.rejectedExits < 3
           => s.seq + 1 <= MaxBaskets /\ (ok \/ s.seq + 2 <= MaxBaskets)
  PROVE  /\ Good(on_order_rejected(s, b, by, ok, okStop))
         /\ HasShape(on_order_rejected(s, b, by, ok, okStop))
<1> DEFINE resolved == IF by = "client" \/ b \in s.s2cOrders THEN b ELSE 0
           x == [s EXCEPT !.state = Held(s.dir), !.exit = 0, !.rejectedExits = @ + 1]
           h == [x EXCEPT !.entryHalted = TRUE]
           z == [cancel_remove(s, s.stop) EXCEPT !.stop = 0, !.stopServer = 0]
           isExit == resolved # 0 /\ s.exit = resolved /\ s.state = "PENDING_EXIT"
<1>1. \/ on_order_rejected(s, b, by, ok, okStop) = reset_position(s)
      \/ /\ isExit /\ s.rejectedExits < 3
         /\ on_order_rejected(s, b, by, ok, okStop) = initiate_exit_locked(x, ok, okStop)
      \/ isExit /\ on_order_rejected(s, b, by, ok, okStop) = h
      \/ on_order_rejected(s, b, by, ok, okStop) = z
      \/ on_order_rejected(s, b, by, ok, okStop) = s
  <2>1. x.rejectedExits = s.rejectedExits + 1 /\ s.rejectedExits \in Nat
    BY FieldNames DEF Fields, Good, IsOMState
  <2> QED BY <2>1 DEF on_order_rejected
<1>2. Good(reset_position(s)) /\ HasShape(reset_position(s))
  BY ResetGood
<1>3. ASSUME isExit
      PROVE  Good(x) /\ Holding(x) /\ x.seq = s.seq /\ Good(h) /\ HasShape(h)
  <2>1. s.dir # "NONE" /\ s.entry # 0 /\ s.state \in Trading
    BY <1>3 DEF HasShape, Trading
  <2>2. /\ Held(s.dir) \in Trading /\ Held(s.dir) \in InTrade /\ 0 \in BasketId /\ 0 <= s.seq
        /\ s.rejectedExits + 1 \in Nat /\ s.entryHalted \in BOOLEAN
    BY BasketsAssumption DEF Held, Trading, InTrade, BasketId, Good, IsOMState
  <2>3. x = [s EXCEPT !.state = Held(s.dir), !.exit = 0,
                      !.rejectedExits = s.rejectedExits + 1, !.entryHalted = s.entryHalted]
    BY FieldNames DEF Fields, Good, IsOMState
  <2>4. Good([s EXCEPT !.state = Held(s.dir), !.exit = 0,
                       !.rejectedExits = s.rejectedExits + 1, !.entryHalted = s.entryHalted])
    BY <2>1, <2>2, TradeStateGood
  <2>5. h = [s EXCEPT !.state = Held(s.dir), !.exit = 0,
                      !.rejectedExits = s.rejectedExits + 1, !.entryHalted = TRUE]
    OBVIOUS
  <2>6. Good([s EXCEPT !.state = Held(s.dir), !.exit = 0,
                       !.rejectedExits = s.rejectedExits + 1, !.entryHalted = TRUE])
    BY <2>1, <2>2, TradeStateGood
  <2>7. Holding(x) /\ x.seq = s.seq
    BY <2>1, <2>2, FieldNames DEF Fields, Good, IsOMState, Holding
  <2>8. HasShape(h)
    BY <2>1, <2>2, FieldNames DEF Fields, Good, IsOMState, HasShape, InTrade
  <2> QED BY <2>3, <2>4, <2>5, <2>6, <2>7, <2>8
<1>4. Good(z) /\ HasShape(z)
  <2> DEFINE y == cancel_remove(s, s.stop)
  <2>1. s.stop \in BasketId /\ s.stop \notin s.cancelled /\ 0 \in BasketId
    BY BasketsAssumption DEF Good, IsOMState, Guards, BasketId
  <2>2. Good(y) /\ SamePosition(y, s) /\ y.stop = s.stop
    BY <2>1, CancelRemoveGood
  <2> HIDE DEF y
  <2>3. IsOMState(z) /\ Drawn(z)
    BY <2>1, <2>2, FieldNames DEF Fields, Good, IsOMState, Drawn, BasketId, y
  <2>4. Guards(z) /\ Sides(z)
    BY <2>1, <2>2, FieldNames DEF Fields, Good, IsOMState, Guards, Sides, Baskets, y
  <2>5. HasShape(z)
    BY <2>2, FieldNames DEF Fields, Good, IsOMState, HasShape, SamePosition, y
  <2> QED BY <2>3, <2>4, <2>5 DEF Good
<1>5. ASSUME isExit, s.rejectedExits < 3
      PROVE  /\ Good(initiate_exit_locked(x, ok, okStop))
             /\ HasShape(initiate_exit_locked(x, ok, okStop))
  <2>1. s.exit = b /\ s.state = "PENDING_EXIT"
    BY <1>5
  <2>2. /\ Good(x) /\ Holding(x) /\ x.seq + 1 <= MaxBaskets
        /\ ok \/ x.seq + 2 <= MaxBaskets
    BY <1>3, <1>5, <2>1
  <2> HIDE DEF x
  <2> QED BY <2>2, InitiateExitRoom
<1> HIDE DEF isExit, x, h, z
<1> QED BY <1>1, <1>2, <1>3, <1>4, <1>5

LEMMA RejectGood ==
  ASSUME NEW s, Good(s), HasShape(s), s.seq + 2 <= MaxBaskets, NEW b \in Baskets,
         NEW by \in {"server", "client"}, NEW ok \in BOOLEAN, NEW okStop \in BOOLEAN
  PROVE  /\ Good(on_order_rejected(s, b, by, ok, okStop))
         /\ HasShape(on_order_rejected(s, b, by, ok, okStop))
<1>1. s.seq + 1 <= MaxBaskets
  BY BasketsAssumption DEF Good, IsOMState, BasketId
<1> QED BY <1>1, RejectRoom

\* A server id moves a guard from client_only_cancels_ to the server map.
LEMMA GuardMappedGood ==
  ASSUME NEW s, Good(s), NEW b \in Baskets, b \in s.cancelled
  PROVE  LET t == [s EXCEPT !.s2cCancelled = @ \cup {b}, !.clientOnly = @ \ {b}] IN
         Good(t) /\ SamePosition(t, s) /\ t.stop = s.stop
<1> DEFINE t == [s EXCEPT !.s2cCancelled = @ \cup {b}, !.clientOnly = @ \ {b}]
<1>1. IsOMState(t) /\ Drawn(t) /\ Sides(t)
  BY FieldNames DEF Fields, Good, IsOMState, Drawn, Sides
<1>2. Guards(t)
  BY FieldNames DEF Fields, Good, IsOMState, Guards
<1>3. SamePosition(t, s) /\ t.stop = s.stop
  BY FieldNames DEF Fields, Good, IsOMState, SamePosition
<1> QED BY <1>1, <1>2, <1>3 DEF Good

\* The server id of a tracked order is stored only on a row that exists.
LEMMA PersistServerGood ==
  ASSUME NEW s, Good(s), NEW b \in Baskets
  PROVE  /\ Good(cancel_persist_server_id(s, b))
         /\ SamePosition(cancel_persist_server_id(s, b), s)
         /\ cancel_persist_server_id(s, b).stop = s.stop
  BY FieldNames DEF Fields, cancel_persist_server_id, Good, IsOMState, Guards, Drawn,
                    Sides, SamePosition

LEMMA MapServerBasketGood ==
  ASSUME NEW s, Good(s), HasShape(s), NEW b \in Baskets
  PROVE  Good(map_server_basket(s, b)) /\ HasShape(map_server_basket(s, b))
<1> DEFINE m == [s EXCEPT !.s2cOrders = @ \cup {b}, !.unmapped = @ \ {b}]
           n == [m EXCEPT !.s2cCancelled = @ \cup {b}, !.clientOnly = @ \ {b}]
           g == IF b \in s.cancelled THEN n ELSE m
           t == send_cancel(g, b, "server")
<1>1. map_server_basket(s, b) = IF b \in s.unmapped THEN t ELSE m
  BY DEF map_server_basket
<1>2. Good(m) /\ SamePosition(m, s) /\ m.stop = s.stop /\ m.cancelled = s.cancelled
  BY FieldNames DEF Fields, Good, IsOMState, Guards, Drawn, Sides, SamePosition
<1> HIDE DEF m
<1>3. ASSUME b \in s.cancelled PROVE Good(n) /\ SamePosition(n, m) /\ n.stop = m.stop
  BY <1>2, <1>3, GuardMappedGood
<1> HIDE DEF n
<1>4. Good(g) /\ SamePosition(g, s) /\ g.stop = s.stop
  BY <1>2, <1>3 DEF SamePosition
<1> HIDE DEF g
<1>5. Good(t) /\ SamePosition(t, g) /\ t.stop = g.stop
  BY <1>4, SendCancelGood
<1> HIDE DEF t
<1>6. HasShape(m) /\ HasShape(t)
  BY <1>2, <1>4, <1>5 DEF SamePosition, HasShape
<1> QED BY <1>1, <1>2, <1>5, <1>6

LEMMA StopMappedGood ==
  ASSUME NEW s, Good(s), HasShape(s), NEW b \in Baskets
  PROVE  Good(on_stop_server_mapped(s, b)) /\ HasShape(on_stop_server_mapped(s, b))
<1> DEFINE l == [s EXCEPT !.stopServer = b]
           n == [s EXCEPT !.s2cCancelled = @ \cup {b}, !.clientOnly = @ \ {b}]
           p == cancel_persist_server_id(n, b)
           t == send_cancel(p, b, "server")
<1>1. \/ on_stop_server_mapped(s, b) = s
      \/ on_stop_server_mapped(s, b) = cancel_persist_server_id(l, b)
      \/ b \in s.cancelled /\ on_stop_server_mapped(s, b) = t
  BY DEF on_stop_server_mapped
<1>2. Good(l) /\ SamePosition(l, s) /\ l.stop = s.stop
  <2>1. b \in BasketId
    BY DEF Baskets, BasketId
  <2> QED BY <2>1, FieldNames
      DEF Fields, Good, IsOMState, Guards, Drawn, Sides, SamePosition
<1> HIDE DEF l
<1>3. /\ Good(cancel_persist_server_id(l, b))
      /\ HasShape(cancel_persist_server_id(l, b))
  BY <1>2, PersistServerGood DEF SamePosition, HasShape
<1>4. ASSUME b \in s.cancelled PROVE Good(t) /\ HasShape(t)
  <2>1. Good(n) /\ SamePosition(n, s) /\ n.stop = s.stop
    BY <1>4, GuardMappedGood
  <2> HIDE DEF n
  <2>2. Good(p) /\ SamePosition(p, n) /\ p.stop = n.stop
    BY <2>1, PersistServerGood
  <2> HIDE DEF p
  <2>3. Good(t) /\ SamePosition(t, p) /\ t.stop = p.stop
    BY <2>2, SendCancelGood
  <2> HIDE DEF t
  <2>4. HasShape(t)
    BY <2>1, <2>2, <2>3 DEF SamePosition, HasShape
  <2> QED BY <2>3, <2>4
<1> HIDE DEF t
<1> QED BY <1>1, <1>3, <1>4

\* A failed cancel: the guard becomes the live stop of its own trade, on its own
\* side, after the replacement has become a guard.
LEMMA CancelFailedGood ==
  ASSUME NEW s, Good(s), HasShape(s), NEW b \in Baskets, NEW by \in {"server", "client"}
  PROVE  Good(on_cancel_failed(s, b, by)) /\ HasShape(on_cancel_failed(s, b, by))
<1> DEFINE c == IF s.stop # 0 /\ s.stop # b THEN cancel_stop_locked(s) ELSE s
           d == on_cancel_confirmed(c, b)
           w == IF by = "server" THEN b ELSE 0
           t == [d EXCEPT !.stop = b, !.stopServer = w]
<1>1. on_cancel_failed(s, b, by) = IF readopts(s, b, by) THEN t ELSE s
  BY DEF on_cancel_failed, on_cancel_confirmed
<1>2. ASSUME readopts(s, b, by) PROVE Good(t) /\ HasShape(t)
  <2>1. b \in s.buys <=> s.dir = "SELL"
    BY <1>2 DEF Good, Sides, InTrade, readopts
  <2>2. b \in 1 .. s.seq /\ b # 0 /\ b \in BasketId /\ w \in BasketId
    BY <1>2, BasketsAssumption DEF Good, Guards, Drawn, Baskets, BasketId, readopts
  <2>3. Good(c) /\ SamePosition(c, s) /\ c.seq = s.seq /\ c.buys = s.buys
    <3>1. s.state \in {"LONG", "SHORT", "PENDING_EXIT"}
      BY <1>2 DEF InTrade, readopts
    <3>2. cancel_stop_locked(s).buys = s.buys
      BY FieldNames DEF Fields, Good, IsOMState, cancel_stop_locked, guard_stop, cancel_persist,
                        cancel_persist_server_id, send_cancel
    <3> QED BY <3>1, <3>2, CancelStopGood DEF SamePosition
  <2> HIDE DEF c, w
  <2>4. /\ Good(d) /\ SamePosition(d, c) /\ d.seq = c.seq
        /\ d.cancelled = c.cancelled \ {b}
    BY <2>2, <2>3, ConfirmGood
  <2>5. d.buys = c.buys
    BY <2>3, FieldNames
    DEF Fields, Good, IsOMState, on_cancel_confirmed, cancel_remove, drop_guard
  <2> HIDE DEF d
  <2>6. IsOMState(t)
    BY <2>2, <2>4, FieldNames DEF Fields, Good, IsOMState
  <2>7. Guards(t)
    BY <2>4, FieldNames DEF Fields, Good, IsOMState, Guards
  <2>8. b <= d.seq
    BY <2>2, <2>3, <2>4
  <2>9. Drawn(t)
    BY <2>4, <2>8, FieldNames DEF Fields, Good, IsOMState, Drawn
  <2>10. Sides(t)
    BY <2>1, <2>3, <2>4, <2>5, FieldNames DEF Fields, Good, IsOMState, Sides, SamePosition
  <2>11. SamePosition(t, s)
    BY <2>3, <2>4, FieldNames DEF Fields, Good, IsOMState, SamePosition
  <2>12. HasShape(t)
    <3> HIDE DEF t
    <3> QED BY <1>2, <2>11 DEF HasShape, SamePosition, InTrade, readopts
  <2> QED BY <2>6, <2>7, <2>9, <2>10, <2>12 DEF Good
<1> HIDE DEF t
<1> QED BY <1>1, <1>2

LEMMA AdoptExternalCloseGood ==
  ASSUME NEW s, Good(s), HasShape(s)
  PROVE  Good(adopt_external_close(s)) /\ HasShape(adopt_external_close(s))
<1> DEFINE r == reset_position(cancel_stop_locked(s))
           t == [r EXCEPT !.tradeCompleted = TRUE, !.s2cOrders = {}]
<1>1. adopt_external_close(s) = IF s.state \in Trading THEN t ELSE s
  BY DEF adopt_external_close, InTrade, Trading
<1>2. ASSUME s.state \in Trading PROVE Good(t) /\ HasShape(t)
  <2>1. Good(r) /\ HasShape(r)
    BY <1>2, CancelStopGood, ResetGood DEF Trading
  <2> HIDE DEF r
  <2>2. Good(t)
    BY <2>1, FieldNames DEF Fields, Good, IsOMState, Guards, Drawn, Sides
  <2>3. HasShape(t)
    BY <2>1, FieldNames DEF Fields, Good, IsOMState, HasShape
  <2> QED BY <2>2, <2>3
<1> HIDE DEF t
<1> QED BY <1>1, <1>2

\* A new order manager holds nothing and guards nothing.
LEMMA EmptyGood == Good(Empty) /\ HasShape(Empty)
<1>1. 0 \in BasketId /\ 0 \in 0 .. Qty
  BY BasketsAssumption, QtyAssumption DEF BasketId
<1>2. IsOMState(Empty)
  BY <1>1 DEF Empty, IsOMState, PosState, OrbSignal
<1>3. Guards(Empty) /\ Drawn(Empty) /\ Sides(Empty) /\ HasShape(Empty)
  BY DEF Empty, Guards, Drawn, Sides, HasShape, InTrade, Baskets
<1> QED BY <1>2, <1>3 DEF Good

\* A new order manager seeded from the rows: every row is a guard.
LEMMA StartupGood ==
  ASSUME NEW s, Good(s)
  PROVE  Good(startup(s)) /\ HasShape(startup(s))
<1> DEFINE S == {[op |-> "cancel", id |-> b, by |-> "server"] : b \in s.dbServer}
           C == {[op |-> "cancel", id |-> b, by |-> "client"] : b \in s.dbRows \ s.dbServer}
           O == S \cup C
           t == [Empty EXCEPT !.seq = s.seq, !.buys = s.buys, !.stops = s.stops,
                              !.dbRows = s.dbRows, !.dbServer = s.dbServer,
                              !.cancelled = s.dbRows, !.s2cCancelled = s.dbServer,
                              !.seeded = s.dbRows, !.out = O]
<1>1. startup(s) = t
  BY DEF startup, recancel_pending_stops, Empty
<1>2. O \subseteq NewOrder \cup CancelOrder
  BY DEF CancelOrder, Good, IsOMState, Guards
<1> HIDE DEF O
<1>3. /\ t.state = "FLAT" /\ t.dir = "NONE" /\ t.entry = 0 /\ t.exit = 0 /\ t.stop = 0
      /\ t.tradeSeq = 0 /\ t.cancelTrade = [b \in Baskets |-> 0] /\ t.lastStop = 0
      /\ t.clientOnly = {} /\ t.cancelled = s.dbRows /\ t.dbRows = s.dbRows
      /\ t.s2cCancelled = s.dbServer /\ t.dbServer = s.dbServer /\ t.seeded = s.dbRows
      /\ t.seq = s.seq /\ t.buys = s.buys
  BY DEF Empty
<1>4. IsOMState(t)
  BY <1>2, EmptyGood, FieldNames DEF Fields, Good, IsOMState
<1> HIDE DEF t
<1>5. Guards(t)
  BY <1>3 DEF Good, Guards, Drawn, IsOMState, Baskets
<1>6. Drawn(t)
  BY <1>3 DEF Good, Drawn, IsOMState, BasketId
<1>7. Sides(t) /\ HasShape(t)
  BY <1>3 DEF Sides, HasShape, InTrade
<1> QED BY <1>1, <1>4, <1>5, <1>6, <1>7 DEF Good

-----------------------------------------------------------------------------
(* The invariant, the theorems. *)

\* A new executor session starts with an empty order manager.
LEMMA InitInv == Init => IInv
  BY EmptyGood DEF Init, IInv

\* What remains: the calls that only answer, forget or send.
LEMMA QuietGood ==
  ASSUME NEW s, Good(s), HasShape(s), NEW b \in Baskets, NEW q \in 1 .. Qty
  PROVE  /\ Good(record_fill(s, b, q)) /\ HasShape(record_fill(s, b, q))
         /\ Good(recancel_pending_stops(s)) /\ HasShape(recancel_pending_stops(s))
         /\ Good(clear_post_close_recancels(s)) /\ HasShape(clear_post_close_recancels(s))
         /\ Good(confirm_exchange_flat(s)) /\ HasShape(confirm_exchange_flat(s))
         /\ Good(pop_trade_completed(s)) /\ HasShape(pop_trade_completed(s))
<1> DEFINE P == [s.processed EXCEPT ![b] = q]
           p == [s EXCEPT !.processed = P]
           O == {[op |-> "cancel", id |-> x, by |-> "server"] : x \in s.s2cCancelled}
                  \cup {[op |-> "cancel", id |-> x, by |-> "client"] :
                          x \in s.cancelled \ s.s2cCancelled}
           r == [s EXCEPT !.out = O]
           l == [s EXCEPT !.lastStop = 0]
           e == [s EXCEPT !.ghostHalted = FALSE]
           c == [s EXCEPT !.tradeCompleted = FALSE]
<1>1. P \in [Baskets -> 0 .. Qty]
  BY QtyAssumption DEF Good, IsOMState
<1>2. O \subseteq NewOrder \cup CancelOrder
  BY DEF CancelOrder, Good, IsOMState
<1>3. 0 \in BasketId
  BY BasketsAssumption DEF BasketId
<1> HIDE DEF P, O
<1>4. Good(p) /\ SamePosition(p, s) /\ p.stop = s.stop
  BY <1>1, FieldNames DEF Fields, Good, IsOMState, Guards, Drawn, Sides, SamePosition
<1>5. Good(r) /\ SamePosition(r, s) /\ r.stop = s.stop
  BY <1>2, FieldNames DEF Fields, Good, IsOMState, Guards, Drawn, Sides, SamePosition
<1>6. Good(l) /\ SamePosition(l, s) /\ l.stop = s.stop
  BY <1>3, FieldNames DEF Fields, Good, IsOMState, Guards, Drawn, Sides, SamePosition
<1>7. Good(e) /\ SamePosition(e, s) /\ e.stop = s.stop
  BY FieldNames DEF Fields, Good, IsOMState, Guards, Drawn, Sides, SamePosition
<1>8. Good(c) /\ SamePosition(c, s) /\ c.stop = s.stop
  BY FieldNames DEF Fields, Good, IsOMState, Guards, Drawn, Sides, SamePosition
<1>9. /\ record_fill(s, b, q) = IF s.processed[b] >= q THEN s ELSE p
      /\ recancel_pending_stops(s) = r
      /\ clear_post_close_recancels(s) = l
      /\ confirm_exchange_flat(s) = e
      /\ pop_trade_completed(s) = c
  BY DEF record_fill, recancel_pending_stops, clear_post_close_recancels,
         confirm_exchange_flat, pop_trade_completed, P, O
<1> HIDE DEF p, r, l, e, c
<1>10. HasShape(p) /\ HasShape(r) /\ HasShape(l) /\ HasShape(e) /\ HasShape(c)
  BY <1>4, <1>5, <1>6, <1>7, <1>8, SameShape
<1> QED BY <1>4, <1>5, <1>6, <1>7, <1>8, <1>9, <1>10

\* The last id drawn.
LEMMA IdsDrawn ==
  ASSUME NEW s, Good(s) PROVE s.seq \in 0 .. MaxBaskets
  BY DEF Good, IsOMState, BasketId

\* Every public call preserves the invariant.
LEMMA NextInv == IInv /\ [Next]_om => IInv'
<1> SUFFICES ASSUME IInv, [Next]_om PROVE IInv'
  OBVIOUS
<1> DEFINE s == Call(om)
<1>1. Good(s) /\ HasShape(s) /\ s.seq = om.seq
  BY CallGood, SameShape DEF IInv
<1>2. om.seq \in Nat /\ Known \subseteq Baskets /\ Known \cup {NoBasket} \subseteq BasketId
  <2>1. om.seq \in 0 .. MaxBaskets
    BY IdsDrawn DEF IInv
  <2>2. om.seq \in Nat /\ 1 .. om.seq \subseteq 1 .. MaxBaskets
    BY <2>1, BasketsAssumption
  <2>3. QED BY <2>2, BasketsAssumption DEF Known, Baskets, BasketId, NoBasket
<1>3. Room(2) => Room(1)
  BY <1>2, BasketsAssumption DEF Room
<1> HIDE DEF s
<1>4. CASE OnSignal
  BY <1>1, <1>4, OnSignalGood DEF OnSignal, Room, IInv, s
<1>5. CASE OnFillNotification
  BY <1>1, <1>2, <1>5, FillGood DEF OnFillNotification, Room, IInv, s
<1>6. CASE FillAlreadyProcessed
  BY <1>1, <1>2, <1>6, QuietGood DEF FillAlreadyProcessed, IInv, s
<1>7. CASE CheckTrailAndStop
  <2>1. Holding(s)
    <3>1. s.state \in InTrade
      BY <1>7, FieldNames DEF CheckTrailAndStop, s, Call, IInv, Good, IsOMState, Fields
    <3> QED BY <1>1, <3>1, HoldingShape
  <2> QED BY <1>1, <1>3, <1>7, <2>1, InitiateExitGood, UpdateStopGood
          DEF CheckTrailAndStop, Room, IInv, s
<1>8. CASE FlattenNow
  BY <1>1, <1>8, FlattenGood DEF FlattenNow, Room, IInv, s
<1>9. CASE PendingEntryTimeout
  BY <1>1, <1>9, CancelPendingEntryGood
  DEF PendingEntryTimeout, pending_entry_timeout_check, IInv, s
<1>10. CASE RetryStuckExit
  BY <1>1, <1>10, RetryStuckExitGood DEF RetryStuckExit, Room, IInv, s
<1>11. CASE OnOrderRejected
  BY <1>1, <1>2, <1>11, RejectGood DEF OnOrderRejected, Room, IInv, s
<1>12. CASE OnMapped
  BY <1>1, <1>2, <1>12, MapServerBasketGood, StopMappedGood DEF OnMapped, IInv, s
<1>13. CASE OnCancelFailed
  BY <1>1, <1>2, <1>13, CancelFailedGood DEF OnCancelFailed, IInv, s
<1>14. CASE OnCancelConfirmed
  <2>1. \A b \in Known : /\ Good(on_cancel_confirmed(s, b))
                         /\ HasShape(on_cancel_confirmed(s, b))
    BY <1>1, <1>2, ConfirmGood, SameShape
  <2> QED BY <1>1, <1>14, <2>1
          DEF OnCancelConfirmed, on_cancel_confirmed_by_server_basket, IInv, s
<1>15. CASE AdoptExternalClose
  BY <1>1, <1>15, AdoptExternalCloseGood DEF AdoptExternalClose, IInv, s
<1>16. 1 \in Baskets /\ 1 \in 1 .. Qty
  BY BasketsAssumption, QtyAssumption DEF Baskets
<1>17. CASE RecancelPendingStops \/ ClearPostCloseRecancels \/ ConfirmExchangeFlat
            \/ PopTradeCompleted
  BY <1>1, <1>16, <1>17, QuietGood
  DEF RecancelPendingStops, ClearPostCloseRecancels, ConfirmExchangeFlat,
      PopTradeCompleted, IInv, s
<1>18. CASE RegisterUnwindBasket
  BY <1>1, <1>18, UnwindGood DEF RegisterUnwindBasket, register_unwind_basket, Room, IInv, s
<1>19. CASE Startup
  BY <1>19, StartupGood DEF Startup, IInv
<1>20. CASE UNCHANGED om
  BY <1>20 DEF IInv
<1> QED
  BY <1>4, <1>5, <1>6, <1>7, <1>8, <1>9, <1>10, <1>11, <1>12, <1>13, <1>14, <1>15,
     <1>17, <1>18, <1>19, <1>20
  DEF Next

\* IInv is an invariant of the order manager under any client.
THEOREM Invariance == Spec => []IInv
  BY InitInv, NextInv, PTL DEF Spec

\* Type correctness of the order manager, for any number of orders.
THEOREM TypeCorrect == Spec => []TypeOK
<1>1. IInv => TypeOK
  BY DEF IInv, Good, TypeOK
<1> QED BY Invariance, <1>1, PTL

\* Under any client, a position being exited has no live stop and one with a live
\* stop has no exit order (initiate_exit_locked, on_cancel_failed, retries).
THEOREM PositionShapeTheorem == Spec => []PositionShape
<1>1. IInv => PositionShape
  BY DEF IInv, HasShape, PositionShape
<1> QED BY Invariance, <1>1, PTL

\* The purge at FLAT never forgets an unacknowledged cancel of this session.
THEOREM SessionGuardsTheorem == Spec => []SessionGuardsCovered
<1>1. IInv => SessionGuardsCovered
  BY DEF IInv, Good, Guards, SessionGuardsCovered
<1> QED BY Invariance, <1>1, PTL

\* A crash at any point leaves a row for every outstanding cancel.
THEOREM GuardsPersistedTheorem == Spec => []GuardsPersisted
<1>1. IInv => GuardsPersisted
  BY DEF IInv, Good, Guards, GuardsPersisted
<1> QED BY Invariance, <1>1, PTL

\* Neither the live stop nor a resolved order is ever re-cancelled.
THEOREM RetriesTheorem == Spec => []RetriesAreGuarded
<1>1. IInv => RetriesAreGuarded
  BY DEF IInv, Good, Guards, RetriesAreGuarded
<1> QED BY Invariance, <1>1, PTL

\* The live stop closes the position held, whatever stops of earlier trades are
\* still guarded and however late their cancels fail.
THEOREM StopSideTheorem == Spec => []StopClosesPosition
<1>1. IInv => StopClosesPosition
  BY DEF IInv, Good, Sides, StopClosesPosition
<1> QED BY Invariance, <1>1, PTL

-----------------------------------------------------------------------------
(***************************************************************************)
(* The refinement of LegLife, for every number of orders and every         *)
(* quantity: step simulation under the mapping LegOf, from the invariant   *)
(* above.                                                                  *)
(***************************************************************************)

\* A record with the members of the class, and the same leg in two of them.
IsRec(s) == DOMAIN s = Fields
SameLeg(t, s) == IsRec(t) /\ t.state = s.state /\ t.dir = s.dir

\* What a public method may do to the leg, on the states of the class.
LegStep(s, t) ==
  \/ t.state = s.state /\ t.dir = s.dir
  \/ s.state = "FLAT" /\ t.state = "PENDING_ENTRY" /\ t.dir \in {"BUY", "SELL"}
  \/ s.state = "PENDING_ENTRY" /\ t.state \in InTrade /\ t.dir = s.dir
  \/ s.state \in InTrade /\ t.state = "PENDING_EXIT" /\ t.dir = s.dir
  \/ s.state = "PENDING_EXIT" /\ t.state \in InTrade /\ t.dir = s.dir
  \/ t.state = "FLAT" /\ t.dir = "NONE"

\* A state between two public calls is a record of the class's members.
LEMMA GoodIsRec ==
  ASSUME NEW s, Good(s)
  PROVE  IsRec(s) /\ IsRec(Call(s)) /\ SameLeg(Call(s), s)
  BY FieldNames DEF Good, IsOMState, IsRec, SameLeg, Call, Fields

\* Sending, guarding and the rows of pending_stop_cancels leave the leg alone.
LEMMA HelpersKeepLeg ==
  ASSUME NEW s, IsRec(s), NEW b, NEW by, NEW kind, NEW isBuy, NEW ok
  PROVE  /\ SameLeg(send_order(s, kind, isBuy, ok), s)
         /\ SameLeg(send_cancel(s, b, by), s)
         /\ SameLeg(cancel_persist(s, b), s)
         /\ SameLeg(cancel_remove(s, b), s)
         /\ SameLeg(cancel_persist_server_id(s, b), s)
         /\ SameLeg(drop_guard(s, b), s)
         /\ SameLeg(guard_stop(s, ok), s)
<1>1. SameLeg(send_order(s, kind, isBuy, ok), s)
  BY DEF SameLeg, IsRec, Fields, send_order
<1>2. SameLeg(send_cancel(s, b, by), s)
  BY DEF SameLeg, IsRec, Fields, send_cancel
<1>3. SameLeg(cancel_persist(s, b), s) /\ SameLeg(cancel_remove(s, b), s)
  BY DEF SameLeg, IsRec, Fields, cancel_persist, cancel_remove
<1>4. SameLeg(cancel_persist_server_id(s, b), s)
  BY DEF SameLeg, IsRec, Fields, cancel_persist_server_id
<1>5. SameLeg(drop_guard(s, b), s) /\ SameLeg(guard_stop(s, ok), s)
  BY DEF SameLeg, IsRec, Fields, drop_guard, guard_stop
<1> QED BY <1>1, <1>2, <1>3, <1>4, <1>5

\* So do the orders that are placed and cancelled on the way.
LEMMA SubmitKeepsLeg ==
  ASSUME NEW s, IsRec(s), NEW ok
  PROVE  SameLeg(submit_stop_order_locked(s, ok), s)
<1> DEFINE b == s.seq + 1
           t == send_order(s, "stop", s.state # "LONG", ok)
           u == [t EXCEPT !.stop = b, !.stopServer = 0]
<1>1. SameLeg(t, s)
  BY HelpersKeepLeg
<1> HIDE DEF t
<1>2. SameLeg(u, s) /\ SameLeg([t EXCEPT !.stop = 0, !.stopServer = 0], s)
  BY <1>1 DEF SameLeg, IsRec, Fields
<1> HIDE DEF u
<1>3. SameLeg(cancel_persist(u, b), u)
  BY <1>2, HelpersKeepLeg DEF SameLeg
<1> QED BY <1>2, <1>3 DEF submit_stop_order_locked, SameLeg, t, u

LEMMA CancelKeepsLeg ==
  ASSUME NEW s, IsRec(s), NEW b
  PROVE  SameLeg(cancel_stop_locked(s), s) /\ SameLeg(cancel_order_locked(s, b), s)
<1>1. SameLeg(cancel_stop_locked(s), s)
  <2> DEFINE k == s.stopServer # 0
             g == guard_stop(s, k)
             p == cancel_persist(g, s.stop)
             q == IF k THEN cancel_persist_server_id(p, s.stop) ELSE p
             c == send_cancel(q, s.stop, IF k THEN "server" ELSE "client")
  <2>1. SameLeg(g, s)
    BY HelpersKeepLeg
  <2> HIDE DEF g
  <2>2. SameLeg(p, s)
    BY <2>1, HelpersKeepLeg DEF SameLeg
  <2> HIDE DEF p
  <2>3. SameLeg(q, s)
    BY <2>2, HelpersKeepLeg DEF SameLeg
  <2> HIDE DEF q
  <2>4. SameLeg(c, s)
    BY <2>3, HelpersKeepLeg DEF SameLeg
  <2> HIDE DEF c
  <2>5. SameLeg([c EXCEPT !.stop = 0, !.stopServer = 0], s)
    BY <2>4 DEF SameLeg, IsRec, Fields
  <2>6. cancel_stop_locked(s)
          = IF s.stop = 0 THEN s ELSE [c EXCEPT !.stop = 0, !.stopServer = 0]
    BY DEF cancel_stop_locked, c, q, p, g
  <2> QED BY <2>5, <2>6 DEF SameLeg
<1>2. SameLeg(cancel_order_locked(s, b), s)
  <2> DEFINE u == [s EXCEPT !.unmapped = @ \cup {b}]
  <2>1. SameLeg(u, s)
    BY DEF SameLeg, IsRec, Fields
  <2> HIDE DEF u
  <2>2. SameLeg(send_cancel(u, b, "client"), s) /\ SameLeg(send_cancel(s, b, "server"), s)
    BY <2>1, HelpersKeepLeg DEF SameLeg
  <2> QED BY <2>2 DEF cancel_order_locked, u
<1> QED BY <1>1, <1>2

\* pos_ = Position{} ends the leg.
LEMMA ResetEndsLeg ==
  ASSUME NEW s, IsRec(s)
  PROVE  /\ IsRec(reset_position(s))
         /\ reset_position(s).state = "FLAT" /\ reset_position(s).dir = "NONE"
  BY DEF reset_position, IsRec, Fields

\* An exit is asked for, or refused at once and the leg is as it was.
LEMMA ExitLeg ==
  ASSUME NEW s, IsRec(s), NEW ok \in BOOLEAN, NEW okStop \in BOOLEAN
  PROVE  /\ initiate_exit_locked(s, ok, okStop).dir = s.dir
         /\ initiate_exit_locked(s, ok, okStop).state \in {"PENDING_EXIT", Held(s.dir)}
<1> DEFINE c == cancel_stop_locked(s)
           o == send_order(c, "exit", s.dir = "SELL", ok)
           x == [o EXCEPT !.state = "PENDING_EXIT", !.exit = c.seq + 1]
           r == [x EXCEPT !.exit = 0, !.state = Held(s.dir),
                          !.rejectedExits = @ + 1,
                          !.entryHalted = @ \/ s.rejectedExits + 1 > 3]
<1>1. SameLeg(c, s)
  BY CancelKeepsLeg
<1> HIDE DEF c
<1>2. SameLeg(o, s)
  BY <1>1, HelpersKeepLeg DEF SameLeg
<1> HIDE DEF o
<1>3. IsRec(x) /\ x.state = "PENDING_EXIT" /\ x.dir = s.dir
  BY <1>2 DEF SameLeg, IsRec, Fields
<1> HIDE DEF x
<1>4. IsRec(r) /\ r.state = Held(s.dir) /\ r.dir = s.dir
  BY <1>3 DEF IsRec, Fields
<1> HIDE DEF r
<1>5. SameLeg(submit_stop_order_locked(r, okStop), r)
  BY <1>4, SubmitKeepsLeg
<1>6. initiate_exit_locked(s, ok, okStop)
        = IF ok THEN x ELSE submit_stop_order_locked(r, okStop)
  BY DEF initiate_exit_locked, c, o, x, r
<1> QED BY <1>3, <1>4, <1>5, <1>6 DEF SameLeg

-----------------------------------------------------------------------------
(* The public methods. *)

LEMMA SignalLeg ==
  ASSUME NEW s, IsRec(s), NEW sig \in {"BUY", "SELL"}, NEW canTrade \in BOOLEAN,
         NEW ok \in BOOLEAN
  PROVE  LegStep(s, on_signal(s, sig, canTrade, ok))
<1> DEFINE p == [s EXCEPT !.state = "PENDING_ENTRY", !.dir = sig, !.entry = s.seq + 1,
                          !.exit = 0, !.stop = 0, !.tradeSeq = @ + 1]
           t == send_order(p, "entry", sig = "BUY", ok)
<1>1. IsRec(p) /\ p.state = "PENDING_ENTRY" /\ p.dir = sig
  BY DEF IsRec, Fields
<1> HIDE DEF p
<1>2. SameLeg(t, p)
  BY <1>1, HelpersKeepLeg
<1> HIDE DEF t
<1>3. reset_position(t).state = "FLAT" /\ reset_position(t).dir = "NONE"
  BY <1>2, ResetEndsLeg DEF SameLeg
<1>4. on_signal(s, sig, canTrade, ok)
        = IF s.entryHalted \/ s.ghostHalted \/ ~canTrade \/ s.state # "FLAT" THEN s
          ELSE IF ok THEN t ELSE reset_position(t)
  BY DEF on_signal, p, t
<1> QED BY <1>1, <1>2, <1>3, <1>4 DEF SameLeg, LegStep

\* A fill of the entry opens the leg it belongs to and no other.
LEMMA FillEntryLeg ==
  ASSUME NEW s, IsRec(s), s.dir \in {"NONE", "BUY", "SELL"},
         NEW b, NEW q, NEW ok \in BOOLEAN
  PROVE  LegStep(s, fill_entry(s, b, q, ok))
<1> DEFINE n == [s EXCEPT !.pendingCancel = 0]
           u == send_order(n, "unwind", b \notin s.buys, ok)
           h == [s EXCEPT !.state = Held(s.dir), !.pendingCancel = 0]
           t == submit_stop_order_locked(h, ok)
           A == s.state # "PENDING_ENTRY" /\ s.pendingCancel # 0 /\ b = s.pendingCancel
           B == s.state = "PENDING_ENTRY" /\ s.entry = b /\ q >= Qty
<1>1. SameLeg(n, s)
  BY DEF SameLeg, IsRec, Fields
<1> HIDE DEF n
<1>2. SameLeg(u, s)
  BY <1>1, HelpersKeepLeg DEF SameLeg
<1> HIDE DEF u
<1>3. IsRec(h) /\ h.state = Held(s.dir) /\ h.dir = s.dir
  BY DEF IsRec, Fields
<1> HIDE DEF h
<1>4. SameLeg(t, h)
  BY <1>3, SubmitKeepsLeg
<1> HIDE DEF t
<1>5. /\ A => fill_entry(s, b, q, ok) = u
      /\ B => fill_entry(s, b, q, ok) = t
      /\ ~A /\ ~B => fill_entry(s, b, q, ok) = s
  BY DEF fill_entry, n, u, h, t
<1>6. Held(s.dir) \in InTrade
  BY DEF Held, InTrade
<1> QED BY <1>2, <1>3, <1>4, <1>5, <1>6 DEF SameLeg, LegStep

\* A fill at FLAT is unwound, resolves an unwind or halts: no leg appears.
LEMMA FillFlatLeg ==
  ASSUME NEW s, IsRec(s), NEW b, NEW ok \in BOOLEAN
  PROVE  LegStep(s, fill_flat(s, b, ok))
<1> DEFINE d == drop_guard(s, b)
           c == cancel_remove(d, b)
           o == send_order(c, "unwind", b \notin c.buys, ok)
           w == send_unwind_order(c, b, ok)
           m == [s EXCEPT !.unwinds = @ \ {b}, !.ghostHalted = FALSE]
           g == [s EXCEPT !.ghostHalted = TRUE]
<1>1. SameLeg(c, s)
  <2>1. SameLeg(d, s)
    BY HelpersKeepLeg
  <2> HIDE DEF d
  <2> QED BY <2>1, HelpersKeepLeg DEF SameLeg
<1> HIDE DEF c
<1>2. SameLeg(w, s)
  <2>1. SameLeg(o, s)
    BY <1>1, HelpersKeepLeg DEF SameLeg
  <2> HIDE DEF o
  <2>2. SameLeg([o EXCEPT !.unwinds = @ \cup {c.seq + 1}], s)
    BY <2>1 DEF SameLeg, IsRec, Fields
  <2> QED BY <2>1, <2>2 DEF send_unwind_order, o
<1> HIDE DEF w
<1>3. SameLeg(m, s) /\ SameLeg(g, s)
  BY DEF SameLeg, IsRec, Fields
<1> HIDE DEF m, g
<1>4. fill_flat(s, b, ok) \in {w, m, g}
  BY DEF fill_flat, d, c, w, m, g
<1> QED BY <1>2, <1>3, <1>4 DEF SameLeg, LegStep

LEMMA FillExitLeg ==
  ASSUME NEW s, IsRec(s), NEW b
  PROVE  LegStep(s, fill_exit(s, b))
<1> DEFINE d == [drop_guard(s, b) EXCEPT !.cancelTrade[b] = 0]
           g == IF b \in s.cancelled THEN cancel_remove(d, b) ELSE s
           c == IF g.stop = b THEN cancel_remove(g, b) ELSE cancel_stop_locked(g)
           f == reset_position(c)
<1>1. IsRec(g)
  <2>1. IsRec(drop_guard(s, b))
    BY HelpersKeepLeg DEF SameLeg
  <2>2. IsRec(d)
    BY <2>1 DEF IsRec, Fields
  <2> HIDE DEF d
  <2> QED BY <2>2, HelpersKeepLeg DEF SameLeg
<1> HIDE DEF g
<1>2. IsRec(c)
  BY <1>1, HelpersKeepLeg, CancelKeepsLeg DEF SameLeg
<1> HIDE DEF c
<1>3. IsRec(f) /\ f.state = "FLAT" /\ f.dir = "NONE"
  BY <1>2, ResetEndsLeg
<1> HIDE DEF f
<1>4. fill_exit(s, b)
        = [f EXCEPT !.rejectedExits = 0, !.entryHalted = FALSE, !.tradeCompleted = TRUE,
            !.s2cOrders = {}, !.cancelled = keep_at_flat(c), !.unwinds = {},
            !.dbRows = @ \ (c.cancelled \ keep_at_flat(c)),
            !.dbServer = @ \ (c.cancelled \ keep_at_flat(c))]
  BY DEF fill_exit, d, g, c, f
<1>5. fill_exit(s, b).state = "FLAT" /\ fill_exit(s, b).dir = "NONE"
  BY <1>3, <1>4 DEF IsRec, Fields
<1> QED BY <1>5 DEF LegStep

LEMMA CancelEntryLeg ==
  ASSUME NEW s, IsRec(s)
  PROVE  LegStep(s, cancel_pending_entry(s))
<1> DEFINE p == [s EXCEPT !.pendingCancel = s.entry]
           c == cancel_order_locked(p, s.entry)
<1>1. IsRec(p)
  BY DEF IsRec, Fields
<1> HIDE DEF p
<1>2. IsRec(c)
  BY <1>1, CancelKeepsLeg DEF SameLeg
<1> HIDE DEF c
<1>3. cancel_pending_entry(s) = reset_position(c)
  BY DEF cancel_pending_entry, p, c
<1> QED BY <1>2, <1>3, ResetEndsLeg DEF LegStep

LEMMA RetryLeg ==
  ASSUME NEW s, IsRec(s), s.dir \in {"NONE", "BUY", "SELL"},
         NEW ok \in BOOLEAN, NEW okStop \in BOOLEAN
  PROVE  LegStep(s, retry_stuck_exit(s, ok, okStop))
<1> DEFINE b == s.exit
           known == b \in s.s2cOrders
           g == [s EXCEPT !.s2cCancelled = IF known THEN @ \cup {b} ELSE @,
                          !.clientOnly = IF known THEN @ ELSE @ \cup {b},
                          !.cancelTrade = [@ EXCEPT ![b] = s.tradeSeq]]
           o == cancel_order_locked(g, b)
           e == [o EXCEPT !.cancelled = @ \cup {b}, !.lastStop = b]
           c == cancel_persist(e, b)
           r == [c EXCEPT !.exit = 0, !.state = Held(s.dir)]
<1>1. SameLeg(g, s)
  BY DEF SameLeg, IsRec, Fields
<1> HIDE DEF g
<1>2. SameLeg(o, s)
  BY <1>1, CancelKeepsLeg DEF SameLeg
<1> HIDE DEF o
<1>3. SameLeg(e, s)
  BY <1>2 DEF SameLeg, IsRec, Fields
<1> HIDE DEF e
<1>4. SameLeg(c, s)
  BY <1>3, HelpersKeepLeg DEF SameLeg
<1> HIDE DEF c
<1>5. IsRec(r) /\ r.dir = s.dir
  BY <1>4 DEF SameLeg, IsRec, Fields
<1> HIDE DEF r
<1>6. /\ initiate_exit_locked(r, ok, okStop).dir = s.dir
      /\ initiate_exit_locked(r, ok, okStop).state \in {"PENDING_EXIT", Held(s.dir)}
  BY <1>5, ExitLeg
<1>7. retry_stuck_exit(s, ok, okStop)
        = IF s.state # "PENDING_EXIT" THEN s ELSE initiate_exit_locked(r, ok, okStop)
  BY DEF retry_stuck_exit, g, o, e, c, r
<1>8. Held(s.dir) \in InTrade
  BY DEF Held, InTrade
<1> QED BY <1>6, <1>7, <1>8 DEF LegStep

\* A reject ends a pending entry, brings back a leg whose exit is refused, or
\* concerns the stop only.
LEMMA RejectLeg ==
  ASSUME NEW s, IsRec(s), s.dir \in {"NONE", "BUY", "SELL"}, NEW b, NEW by,
         NEW ok \in BOOLEAN, NEW okStop \in BOOLEAN
  PROVE  LegStep(s, on_order_rejected(s, b, by, ok, okStop))
<1> DEFINE resolved == IF by = "client" \/ b \in s.s2cOrders THEN b ELSE 0
           x == [s EXCEPT !.state = Held(s.dir), !.exit = 0, !.rejectedExits = @ + 1]
           h == [x EXCEPT !.entryHalted = TRUE]
           i == initiate_exit_locked(x, ok, okStop)
           c == cancel_remove(s, s.stop)
           d == [c EXCEPT !.stop = 0, !.stopServer = 0]
           A == resolved # 0 /\ s.entry = resolved /\ s.state = "PENDING_ENTRY"
           B == resolved # 0 /\ s.exit = resolved /\ s.state = "PENDING_EXIT"
           D == \/ resolved # 0 /\ s.stop = resolved
                \/ by = "server" /\ s.stopServer = b
<1>1. IsRec(x) /\ x.state = Held(s.dir) /\ x.dir = s.dir
  BY DEF IsRec, Fields
<1> HIDE DEF x
<1>2. h.state = Held(s.dir) /\ h.dir = s.dir
  BY <1>1 DEF IsRec, Fields
<1> HIDE DEF h
<1>3. i.dir = s.dir /\ i.state \in {"PENDING_EXIT", Held(s.dir)}
  BY <1>1, ExitLeg
<1> HIDE DEF i
<1>4. SameLeg(c, s)
  BY HelpersKeepLeg
<1> HIDE DEF c
<1>5. SameLeg(d, s)
  BY <1>4 DEF SameLeg, IsRec, Fields
<1> HIDE DEF d
<1>6. reset_position(s).state = "FLAT" /\ reset_position(s).dir = "NONE"
  BY ResetEndsLeg
<1> DEFINE t == on_order_rejected(s, b, by, ok, okStop)
<1>7. t = CASE A -> reset_position(s)
            [] B -> IF x.rejectedExits <= 3 THEN i ELSE h
            [] ~A /\ ~B /\ D -> d
            [] OTHER -> s
  BY DEF on_order_rejected, x, h, i, c, d
<1> HIDE DEF resolved, t
<1>8. Held(s.dir) \in InTrade
  BY DEF Held, InTrade
<1>9. CASE A
  <2>1. t = reset_position(s)
    BY <1>7, <1>9
  <2> QED BY <1>6, <2>1 DEF LegStep, t
<1>10. CASE B
  <2>1. t \in {h, i}
    BY <1>7, <1>10
  <2> QED BY <1>2, <1>3, <1>8, <1>10, <2>1 DEF LegStep, t
<1>11. CASE ~A /\ ~B
  <2>1. t \in {d, s}
    BY <1>7, <1>11
  <2> QED BY <1>5, <2>1 DEF LegStep, SameLeg, t
<1> QED BY <1>9, <1>10, <1>11

\* Maps, acknowledgements and failures of cancels never touch the leg.
LEMMA MessagesKeepLeg ==
  ASSUME NEW s, IsRec(s), NEW b, NEW q, NEW by
  PROVE  /\ LegStep(s, map_server_basket(s, b))
         /\ LegStep(s, on_stop_server_mapped(s, b))
         /\ LegStep(s, on_cancel_failed(s, b, by))
         /\ LegStep(s, on_cancel_confirmed(s, b))
         /\ LegStep(s, on_cancel_confirmed_by_server_basket(s, b))
         /\ LegStep(s, record_fill(s, b, q))
<1>1. LegStep(s, map_server_basket(s, b))
  <2> DEFINE m == [s EXCEPT !.s2cOrders = @ \cup {b}, !.unmapped = @ \ {b}]
             n == [m EXCEPT !.s2cCancelled = @ \cup {b}, !.clientOnly = @ \ {b}]
             g == IF b \in s.cancelled
                  THEN [m EXCEPT !.s2cCancelled = @ \cup {b}, !.clientOnly = @ \ {b}]
                  ELSE m
  <2>1. SameLeg(m, s)
    BY DEF SameLeg, IsRec, Fields
  <2> HIDE DEF m
  <2>2. SameLeg(g, s)
    BY <2>1 DEF SameLeg, IsRec, Fields
  <2> HIDE DEF g
  <2>3. SameLeg(send_cancel(g, b, "server"), s)
    BY <2>2, HelpersKeepLeg DEF SameLeg
  <2>4. map_server_basket(s, b)
          = IF b \in s.unmapped THEN send_cancel(g, b, "server") ELSE m
    BY DEF map_server_basket, m, g
  <2> QED BY <2>1, <2>3, <2>4 DEF SameLeg, LegStep
<1>2. LegStep(s, on_stop_server_mapped(s, b))
  <2> DEFINE l == [s EXCEPT !.stopServer = b]
             r == [s EXCEPT !.s2cCancelled = @ \cup {b}, !.clientOnly = @ \ {b}]
             pl == cancel_persist_server_id(l, b)
             pr == cancel_persist_server_id(r, b)
             cr == send_cancel(pr, b, "server")
  <2>1. SameLeg(l, s) /\ SameLeg(r, s)
    BY DEF SameLeg, IsRec, Fields
  <2> HIDE DEF l, r
  <2>2. SameLeg(pl, s) /\ SameLeg(pr, s)
    BY <2>1, HelpersKeepLeg DEF SameLeg
  <2> HIDE DEF pl, pr
  <2>3. SameLeg(cr, s)
    BY <2>2, HelpersKeepLeg DEF SameLeg
  <2> HIDE DEF cr
  <2>4. on_stop_server_mapped(s, b) \in {s, pl, cr}
    BY DEF on_stop_server_mapped, l, r, pl, pr, cr
  <2> QED BY <2>2, <2>3, <2>4 DEF SameLeg, LegStep
<1>3. LegStep(s, on_cancel_failed(s, b, by))
  <2> DEFINE c == IF s.stop # 0 /\ s.stop # b THEN cancel_stop_locked(s) ELSE s
             d == drop_guard(c, b)
             e == cancel_remove(d, b)
             f == [e EXCEPT !.stop = b, !.stopServer = IF by = "server" THEN b ELSE 0]
  <2>1. SameLeg(c, s)
    BY CancelKeepsLeg DEF SameLeg
  <2> HIDE DEF c
  <2>2. SameLeg(d, s)
    BY <2>1, HelpersKeepLeg DEF SameLeg
  <2> HIDE DEF d
  <2>3. SameLeg(e, s)
    BY <2>2, HelpersKeepLeg DEF SameLeg
  <2> HIDE DEF e
  <2>4. SameLeg(f, s)
    BY <2>3 DEF SameLeg, IsRec, Fields
  <2> HIDE DEF f
  <2>5. on_cancel_failed(s, b, by) = IF readopts(s, b, by) THEN f ELSE s
    BY DEF on_cancel_failed, c, d, e, f
  <2> QED BY <2>4, <2>5 DEF SameLeg, LegStep
<1>4. /\ LegStep(s, on_cancel_confirmed(s, b))
      /\ LegStep(s, on_cancel_confirmed_by_server_basket(s, b))
  <2> DEFINE d == drop_guard(s, b)
             e == cancel_remove(d, b)
  <2>1. SameLeg(d, s)
    BY HelpersKeepLeg
  <2> HIDE DEF d
  <2>2. SameLeg(e, s)
    BY <2>1, HelpersKeepLeg DEF SameLeg
  <2> HIDE DEF e
  <2>3. on_cancel_confirmed(s, b) = e
    BY DEF on_cancel_confirmed, d, e
  <2> QED BY <2>2, <2>3 DEF on_cancel_confirmed_by_server_basket, SameLeg, LegStep
<1>5. LegStep(s, record_fill(s, b, q))
  BY DEF record_fill, LegStep, IsRec, Fields
<1> QED BY <1>1, <1>2, <1>3, <1>4, <1>5

\* The housekeeping calls.
LEMMA QuietLeg ==
  ASSUME NEW s, IsRec(s), NEW isBuy
  PROVE  /\ LegStep(s, recancel_pending_stops(s))
         /\ LegStep(s, clear_post_close_recancels(s))
         /\ LegStep(s, confirm_exchange_flat(s))
         /\ LegStep(s, pop_trade_completed(s))
         /\ LegStep(s, register_unwind_basket(s, isBuy))
<1>1. /\ LegStep(s, recancel_pending_stops(s))
      /\ LegStep(s, clear_post_close_recancels(s))
      /\ LegStep(s, confirm_exchange_flat(s))
      /\ LegStep(s, pop_trade_completed(s))
  BY DEF recancel_pending_stops, clear_post_close_recancels, confirm_exchange_flat,
         pop_trade_completed, LegStep, IsRec, Fields
<1>2. LegStep(s, register_unwind_basket(s, isBuy))
  <2> DEFINE o == send_order(s, "unwind", isBuy, TRUE)
  <2>1. SameLeg(o, s)
    BY HelpersKeepLeg
  <2> HIDE DEF o
  <2>2. SameLeg([o EXCEPT !.unwinds = @ \cup {s.seq + 1}], s)
    BY <2>1 DEF SameLeg, IsRec, Fields
  <2> QED BY <2>2 DEF register_unwind_basket, o, SameLeg, LegStep
<1> QED BY <1>1, <1>2

\* An external close ends the leg and a new process starts without one.
LEMMA ClosedLeg ==
  ASSUME NEW s, IsRec(s)
  PROVE  LegStep(s, adopt_external_close(s)) /\ LegStep(s, startup(s))
<1>1. LegStep(s, adopt_external_close(s))
  <2> DEFINE c == cancel_stop_locked(s)
             r == reset_position(c)
             t == [r EXCEPT !.tradeCompleted = TRUE, !.s2cOrders = {}]
  <2>1. IsRec(c)
    BY CancelKeepsLeg DEF SameLeg
  <2> HIDE DEF c
  <2>2. IsRec(r) /\ r.state = "FLAT" /\ r.dir = "NONE"
    BY <2>1, ResetEndsLeg
  <2> HIDE DEF r
  <2>3. t.state = "FLAT" /\ t.dir = "NONE"
    BY <2>2 DEF IsRec, Fields
  <2> HIDE DEF t
  <2>4. adopt_external_close(s)
          = IF s.state \in InTrade \cup {"PENDING_EXIT"} THEN t ELSE s
    BY DEF adopt_external_close, c, r, t
  <2> QED BY <2>3, <2>4 DEF LegStep
<1>2. LegStep(s, startup(s))
  <2>1. startup(s).state = "FLAT" /\ startup(s).dir = "NONE"
    BY DEF startup, recancel_pending_stops, Empty
  <2> QED BY <2>1 DEF LegStep
<1> QED BY <1>1, <1>2

-----------------------------------------------------------------------------
(* The refinement. *)

\* Every action of the order manager is a step of the leg or leaves it alone.
LEMMA NextLeg ==
  ASSUME IInv, Next
  PROVE  LegStep(om, om')
<1> DEFINE s == Call(om)
<1>1. /\ IsRec(om) /\ IsRec(s) /\ s.state = om.state /\ s.dir = om.dir
      /\ s.dir \in {"NONE", "BUY", "SELL"} /\ s.state \in PosState
      /\ s.state \in InTrade => s.state = Held(s.dir)
  BY GoodIsRec DEF IInv, Good, IsOMState, OrbSignal, HasShape, SameLeg
<1> HIDE DEF s
<1>2. ASSUME LegStep(s, om') PROVE LegStep(om, om')
  BY <1>1, <1>2 DEF LegStep
<1>3. ASSUME s.state \in InTrade, NEW ok \in BOOLEAN, NEW okStop \in BOOLEAN
      PROVE  LegStep(s, initiate_exit_locked(s, ok, okStop))
  BY <1>1, <1>3, ExitLeg DEF LegStep
<1>4. CASE OnSignal
  BY <1>1, <1>2, <1>4, SignalLeg DEF OnSignal, s
<1>5. CASE OnFillNotification
  <2>1. PICK b \in Known \cup {NoBasket}, q \in 1 .. Qty, isEntry \in BOOLEAN,
             ok \in BOOLEAN : om' = on_fill_notification(s, b, q, isEntry, ok)
    BY <1>5 DEF OnFillNotification, s
  <2>2. LegStep(s, s)
    BY DEF LegStep
  <2>3. om' \in {fill_entry(s, b, q, ok), fill_flat(s, b, ok), fill_exit(s, b), s}
    BY <1>1, <2>1 DEF on_fill_notification, PosState, InTrade
  <2> QED BY <1>1, <1>2, <2>2, <2>3, FillEntryLeg, FillFlatLeg, FillExitLeg
<1>6. CASE FillAlreadyProcessed
  BY <1>1, <1>2, <1>6, MessagesKeepLeg DEF FillAlreadyProcessed, s
<1>7. CASE CheckTrailAndStop
  <2>1. ASSUME NEW ok \in BOOLEAN PROVE LegStep(s, update_stop_order_locked(s, ok))
    <3>1. SameLeg(cancel_stop_locked(s), s)
      BY <1>1, CancelKeepsLeg
    <3>2. SameLeg(submit_stop_order_locked(cancel_stop_locked(s), ok),
                  cancel_stop_locked(s))
      BY <3>1, SubmitKeepsLeg DEF SameLeg
    <3> QED BY <3>1, <3>2 DEF update_stop_order_locked, SameLeg, LegStep
  <2>2. PICK ok \in BOOLEAN, okStop \in BOOLEAN :
          \/ om' = initiate_exit_locked(s, ok, okStop)
          \/ om' = update_stop_order_locked(s, okStop)
    BY <1>7 DEF CheckTrailAndStop, s
  <2>3. s.state \in InTrade
    BY <1>1, <1>7 DEF CheckTrailAndStop
  <2> QED BY <1>2, <1>3, <2>1, <2>2, <2>3
<1>8. CASE FlattenNow
  <2>1. PICK ok \in BOOLEAN, okStop \in BOOLEAN : om' = flatten_now(s, ok, okStop)
    BY <1>8 DEF FlattenNow, s
  <2>2. CASE s.state = "PENDING_ENTRY"
    <3>1. om' = cancel_pending_entry(s)
      BY <2>1, <2>2 DEF flatten_now, InTrade
    <3> QED BY <1>1, <1>2, <3>1, CancelEntryLeg
  <2>3. CASE s.state \in InTrade
    <3>1. om' = initiate_exit_locked(s, ok, okStop)
      BY <2>1, <2>3 DEF flatten_now, InTrade
    <3> QED BY <1>2, <1>3, <2>3, <3>1
  <2>4. CASE s.state \in {"FLAT", "PENDING_EXIT"}
    <3>1. om' = s
      BY <2>1, <2>4 DEF flatten_now, InTrade
    <3> QED BY <1>1, <3>1 DEF LegStep
  <2> QED BY <1>1, <2>2, <2>3, <2>4 DEF PosState, InTrade
<1>9. CASE PendingEntryTimeout
  <2>1. LegStep(s, s)
    BY DEF LegStep
  <2> QED BY <1>1, <1>2, <1>9, <2>1, CancelEntryLeg
          DEF PendingEntryTimeout, pending_entry_timeout_check, s
<1>10. CASE RetryStuckExit
  BY <1>1, <1>2, <1>10, RetryLeg DEF RetryStuckExit, s
<1>11. CASE OnOrderRejected
  BY <1>1, <1>2, <1>11, RejectLeg DEF OnOrderRejected, s
<1>12. CASE OnMapped \/ OnCancelFailed \/ OnCancelConfirmed
  BY <1>1, <1>2, <1>12, MessagesKeepLeg DEF OnMapped, OnCancelFailed, OnCancelConfirmed, s
<1>13. CASE AdoptExternalClose
  BY <1>1, <1>2, <1>13, ClosedLeg DEF AdoptExternalClose, s
<1>14. CASE \/ RecancelPendingStops \/ ClearPostCloseRecancels \/ ConfirmExchangeFlat
            \/ PopTradeCompleted \/ RegisterUnwindBasket
  BY <1>1, <1>2, <1>14, QuietLeg
  DEF RecancelPendingStops, ClearPostCloseRecancels, ConfirmExchangeFlat,
      PopTradeCompleted, RegisterUnwindBasket, s
<1>15. CASE Startup
  BY <1>1, <1>15, ClosedLeg DEF Startup
<1> QED
  BY <1>4, <1>5, <1>6, <1>7, <1>8, <1>9, <1>10, <1>11, <1>12, <1>13, <1>14, <1>15 DEF Next

\* A step of the leg on the states of the class is a step of LegLife.
LEMMA StepSimulates ==
  ASSUME NEW s, NEW t, HasShape(s), HasShape(t), LegStep(s, t),
         s.state \in PosState, t.state \in PosState
  PROVE  \/ LegOf(t) = LegOf(s)
         \/ /\ LegOf(s) = [st |-> "FLAT", dir |-> "NONE"]
            /\ \E d \in {"BUY", "SELL"} : LegOf(t) = [st |-> "PEND", dir |-> d]
         \/ \E p \in {<<"PEND", "OPEN">>, <<"OPEN", "EXIT">>, <<"EXIT", "OPEN">>} :
              LegOf(s).st = p[1] /\ LegOf(t) = [st |-> p[2], dir |-> LegOf(s).dir]
         \/ LegOf(s).st # "FLAT" /\ LegOf(t) = [st |-> "FLAT", dir |-> "NONE"]
<1>1. LegOf(s) = [st |-> LegOf(s).st, dir |-> s.dir]
      /\ LegOf(t) = [st |-> LegOf(t).st, dir |-> t.dir]
  <2> DEFINE St(u) == CASE u.state = "FLAT" -> "FLAT"
                        [] u.state = "PENDING_ENTRY" -> "PEND"
                        [] u.state \in InTrade -> "OPEN"
                        [] u.state = "PENDING_EXIT" -> "EXIT"
  <2>1. /\ LegOf(s) = [st |-> St(s), dir |-> s.dir]
        /\ LegOf(t) = [st |-> St(t), dir |-> t.dir]
    BY DEF LegOf
  <2> HIDE DEF St
  <2> QED BY <2>1
<1>2. ASSUME NEW u, u.state \in PosState
      PROVE  /\ u.state = "FLAT" => LegOf(u).st = "FLAT"
             /\ u.state = "PENDING_ENTRY" => LegOf(u).st = "PEND"
             /\ u.state \in InTrade => LegOf(u).st = "OPEN"
             /\ u.state = "PENDING_EXIT" => LegOf(u).st = "EXIT"
  BY <1>2 DEF LegOf, PosState, InTrade
<1>3. CASE t.state = s.state /\ t.dir = s.dir
  BY <1>1, <1>2, <1>3 DEF PosState, InTrade
<1>4. CASE s.state = "FLAT" /\ t.state = "PENDING_ENTRY" /\ t.dir \in {"BUY", "SELL"}
  BY <1>1, <1>2, <1>4 DEF HasShape
<1>5. CASE s.state = "PENDING_ENTRY" /\ t.state \in InTrade /\ t.dir = s.dir
  BY <1>1, <1>2, <1>5
<1>6. CASE s.state \in InTrade /\ t.state = "PENDING_EXIT" /\ t.dir = s.dir
  BY <1>1, <1>2, <1>6
<1>7. CASE s.state = "PENDING_EXIT" /\ t.state \in InTrade /\ t.dir = s.dir
  BY <1>1, <1>2, <1>7
<1>8. CASE t.state = "FLAT" /\ t.dir = "NONE"
  <2>1. CASE s.state = "FLAT"
    BY <1>1, <1>2, <1>8, <2>1 DEF HasShape
  <2>2. CASE s.state # "FLAT"
    BY <1>1, <1>2, <1>8, <2>2 DEF PosState, InTrade
  <2> QED BY <2>1, <2>2
<1> QED BY <1>3, <1>4, <1>5, <1>6, <1>7, <1>8 DEF LegStep

\* The order manager, under any client, implements the leg contract that the
\* executor's loops and engines rely on (on_signal, on_fill_notification,
\* flatten_now, retry_stuck_exit, on_order_rejected, adopt_external_close).
THEOREM Refinement == Spec => LegContract
<1>1. Init => Legs!Init
  BY DEF Init, Empty, LegOf, InTrade, Legs!Init, Legs!NoLeg
<1>2. ASSUME IInv, IInv', [Next]_om
      PROVE  [Legs!Next]_(LegOf(om))
  <2>1. CASE UNCHANGED om
    BY <2>1 DEF LegOf
  <2>2. CASE Next
    <3>1. LegStep(om, om')
      BY <1>2, <2>2, NextLeg
    <3>2. /\ HasShape(om) /\ HasShape(om')
          /\ om.state \in PosState /\ om'.state \in PosState
      BY <1>2 DEF IInv, Good, IsOMState, HasShape, Held, InTrade, PosState
    <3>3. \/ LegOf(om') = LegOf(om)
          \/ /\ LegOf(om) = [st |-> "FLAT", dir |-> "NONE"]
             /\ \E d \in {"BUY", "SELL"} : LegOf(om') = [st |-> "PEND", dir |-> d]
          \/ \E p \in {<<"PEND", "OPEN">>, <<"OPEN", "EXIT">>, <<"EXIT", "OPEN">>} :
               LegOf(om).st = p[1] /\ LegOf(om') = [st |-> p[2], dir |-> LegOf(om).dir]
          \/ LegOf(om).st # "FLAT" /\ LegOf(om') = [st |-> "FLAT", dir |-> "NONE"]
      BY <3>1, <3>2, StepSimulates
    <3> QED
      BY <3>3
      DEF Legs!Next, Legs!Take, Legs!Open, Legs!AskExit, Legs!ExitFails, Legs!End,
          Legs!Moves, Legs!NoLeg
  <2> QED BY <1>2, <2>1, <2>2
<1> QED BY <1>1, <1>2, Invariance, PTL DEF Spec, LegContract, Legs!Spec

=============================================================================
