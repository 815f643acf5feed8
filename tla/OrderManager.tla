---------------------------- MODULE OrderManager ----------------------------
(***************************************************************************)
(* The order manager of the executor (execution/order_manager.hpp): one    *)
(* position, its entry, exit and protective-stop orders, and the guards on *)
(* orders whose cancel has been sent but not acknowledged.                 *)
(*                                                                         *)
(* The class is one mutex-protected object whose public methods are called *)
(* from the executor's single io_context thread, so a method is one atomic *)
(* step.  Every private helper is an operator from a state record to a     *)
(* state record, named as in the source, and a method composes them in the *)
(* order of the code.                                                      *)
(*                                                                         *)
(* What is abstracted.  Prices, P&L and latency records are left out (the  *)
(* risk manager and the trailing arithmetic are modules of their own).  A  *)
(* basket id is a number, drawn in increasing order as new_basket_id() does*)
(* and 0 is the empty string.  Rithmic assigns one server basket id to an  *)
(* order, so a server->client map is the set of client ids it maps to, and *)
(* "the server id of b" is b in a message that says by = "server".  What   *)
(* order_cb_ returns is an input of the step that sends.                   *)
(*                                                                         *)
(* Next is the most general client: any method, with any argument, in any  *)
(* order.  OrderRouting.tla restricts it to the calls the executor makes.  *)
(***************************************************************************)
EXTENDS Integers, FiniteSets

CONSTANTS MaxBaskets,   \* bound: orders sent in a behaviour
          Qty           \* contracts of an order (pos_.qty)

ASSUME BasketsAssumption == MaxBaskets \in Nat \ {0}
ASSUME QtyAssumption == Qty \in Nat \ {0}

VARIABLE om

Baskets == 1 .. MaxBaskets
NoBasket == 0
BasketId == 0 .. MaxBaskets
PosState == {"FLAT", "PENDING_ENTRY", "LONG", "SHORT", "PENDING_EXIT"}
OrbSignal == {"NONE", "BUY", "SELL"}
InTrade == {"LONG", "SHORT"}

\* What goes to the order plant through order_cb_ and cancel_cb_.
NewOrder == [op : {"new"}, id : Baskets, kind : {"entry", "exit", "stop", "unwind"},
             buy : BOOLEAN]
CancelOrder == [op : {"cancel"}, id : Baskets, by : {"server", "client"}]

\* A new OrderManager: its members, by what they hold.
Empty ==
  [ state |-> "FLAT", dir |-> "NONE", entry |-> 0, exit |-> 0, stop |-> 0,
    stopServer |-> 0, lastStop |-> 0, pendingCancel |-> 0, seq |-> 0,
    tradeSeq |-> 0, cancelled |-> {}, cancelTrade |-> [b \in Baskets |-> 0],
    s2cCancelled |-> {}, clientOnly |-> {}, s2cOrders |-> {}, unmapped |-> {},
    unwinds |-> {}, processed |-> [b \in Baskets |-> 0], rejectedExits |-> 0,
    entryHalted |-> FALSE, ghostHalted |-> FALSE, tradeCompleted |-> FALSE,
    dbRows |-> {}, dbServer |-> {}, out |-> {}, buys |-> {}, stops |-> {},
    seeded |-> {} ]

\* The state of the class, field by field.
IsOMState(s) ==
  /\ DOMAIN s = DOMAIN Empty
  /\ s.state \in PosState
  /\ s.dir \in OrbSignal
  \* pos_.basket_id_entry, _exit, _stop and stop_server_basket_
  /\ s.entry \in BasketId /\ s.exit \in BasketId
  /\ s.stop \in BasketId /\ s.stopServer \in BasketId
  \* last_stop_for_unwind_, pending_cancel_basket_
  /\ s.lastStop \in BasketId /\ s.pendingCancel \in BasketId
  \* seq_, the last basket id drawn, and trade_seq_
  /\ s.seq \in BasketId /\ s.tradeSeq \in BasketId
  \* cancelled_stops_ and the trade of each (0: no entry in cancelled_stop_trade_)
  /\ s.cancelled \subseteq Baskets
  /\ s.cancelTrade \in [Baskets -> BasketId]
  \* server_to_client_cancelled_, client_only_cancels_
  /\ s.s2cCancelled \subseteq Baskets
  /\ s.clientOnly \subseteq Baskets
  \* server_to_client_orders_, unmapped_order_cancels_, unwind_baskets_
  /\ s.s2cOrders \subseteq Baskets
  /\ s.unmapped \subseteq Baskets
  /\ s.unwinds \subseteq Baskets
  /\ s.processed \in [Baskets -> 0 .. Qty]     \* processed_fill_qty_
  /\ s.rejectedExits \in Nat
  /\ s.entryHalted \in BOOLEAN
  /\ s.ghostHalted \in BOOLEAN
  /\ s.tradeCompleted \in BOOLEAN
  \* pending_stop_cancels: its rows, and those with a server_basket_id
  /\ s.dbRows \subseteq Baskets
  /\ s.dbServer \subseteq Baskets
  /\ s.out \subseteq NewOrder \cup CancelOrder \* sent during the current call
  \* What the orders were: sent as BUY (was_buy_stop), sent as STOP_MARKET, and
  \* the guards loaded from the DB at startup.
  /\ s.buys \subseteq Baskets
  /\ s.stops \subseteq Baskets
  /\ s.seeded \subseteq Baskets

-----------------------------------------------------------------------------
(* Private helpers. *)

\* A public method starts with nothing sent.
Call(s) == [s EXCEPT !.out = {}]

\* pos_ = Position{}
reset_position(s) ==
  [s EXCEPT !.state = "FLAT", !.dir = "NONE", !.entry = 0, !.exit = 0, !.stop = 0]

Held(dir) == IF dir = "BUY" THEN "LONG" ELSE "SHORT"

\* new_basket_id() followed by order_cb_: the id is consumed whether or not the
\* send succeeds, the order is on the wire only when it does.
send_order(s, kind, isBuy, ok) ==
  LET b == s.seq + 1 IN
  [s EXCEPT !.seq = b,
            !.buys = IF isBuy THEN @ \cup {b} ELSE @,
            !.stops = IF kind = "stop" THEN @ \cup {b} ELSE @,
            !.out = IF ok THEN @ \cup {[op |-> "new", id |-> b, kind |-> kind,
                                        buy |-> isBuy]} ELSE @]

send_cancel(s, b, by) ==
  [s EXCEPT !.out = @ \cup {[op |-> "cancel", id |-> b, by |-> by]}]

\* cancel_persist_cb_ (INSERT ... ON CONFLICT DO NOTHING), cancel_remove_cb_ and
\* cancel_persist_server_id_cb_ (an UPDATE: no row, no effect).
cancel_persist(s, b) == [s EXCEPT !.dbRows = @ \cup {b}]
cancel_remove(s, b) == [s EXCEPT !.dbRows = @ \ {b}, !.dbServer = @ \ {b}]
cancel_persist_server_id(s, b) ==
  [s EXCEPT !.dbServer = IF b \in s.dbRows THEN @ \cup {b} ELSE @]

\* Mutant: the server map keeps the resolved order.
drop_guard_keeps_retry(s, b) ==
  [s EXCEPT !.cancelled = @ \ {b}, !.clientOnly = @ \ {b},
            !.lastStop = IF @ = b THEN 0 ELSE @]

\* The guard of b is resolved: by an ACK, a fill or a re-adoption.
drop_guard(s, b) ==
  [s EXCEPT !.cancelled = @ \ {b}, !.s2cCancelled = @ \ {b}, !.clientOnly = @ \ {b},
            !.lastStop = IF @ = b THEN 0 ELSE @]

submit_stop_order_locked(s, ok) ==
  LET b == s.seq + 1
      t == send_order(s, "stop", s.state # "LONG", ok) IN
  IF ok THEN cancel_persist([t EXCEPT !.stop = b, !.stopServer = 0], b)
        ELSE [t EXCEPT !.stop = 0, !.stopServer = 0]

\* Mutant: a cancel sent by client id is not remembered.
guard_stop_server_only(s, known) ==
  [s EXCEPT !.lastStop = s.stop,
            !.cancelled = @ \cup {s.stop},
            !.cancelTrade = [@ EXCEPT ![s.stop] = s.tradeSeq],
            !.s2cCancelled = IF known THEN @ \cup {s.stop} ELSE @]

\* The guard of a stop about to be cancelled: the cancel is not atomic and the
\* stop may still fire.  `known`: its server id is mapped, so the cancel can be
\* routed; otherwise only a later mapping can make it effective.
guard_stop(s, known) ==
  [s EXCEPT !.lastStop = s.stop,
            !.cancelled = @ \cup {s.stop},
            !.cancelTrade = [@ EXCEPT ![s.stop] = s.tradeSeq],
            !.s2cCancelled = IF known THEN @ \cup {s.stop} ELSE @,
            !.clientOnly = IF known THEN @ ELSE @ \cup {s.stop}]

\* Mutant: the row is taken to be there since the submit.
cancel_stop_unpersisted(s) ==
  LET known == s.stopServer # 0
      c == send_cancel(guard_stop(s, known), s.stop,
                       IF known THEN "server" ELSE "client") IN
  IF s.stop = 0 THEN s ELSE [c EXCEPT !.stop = 0, !.stopServer = 0]

cancel_stop_locked(s) ==
  LET b == s.stop
      known == s.stopServer # 0
      p == cancel_persist(guard_stop(s, known), b)
      q == IF known THEN cancel_persist_server_id(p, b) ELSE p
      c == send_cancel(q, b, IF known THEN "server" ELSE "client") IN
  IF b = 0 THEN s ELSE [c EXCEPT !.stop = 0, !.stopServer = 0]

\* Cancel an entry or exit order by the id Rithmic can route.
cancel_order_locked(s, b) ==
  IF b \in s.s2cOrders THEN send_cancel(s, b, "server")
  ELSE send_cancel([s EXCEPT !.unmapped = @ \cup {b}], b, "client")

\* The stop is cancelled before the exit is sent; a failed send restores LONG or
\* SHORT and the stop (okStop: whether that stop could be sent).
initiate_exit_locked(s, ok, okStop) ==
  LET c == cancel_stop_locked(s)
      x == [send_order(c, "exit", s.dir = "SELL", ok)
              EXCEPT !.state = "PENDING_EXIT", !.exit = c.seq + 1]
      r == [x EXCEPT !.exit = 0, !.state = Held(s.dir),
                     !.rejectedExits = @ + 1,
                     !.entryHalted = @ \/ s.rejectedExits + 1 > 3] IN
  IF ok THEN x ELSE submit_stop_order_locked(r, okStop)

\* Mutant: the new stop first, then the cancel, which takes the new one.
update_stop_submit_first(s, ok) ==
  cancel_stop_locked(submit_stop_order_locked(s, ok))

\* Cancel + resubmit, or a first submit when no stop is live.  The storm filter
\* (a move smaller than trail_step is not sent) is a choice of the caller.
update_stop_order_locked(s, ok) ==
  submit_stop_order_locked(cancel_stop_locked(s), ok)

-----------------------------------------------------------------------------
(* on_fill_notification_locked, branch by branch. *)

\* An unwind of a position nobody holds: opposite to the order that filled.
send_unwind_order(s, b, ok) ==
  LET t == send_order(s, "unwind", b \notin s.buys, ok) IN
  IF ok THEN [t EXCEPT !.unwinds = @ \cup {s.seq + 1}] ELSE t

\* Mutant: a fill reported with an empty tag opens a position.
fill_entry_any_state(s, b, q, ok) ==
  IF s.entry = b /\ q >= Qty
  THEN submit_stop_order_locked([s EXCEPT !.state = Held(s.dir), !.pendingCancel = 0], ok)
  ELSE s

fill_entry(s, b, q, ok) ==
  CASE s.state # "PENDING_ENTRY" /\ s.pendingCancel # 0 /\ b = s.pendingCancel ->
         send_order([s EXCEPT !.pendingCancel = 0], "unwind", b \notin s.buys, ok)
    [] s.state = "PENDING_ENTRY" /\ s.entry = b /\ q >= Qty ->
         submit_stop_order_locked(
           [s EXCEPT !.state = Held(s.dir), !.pendingCancel = 0], ok)
    [] OTHER -> s

\* FLAT (or PENDING_ENTRY): the stale-stop guards, in the code's order.
fill_flat(s, b, ok) ==
  CASE b # 0 /\ (b = s.lastStop \/ b \in s.cancelled) ->
         send_unwind_order(cancel_remove(drop_guard(s, b), b), b, ok)
    [] b \in s.unwinds /\ b # s.lastStop /\ b \notin s.cancelled ->
         [s EXCEPT !.unwinds = @ \ {b}, !.ghostHalted = FALSE]
    [] OTHER -> [s EXCEPT !.ghostHalted = TRUE]

\* Mutant: a cancel sent by client id counts as done.
keep_at_flat_server_only(s) == s.cancelled \cap s.s2cCancelled

\* Guards kept at FLAT: a cancel still waiting for an ACK or a server id.
keep_at_flat(s) == s.cancelled \cap (s.s2cCancelled \cup s.clientOnly)

fill_exit(s, b) ==
  LET g == IF b \in s.cancelled
           THEN cancel_remove([drop_guard(s, b) EXCEPT !.cancelTrade[b] = 0], b)
           ELSE s
      c == IF g.stop = b THEN cancel_remove(g, b) ELSE cancel_stop_locked(g)
      f == reset_position(c) IN
  [f EXCEPT !.rejectedExits = 0, !.entryHalted = FALSE, !.tradeCompleted = TRUE,
            !.s2cOrders = {}, !.cancelled = keep_at_flat(c), !.unwinds = {},
            !.dbRows = @ \ (c.cancelled \ keep_at_flat(c)),
            !.dbServer = @ \ (c.cancelled \ keep_at_flat(c))]

on_fill_notification(s, b, q, isEntry, ok) ==
  CASE isEntry -> fill_entry(s, b, q, ok)
    [] ~isEntry /\ s.state \in {"FLAT", "PENDING_ENTRY"} -> fill_flat(s, b, ok)
    [] ~isEntry /\ s.state \in InTrade \cup {"PENDING_EXIT"} ->
         IF q >= Qty THEN fill_exit(s, b) ELSE s

-----------------------------------------------------------------------------
(* The other public methods. *)

on_signal(s, sig, canTrade, ok) ==
  LET p == [s EXCEPT !.state = "PENDING_ENTRY", !.dir = sig, !.entry = s.seq + 1,
                     !.exit = 0, !.stop = 0, !.tradeSeq = @ + 1]
      t == send_order(p, "entry", sig = "BUY", ok) IN
  IF s.entryHalted \/ s.ghostHalted \/ ~canTrade \/ s.state # "FLAT" THEN s
  ELSE IF ok THEN t ELSE reset_position(t)

\* The late-fill guard of a cancelled entry, then the cancel, then FLAT.
cancel_pending_entry(s) ==
  reset_position(cancel_order_locked([s EXCEPT !.pendingCancel = s.entry], s.entry))

flatten_now(s, ok, okStop) ==
  CASE s.state = "PENDING_ENTRY" -> cancel_pending_entry(s)
    [] s.state \in InTrade -> initiate_exit_locked(s, ok, okStop)
    [] s.state \in {"FLAT", "PENDING_EXIT"} -> s

\* Age past the timeout is the environment's choice.
pending_entry_timeout_check(s) ==
  IF s.state = "PENDING_ENTRY" THEN cancel_pending_entry(s) ELSE s

\* Mutant: the state is not checked, there may be no exit order.
retry_any_state(s, ok, okStop) ==
  LET b == s.exit
      c == cancel_persist([cancel_order_locked(s, b)
                             EXCEPT !.cancelled = @ \cup {b}, !.lastStop = b], b) IN
  initiate_exit_locked([c EXCEPT !.exit = 0, !.state = Held(s.dir)], ok, okStop)

retry_stuck_exit(s, ok, okStop) ==
  LET b == s.exit
      known == b \in s.s2cOrders
      g == [s EXCEPT !.s2cCancelled = IF known THEN @ \cup {b} ELSE @,
                     !.clientOnly = IF known THEN @ ELSE @ \cup {b},
                     !.cancelTrade = [@ EXCEPT ![b] = s.tradeSeq]]
      c == cancel_persist([cancel_order_locked(g, b)
                             EXCEPT !.cancelled = @ \cup {b}, !.lastStop = b], b)
      r == [c EXCEPT !.exit = 0, !.state = Held(s.dir)] IN
  IF s.state # "PENDING_EXIT" THEN s ELSE initiate_exit_locked(r, ok, okStop)

\* A gateway reject carries the server id only; `resolved` is what the
\* server->client map makes of it (0 when the order is not mapped).
on_order_rejected(s, b, by, ok, okStop) ==
  LET resolved == IF by = "client" \/ b \in s.s2cOrders THEN b ELSE 0
      x == [s EXCEPT !.state = Held(s.dir), !.exit = 0, !.rejectedExits = @ + 1] IN
  CASE resolved # 0 /\ s.entry = resolved /\ s.state = "PENDING_ENTRY" ->
         reset_position(s)
    [] resolved # 0 /\ s.exit = resolved /\ s.state = "PENDING_EXIT" ->
         IF x.rejectedExits <= 3 THEN initiate_exit_locked(x, ok, okStop)
         ELSE [x EXCEPT !.entryHalted = TRUE]
    [] /\ ~(resolved # 0 /\ s.entry = resolved /\ s.state = "PENDING_ENTRY")
       /\ ~(resolved # 0 /\ s.exit = resolved /\ s.state = "PENDING_EXIT")
       /\ \/ resolved # 0 /\ s.stop = resolved
          \/ by = "server" /\ s.stopServer = b ->
         [cancel_remove(s, s.stop) EXCEPT !.stop = 0, !.stopServer = 0]
    [] OTHER -> s

\* tid=351/352 told us the server id of one of our orders.
map_server_basket(s, b) ==
  LET m == [s EXCEPT !.s2cOrders = @ \cup {b}, !.unmapped = @ \ {b}]
      g == IF b \in s.cancelled
           THEN [m EXCEPT !.s2cCancelled = @ \cup {b}, !.clientOnly = @ \ {b}] ELSE m IN
  IF b \in s.unmapped THEN send_cancel(g, b, "server") ELSE m

\* Mutant: the server id is kept for the live stop only.
on_live_stop_mapped(s, b) ==
  IF s.stop = b THEN cancel_persist_server_id([s EXCEPT !.stopServer = b], b) ELSE s

on_stop_server_mapped(s, b) ==
  CASE s.stop = b -> IF s.stopServer = b THEN s
                     ELSE cancel_persist_server_id([s EXCEPT !.stopServer = b], b)
    [] s.stop # b /\ b \in s.cancelled \ s.s2cCancelled ->
         send_cancel(cancel_persist_server_id(
           [s EXCEPT !.s2cCancelled = @ \cup {b}, !.clientOnly = @ \ {b}], b), b, "server")
    [] s.stop # b /\ b \notin s.cancelled \ s.s2cCancelled -> s

\* Mutant: re-adopts whatever the position is doing.
readopts_any_state(s, b, by) ==
  /\ b \in s.cancelled
  /\ by = "server" <=> b \in s.s2cCancelled
  /\ s.cancelTrade[b] = s.tradeSeq

\* Mutant: re-adopts a stop of an earlier trade.
readopts_any_trade(s, b, by) ==
  /\ b \in s.cancelled
  /\ by = "server" <=> b \in s.s2cCancelled
  /\ s.state \in InTrade

\* A failure of the cancel of b, reported against its client or its server id,
\* makes b the live stop again only in the trade b belongs to, and only when no
\* cancel by server id is still in flight.
readopts(s, b, by) ==
  /\ b \in s.cancelled
  /\ by = "server" <=> b \in s.s2cCancelled
  /\ s.state \in InTrade
  /\ s.cancelTrade[b] = s.tradeSeq

\* The replacement is cancelled first; a failure that re-adopts nothing leaves
\* the guard in place.
on_cancel_failed(s, b, by) ==
  LET c == IF s.stop # 0 /\ s.stop # b THEN cancel_stop_locked(s) ELSE s IN
  IF readopts(s, b, by)
  THEN [cancel_remove(drop_guard(c, b), b)
          EXCEPT !.stop = b, !.stopServer = IF by = "server" THEN b ELSE 0]
  ELSE s

on_cancel_confirmed(s, b) == cancel_remove(drop_guard(s, b), b)

on_cancel_confirmed_by_server_basket(s, b) ==
  IF b \in s.s2cCancelled THEN on_cancel_confirmed(s, b) ELSE s

\* No purge of the guards, no reset of the halt or of the rejection counter.
adopt_external_close(s) ==
  IF s.state \in InTrade \cup {"PENDING_EXIT"}
  THEN [reset_position(cancel_stop_locked(s))
          EXCEPT !.tradeCompleted = TRUE, !.s2cOrders = {}]
  ELSE s

recancel_pending_stops(s) ==
  [s EXCEPT !.out = {[op |-> "cancel", id |-> b, by |-> "server"] : b \in s.s2cCancelled}
              \cup {[op |-> "cancel", id |-> b, by |-> "client"] :
                      b \in s.cancelled \ s.s2cCancelled}]

clear_post_close_recancels(s) == [s EXCEPT !.lastStop = 0]
confirm_exchange_flat(s) == [s EXCEPT !.ghostHalted = FALSE]
pop_trade_completed(s) == [s EXCEPT !.tradeCompleted = FALSE]

\* Returns TRUE when this cumulative quantity has been seen; else records it.
fill_already_processed(s, b, q) == s.processed[b] >= q
record_fill(s, b, q) ==
  IF s.processed[b] >= q THEN s ELSE [s EXCEPT !.processed[b] = q]

is_entry_basket(s, b) == s.entry = b
is_exit_basket(s, b) == s.exit # 0 /\ s.exit = b

\* Mutant: a superseded stop of this trade is not ours any more.
is_live_stop(s, b) == s.stop # 0 /\ s.stop = b

is_stop_basket(s, b) ==
  \/ s.stop # 0 /\ s.stop = b
  \/ s.state \in InTrade /\ s.cancelTrade[b] = s.tradeSeq /\ b \in s.cancelled

\* A new OrderManager in a new session: seq_ is static in the process and the
\* epoch part of an id keeps it fresh across processes; the DB rows seed the
\* guards, and a row with a server id the reverse map; then every one is
\* cancelled again.
startup(s) ==
  recancel_pending_stops(
    [Empty EXCEPT !.seq = s.seq, !.buys = s.buys, !.stops = s.stops,
                  !.dbRows = s.dbRows, !.dbServer = s.dbServer,
                  !.cancelled = s.dbRows, !.s2cCancelled = s.dbServer,
                  !.seeded = s.dbRows])
-----------------------------------------------------------------------------
(* The most general client. *)

Room(n) == om.seq + n <= MaxBaskets

\* The ids a caller can name: those drawn so far, and 0 for a tag that is empty
\* or of somebody else's order.
Known == 1 .. om.seq

Init == om = Empty

OnSignal == /\ Room(1)
            /\ \E sig \in {"BUY", "SELL"}, canTrade, ok \in BOOLEAN :
                 om' = on_signal(Call(om), sig, canTrade, ok)

OnFillNotification ==
  /\ Room(1)
  /\ \E b \in Known \cup {NoBasket}, q \in 1 .. Qty, isEntry, ok \in BOOLEAN :
       om' = on_fill_notification(Call(om), b, q, isEntry, ok)

FillAlreadyProcessed ==
  \E b \in Known, q \in 1 .. Qty : om' = record_fill(Call(om), b, q)

\* check_trail_and_stop and check_external_stop: on a tick in a trade the
\* software stop or the take-profit exits, or the stop is moved.
CheckTrailAndStop ==
  /\ om.state \in InTrade
  /\ Room(2)
  /\ \E ok, okStop \in BOOLEAN :
       \/ om' = initiate_exit_locked(Call(om), ok, okStop)
       \/ om' = update_stop_order_locked(Call(om), okStop)

FlattenNow == /\ Room(2)
              /\ \E ok, okStop \in BOOLEAN : om' = flatten_now(Call(om), ok, okStop)

PendingEntryTimeout == om' = pending_entry_timeout_check(Call(om))

RetryStuckExit ==
  /\ Room(2)
  /\ \E ok, okStop \in BOOLEAN : om' = retry_stuck_exit(Call(om), ok, okStop)

OnOrderRejected ==
  /\ Room(2)
  /\ \E b \in Known, by \in {"server", "client"}, ok, okStop \in BOOLEAN :
       om' = on_order_rejected(Call(om), b, by, ok, okStop)

OnMapped == \E b \in Known : \/ om' = map_server_basket(Call(om), b)
                             \/ om' = on_stop_server_mapped(Call(om), b)

OnCancelFailed ==
  \E b \in Known, by \in {"server", "client"} : om' = on_cancel_failed(Call(om), b, by)

OnCancelConfirmed ==
  \E b \in Known : \/ om' = on_cancel_confirmed(Call(om), b)
                   \/ om' = on_cancel_confirmed_by_server_basket(Call(om), b)

AdoptExternalClose == om' = adopt_external_close(Call(om))
RecancelPendingStops == om' = recancel_pending_stops(Call(om))
ClearPostCloseRecancels == om' = clear_post_close_recancels(Call(om))
ConfirmExchangeFlat == om' = confirm_exchange_flat(Call(om))
PopTradeCompleted == om' = pop_trade_completed(Call(om))

\* The executor sends an unwind of its own and registers it.
register_unwind_basket(s, isBuy) ==
  [send_order(s, "unwind", isBuy, TRUE) EXCEPT !.unwinds = @ \cup {s.seq + 1}]

RegisterUnwindBasket ==
  Room(1) /\ \E isBuy \in BOOLEAN : om' = register_unwind_basket(Call(om), isBuy)

\* A reconnect or a restart of the process: only the DB rows survive.
Startup == om' = startup(om)

Next == \/ OnSignal \/ OnFillNotification \/ FillAlreadyProcessed
        \/ CheckTrailAndStop \/ FlattenNow \/ PendingEntryTimeout \/ RetryStuckExit
        \/ OnOrderRejected \/ OnMapped \/ OnCancelFailed \/ OnCancelConfirmed
        \/ AdoptExternalClose \/ RecancelPendingStops \/ ClearPostCloseRecancels
        \/ ConfirmExchangeFlat \/ PopTradeCompleted \/ RegisterUnwindBasket \/ Startup

Spec == Init /\ [][Next]_om

-----------------------------------------------------------------------------
(* Properties. *)

\* The type of the state: ids are drawn ids, the maps hold baskets.
TypeOK == IsOMState(om)

HasShape(s) ==
  /\ s.state = "FLAT" => s.dir = "NONE" /\ s.entry = 0 /\ s.exit = 0 /\ s.stop = 0
  /\ s.state = "PENDING_ENTRY" =>
       s.dir # "NONE" /\ s.entry # 0 /\ s.exit = 0 /\ s.stop = 0
  /\ s.state \in InTrade =>
       s.dir # "NONE" /\ s.state = Held(s.dir) /\ s.entry # 0 /\ s.exit = 0
  /\ s.state = "PENDING_EXIT" =>
       s.dir # "NONE" /\ s.entry # 0 /\ s.exit # 0 /\ s.stop = 0

\* The position record has the shape its state promises.  In particular a
\* position that is being exited has no live stop, and a position with a live
\* stop has no exit order: the two never work side by side as tracked orders,
\* whatever order rejects, failed cancels, retries and fills arrive in
\* (initiate_exit_locked, on_cancel_failed, retry_stuck_exit).
PositionShape == HasShape(om)

\* A guard this session created is always waiting for something: an ACK by
\* server id or a server id to map.  So the purge at FLAT, which drops the
\* guards in neither map, never forgets an unacknowledged cancel of this session
\* (the 2026-09-23 orphan: "They must never be purged as confirmed").
SessionGuardsCovered ==
  om.cancelled \ om.seeded \subseteq om.s2cCancelled \cup om.clientOnly

\* A guard is in memory only while its row is in pending_stop_cancels, so that a
\* crash at any point leaves the next process every cancel still outstanding.
GuardsPersisted == om.cancelled \subseteq om.dbRows

\* The retry maps hold guarded orders only: the background recancel, which runs
\* while server_to_client_cancelled_ is not empty, never re-cancels an order that
\* is resolved or is the live stop.
RetriesAreGuarded ==
  /\ om.s2cCancelled \cup om.clientOnly \subseteq om.cancelled
  /\ om.lastStop \in om.cancelled \cup {0}
  /\ om.stop \notin om.cancelled

\* The protective stop points out of the position: it is on the side that closes
\* what is held, also after a reversal with stops of the earlier trade still
\* guarded and their cancels failing late.
StopClosesPosition ==
  om.stop # 0 => (om.stop \in om.buys <=> om.dir = "SELL")

\* The leg as a client sees it (position_snapshot).
LegOf(s) ==
  [st |-> CASE s.state = "FLAT" -> "FLAT" [] s.state = "PENDING_ENTRY" -> "PEND"
            [] s.state \in InTrade -> "OPEN" [] s.state = "PENDING_EXIT" -> "EXIT",
   dir |-> s.dir]

Legs == INSTANCE LegLife WITH leg <- LegOf(om), Side <- {"BUY", "SELL"},
                              NoSide <- "NONE"

\* The order manager implements LegLife, the contract the executor's loops and
\* engines rely on: through late fills, duplicate fills, rejects in any order,
\* failed sends and restarts no position appears that was not taken, none is
\* exited before it was filled, and none changes its direction.
LegContract == Legs!Spec

=============================================================================
