---------------------------- MODULE OrderRouting ----------------------------
(***************************************************************************)
(* The order manager in its executor and at its exchange: op_loop, which   *)
(* turns order-plant messages into calls of OrderManager, eod_loop's once- *)
(* a-second maintenance, the routing functions of notification_router.hpp, *)
(* and a Rithmic gateway that accepts, fills, cancels and rejects orders.  *)
(*                                                                         *)
(* The gateway is external: it answers as the tests' exchange does.  A     *)
(* cancel by server id stops a working order and is acknowledged; one by   *)
(* client id is "Cancellation Failed" and the order keeps working; one of  *)
(* an order that does not work any more is not answered.  A fill is        *)
(* delivered on tid=352 and again on tid=351, or on tid=351 only.  The     *)
(* order plant is one socket, so messages arrive in order; requests reach  *)
(* the gateway at once, and one overtaken by a fill is a fill whose        *)
(* message is still on the wire.  Orders are for one contract.             *)
(***************************************************************************)
EXTENDS OrderManager, Sequences, SequencesExt

CONSTANTS Signals,      \* the directions the strategy trades
          MaxMishaps,   \* bound: failed sends, rejected orders, restarts
          MaxWire       \* bound: messages on the wire when another step is taken

ASSUME SignalsAssumption == Signals \subseteq {"BUY", "SELL"}
ASSUME MishapsAssumption == MaxMishaps \in Nat /\ MaxWire \in Nat

VARIABLES xc,     \* the exchange: working orders, orders to be acknowledged, net
          wire,   \* messages of the order plant on their way
          ctl,    \* run_executor: the post-close window, the strategy's halt
          hist    \* what happened, for the properties; and the mishaps left

rvars == <<om, xc, wire, ctl, hist>>

-----------------------------------------------------------------------------
(* The gateway. *)

Msg(kind, b) == [kind |-> kind, id |-> b]

\* The orders a call sent, and those it asked to cancel by that id.
News(s) == {r.id : r \in {q \in s.out : q.op = "new"}}
Cancels(s, by) == {r.id : r \in {q \in s.out : q.op = "cancel" /\ q.by = by}}

\* The requests of one call reach the gateway; s is then ready for the next call.
\* The answers to one call come in some fixed order.
Dispatch(s, w) ==
  LET gone == Cancels(s, "server") \cap xc.live
      failed == (Cancels(s, "client") \cap xc.live) \ gone IN
  /\ om' = Call(s)
  /\ xc' = [xc EXCEPT !.live = (@ \ gone) \cup News(s),
                      !.unacked = (@ \ gone) \cup News(s)]
  /\ wire' = w \o SetToSeq({Msg("cancelled", b) : b \in gone}
                             \cup {Msg("failed", b) : b \in failed})

-----------------------------------------------------------------------------
(* notification_router.hpp and op_loop. *)

\* Asks the dedupe and records the quantity when it is new.
unowned_fill_is_duplicate(s, b) == fill_already_processed(s, b, Qty)

handle_unowned_fill(s, b, ok) ==
  LET r == record_fill(s, b, Qty) IN
  CASE unowned_fill_is_duplicate(s, b) -> [s |-> s, halt |-> FALSE]
    [] ~unowned_fill_is_duplicate(s, b) /\ s.state = "FLAT" ->
         [s |-> on_fill_notification(r, b, Qty, FALSE, ok), halt |-> FALSE]
    [] ~unowned_fill_is_duplicate(s, b) /\ s.state # "FLAT" -> [s |-> r, halt |-> TRUE]

owns(s, b) == is_entry_basket(s, b) \/ is_stop_basket(s, b) \/ is_exit_basket(s, b)

\* The fill branch of tid=351 and tid=352.  The duplicate check in front of
\* handle_unowned_fill records the fill, which that function then asks about.
route_fill(s, b, ok) ==
  CASE owns(s, b) ->
         [s |-> IF fill_already_processed(s, b, Qty) THEN s
                ELSE on_fill_notification(record_fill(s, b, Qty), b, Qty,
                       is_entry_basket(s, b) /\ ~is_stop_basket(s, b), ok),
          halt |-> FALSE]
    [] ~owns(s, b) /\ unowned_fill_is_duplicate(s, b) -> [s |-> s, halt |-> FALSE]
    [] ~owns(s, b) /\ ~unowned_fill_is_duplicate(s, b) ->
         handle_unowned_fill(record_fill(s, b, Qty), b, ok)

\* Every tid=351 with both ids maps first.
mapped(s, b) == on_stop_server_mapped(map_server_basket(s, b), b)

\* One message; `ok` and `okStop` are the results of the sends it leads to.
handle_message(s, n, ok, okStop) ==
  CASE n.kind = "mapped" -> [s |-> mapped(s, n.id), halt |-> FALSE]
    [] n.kind = "fill351" -> route_fill(mapped(s, n.id), n.id, ok)
    [] n.kind = "fill352" -> route_fill(map_server_basket(s, n.id), n.id, ok)
    [] n.kind = "cancelled" ->
         [s |-> on_cancel_confirmed(mapped(s, n.id), n.id), halt |-> FALSE]
    [] n.kind = "failed" -> [s |-> on_cancel_failed(s, n.id, "client"), halt |-> FALSE]
    [] n.kind = "rejected" ->
         [s |-> on_order_rejected(s, n.id, "client", ok, okStop), halt |-> FALSE]
    [] n.kind = "snapshot" -> [s |-> send_cancel(s, n.id, "server"), halt |-> FALSE]

-----------------------------------------------------------------------------
(* The steps. *)

RInit ==
  /\ om = Empty
  /\ xc = [live |-> {}, unacked |-> {}, net |-> 0]
  /\ wire = << >>
  /\ ctl = [window |-> FALSE, halted |-> FALSE]
  /\ hist = [crossed |-> FALSE, exposed |-> FALSE, redriven |-> FALSE, left |-> MaxMishaps]

\* The bound on unread messages: op_loop is not further behind than this.
Keeps == Len(wire) < MaxWire

\* Sends succeed unless one of the mishaps left is spent on it.
Sends(ok, okStop) == (ok /\ okStop) \/ (hist.left > 0 /\ (ok \/ okStop))
Spent(ok, okStop) == IF ok /\ okStop THEN 0 ELSE 1

\* Ids kept for what the gateway can still make the order manager send.
Reserve == 1 + hist.left

\* An entry or exit that is sent or withdrawn while a fill is on the wire acts on a
\* position that is already another one; a trail does not.
FillsOnWire == \E k \in DOMAIN wire : wire[k].kind \in {"fill351", "fill352"}
Crosses(acts) == acts /\ FillsOnWire

\* A call of the executor's own loops.
Calls(s, ok, okStop, acts) ==
  /\ Sends(ok, okStop)
  /\ Dispatch(s, wire)
  /\ hist' = [hist EXCEPT !.left = @ - Spent(ok, okStop),
                          !.exposed = @ \/ ~okStop,
                          !.crossed = @ \/ Crosses(acts)]
  /\ UNCHANGED ctl

ROnSignal ==
  /\ Keeps /\ ~ctl.halted /\ om.state = "FLAT" /\ Room(1 + Reserve)
  /\ \E sig \in Signals, ok \in BOOLEAN : 
       Calls(on_signal(om, sig, TRUE, ok), ok, TRUE, TRUE)

\* process_tick: the software stop, the target or the end of day, or a trail.
RTick ==
  /\ Keeps /\ om.state \in InTrade /\ Room(1 + Reserve)
  /\ \E ok, okStop \in BOOLEAN :
       \/ Calls(flatten_now(om, ok, okStop), ok, okStop, TRUE)
       \/ ok /\ Calls(update_stop_order_locked(om, okStop), TRUE, okStop, FALSE)

\* eod_loop, in its order: the completed trade opens the recancel window, the
\* window re-sends or expires, outside it the 30 s retry re-sends, then the
\* watchdogs on a pending entry and a pending exit.  `expired`, `due` and
\* `stuck` are the clock.
popped(s) == IF s.tradeCompleted THEN recancel_pending_stops(pop_trade_completed(s)) ELSE s
windowed(s, expired) ==
  IF expired THEN clear_post_close_recancels(s) ELSE recancel_pending_stops(s)
retried(s, due) ==
  IF due /\ s.s2cCancelled # {} THEN recancel_pending_stops(s) ELSE s

\* Mutant: the watchdog does not ask what is pending.
watched_any_state(s, stuck, ok, okStop) ==
  IF stuck THEN retry_any_state(s, ok, okStop) ELSE s

watched(s, stuck, ok, okStop) ==
  CASE stuck /\ s.state = "PENDING_ENTRY" -> pending_entry_timeout_check(s)
    [] stuck /\ s.state = "PENDING_EXIT" -> retry_stuck_exit(s, ok, okStop)
    [] OTHER -> s

REodTick ==
  Keeps /\ \E expired, due, stuck, ok, okStop \in BOOLEAN :
    LET window == ctl.window \/ om.tradeCompleted
        open == window /\ ~expired
        p == popped(om)
        w == IF window THEN windowed(p, ~open) ELSE p
        r == IF ~open THEN retried(w, due) ELSE w
        s == watched(r, stuck, ok, okStop) IN
    /\ (ok /\ okStop) \/ (stuck /\ om.state = "PENDING_EXIT")
    /\ (expired => window) /\ (due => ~open)      \* else the clock is not asked
    /\ stuck => om.state \in {"PENDING_ENTRY", "PENDING_EXIT"}
    /\ stuck /\ om.state = "PENDING_EXIT" => Room(1 + Reserve)
    /\ Sends(ok, okStop)
    /\ Dispatch(s, wire)
    /\ ctl' = [ctl EXCEPT !.window = open]
    /\ hist' = [hist EXCEPT !.left = @ - Spent(ok, okStop), !.exposed = @ \/ ~okStop,
                            !.redriven = @ \/ ~ok,
                            !.crossed = @ \/ Crosses(s # r)]

\* op_loop reads the next message.
HandleMessage ==
  /\ wire # << >>
  /\ \E ok, okStop \in BOOLEAN :
       LET n == Head(wire)
           h == handle_message(om, n, ok, okStop) IN
       /\ Sends(ok, okStop)
       /\ ~ok => \/ n.kind \in {"fill351", "fill352"} /\ om.entry = n.id
                 \/ n.kind = "rejected"
       /\ ~okStop => n.kind = "rejected"
       /\ h.s.seq <= MaxBaskets
       /\ Dispatch(h.s, Tail(wire))
       /\ ctl' = [ctl EXCEPT !.halted = @ \/ h.halt]
       /\ hist' = [hist EXCEPT !.left = @ - Spent(ok, okStop),
                               !.exposed = @ \/ ~okStop \/ (~ok /\ n.kind # "rejected")]

\* The gateway acknowledges an order with its server id.
Acknowledge ==
  /\ Keeps
  /\ \E b \in xc.unacked : /\ wire' = Append(wire, Msg("mapped", b))
                           /\ xc' = [xc EXCEPT !.unacked = @ \ {b}]
  /\ UNCHANGED <<om, ctl, hist>>

\* A fill the order manager can book: of its entry, its exit, or any stop of the
\* trade it is in, with no other fill on the wire.
Expected(b) ==
  /\ ~FillsOnWire
  /\ \/ om.state = "PENDING_ENTRY" /\ b = om.entry
     \/ om.state = "PENDING_EXIT" /\ b = om.exit
     \/ om.state \in InTrade /\ b \in om.stops /\ b > om.entry

Fill ==
  /\ Keeps
  /\ \E b \in xc.live, twice \in BOOLEAN :
       /\ xc' = [xc EXCEPT !.live = @ \ {b}, !.unacked = @ \ {b},
                           !.net = IF b \in om.buys THEN @ + 1 ELSE @ - 1]
       /\ wire' = wire \o (IF twice THEN <<Msg("fill352", b), Msg("fill351", b)>>
                                    ELSE <<Msg("fill351", b)>>)
       /\ hist' = [hist EXCEPT !.crossed = @ \/ ~Expected(b)]
  /\ UNCHANGED <<om, ctl>>

Reject ==
  /\ Keeps /\ hist.left > 0
  /\ \E b \in xc.live :
       /\ xc' = [xc EXCEPT !.live = @ \ {b}, !.unacked = @ \ {b}]
       /\ wire' = Append(wire, Msg("rejected", b))
       /\ hist' = [hist EXCEPT !.left = @ - 1, !.exposed = TRUE]
  /\ UNCHANGED <<om, ctl>>

\* A new process: the guards come from the DB, and the snapshot of the working
\* orders has each of them cancelled by server id.
Restart ==
  /\ Keeps /\ hist.left > 0
  /\ om' = Call(startup(om))
  /\ wire' = SetToSeq({Msg("snapshot", b) : b \in xc.live})
  /\ xc' = [xc EXCEPT !.unacked = {}]
  /\ ctl' = [window |-> FALSE, halted |-> FALSE]
  /\ hist' = [hist EXCEPT !.left = @ - 1, !.crossed = TRUE]

RNext == \/ HandleMessage \/ ROnSignal \/ RTick \/ REodTick
         \/ Acknowledge \/ Fill \/ Reject \/ Restart

RSpec == RInit /\ [][RNext]_rvars

-----------------------------------------------------------------------------
(* Properties. *)

\* The type of the composition; the messages of the wire are about orders sent.
RTypeOK ==
  /\ IsOMState(om)
  /\ xc.live \subseteq Known /\ xc.unacked \subseteq xc.live /\ xc.net \in Int
  /\ \A k \in DOMAIN wire : wire[k].id \in Known
  /\ hist.left \in 0 .. MaxMishaps

\* "a cancelled stop that keeps working" has a name in the order manager: every
\* order that works at the exchange is the position's entry, exit or stop, or its
\* cancel is remembered and will be re-sent (the guards, the unmapped cancels, the
\* startup snapshot).  The 2026-09-23 orphan was an order outside this set.
NoOrphanOrder ==
  \A b \in xc.live : \/ b \in {om.entry, om.exit, om.stop}
                     \/ b \in om.cancelled \cup om.unmapped
                     \/ \E k \in DOMAIN wire : wire[k] = Msg("snapshot", b)

Naked == om.state \in InTrade /\ wire = << >> /\ om.stop \notin xc.live

\* An open position has its stop working at the exchange whenever the wire is
\* quiet: replacing it, a failed cancel and the re-adoption of the old stop never
\* leave the position naked, unless a stop could not be sent or was rejected, or a
\* stuck exit could not be sent again (see NeverNaked).
Protected == ~hist.exposed /\ ~hist.redriven => ~Naked

\* "Revert to LONG/SHORT and restore the exchange stop" (order_manager.hpp:1728-1729)
\* and "no stop at all" as what must not happen (263-266): also when a stuck exit
\* could not be sent again, the restored stop keeps working.
NeverNaked == ~hist.exposed => ~Naked

\* The order manager's position is the exchange's once every message is read,
\* when no two fills of a trade crossed: also a superseded stop that fires before
\* its cancel arrives is booked as this trade's exit, and the second delivery of
\* a fill changes nothing.
BookMatchesExchange ==
  wire = << >> /\ ~hist.crossed =>
    CASE om.state \in {"FLAT", "PENDING_ENTRY"} -> xc.net = 0
      [] om.state \in InTrade \cup {"PENDING_EXIT"} ->
           xc.net = IF om.dir = "BUY" THEN 1 ELSE -1

\* "for EVERY way a trade can end, once it is over there must be ZERO working
\* orders at the exchange" (tests/execution/test_trade_end_invariant.cpp:4-6): when
\* the executor is flat, every order has been acknowledged and every message read,
\* nothing works any more, however the cancels and the server ids crossed.
TradeEndsClean ==
  om.state = "FLAT" /\ wire = << >> /\ xc.unacked = {} => xc.live = {}

\* op_loop reads, while flat, the first delivery of a fill of an untracked order.
ReadsUnowned(b) ==
  /\ wire # << >> /\ wire' = Tail(wire) /\ Head(wire) = Msg("fill351", b)
  /\ om.state = "FLAT" /\ om.processed[b] = 0 /\ ~owns(om, b)

\* "FLAT -> run the order manager's stale-stop guards (cancelled stop -> unwind,
\* unknown -> ghost-halt)" (executor_main.cpp:2028-2029): reading the fill of an
\* order nobody tracks, for the first time and while flat, unwinds it or halts.
UnownedFillIsHandled ==
  [][\A b \in Known :
       ReadsUnowned(b) => om'.ghostHalted \/ om'.unwinds # om.unwinds]_rvars

=============================================================================
