---------------------------- MODULE NetReconcile ----------------------------
(***************************************************************************)
(* Exchange-versus-memory reconciliation of the net position: the tid=451  *)
(* handler and reconcile_net of executor_main.cpp, NetReconciler and       *)
(* net_qty_consistent of order_manager.hpp, plan_unwind of                 *)
(* notification_router.hpp, against an exchange whose fills reach the      *)
(* executor over two sockets, each in order, neither ahead of the other.   *)
(*                                                                         *)
(* The order manager is reduced to the position it believes in and the one *)
(* order of its own that matters in each state (OrderManager.tla has the   *)
(* rest).  A request reaches the exchange at once: one that is overtaken   *)
(* by a fill is a fill whose report is late.  Time is eod_loop's one       *)
(* second: the clock advances with its pass, and the two stamps of the     *)
(* reconciler are ages that stop at the value they are compared with.      *)
(***************************************************************************)
EXTENDS Integers, Sequences, FiniteSets

CONSTANTS Qty,          \* contracts of a trade
          Grace,        \* net_mismatch_grace_ms, in seconds
          Retry,        \* the 15 s retry of reconcile_net, in seconds
          Lag,          \* a report or notice is delivered within Lag seconds
          Strays,       \* what somebody else's fill can add to the net position
          MaxUnwinds,   \* bound: unwinds sent
          Scenarios     \* bounds: what may happen in one behaviour, see Scenario

ASSUME TimesAssumption == Grace \in Nat \ {0} /\ Retry \in Nat \ {0} /\ Lag \in Nat
ASSUME QtyAssumption == Qty \in Nat \ {0} /\ MaxUnwinds \in Nat
ASSUME StraysAssumption == Strays \subseteq Int

\* The net position found at the start, then how many own trades in direction dir,
\* fills of others, and slow unwinds (that rest until the retry, are rejected or
\* cannot be sent) follow.
Scenario == [ghost : Int, trades : Nat, dir : {-1, 1}, strays : Nat, slow : Nat]

ASSUME ScenariosAssumption == Scenarios \subseteq Scenario

VARIABLES ex,      \* the executor
          mk,      \* the exchange, and what is on its way from it
          left     \* of the scenario

vars == <<ex, mk, left>>

Never == -1        \* an age: no mismatch, not acted
Ids == 1 .. MaxUnwinds
Abs(x) == IF x >= 0 THEN x ELSE -x
PosState == {"FLAT", "PENDING_ENTRY", "LONG", "SHORT", "PENDING_EXIT"}
Held(dir) == IF dir > 0 THEN "LONG" ELSE "SHORT"

-----------------------------------------------------------------------------
(* The exchange. *)

\* A fill moves the net position and is reported on the PNL plant.
Moved(m, d) == [m EXCEPT !.net = @ + d,
                         !.reports = Append(@, [net |-> m.net + d, age |-> 0])]

NoOrder == [kind |-> "none", side |-> 0, left |-> 0]
OwnOrder(kind, side) == [kind |-> kind, side |-> side, left |-> Qty]

Working(m) == {i \in Ids : m.unwinds[i] # 0}

\* A cancel by server id stops the order; by the client id it is not found.
cancel_unwind(m, i, routable) == IF routable THEN [m EXCEPT !.unwinds[i] = 0] ELSE m

-----------------------------------------------------------------------------
(* The pure functions. *)

net_qty_consistent(p, x) ==
  LET held == p.dir * Qty IN
  CASE p.state = "FLAT" -> x = 0
    [] p.state \in {"LONG", "SHORT"} -> x = held
    [] p.state \in {"PENDING_ENTRY", "PENDING_EXIT"} ->
         IF held >= 0 THEN 0 <= x /\ x <= held ELSE held <= x /\ x <= 0

\* Mutant: what is left of a position that shrank is taken for the position.
plan_unwind_no_adopt(x, p) ==
  LET expected == IF p.state \in {"LONG", "SHORT"} THEN p.dir * Qty ELSE 0 IN
  [diff |-> x - expected, adopt |-> FALSE]

\* Same side and more: trade the extra away.  Less, flipped or zero: it was closed
\* by somebody else, trade the rest away and adopt flat.  diff > 0 is a SELL.
plan_unwind(x, p) ==
  LET expected == IF p.state \in {"LONG", "SHORT"} THEN p.dir * Qty ELSE 0
      extra == (x > 0 <=> expected > 0) /\ Abs(x) >= Abs(expected)
      target == IF expected # 0 /\ extra THEN expected ELSE 0 IN
  [diff |-> x - target, adopt |-> expected # 0 /\ ~extra]

\* Mutant: agreement does not re-arm the grace window.
observe_no_reset(e, consistent) ==
  LET since == IF e.since = Never THEN 0 ELSE e.since IN
  CASE consistent -> [e |-> [e EXCEPT !.acted = Never], verdict |-> "OK"]
    [] ~consistent /\ e.acted = Never /\ since < Grace ->
         [e |-> [e EXCEPT !.since = since], verdict |-> "WAIT"]
    [] ~consistent /\ e.acted # Never /\ e.acted < Retry ->
         [e |-> [e EXCEPT !.since = since], verdict |-> "WAIT"]
    [] ~consistent /\ (IF e.acted = Never THEN since >= Grace ELSE e.acted >= Retry) ->
         [e |-> [e EXCEPT !.since = since, !.acted = 0], verdict |-> "ACT"]

\* Mutant: a mismatch is acted on once.
observe_once(e, consistent) ==
  LET since == IF e.since = Never THEN 0 ELSE e.since IN
  CASE consistent -> [e |-> [e EXCEPT !.since = Never, !.acted = Never], verdict |-> "OK"]
    [] ~consistent /\ ~(e.acted = Never /\ since >= Grace) ->
         [e |-> [e EXCEPT !.since = since], verdict |-> "WAIT"]
    [] ~consistent /\ e.acted = Never /\ since >= Grace ->
         [e |-> [e EXCEPT !.since = since, !.acted = 0], verdict |-> "ACT"]

\* Mutant: agreement forgets when the mismatch began, not that it was acted on.
observe_keeps_acted(e, consistent) ==
  IF consistent THEN [e |-> [e EXCEPT !.since = Never], verdict |-> "OK"]
  ELSE observe_once(e, FALSE)

\* NetReconciler::observe, on ages.
observe(e, consistent) ==
  LET since == IF e.since = Never THEN 0 ELSE e.since IN
  CASE consistent -> [e |-> [e EXCEPT !.since = Never, !.acted = Never], verdict |-> "OK"]
    [] ~consistent /\ e.acted = Never /\ since < Grace ->
         [e |-> [e EXCEPT !.since = since], verdict |-> "WAIT"]
    [] ~consistent /\ e.acted # Never /\ e.acted < Retry ->
         [e |-> [e EXCEPT !.since = since], verdict |-> "WAIT"]
    [] ~consistent /\ (IF e.acted = Never THEN since >= Grace ELSE e.acted >= Retry) ->
         [e |-> [e EXCEPT !.since = since, !.acted = 0], verdict |-> "ACT"]

-----------------------------------------------------------------------------
(* The handlers, on the pair s of the executor and the exchange. *)

\* send_unwind: an order for diff contracts the other way, registered and
\* remembered when it could be written.
send_unwind(s, diff, ok) ==
  LET i == s.m.sent + 1 IN
  IF ok THEN [e |-> [s.e EXCEPT !.lastUnwind = i],
              m |-> [s.m EXCEPT !.sent = i, !.unwinds[i] = -diff]]
        ELSE s

\* The tracked position is closed in memory and its stop cancelled; the map of
\* server ids is cleared.
adopt_external_close(s) ==
  [e |-> [s.e EXCEPT !.pos = [state |-> "FLAT", dir |-> 0], !.mapped = {}],
   m |-> [s.m EXCEPT !.own = NoOrder]]

\* The previous unwind is cancelled by the id routable_id() finds.
cancel_previous(s) ==
  LET i == s.e.lastUnwind IN
  IF i = 0 THEN s
  ELSE [e |-> [s.e EXCEPT !.lastUnwind = 0], m |-> cancel_unwind(s.m, i, i \in s.e.mapped)]

\* MISMATCH_ACT: halt, adopt, cancel the previous unwind, send the new one.
act(s, x, ok) ==
  LET plan == plan_unwind(x, s.e.pos)
      h == [e |-> [s.e EXCEPT !.halt = "mismatch", !.netHalt = TRUE], m |-> s.m]
      a == IF plan.adopt THEN adopt_external_close(h) ELSE h
      c == cancel_previous(a) IN
  IF plan.diff # 0 THEN send_unwind(c, plan.diff, ok) ELSE c

reconcile_net(s, x, consistent, ok) ==
  LET v == observe(s.e, consistent)
      o == [s EXCEPT !.e = v.e] IN
  CASE v.verdict = "ACT" -> act(o, x, ok)
    [] v.verdict = "OK" ->
         [o EXCEPT !.e.lastUnwind = 0, !.e.netHalt = FALSE,
                   !.e.halt = IF s.e.netHalt /\ @ = "mismatch" THEN "none" ELSE @]
    [] v.verdict = "WAIT" -> o

\* The snapshot branch of handle_pos_update (here the first report of a connection;
\* one that a later resubscription brings, and the wait for the send, are left out): a position nobody here holds is
\* unwound at once and the reconciler armed as if it had acted; the entries are
\* released when the unwind could be sent, or when the account is flat.
snapshot(s, x, consistent, ok) ==
  CASE x # 0 /\ ~consistent /\ s.e.acted = Never ->
         LET u == send_unwind(s, x, ok) IN
         [e |-> [u.e EXCEPT !.since = 0, !.acted = 0, !.netHalt = TRUE,
                            !.halt = IF ok THEN "none" ELSE "unwind_failed"],
          m |-> u.m]
    [] x = 0 \/ consistent ->
         [e |-> [s.e EXCEPT !.halt = IF @ = "startup" THEN "none" ELSE @], m |-> s.m]
    [] OTHER -> s

handle_pos_update(s, x, ok) ==
  LET consistent == net_qty_consistent(s.e.pos, x)
      t == IF ~s.e.heard THEN snapshot(s, x, consistent, ok) ELSE s IN
  reconcile_net([e |-> [t.e EXCEPT !.lastNet = x, !.heard = TRUE], m |-> t.m], x, consistent, ok)

-----------------------------------------------------------------------------
(* The steps. *)

\* "startup": the previous run left a position in the database, or the snapshot of
\* the working orders showed one of ours.
Init ==
  /\ left \in Scenarios
  /\ mk = [net |-> left.ghost, own |-> NoOrder, unwinds |-> [i \in Ids |-> 0], sent |-> 0,
           reports |-> <<[net |-> left.ghost, age |-> 0]>>, notices |-> << >>,
           disturbed |-> left.ghost # 0]
  /\ \E h \in {"none", "startup"} :
       ex = [pos |-> [state |-> "FLAT", dir |-> 0], since |-> Never, acted |-> Never,
             heard |-> FALSE, lastNet |-> 0, lastUnwind |-> 0, netHalt |-> FALSE,
             halt |-> h, mapped |-> {}]

\* An entry: on_signal of a strategy that is not halted.  One that is taken while the
\* last mismatch was not seen to end is marked: it has less than the window left.
OnSignal ==
  /\ ex.pos.state = "FLAT" /\ ex.halt = "none" /\ left.trades > 0
  /\ ex' = [ex EXCEPT !.pos = [state |-> "PENDING_ENTRY", dir |-> left.dir]]
  /\ mk' = [mk EXCEPT !.own = OwnOrder("entry", left.dir),
                      !.disturbed = @ \/ ex.since # Never]
  /\ left' = [left EXCEPT !.trades = @ - 1]

\* initiate_exit_locked: the stop is cancelled and an exit of the whole quantity
\* sent, also when the stop has filled in part or in full without our knowing.
InitiateExit ==
  /\ ex.pos.state \in {"LONG", "SHORT"}
  /\ ex' = [ex EXCEPT !.pos.state = "PENDING_EXIT"]
  /\ mk' = [mk EXCEPT !.own = OwnOrder("exit", -ex.pos.dir),
                      !.disturbed = @ \/ mk.own.left # Qty]
  /\ UNCHANGED left

\* One contract of the own order; the last one is notified on the order plant.
FillOwn ==
  /\ mk.own.left > 0
  /\ LET m == Moved(mk, mk.own.side) IN
     mk' = [m EXCEPT !.own.left = @ - 1,
                     !.notices = IF mk.own.left = 1
                                 THEN Append(@, [kind |-> mk.own.kind, age |-> 0]) ELSE @]
  /\ UNCHANGED <<ex, left>>

\* on_fill_notification of a complete fill.  A stop that fired while its exit is
\* pending is not recognised as ours (is_stop_basket, is_exit_basket).
DeliverNotice ==
  /\ mk.notices # << >>
  /\ LET kind == Head(mk.notices).kind
         rest == [mk EXCEPT !.notices = Tail(@)]
         closes == \/ kind = "exit" /\ ex.pos.state = "PENDING_EXIT"
                   \/ kind = "stop" /\ ex.pos.state \in {"LONG", "SHORT"} IN
     \/ /\ kind = "entry" /\ ex.pos.state = "PENDING_ENTRY"
        /\ ex' = [ex EXCEPT !.pos.state = Held(ex.pos.dir)]
        /\ mk' = [rest EXCEPT !.own = OwnOrder("stop", -ex.pos.dir)]
     \/ /\ closes
        /\ ex' = [ex EXCEPT !.pos = [state |-> "FLAT", dir |-> 0], !.mapped = {}]
        /\ mk' = [rest EXCEPT !.own = NoOrder]
     \/ /\ ~closes /\ ~(kind = "entry" /\ ex.pos.state = "PENDING_ENTRY")
        /\ mk' = rest /\ UNCHANGED ex
  /\ UNCHANGED left

\* A fill of an order nobody here tracks, a manual close, a liquidation.
Stray ==
  /\ left.strays > 0
  /\ \E d \in Strays : mk' = [Moved(mk, d) EXCEPT !.disturbed = TRUE]
  /\ left' = [left EXCEPT !.strays = @ - 1]
  /\ UNCHANGED ex

FillUnwind ==
  /\ \E i \in Working(mk) :
       LET d == IF mk.unwinds[i] > 0 THEN 1 ELSE -1 IN
       mk' = [Moved(mk, d) EXCEPT !.unwinds[i] = @ - d]
  /\ UNCHANGED <<ex, left>>

RejectUnwind ==
  /\ left.slow > 0
  /\ \E i \in Working(mk) : mk' = [mk EXCEPT !.unwinds[i] = 0]
  /\ left' = [left EXCEPT !.slow = @ - 1]
  /\ UNCHANGED ex

\* tid=351 names the server id of an unwind: map_server_basket.
MapUnwind ==
  /\ \E i \in Working(mk) \ ex.mapped : ex' = [ex EXCEPT !.mapped = @ \cup {i}]
  /\ UNCHANGED <<mk, left>>

\* The handler comes to s; when it sends an unwind, the send can fail (the plant
\* is down), which comes to f and counts among the slow ones.
Handle(s, f, slow) ==
  \/ /\ s.m.sent <= MaxUnwinds
     /\ slow => left.slow > 0
     /\ left' = IF slow THEN [left EXCEPT !.slow = @ - 1] ELSE left
     /\ ex' = s.e /\ mk' = s.m
  \/ /\ s.m.sent > mk.sent /\ left.slow > 0
     /\ left' = [left EXCEPT !.slow = @ - 1]
     /\ ex' = f.e /\ mk' = f.m

HandlePosUpdate ==
  /\ mk.reports # << >>
  /\ LET s == [e |-> ex, m |-> [mk EXCEPT !.reports = Tail(@)]]
         x == Head(mk.reports).net IN
     Handle(handle_pos_update(s, x, TRUE), handle_pos_update(s, x, FALSE), FALSE)

\* One second: everything on its way gets older, the stamps too.
Older(q) == [k \in DOMAIN q |-> [q[k] EXCEPT !.age = @ + 1]]
Aged(a, limit) == IF a = Never \/ a = limit THEN a ELSE a + 1

InTime == /\ \A k \in DOMAIN mk.reports : mk.reports[k].age < Lag
          /\ \A k \in DOMAIN mk.notices : mk.notices[k].age < Lag

\* A stop that keeps resting after a part of it has filled.
PartlyStopped == mk.own.kind = "stop" /\ mk.own.left \in 1 .. Qty - 1

\* An unwind rests so long that the retry comes before its fill is reported.
RestsUntilRetry == Working(mk) # {} /\ ex.acted # Never /\ ex.acted + 1 + Lag = Retry

\* eod_loop: the re-check of the last net reported while it disagrees.
EodTick ==
  /\ InTime
  /\ LET e == [ex EXCEPT !.since = Aged(@, Grace), !.acted = Aged(@, Retry)]
         m == [mk EXCEPT !.reports = Older(@), !.notices = Older(@),
                         !.disturbed = @ \/ PartlyStopped]
         s == [e |-> e, m |-> m] IN
     IF ex.heard /\ ~net_qty_consistent(ex.pos, ex.lastNet)
     THEN Handle(reconcile_net(s, ex.lastNet, FALSE, TRUE),
                 reconcile_net(s, ex.lastNet, FALSE, FALSE), RestsUntilRetry)
     ELSE Handle(s, s, RestsUntilRetry)

Next == \/ OnSignal \/ InitiateExit \/ FillOwn \/ DeliverNotice \/ Stray
        \/ FillUnwind \/ RejectUnwind \/ MapUnwind \/ HandlePosUpdate \/ EodTick

\* The loops keep running: eod_loop ticks, and what is due is delivered or filled
\* before the next tick.  The own orders are limit and stop orders and may rest for
\* ever, and so may an unwind the reconciler has stopped waiting for.
Fairness == WF_vars(DeliverNotice \/ HandlePosUpdate \/ FillUnwind \/ EodTick)

Spec == Init /\ [][Next]_vars /\ Fairness

-----------------------------------------------------------------------------
(* Properties. *)

Age(limit) == Never .. limit

\* The type of the state; the reconciler has acted only within a mismatch.
TypeOK ==
  /\ ex.pos.state \in PosState /\ ex.pos.dir \in -1 .. 1
  /\ ex.pos.state = "FLAT" <=> ex.pos.dir = 0
  /\ ex.since \in Age(Grace) /\ ex.acted \in Age(Retry)
  /\ ex.since = Never => ex.acted = Never
  /\ ex.lastUnwind \in 0 .. mk.sent /\ ex.mapped \subseteq 1 .. mk.sent
  /\ ex.halt \in {"none", "startup", "unwind_failed", "mismatch"}
  /\ mk.sent \in 0 .. MaxUnwinds
  /\ \A i \in Ids : i > mk.sent => mk.unwinds[i] = 0

\* The executor's own trading never sets the reconciler off: with every report
\* delivered inside the grace window, in whatever order the two sockets deliver
\* an entry, its partial fills, its stop and its exit, no unwind is sent and the
\* entries are not halted unless something really moved the net position.  Three of
\* its own doings count as such.  A stop that rests for a second after a part of it
\* filled: in LONG and SHORT only the full position is consistent, so it is taken for
\* an external close.  An exit sent over a stop that had begun to fill.  And an entry
\* while a mismatch still ages: agreement that comes from a notice is not observed,
\* so the window of the last trade can run out on the first report of the next.
NoFalseAlarm == ~mk.disturbed => mk.sent = 0 /\ ex.halt \in {"none", "startup"}

\* "close whatever is left and ADOPT flat - never re-enter to match our book"
\* (notification_router.hpp:74-76): an unwind, filled, takes the net position it
\* was planned on towards zero and not past it.
UnwindsCloseWhatWasReported ==
  [][mk'.sent > mk.sent =>
       LET x == ex'.lastNet
           y == x + mk'.unwinds[mk'.sent] IN
       Abs(y) < Abs(x) /\ (x > 0 => y >= 0) /\ (x < 0 => y <= 0)]_vars

Agrees == net_qty_consistent(ex.pos, mk.net)

\* Once nobody else trades and an unwind is answered within the retry period, the
\* exchange and the order manager come to agree and stay in agreement, whatever of
\* the executor's own orders filled meanwhile (the 2026-09-23 orphan "within seconds
\* instead of 32 minutes", executor_main.cpp:1772-1773).
Converges == <>[]Agrees

\* "Re-arms when the exchange and the order manager agree again"
\* (executor_main.cpp:1771-1772): once they agree for good, and every report has
\* been read, the reconciler is armed and the halt it raised is lifted.
ReArms == <>[](Agrees /\ mk.reports = << >>)
            => <>[](ex.acted = Never /\ ex.halt # "mismatch")

=============================================================================
