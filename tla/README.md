# Verification of the Rithmic data and execution engine

TLA+ models of the engine's trading core, TLC configurations that check them on
small instances, and TLAPS proofs that lift the most important invariants to every
value of the constants. `PROJECT.json` lists components, runs, the line of code
behind every definition, mutants, findings, hazards and theorems. Paths below are
relative to `src/`.

## 1. The system

Two families of processes share one PostgreSQL database:

* the **collector** (`src/collector.cpp`, `client.cpp`, `wal.hpp`, `db.cpp`,
  `validator.hpp`) takes ticks, quotes and depth from Rithmic, appends them to a
  write-ahead log and writes them to the database;
* the **executor** (`src/execution/`) trades one account: a strategy turns ticks into
  signals, the order manager turns signals into orders, the risk manager decides
  whether an entry is allowed, and the executor's loops connect them to the broker's
  order plant (orders, tid 351/352/313) and PNL plant (account, tid 451). Paper
  variants of the strategies run in `src/paper/`; an audit daemon reports.

The executor runs one `asio` thread. Coroutines (`op_loop`, `pnl_loop`, `eod_loop`, the
feed) interleave only at a `co_await`, so a method of `OrderManager` or `RiskManager`
is one atomic step and the concurrency is that of messages: two sockets, an exchange
that acts on its own, answers that are late, duplicated or missing, and a process
that can be replaced at any point.

| Component | State | Operations | Talks to | Hard behaviour | Correct when |
|---|---|---|---|---|---|
| Order manager | position record, stop and exit ids, cancel guards and their retry maps, dedupe, halts | signal, fill, trail, flatten, timeout, retry, reject, map, cancel answers, adopt, recancel | order plant, `pending_stop_cancels`, risk | server id after cancel, failed cancels, late fills, failed sends | record well-shaped, stop on the right side, no cancel forgotten |
| `op_loop` and `notification_router.hpp` | none of its own | one branch per message | order manager, strategy halts | a fill on two templates, fills of unknown orders | memory equals the exchange once messages are read |
| `eod_loop` | recancel window, watchdogs, date | once a second | all | timeouts racing late answers | nothing left working after a trade |
| Risk manager | equity, peak, total, daily, halt and reason | seed, book a trade, rollover, external halt, admit | trade log, broker figures | restarts, midnight, order of halts | limits are not spent twice, gauge equals the log |
| Net reconciler | last net, grace and retry stamps, last unwind | on tid 451, on each second of disagreement | order plant, strategy halts | two sockets without a common order, retries that overshoot | own trading is not disturbed, agreement is restored |
| OrbDB | trades, sessions, positions, mark, lock | insert, upsert, sums | risk, startup | a write that fails | what was written is what is seeded |
| Strategies (ORB, trend, MTF) | range, session latches, in-position, halt and reason, bracket | tick, end of day, notify, halt, seed, reset | order manager by callback | signal refused, rollover in a trade, restart in mid-session | engine and leg agree, one signal per opportunity |
| Connections (`WsWriteQueue`, plants, feeds) | write queue, login | write, detach, heartbeat | sockets | detach during a write | every send answered once |
| Session loop, drain, carried position | day, carried position | run, reconnect, stop | all | a reconnect in a trade | a carried position keeps its stop |
| Collector and WAL | buffers, queue, log, pending rows | enqueue, append, write, commit, replay | client, database | crash between any two steps, full queue | no row lost between log and database |
| Rithmic client | connection, attempt count, watchdog | run, receive, reconnect | Rithmic | late answers, back-off | it keeps coming back, not too fast |
| Audit log, validator, sentinel | bounded buffers, counters | log, flush, check | database | re-queue at the limit | newest kept |
| Paper fleet | a broker and an engine per runner, account envelope, tape | signal, tick, flatten, resume, gap, rollover, control rows | database, other runners by the account | replayed tape, resume in a trade, halts over a reset | a position is managed on its own tape by its own engine; halts and stops hold |

## 2. Modules

| Module | Models |
|---|---|
| `OrderManager` | `order_manager.hpp` and the table `pending_stop_cancels`, under the most general client |
| `OrderManagerProofs` | its inductive invariant and theorems, and that it implements `LegLife` |
| `OrderRouting` | composes `OrderManager` with `op_loop`, `eod_loop`, the router and a gateway |
| `OrderRoutingProofs` | its inductive invariant and theorems |
| `RiskSession` | `risk_manager.hpp`, the trade log it is seeded from, the broker's figures, restarts |
| `RiskSessionProofs` | its inductive invariant and theorems |
| `NetReconcile` | tid=451 handling, `NetReconciler`, `plan_unwind`, unwinds, against a lagging exchange |
| `NetReconcileProofs` | its inductive invariants and theorems |
| `Collector` | one stream of `collector.cpp` with `wal.hpp` and the insert of `db.cpp`: two threads, crashes, failing I/O |
| `RowLog` | abstract specification: the life cycle of a logged row that `wal.hpp` describes |
| `CollectorProofs` | its inductive invariants and theorems, and that `Collector` implements `RowLog` |
| `LegLife` | abstract specification: what the order manager promises about the one leg it keeps |
| `TrendStrategy`, `OrbStrategy`, `MtfScalper` | the three engines of `src/execution/`, as operators on the engine's state |
| `Engines` | the contract they share, and the ticks a host can feed them |
| `EngineProofs` | what each engine keeps and gives back, one lemma per engine and operation |
| `LiveHost` | one engine under `executor_main.cpp`: ticks, feed and watchdog, warm-up, maintenance loop, cycles, shutdown, crash, restart; written against `LegLife` |
| `LiveHostProofs` | its inductive invariant and theorems, from the lemmas of `EngineProofs` |
| `PaperHost` | the same engines under `paper_main.cpp`: brokers, account envelope, replay, gaps, rollover, resume |
| `PaperHostProofs` | its inductive invariant and theorems, from the lemmas of `EngineProofs` |
| `MC*` | the constants, and views, of the instances TLC checks |

`OrderRouting` composes `OrderManager` with the exchange. `LiveHost` composes the engines with a
leg that behaves as `LegLife` says, and `OrderManager` is shown to behave so: the two
halves of the executor meet in that specification instead of in one product no checker
would finish.

**OrderManager.** The members of the class are one record `om`; each method is an
operator from record to record, and each action is a method call with any argument.
Basket ids are `1, 2, ...` in the order they are drawn (`seq_` is static and the epoch
part keeps ids fresh across processes); 0 is the empty string. The server id of an
order is a fact about the order, so a map from server to client ids is the set of the
client ids it knows. `om.out` holds the requests of the last call, in place of
`order_cb_` and `cancel_cb_`; whether a send succeeds is an input. Prices and the P&L
they give are abstracted: in a trade a tick may exit, move the stop or do nothing.
`Startup` is a reconnect or a new process: only the rows of the table survive.

**OrderRouting.** The gateway is external and answers as the exchange of the repository's
tests does (`tests/execution/test_trade_end_invariant.cpp`, `test_incident_replay.cpp`): a
cancel by server id stops a working order, one by client id is refused and the order
keeps working. Fills are delivered on tid 351, or 352 and 351. The wire is a queue
(one socket); `News` and `Cancels` are what one call of the manager asks of the gateway,
and the answers to one call come in a fixed order. `eod_loop` is one action in the code's order: completed trade, recancel
window, 30 s retry, watchdogs; the clock's comparisons are nondeterministic Booleans.
`hist` records only what properties are conditioned on.

**RiskSession.** `RiskManager`'s methods again map record to record. The trade log is kept
as its sums (total, today's, the maximum of the running total), which is all the code
reads from it. A failed construction of `OrbDB` leaves it null for the whole
run, hence `dbUp` per run; a failing write is an input. `ghost` is history for the
properties.

**NetReconcile.** The order manager is reduced to the position it believes in and the one
own order that matters in each state. Time is the one-second pass of `eod_loop`; the
stamps are ages that stop at the limit they are compared with.

**Collector.** The io thread and the writer thread meet at the buffer's and the queue's
mutex, so each touch is one step and everything between can interleave. `recover()` in
the constructor uses the writer's `Store` and `Commit` steps. A line of the log is the row
it came from or is damaged: an interrupted append leaves a tail without a newline (a
part, a part that still parses, or the whole line), and because the file is
append-only the next line is merged into it. A crash is that of the process; `write` may
have put down any prefix of the batch. A database write may land and still be reported
as failed. The other streams appear as jobs that fill the queue.

**RowLog.** The life cycle in the header of `wal.hpp`, without threads, retries, files or crashes: append and
acknowledge, insert from the log, truncate. Rows of damaged lines are set apart (`spoilt`).

**LegLife.** A leg is taken from FLAT, opens only by the fill of its entry, is asked to
exit only while it is open, comes back when the exit is refused, keeps its direction and
ends FLAT. The mapping (`LegOf` in `OrderManager`) reads state and direction off the
position record.

**The engines.** An operation takes the engine and returns the engine and the signal it
gave to the host's callback. All control is kept: the position flag and whether it is set
before or after the callback (the scalper sets it before, the ORB and the trend engines after), halts, trade
counts, session latches, armed set-ups and their age, cooldowns, the order of the checks.
What averages, channels, profiles and patterns compute is an input of the completed bar,
chosen freely. A price is the side of the opening range it lies on (ORB), or ticks in favour
of the leg (the scalper, whose stop and target are kept). One engine runs one mode, so
the latches of the trend modes share fields; the module's head lists which member is
which. The day has four phases, because the code's tests of the hour hold "late" and in
the evening after the 18:00 change of date, but not at night; an overnight hold's window
is the complement.

**LiveHost.** `leg` is the order manager's `position_snapshot()`, `closed` the completed trade it
keeps for the maintenance loop, `exch` what the exchange holds. A tick is one action: the
bracket check, the engine, its callback, `settle_strategy`. `EodTick` is the part of `eod_loop` that
touches the engine, in its order: end of day, backstop, feed watchdog, date rollover,
report of the close. A cycle ends with its connection and the next one starts a fresh
order manager and the same engine; a process end leaves orders, database and clock. The set
`odd` records the paths on which the code itself gives a property up; each is named
where the module defines it and dropped when what it excuses is over.

**PaperHost.** A tick is two steps, broker and engine, as in the runner. The warm-up replays a tape
with its own date and phase (`tape`); it ends at a tick of the present or at the end of a pass. `old`
says that the tape is still before the entry of a resumed position, and between the two steps of a tick that
this tick is, also when it closed the position. A process can end between the two writes of a close
(`paper_broker.hpp:430`, `paper_bracket_broker.hpp:353`): its trade is counted and its position resumed.
Amounts are outcomes of a close: what it does to the limits of the
account and of the runner. `notes` plays the part of `odd`.

## 3. What the runs check

| Run | Bounds | Result |
|---|---|---|
| `order_manager` | 4 orders, 2 contracts | passes (252,462 states); any call in any order keeps the six invariants and is a step of `LegLife` |
| `order_routing` | 6 orders, 1 contract, 1 mishap (failed send, reject, restart), 2 messages unread | passes (1,280,132) |
| `routing_naked` | the same | `NeverNaked` is violated (finding) |
| `routing_unowned` | 5 orders, no mishap | `UnownedFillIsHandled` is violated (finding) |
| `risk_session` | 3 trades, 1 rollover, 2 reconnects or restarts | passes |
| `risk_daily_limit`, `risk_account_halt` | the same | violated (findings) |
| `net_reconcile` | 2 contracts, five scenarios, 8 unwinds | passes (378,539), with liveness |
| `collector` | 3 rows, batches of 2, queue of 2, 2 faults, 2 crashes | passes (1,395,000); every step is one of `RowLog` |
| `live_host` | 19 engines, 2 trades a day, any number of days, 1 loss of a connection or process for two of them | passes (503,610) |
| `live_eod` | the ORB engine, no faults | `EodFlattens` is violated (finding) |
| `paper_host` | 10 engines, 1 trade a day (the plain scalper: any number), 2 starts, trail steps of two sizes | passes (495,397) |

What `live_host` shows: an engine never keeps a position nobody will report closed
(`EngineInStep`) and a leg never loses its engine (`LegHasEngine`), except on the paths
`odd` names; a halt that waits for the account is lifted by nothing else (`HaltHolds`); an
event is tried once whatever became of the try (`OneTry`); the loss streak is the
exchange's (`StreakIsHistory`); an ORB entry is a cross of two consecutive ticks, also after a
restart (`GenuineCross`); the scalper's stop never retreats, also when the fill price comes
late (`StopNeverRetreats`); and the leg keeps its contract (`LegContract`). `paper_host`: a position
has its own engine, and the scalper's leg its own bracket through reversals (`PaperInStep`); an account halt that
was applied to a runner holds over dates, gaps, restarts and the warm-up (`AccountHaltHolds`; one that a trade
close sets is not applied, section 4); a tick from before a resumed entry neither moves the stop nor closes
the position (`PastTape`); and the working stop never retreats and contains the break-even move (`PaperStopHolds`).

*Why the bounds are enough.* Four orders hold an entry, a stop, its replacement and an
exit or the entry of a reversal, so a guard of an earlier trade meets the next trade;
the theorems remove the bound. Six orders in `order_routing` add a second trade after a
trail and an order kept for what a mishap makes the manager send; two unread messages
let every pair of messages cross a call; TLC explores no longer backlog, and the theorems
remove this bound and those of orders, contracts and mishaps. The actions of `OrderRouting` leave `Reserve`
ids free so that no handler is cut off half-way. In `risk_session` one or two trades reach
each limit, in either order, around one midnight and two restarts. In `net_reconcile`
two contracts make partial fills, the stray of two contracts flips a position, and the
scenarios separate what otherwise multiplies. `MCOrderManager` and
`MCOrderRouting` use a VIEW that drops what no later step or property reads. In
`collector` three rows fill buffer, queue and writer at once, and two crashes with one
fault make a torn tail, an append behind it and a crash before the commit; no
state of the collector is a dead end.

`live_host` runs one mode of each kind of control (the modes of a kind differ in indicators only)
and `paper_host` the modes that behave differently there: the set-up machines of the scalper with
and without confirmation and reversals, and the modes the live executor refuses. Losses of
the connection, crashes and restarts are followed for the ORB and for a once-a-session
mode (`DropModes`); the other modes start with the account snapshot read. One such event is
enough for a carried position, a lost report, a stale halt and a blind start; an outage lasts over one change
of date. Two trades a day let a close be reported after the next entry. Ages, cooldowns and
the regime are one bar and the loss streak two, so each is below, at and beyond its limit.
In `paper_host` account limits, own limits and restarts are each followed for one mode
(`LimitModes`, `RiskModes`, `WarmModes`). The plain scalper runs without `use_max_trades`, so it enters, reverses through
the broker's queue and enters again within a date. Sweeps, retests and onsets are followed on one side, the regime
for the plain scalper only; a restart reads any trade count. Both runs go round the four phases without a bound on the days.

*Conditions in properties.* `Protected` excludes stops that could not be sent or were
rejected (then there is no stop to work) and a stuck exit that could not be sent again
(finding `routing_naked`). `BookMatchesExchange` excludes crossed fills: a fill that
meets another fill or a decision taken before it was read is left to the reconciler,
whose run covers it. `GaugeMatchesLedger` excludes a trade lost on its way to the log,
which the code permits (it pops before it writes). `NoFalseAlarm` counts three doings
of the executor itself as a disturbance, because the code takes each for an external close or can: a
partly filled stop that rests for a second, an exit taken over a stop that has begun to fill, and an
entry taken while a mismatch still ages (section 4). The collector's properties except rows written behind a torn tail or
left in a log that could not be read (`spoilt`), and `NoDuplicates` an append that failed
half-way; both losses are hazards in `PROJECT.json`. In `LiveHost`, "lost" is an ORB entry that was
refused, an entry that died at the exchange or was cancelled by a target, or a cycle that ended under the
engine; "cut" a change of date or the end of a warm-up under an open leg, or a close reported
after the next entry; "twin" a position taken while another leg was open; "lift" a halt overwritten by
`pg_feed_stale` or cleared with the date; "blind" a start that could not know of the position; "stale" the
first tick after a halt of the ORB engine. In `PaperHost`, "free" is an account halt set by a close
(which the re-check then skips), an operator's enable or the reset of the warm-up; "gap" an
entry pending over a feed gap; "rolled" a change of date under a position; "orb" a resumed ORB
position; "flip" a reversal that the broker has a reason to refuse (the warm-up, a halted runner, the gate, an
opposite entry pending), so that one it merely loses is not excused. These are weaknesses of the code that the
properties isolate, not assumptions about it. Deadlock is checked in every passing run.

*Fairness.* Only `NetReconcile` states it: one weak fairness condition on "a message is
delivered, an unwind fills, or `eod_loop` makes its pass". The loop's timer is re-armed
unconditionally and the sockets deliver; `InTime` makes what is due within `Lag` happen
before the next pass. No fairness is assumed of the executor's own entries, stops and
exits, which may rest for ever. `Grace` is larger than twice `Lag` and `Retry` longer
than a fill and its report, as 5 s and 15 s are against delays well below a second; an
unwind that misses the retry is counted and bounded (`slow`).

## 4. Findings

* **A re-driven exit that cannot be sent leaves the position naked**
  (`order_manager.hpp:1116`): the old exit is guarded like a stop, its refused client-id
  cancel re-adopts it as the stop and cancels the real one, and the cancel remembered
  for it is then re-sent by server id.
* **The first delivery of an unowned fill is taken for its own duplicate**
  (`executor_main.cpp:2034`): the dedupe that records is asked twice.
* **The seeded daily P&L is wiped at start** (`executor_main.cpp:2296`).
* **An account-level halt can be lifted at midnight** (`risk_manager.hpp:104`): its
  reason is overwritten by `daily_loss_limit`.
* **The ORB end-of-day flatten is spent in the evening** (`orb_strategy.hpp:166`): the date turns at
  18:00 ET and clears the latch, one second later 18 is past the flatten hour, the flatten is
  given to nobody and latched; a position open the next afternoon is not flattened by the
  engine, and the executor's backstop is compiled for the other engines only.

Four more disagreements have no run of their own:

* **The reconciler does not re-arm by itself** (`executor_main.cpp:1771`, "Re-arms when the exchange
  and the order manager agree again"): after agreement from the memory side nobody calls
  `observe` until the next account update. Checking `ReArms` with the constants of `MCNetReconcile.cfg`,
  `Qty = 1`, `Grace = 2`, `Strays <- Closing` and `Scenarios <- OneTrade` shows it.
* **A mismatch that has ended keeps ageing** (`executor_main.cpp:2399`, against
  `order_manager.hpp:1763`, "a mismatch that persists past the grace window ... is acted on"): when the
  report of a stop's fill comes before its notice, `mismatch_since_ms` is set; the notice makes memory flat
  but `observe` is not called, so the window runs on. In the next trade, if the notice of the entry overtakes the
  report of the account, the re-check of the maintenance loop acts at once: it adopts an external close on a
  live position and halts. Dropping `ex.since # Never` from `OnSignal` of `NetReconcile` and
  allowing two trades shows it, as a violation of `NoFalseAlarm`.
* **Depth rows are never replayed** (`collector.cpp:119`): `depth_to_line` writes eleven
  fields and `depth_from_line` demands twelve, so the rows a crash leaves in the log are
  skipped and truncated by the next commit. Checking `LoggedRowsSurvive` with `Stream = "depth"`,
  two rows, no fault and one crash shows it.

* **An account halt set by a trade close reaches no runner** (`paper_main.cpp:776`, against the comment at 775,
  "covers halts latched by trade closes", and `paper_engine.hpp:80`, "the caller flattens everything"): the
  callback of the close latches the halt (`paper_main.cpp:428`), and the re-check that would flatten and halt the
  runners is skipped because the account is halted already. The runners trade on until a limit is applied
  again, at the next date if it is the drawdown's or at a restart, or an operator halts them. Checking `AccountHaltHolds`
  without its last disjunct shows it in three states.

## 5. What is proved

For every number of orders and every quantity (`MaxBaskets`, `Qty`), from the
assumptions named in the module, `OrderManagerProofs` shows `TypeOK`, `PositionShape`,
`SessionGuardsCovered`, `GuardsPersisted`, `RetriesAreGuarded` and `StopClosesPosition`.
The safety invariants are not inductive by themselves. `IInv` is their conjunction together with
what links them: the trade a guard belongs to is at most the current one, a guard of the current
trade is on the side that closes it (`Sides`, needed for the re-adoption after a
failed cancel), the retry maps and the persisted rows relate to the guards (`Guards`), and
ids are drawn before they are used. Each method has a lemma "`Good` is preserved", so an
action's step cites the lemmas of the methods it calls; `NextInv` has one step per
action.

For every limit, cap, set of amounts and number of trades, days and runs,
`RiskSessionProofs` shows `TypeOK`, `GaugeMatchesLedger`, `OneTradePastTheLimit`,
`MarkNeverForgotten` and the action property `NoEntryThroughDrawdown`. Its `IInv` adds
the relation of log sums and maxima, that an open trade was admitted above the daily
limit, and that the persisted mark is between the starting balance and the highest
balance seen. `CapAssumption` (`Cap > 0`) is what `main()` enforces.

`OrderManagerProofs` also shows `LegContract`, for the same constants: under the
mapping, the initial state is `LegLife`'s and every call of the order manager is a step of
it or a stutter. It uses `IInv`, because only the shape of the position record tells that
an exit fill ends the leg that was open; each action has one step, and each method one lemma
on how it moves the leg. So what `LiveHost` assumes of the order manager is proved of it.

For every number of orders, contracts, signals, mishaps and unread messages, `OrderRoutingProofs` shows
`RTypeOK`, `NoOrphanOrder`, `TradeEndsClean`, `Protected` and `BookMatchesExchange`. A call of the manager sends
several requests before the exchange sees one, so its `RInv` is stated on the manager's record in the
middle of a call, over the orders that worked when the call began, those not acknowledged yet and
the messages not read yet. `Tidy` says that each working order is one the manager can still reach: it
is the entry, exit or stop of the position, it is guarded, its server id is awaited, or the startup snapshot will
cancel it. Of a guard whose server id has been read a cancel by that id was sent, so it does not work, nor does an order
reported cancelled, filled or rejected. `Covered` says
that the stop and every guard that could be re-adopted as the stop are alive at the exchange: without the
second half the first is lost at a re-adoption. `Booked` says that each fill on the wire is booked, or
that exactly one will be. One lemma per helper, per message kind and per step keeps
these; `DispatchTidy` turns what holds in the middle of a call into what holds of the exchange after it.

`NetReconcileProofs` shows `TypeOK`, `UnwindsCloseWhatWasReported` and `NoFalseAlarm`, for every quantity, grace,
retry and scenario. The last rests on how old the oldest unread message can be when
memory and account disagree by a trade of the executor's own: at most twice `Lag`, so `2 * Lag < Grace`
is assumed, and one second less is refuted by TLC.

For every number of rows, batch and queue size, faults and crashes, `CollectorProofs` shows `TypeOK` and `NoDuplicates`,
and for the streams whose lines read back (not depth, section 4) `NothingVanishes`, `LoggedRowsSurvive` and
`PendingOnDisk` (stated with the proofs: what is pending is in the log at every moment). The first half of the invariant says that each received row is in a place in memory, pending, in the
log or stored, and that the rows of a commit are stored before it (`CommitStored`); the second (`Distinct`), that
as long as no append failed half-way it is in one place only. Facts about every line of a log use the least line at
which they fail, since induction is out of the prover's reach. For the same streams `WriteAhead` is
proved: with the log mapped to the rows a replay would find now and whose line is undamaged, each step of
the collector appends to `RowLog`'s log, inserts from it, truncates it, or stutters. The truncation is the step that needs the
invariant: that every acknowledged row is stored is a fact about earlier batches too, and about those a replay brought back.

For every set of engines and every length of day, `LiveHostProofs` shows `TypeOK`, `EngineInStep`, `LegHasEngine`,
`HaltHolds`, `OneTry`, `StreakIsHistory`, `GenuineCross`, `StopNeverRetreats` and `LegContract`. `EngineProofs` says of each
engine what its ticks, bars and callbacks keep and which signal they may give; the host's
proof uses only those facts, one step per action. `InStep` adds to `EngineInStep` the closed trade
that still waits for the maintenance loop, `Guarded` to `HaltHolds` any difference between exchange and
book, `Tried` to `OneTry` the latch that stops the second try, and `Strays` bounds what lost connections
leave at the exchange. The two action properties need `Anchored` (the last price the ORB engine saw is the last there was)
and the lemmas on `on_tick`.

For every set of modes, trail steps, limit on trades and number of starts, `PaperHostProofs` shows `TypeOK`,
`PaperInStep`, `AccountHaltHolds` and the action properties `PastTape` and `PaperStopHolds`. An action runs many
calls on one record, the runner; so `PaperInv` is made of predicates on that record, and each operation has one lemma that
takes a sound record to a sound one. `Single`: one position, at most one pending order, and a queued reversal waits for
the leg it reverses. `Working`: a working stop lies at or past the placed one, and a moved break-even is in
it. `InStep` extends `PaperInStep` to orders that are not filled yet: the scalper's engine holds the side of the
pending order or of the queued reversal, without which a fill could put it out of step. `HaltKnown` is
`AccountHaltHolds` between two calls, where a close has set the halt and the re-check has not run. `LoopEnd` needs that nothing
is pending while the runner warms up, and `PastTape` that the tape before an entry is only seen on the current
date, so that no change of date closes the position on one of its ticks. TLC checked `PaperInv` as an invariant of `paper_host` before it was proved.

*Only model-checked:* the liveness property `Converges` (fairness is outside the prover). The properties
the code violates (section 4) have counterexamples instead.

## 6. Not modelled, and the plan

`PROJECT.json` gives the reason for each component left out. In the order they are
to be added:

1. For `Collector`: equal trades split over batches (`db.cpp:530` restarts their rank with each
   write), rows invented by a torn line (`collector.cpp:60`) and rows put back during the shutdown drain
   (`collector.cpp:415`).
2. `WriteQueue`: the order plant's write queue. `detach` fails every queued item, the one being
   written too, whose completion handler then pops another (`executor_main.cpp:322`).
3. The instance lock and the deferred snapshot cancels of a carried position, in `LiveHost`.
4. `TrailStop`: the live trail on integer ticks, against the paper broker's in `PaperHost`.
5. The client's reconnect loop (`client.cpp:677`: back-off, watchdog and a late login answer) and
   the audit log.

Left out of modules that are there: a timeframe bar closed together with the next one after a gap
(`trend_strategy.hpp:465`; the bars close with two minutes) and flips that are configured not to exit; a second snapshot
of the account after a resubscription, and the wait for the send of a snapshot's unwind
(`executor_main.cpp:2771` and `1694`; the first report of a connection is the snapshot, and its unwind is sent at
once); a paper warm-up that runs while the date changes on the clock, and a resumed entry whose context of five
minutes lies on the date before.

Out of reach or without a protocol: SQL text, parsing of configuration, the reports of the audit
daemon, latency measurement, and the floating-point indicators of the engines, which are inputs here.
The vendored SDK headers (`sdk/`) are third-party declarations.

## 7. Running

    tlc -workers 2 -config MCOrderManager.cfg MCOrderManager
    tlapm OrderManagerProofs.tla
    tlapm OrderRoutingProofs.tla
    tlapm PaperHostProofs.tla

The slowest runs (`paper_host`, `live_host`, `order_routing`, `net_reconcile`) take two to three minutes each
on two workers.
