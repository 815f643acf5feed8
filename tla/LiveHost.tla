------------------------------ MODULE LiveHost ------------------------------
(***************************************************************************)
(* One engine under the live executor (src/src/execution/executor_main.cpp)*)
(* fed from the collector's tick table: the signal callback, the tick      *)
(* handler, the once-a-second maintenance loop, the feed watchdog, the     *)
(* warm-up replay, and the cycles of connection, loss, shutdown and        *)
(* restart the engine lives through.                                       *)
(*                                                                         *)
(* The order manager appears as its position state (leg) and the one       *)
(* completed trade it keeps for the maintenance loop (closed); its own     *)
(* protocol is the subject of OrderManager.  The coroutines run on one     *)
(* thread, so a handler between two co_await is one action.                *)
(***************************************************************************)
EXTENDS Engines

CONSTANTS
    MaxDrops,       \* losses of the connection, shutdowns and crashes
    DropModes,      \* the modes followed through them
    LiveTrend,      \* the modes of the trend engine and of the scalper run
    LiveMtf

ASSUME LiveAssumption ==
    MaxDrops \in Nat /\ LiveTrend \subseteq TrendModes /\ LiveMtf \subseteq MtfModes

VARIABLES
    leg,        \* position_snapshot(): state and direction
    closed,     \* the completed trade not yet popped, if any
    today,      \* the host has reset the session for the current date
    run,        \* "up", "drain" (signal received), "down" (between cycles),
                \* "off" (no process)
    feed,       \* pg_feed_fresh
    warm,       \* warming_up
    exch,       \* the net position the exchange holds
    pnl,        \* the PNL plant session: "none", "wait" (no position
                \* snapshot yet), "known"
    back,       \* eod_backstop_day is today
    drops,      \* connection losses and process ends so far
    odd,        \* paths the code leaves open that were taken (see below)
    mkt,        \* the side of the last price the feed delivered
    tries,      \* entry signals of this session by side
    hist        \* losses in a row, as the exchange closed the trades

lvars == <<leg, closed, today, run, feed, warm, exch, pnl, back, drops, odd,
           mkt, tries, hist>>
vars == <<eng, phase, lvars>>

(***************************************************************************)
(* odd: what happened that the properties have to know of.                 *)
(*   "lost"  the engine holds a position nobody will report closed: an     *)
(*           ORB entry was refused, an entry died at the exchange or was   *)
(*           cancelled by a target, or the cycle ended under it            *)
(*   "cut"   the engine was told it is flat while a leg is open: the date  *)
(*           rolled over, or a close was reported after the next entry     *)
(*   "lift"  a halt was overwritten by one that lifts itself, or cleared   *)
(*           by the new date                                               *)
(*   "blind" the process started without knowing of the position           *)
(*   "twin"  the engine took a position while another leg was open         *)
(*   "stale" the engine did not see the previous tick                      *)
(***************************************************************************)
Odd == {"lost", "cut", "twin", "lift", "blind", "stale"}

NoLeg == [st |-> "FLAT", dir |-> 0]
LegStates == {NoLeg} \union [st : {"PEND", "OPEN", "EXIT"}, dir : Sides]
Flat(l) == l.st = "FLAT"
NoTries == [d \in Sides |-> 0]

\* Ghost tags are dropped when what they excuse is over.
Tidy(tags, e, l) ==
    tags \ (Tag(~in_position(e), "twin")
            \union Tag(~in_position(e) \/ ~Flat(l), "lost")
            \union Tag(in_position(e) \/ Flat(l), "cut"))

(***************************************************************************)
(* Signals.                                                                *)
(***************************************************************************)

flatten_leg(l) == CASE l.st \in {"FLAT", "PEND"} -> NoLeg
                    [] OTHER -> [l EXCEPT !.st = "EXIT"]

\* Mutant: a reversal is sent while the leg is open.
on_signal_any(l, sig, ok) ==
    IF sig = "none" THEN l ELSE IF sig = "flatten" THEN flatten_leg(l)
    ELSE IF ok THEN [st |-> "PEND", dir |-> IF sig = "buy" THEN 1 ELSE -1] ELSE l

\* An entry is taken only from FLAT, and only if the risk manager agrees.
on_signal(l, sig, ok) ==
    IF sig = "none" THEN l
    ELSE IF sig = "flatten" THEN flatten_leg(l)
    ELSE IF Flat(l) /\ ok THEN [st |-> "PEND", dir |-> IF sig = "buy" THEN 1 ELSE -1]
    ELSE l

\* Mutant: a refused signal is left to the next report.
settle_nothing(e, l, sig) == e

\* Mutant: every signal is settled, taken or not.
settle_always(e, l, sig) ==
    IF e.kind # "orb" /\ sig # "none" /\ in_position(e) THEN Release(e) ELSE e

\* settle_strategy: an engine other than the ORB whose signal left the order
\* manager flat is released.
settle_strategy(e, l, sig) ==
    IF e.kind # "orb" /\ sig # "none" /\ Flat(l) /\ in_position(e)
    THEN Release(e) ELSE e

\* What the callback does to the engine itself: a gated ORB entry is "reset for
\* re-entry" before the engine sets its position, so only the cooldown remains.
gate_skip(e, act) ==
    IF e.kind = "orb" /\ act = "gate" THEN [e EXCEPT !.cool = TRUE] ELSE e

\* The answers an entry can meet: an order, a refusal, a gate or chase skip.
Answers(sig) == IF sig \in {"buy", "sell"} THEN {"order", "refuse", "gate"}
                                           ELSE {"order"}

\* A result r of the engine delivered to the host.  warming_up drops it.
Deliver(r, l, act, w) ==
    LET l2 == IF w THEN l ELSE on_signal(l, r.sig, act = "order")
    IN  [eng |-> IF w THEN r.e
                 ELSE settle_strategy(gate_skip(r.e, act), l2, r.sig),
         leg |-> l2]

\* Tries are counted (to two) for the modes that trade an event once.
Count(n, e, sig) ==
    [d \in Sides |->
        IF e.mode \in OncePerSession \union OncePerSide
           /\ sig = (IF d = 1 THEN "buy" ELSE "sell")
        THEN MinOf(n[d] + 1, 2) ELSE n[d]]

(***************************************************************************)
(* The feed.                                                               *)
(***************************************************************************)

\* Mutant: ticks lift whatever halt there is.
feed_lifts(e) == IF ~feed THEN unhalt_trading(e) ELSE e

\* The first page after silence lifts the halt the silence caused, and no other.
feed_resumes(e) == IF ~feed /\ e.halt = "pg_feed_stale"
                   THEN unhalt_trading(e) ELSE e

\* A book exit, a stop or a target: what the bracket check may do to the leg.  The
\* scalper's target is compared whatever the state, so it can cancel an entry.
bracket_check(l, e) ==
    {l} \union (IF l.st = "OPEN" \/ (l.st = "PEND" /\ e.kind = "mtf" /\ e.tp)
                THEN {flatten_leg(l)} ELSE {})

\* process_tick: the bracket first, then the engine, then settle_strategy.
Tick ==
    /\ run = "up" /\ ~warm
    /\ LET e0 == feed_resumes(eng)
       IN  \E px \in IF eng.kind = "orb" THEN Dirs ELSE {0}, l \in bracket_check(leg, e0) :
           \E r \in Ticks(e0, phase, px) :
           \E act \in Answers(r.sig) :
           LET d == Deliver(r, l, act, FALSE)
           IN  /\ eng' = d.eng
               /\ leg' = d.leg
               /\ odd' = Tidy((odd \ {"stale"})
                              \union Tag((r.sig # "none" /\ eng.kind = "orb")
                                         \/ (l # leg /\ Flat(l)), "lost")
                              \union Tag(r.sig \in {"buy", "sell"} /\ ~Flat(l), "twin")
                              \union Tag(e0.halt # NoHalt /\ eng.kind = "orb", "stale"), d.eng, d.leg)
               /\ mkt' = IF eng.kind = "orb" THEN px ELSE mkt
               /\ tries' = Count(tries, eng, r.sig)
    /\ feed' = TRUE
    /\ UNCHANGED <<phase, closed, today, run, warm, exch, pnl, back, drops,
                   hist>>

\* The warm-up replays history into the engine and drops what it signals.
WarmTick ==
    /\ run = "up" /\ warm
    /\ \E r \in Ticks(feed_resumes(eng), phase, 0) :
         eng' = Deliver(r, leg, "order", TRUE).eng
    /\ feed' = TRUE
    /\ UNCHANGED <<phase, leg, closed, today, run, warm, exch, pnl, back,
                   drops, odd, mkt, tries, hist>>

\* The replay caught up: the engine is released and the real count restored.
end_warmup(e, n) ==
    seed_trades_today(IF in_position(e) THEN Release(e) ELSE e, n)

WarmEnd ==
    /\ run = "up" /\ warm
    /\ \E n \in 0 .. MaxTrades : eng' = end_warmup(eng, n)
    /\ warm' = FALSE
    /\ odd' = Tidy(odd \union {"cut"}, eng', leg)
    /\ UNCHANGED <<phase, leg, closed, today, run, feed, exch, pnl, back,
                   drops, mkt, tries, hist>>

(***************************************************************************)
(* The maintenance loop, once a second: the engine's own end of day, the    *)
(* backstop, the feed watchdog, the date rollover, the completed trade.    *)
(***************************************************************************)

\* The watchdog looks during the session and while a position is open.
feed_stale(l, silent) == feed /\ silent /\ (phase = "session" \/ ~Flat(l))

\* halt_trading keeps one reason: the last one.
overwrites(e, why) == e.halt \notin {NoHalt, why}

report_closed(e) == IF closed = {} THEN e
                    ELSE LET c == CHOOSE c \in closed : TRUE
                         IN  notify_trade_filled(e, c.dir, c.loss)

EodTick ==
    /\ run \in {"up", "drain"}
    /\ \E silent \in IF feed THEN BOOLEAN ELSE {FALSE},
          late \in IF eng.kind # "orb" /\ phase = "late" /\ ~back THEN BOOLEAN ELSE {FALSE} :
       LET r  == check_eod(eng, phase)
           d  == Deliver(r, leg, "order", warm)
           bs == late /\ ~Flat(d.leg)
           l2 == IF bs THEN flatten_leg(d.leg) ELSE d.leg
           st == feed_stale(l2, silent)
           e2 == IF st THEN halt_trading(d.eng, "pg_feed_stale") ELSE d.eng
           roll == ~today
           e3 == IF roll THEN reset_session(e2) ELSE e2
           e4 == report_closed(e3)
       IN  /\ eng' = e4
           /\ leg' = l2
           /\ feed' = (feed /\ ~st)
           /\ back' = (bs \/ (back /\ ~roll))
           /\ tries' = IF roll THEN NoTries ELSE tries
           /\ odd' = Tidy(odd
                \union Tag((r.sig # "none" /\ eng.kind = "orb") \/ bs, "lost")
                \union Tag(roll \/ closed # {}, "cut")
                \union Tag((st /\ overwrites(d.eng, "pg_feed_stale"))
                           \/ (roll /\ e2.halt # NoHalt), "lift"), e4, l2)
    /\ today' = TRUE
    /\ closed' = {}
    /\ UNCHANGED <<phase, run, warm, exch, pnl, drops, mkt, hist>>

(***************************************************************************)
(* The exchange.                                                           *)
(***************************************************************************)

\* The scalper learns its fill price.
EntryFill ==
    /\ run \in {"up", "drain"} /\ leg.st = "PEND"
    /\ leg' = [leg EXCEPT !.st = "OPEN"]
    /\ exch' = exch + leg.dir
    /\ \E fill \in Sides :
         eng' = IF eng.kind = "mtf" THEN notify_entry_filled(eng, leg.dir, fill) ELSE eng
    /\ UNCHANGED <<phase, closed, today, run, feed, warm, pnl, back, drops, odd,
                   mkt, tries, hist>>

\* The entry is rejected, cancelled or times out: the order manager returns to
\* FLAT, and no completed trade tells the engine.
EntryDies ==
    /\ run \in {"up", "drain"} /\ leg.st = "PEND"
    /\ leg' = NoLeg
    /\ odd' = Tidy(odd \union {"lost"}, eng, NoLeg)
    /\ UNCHANGED <<eng, phase, closed, today, run, feed, warm, exch, pnl, back,
                   drops, mkt, tries, hist>>

Streak(e) == IF e.kind = "mtf" THEN e.streak ELSE 0

\* Losses in a row after one more close.  A close that replaces one the engine
\* was never told of counts from what the engine knows.
Bump(loss) == IF ~loss \/ eng.kind # "mtf" THEN 0
              ELSE MinOf((IF closed = {} THEN hist ELSE Streak(eng)) + 1, CoolAfter)

\* The protective stop or the exit order fills.
LegCloses ==
    /\ run \in {"up", "drain"} /\ leg.st \in {"OPEN", "EXIT"}
    /\ \E loss \in BOOLEAN :
         /\ closed' = {[dir |-> leg.dir, loss |-> loss /\ eng.kind = "mtf"]}
         /\ hist' = Bump(loss)
    /\ leg' = NoLeg
    /\ exch' = exch - leg.dir
    /\ odd' = Tidy(odd, eng, NoLeg)
    /\ UNCHANGED <<eng, phase, today, run, feed, warm, pnl, back, drops, mkt,
                   tries>>

\* The exit is refused: the leg is managed again.
ExitFails ==
    /\ run \in {"up", "drain"} /\ leg.st = "EXIT"
    /\ leg' = [leg EXCEPT !.st = "OPEN"]
    /\ UNCHANGED <<eng, phase, closed, today, run, feed, warm, exch, pnl, back,
                   drops, odd, mkt, tries, hist>>

\* Orders keep working while nobody listens: an entry fills, a stop closes.
OfflineFill ==
    /\ run \in {"down", "off"} /\ ~Flat(leg)
    /\ exch' = IF exch = 0 /\ leg.st = "PEND" THEN leg.dir ELSE 0
    /\ UNCHANGED <<eng, phase, leg, closed, today, run, feed, warm, pnl, back,
                   drops, odd, mkt, tries, hist>>

(***************************************************************************)
(* Cycles.                                                                 *)
(***************************************************************************)

Waiting == {"startup_stale_position", "startup_ghost_unwind_failed",
            "reconnect_unreconciled_position"}

\* net_qty_consistent: an order in flight accepts both ends.
consistent == CASE leg.st = "FLAT" -> exch = 0
                [] leg.st = "OPEN" -> exch = leg.dir
                [] OTHER -> exch \in {0, leg.dir}

\* The position snapshot of a new PNL session.  A position this process does not
\* hold is unwound, and the halt lifted if the order went out.
Snapshot ==
    /\ run = "up" /\ pnl = "wait"
    /\ pnl' = "known"
    /\ \/ /\ exch = 0 \/ consistent
          /\ eng' = IF eng.halt \in Waiting THEN unhalt_trading(eng) ELSE eng
          /\ UNCHANGED exch
       \/ /\ exch # 0 /\ ~consistent
          /\ eng' = unhalt_trading(eng)
          /\ exch' = 0
       \/ /\ exch # 0 /\ ~consistent
          /\ eng' = halt_trading(eng, "startup_ghost_unwind_failed")
          /\ UNCHANGED exch
    /\ UNCHANGED <<phase, leg, closed, today, run, feed, warm, back, drops, odd,
                   mkt, tries, hist>>

MayDrop == drops < MaxDrops /\ eng.mode \in DropModes

\* The process ends: only the orders, the database and the clock remain.
Ended ==
    /\ run' = "off"
    /\ eng' = Fresh(eng)
    /\ closed' = {} /\ feed' = FALSE /\ warm' = FALSE /\ pnl' = "none"
    /\ back' = FALSE /\ odd' = {} /\ mkt' = NoPrice /\ tries' = NoTries
    /\ hist' = 0

\* A plant's read error ends the cycle; the position is carried, a completed
\* trade not yet popped is lost with the order manager.
CycleEnds ==
    /\ run = "up"
    /\ run' = "down"
    /\ hist' = IF closed = {} THEN hist ELSE Streak(eng)
    /\ closed' = {}
    /\ UNCHANGED <<eng, feed, warm, pnl, back, odd, mkt, tries>>

\* A draining process ends with its connection.
Disconnect ==
    /\ run \in {"up", "drain"} /\ MayDrop
    /\ drops' = drops + 1
    /\ CycleEnds \/ (run = "drain" /\ Ended)
    /\ UNCHANGED <<phase, leg, today, exch>>

\* A new cycle: fresh order manager and feed, and a warm-up if configured.  A
\* mode not followed through drops starts with its snapshot read.
Faulty == eng.mode \in DropModes
Plants == IF Faulty THEN {"none", "wait"} ELSE {"known"}
WarmUps == IF Faulty /\ eng.kind # "orb" THEN BOOLEAN ELSE {FALSE}

NewCycle(e, p, w) ==
    /\ eng' = IF p = "none" THEN halt_trading(e, "pnl_plant_unavailable") ELSE e
    /\ leg' = NoLeg /\ closed' = {}
    /\ run' = "up" /\ feed' = FALSE /\ pnl' = p
    /\ warm' = w

\* The engine survives; a carried position halts it.
Reconnect ==
    /\ run = "down"
    /\ \E p \in Plants, w \in WarmUps :
       LET e == IF Flat(leg) THEN eng
                ELSE halt_trading(eng, "reconnect_unreconciled_position")
       IN  /\ NewCycle(e, p, w)
           /\ odd' = Tidy((odd \ {"lift"}) \union {"lost"}
                          \union Tag("lift" \in odd /\ Flat(leg) /\ exch # 0, "lift"),
                          e, NoLeg)
    /\ UNCHANGED <<phase, today, exch, back, drops, mkt, tries, hist>>

\* SIGTERM: no new entries, no more ticks, the position is closed.
Shutdown ==
    /\ run = "up" /\ MayDrop
    /\ run' = "drain"
    /\ eng' = halt_trading(eng, "shutdown")
    /\ leg' = flatten_leg(leg)
    /\ drops' = drops + 1
    /\ odd' = Tidy(odd \union {"lost"}, eng, leg')
    /\ UNCHANGED <<phase, closed, today, feed, warm, exch, pnl, back, mkt,
                   tries, hist>>

\* The drain ends when the position is flat or its time is up.
DrainEnds ==
    /\ run = "drain"
    /\ Ended
    /\ UNCHANGED <<phase, leg, today, exch, drops>>

Crash ==
    /\ run \in {"up", "down"} /\ MayDrop
    /\ Ended
    /\ drops' = drops + 1
    /\ UNCHANGED <<phase, leg, today, exch>>

\* What main does not run live: a mode that needs the reference feed, and an
\* engine that reverses.
refused(e) == e.mode = "rs_continuation" \/ (e.kind = "mtf" /\ e.flips)

\* The opening range of today's row, once there is one.
seed_range(e) ==
    IF e.kind = "orb" /\ phase \in {"session", "late"} THEN seed_orb_range(e) ELSE e

\* A new process reads what the database kept: the day's trade count, the
\* position state, the opening range.  db: the database answered.
Restart ==
    /\ run = "off" /\ ~refused(eng)
    /\ \E p \in Plants, w \in WarmUps, db \in BOOLEAN,
          range \in IF eng.kind = "orb" THEN BOOLEAN ELSE {FALSE}, n \in 0 .. MaxTrades :
       LET known == db /\ leg.st \in {"OPEN", "EXIT"}
           e1 == seed_trades_today(eng, IF db THEN n ELSE 0)
           e2 == IF known THEN halt_trading(e1, "startup_stale_position") ELSE e1
           e3 == IF db /\ range THEN seed_range(e2) ELSE e2
       IN  /\ NewCycle(e3, p, w)
           /\ odd' = Tag(~known /\ exch # 0, "blind")
    /\ today' = TRUE
    /\ UNCHANGED <<phase, exch, back, drops, mkt, tries, hist>>

\* What the next pass of the maintenance loop has to do.
Due == check_eod(eng, phase).sig # "none" \/ closed # {} \/ ~today

\* The clock.  A phase lasts hours and the maintenance loop runs every second;
\* an outage is followed over one change of date.
Clock ==
    /\ run \in {"up", "drain"} => ~Due
    /\ phase = "late" => today
    /\ phase' = NextPhase(phase)
    /\ IF phase = "late"
       THEN /\ today' = FALSE
            /\ eng' = IF run = "off" THEN eng ELSE NewDate(eng)
            /\ tries' = NoTries
       ELSE UNCHANGED <<today, eng, tries>>
    /\ UNCHANGED <<leg, closed, run, feed, warm, exch, pnl, back, drops, odd,
                   mkt, hist>>

\* One engine of one of the modes; main does not run a scalper that reverses.
Init ==
    /\ eng \in {OrbNew} \union {TrendNew(m) : m \in LiveTrend}
               \union {MtfNew(m, FALSE, FALSE) : m \in LiveMtf}
    /\ phase = "evening"
    /\ leg = NoLeg /\ closed = {} /\ today = TRUE /\ run = "off" /\ feed = FALSE
    /\ warm = FALSE /\ exch = 0 /\ pnl = "none" /\ back = FALSE /\ drops = 0
    /\ odd = {} /\ mkt = NoPrice /\ tries = NoTries /\ hist = 0

Next ==
    \/ Tick \/ WarmTick \/ WarmEnd \/ EodTick
    \/ EntryFill \/ EntryDies \/ LegCloses \/ ExitFails \/ OfflineFill
    \/ Snapshot \/ Disconnect \/ Reconnect \/ Shutdown \/ DrainEnds \/ Crash
    \/ Restart \/ Clock

Spec == Init /\ [][Next]_vars

(***************************************************************************)
(* Properties.                                                             *)
(***************************************************************************)

\* The type invariant of the engines and the live host.
TypeOK ==
    /\ eng \in EngineStates /\ phase \in Phases
    /\ leg \in LegStates
    /\ closed \in {{}} \union {{c} : c \in [dir : Sides, loss : BOOLEAN]}
    /\ today \in BOOLEAN /\ run \in {"up", "drain", "down", "off"}
    /\ feed \in BOOLEAN /\ warm \in BOOLEAN
    /\ exch \in -(MaxDrops + 1) .. (MaxDrops + 1)
    /\ pnl \in {"none", "wait", "known"} /\ back \in BOOLEAN
    /\ drops \in 0 .. MaxDrops /\ odd \subseteq Odd
    /\ mkt \in Dirs \union {NoPrice} /\ tries \in [Sides -> 0 .. 2]
    /\ hist \in 0 .. CoolAfter

\* The engine never believes in a position the order manager does not have and
\* will not report closed: a refused, gated or skipped signal is settled in the
\* same handler.  Only the named paths ("lost", "twin") leave it so.
EngineInStep ==
    run = "up" /\ ~warm /\ in_position(eng) /\ Flat(leg) /\ closed = {}
        => odd \cap {"lost", "twin"} # {}

\* An open or working leg has an engine that knows of it, so that its exits are
\* given: a release never hits a position that was taken.  Only a change of date
\* under an open leg and a close reported after the next entry do that ("cut").
LegHasEngine == run = "up" /\ ~Flat(leg) => in_position(eng) \/ "cut" \in odd

\* A cycle without a position feed, or with an exchange position the process does
\* not hold, stays halted: nothing lifts a halt that waits for something else,
\* unless it was first overwritten by one that lifts itself or cleared with the
\* date, or the restart could not know of the position.
HaltHolds ==
    run = "up" /\ (pnl = "none" \/ (exch # 0 /\ Flat(leg)))
        => eng.halt # NoHalt \/ odd \cap {"lift", "blind"} # {}

\* A mode that trades an event once (once per side) does not try it again in the
\* same session, whatever became of the first try: refused, released by
\* settle_strategy, dead at the exchange or closed.
OneTry ==
    eng.kind = "trend" =>
        /\ eng.mode \in OncePerSession => tries[1] + tries[-1] <= 1
        /\ eng.mode \in OncePerSide => \A d \in Sides : tries[d] <= 1

\* The scalper's loss streak is the history of its trades: releases of entries
\* that never happened do not touch it, late and reversed reports still count.
StreakIsHistory ==
    run = "up" /\ closed = {} /\ eng.kind = "mtf" => eng.streak = hist

\* An ORB entry is a cross between two consecutive ticks, never a price that was
\* already outside: neither after a restart in mid-session nor after a refused
\* entry.  An engine that was halted did not see the previous tick.
GenuineCross ==
    [][run = "up" /\ eng.kind = "orb" /\ ~eng.pos /\ eng'.pos
          => mkt' # 0 /\ mkt # NoPrice /\ (mkt # mkt' \/ "stale" \in odd)]_<<eng, mkt, odd>>

\* The scalper's stop never retreats while its leg lasts: neither for the real
\* fill price, nor when the trail distance widens.
StopNeverRetreats ==
    [][eng.kind = "mtf" /\ eng.pos # 0 /\ eng'.pos = eng.pos /\ eng'.trades = eng.trades
          => eng'.stop >= eng.stop]_eng

Legs == INSTANCE LegLife WITH Side <- Sides, NoSide <- 0

\* What this host assumes of the order manager is what OrderManager implements:
\* every step of the leg here is a step of LegLife.
LegContract == Legs!Spec

\* An ORB position does not outlast the day: "check_eod() <- called periodically
\* (e.g. every second) to flatten".  When the hour of the end of day comes, the
\* next pass of the maintenance loop gives the flatten.
EodFlattens ==
    [][phase = "session" /\ phase' = "late" /\ run = "up" /\ eng.kind = "orb"
          /\ leg.st = "OPEN" => check_eod(eng', "late").sig = "flatten"]_<<eng, phase>>

=============================================================================
