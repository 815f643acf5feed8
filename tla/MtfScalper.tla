----------------------------- MODULE MtfScalper -----------------------------
(***************************************************************************)
(* The multi-timeframe scalper (src/src/execution/mtf_scalper_strategy.hpp)*)
(* Its pipeline runs once per completed minute bar.  Indicators, ranks and *)
(* patterns are the input x of the bar; the set-up machines, the guards,   *)
(* the confirmation module, the leg and its bracket are kept.              *)
(*                                                                         *)
(* Prices of a leg are ticks in its favour, counted from the close that    *)
(* opened it: the stop starts at -RUnit and never retreats.  The engine is *)
(* past its warm-up count, and a tick that completes bars of two lengths   *)
(* is two ticks.                                                           *)
(***************************************************************************)
EXTENDS OrbStrategy

CONSTANTS
    RUnit,          \* sl distance in ticks (sl_points)
    BeAt,           \* first progress beyond the break-even trigger (be_trigger_pct_tp)
    TrailAt,        \* progress that latches the trail (trail_start_r)
    CoolAfter,      \* cooldown_after_losses
    CoolBars,       \* cooldown_bars
    RegimeBars,     \* regime_bars
    HtfKeep,        \* completed higher-timeframe bars kept (8 in the code)
    Unlimited       \* the modes configured without use_max_trades

ASSUME MtfAssumption ==
    /\ {RUnit, BeAt, TrailAt, CoolAfter, CoolBars, RegimeBars, HtfKeep}
           \subseteq Nat \ {0}
    /\ BeAt <= TrailAt

\* trigger_mode; "plain" stands for the modes that look at one bar only
\* (flag_stop, flag_close, stoch, smt), "auto" for plain and retest together,
\* "fvg_struct" for gaps found on a higher timeframe.
MtfModes == {"plain", "flag_retest", "auto", "onset", "fvg", "fvg_struct",
             "sweep"}

Levels == {"day", "session"}
NoSetup == [d \in Sides |-> -1]
\* The ages of the set-ups by side (-1: none), and the gaps and levels used up.
SetupAges == [Sides -> -1 .. MaxAge + 1]
Uses == Sides \X ({"gap"} \union Levels)

(* trend : the side of the fast over the slow average                       *)
(* gate  : the other entry conditions of that side hold                     *)
(* arm   : the side a pattern appears on (flag break, flip, gap, sweep)     *)
(* evt   : the level is touched ("hit") or broken ("drop")                  *)
(* raw   : enough regime components pass;  roll/strong : the confirmation   *)
(*         or structure bar completed, and the side it closed on            *)
(* px, dst : the close and the trail distance;  exit : an exit rule holds   *)
\* What a flat engine and what one with a leg can tell apart.
\* Sweeps, retests and onsets are followed on one side.
OneSided == {"sweep", "flag_retest", "onset"}
Arms(e) == IF e.mode \in OneSided THEN {0, 1} ELSE Dirs
Events(e) == IF e.mode = "plain" THEN {"none"} ELSE {"none", "hit", "drop"}
Rolls(e) == IF e.conf \/ e.mode = "fvg_struct" THEN BOOLEAN ELSE {FALSE}

FlatInput(e) == [trend : Dirs, arm : Arms(e), evt : Events(e),
    raw : IF e.mode = "plain" THEN BOOLEAN ELSE {TRUE},
    gate : IF e.mode = "plain" THEN BOOLEAN ELSE {TRUE},
    px : {0}, dst : {1}, exit : {FALSE},
    strong : IF e.conf THEN Dirs ELSE {0}, roll : Rolls(e)]

LegInput(e) == [trend : Sides, arm : Arms(e), evt : Events(e) \ {"drop"},
    raw : {TRUE}, gate : {TRUE},
    px : IF e.exitP THEN {0} ELSE {0, BeAt, TrailAt + 1}, dst : {1, RUnit},
    exit : IF e.exitP THEN {FALSE} ELSE BOOLEAN,
    strong : IF e.conf THEN Sides ELSE {0}, roll : Rolls(e)]

\* A confirmed signal is not asked again for the trade limit, so the count may
\* pass it; it is not followed beyond one more.
TradesCap == MaxTrades + 1

MtfNew(mode, conf, flips) ==
    [kind |-> "mtf", mode |-> mode, conf |-> conf, flips |-> flips,
     pos |-> 0, ent |-> 0, stop |-> 0, tp |-> FALSE, be |-> FALSE,
     trail |-> FALSE, exitP |-> FALSE, eod |-> FALSE, trades |-> 0,
     streak |-> 0, cool |-> 0, halt |-> NoHalt, inSess |-> FALSE, day |-> TRUE,
     regime |-> 0, setup |-> NoSetup, used |-> {}, done |-> 0,
     pend |-> NoSetup]

MtfState == [kind : {"mtf"}, mode : MtfModes, conf : BOOLEAN, flips : BOOLEAN,
    pos : Dirs, ent : -1 .. 1, stop : -(RUnit + 1) .. TrailAt,
    tp : BOOLEAN, be : BOOLEAN, trail : BOOLEAN, exitP : BOOLEAN,
    eod : BOOLEAN, trades : 0 .. TradesCap, streak : 0 .. CoolAfter,
    cool : 0 .. CoolBars, halt : Halts, inSess : BOOLEAN, day : BOOLEAN,
    regime : 0 .. RegimeBars, setup : SetupAges, used : SUBSET Uses,
    done : 0 .. HtfKeep, pend : SetupAges]

MaxOf(a, b) == IF a >= b THEN a ELSE b
MinOf(a, b) == IF a <= b THEN a ELSE b

(***************************************************************************)
(* The leg and its bracket.                                                *)
(***************************************************************************)

clear_position(e) ==
    [e EXCEPT !.pos = 0, !.ent = 0, !.stop = 0, !.tp = FALSE, !.be = FALSE,
              !.trail = FALSE, !.exitP = FALSE]

\* The leg is set before the host's callback, so a release made inside the
\* callback is effective.
open_position(e, d) ==
    [e EXCEPT !.pos = d, !.ent = 0, !.stop = -RUnit, !.tp = TRUE,
              !.be = FALSE, !.trail = FALSE, !.exitP = FALSE,
              !.trades = MinOf(@ + 1, TradesCap)]

\* Mutant: the bracket is computed anew from the fill.
init_bracket_anew(e) == [e EXCEPT !.stop = e.ent - RUnit, !.tp = TRUE]

\* The fill price replaces the assumed one.  The stop never retreats; the
\* target is set again even when trailing had retired it.
init_bracket(e) == [e EXCEPT !.stop = MaxOf(@, e.ent - RUnit), !.tp = TRUE]

notify_entry_filled(e, d, fill) ==
    IF d # e.pos THEN e ELSE init_bracket([e EXCEPT !.ent = fill])

\* Break-even and trail latch; the stop only moves up; a trail retires the
\* target.  Then the market exits.
update_exits(e, x) ==
    LET be == e.be \/ x.px >= e.ent + BeAt
        tr == e.trail \/ x.px > e.ent + TrailAt
        ns == MaxOf(MaxOf(e.ent - RUnit, IF be THEN e.ent ELSE e.stop),
                    IF tr THEN x.px - x.dst ELSE e.stop)
        f  == [e EXCEPT !.be = be, !.trail = tr, !.tp = ~tr,
                        !.stop = MaxOf(@, ns)]
    IN  IF x.exit THEN Flatten([f EXCEPT !.exitP = TRUE]) ELSE Stay(f)

(***************************************************************************)
(* The host contract.                                                      *)
(***************************************************************************)

mtf_reset_session(e) ==
    [clear_position(e) EXCEPT !.trades = 0, !.eod = FALSE, !.halt = NoHalt]

\* Mutant: a release is booked as a trade that did not lose.
release_as_win(e, closed, loss) ==
    clear_position([e EXCEPT !.streak = IF loss THEN MinOf(@ + 1, CoolAfter) ELSE 0])

\* Direction 0 releases the leg and accounts nothing.  A close of the other
\* side than the leg's (a reversal reported late) leaves the leg alone.
mtf_notify_trade_filled(e, closed, loss) ==
    LET n == IF loss THEN MinOf(e.streak + 1, CoolAfter) ELSE 0
        f == [e EXCEPT !.streak = n,
                       !.cool = IF loss /\ n >= CoolAfter THEN CoolBars ELSE @]
    IN  IF closed = 0 THEN clear_position(e)
        ELSE IF e.pos \in {0, closed} THEN clear_position(f) ELSE f

check_time_flatten(e, ph) ==
    IF e.pos # 0 /\ ~e.exitP /\ ~e.eod /\ ph # "session"
    THEN Flatten([e EXCEPT !.eod = TRUE, !.exitP = TRUE])
    ELSE Stay(e)

(***************************************************************************)
(* The set-up machines.  Each returns the engine after the bar and the     *)
(* sides it triggers.                                                      *)
(***************************************************************************)

\* Armed set-ups grow one bar older.
Aged(s) == [d \in Sides |-> IF s[d] < 0 THEN -1 ELSE MinOf(s[d] + 1, MaxAge + 1)]

\* A side is armed only when it is not armed and not already held.
Armed(s, e, x) == [d \in Sides |->
    IF x.arm = d /\ s[d] < 0 /\ e.pos # d THEN 0 ELSE s[d]]

\* Trend onset: live for a window of bars while the trend lasts, spent by its
\* trigger or by the loss of the trend.
OnsetEngine(e, x) ==
    LET s == Armed(Aged(e.setup), e,
                   [x EXCEPT !.arm = IF @ = x.trend THEN @ ELSE 0])
        t == {d \in Sides : s[d] \in 0 .. MaxAge /\ x.trend = d /\ x.evt = "hit"}
    IN  [e |-> [e EXCEPT !.setup = [d \in Sides |->
                    IF d \in t \/ x.trend # d THEN -1 ELSE s[d]]],
         t |-> t]

\* Break and retest: the bar that breaks arms, a later bar that comes back to
\* the level triggers; a failed level, age or a lost trend disarms.  A trigger
\* that does not enter leaves the level armed.
RetestMachine(e, x) ==
    LET s == Armed(Aged(e.setup), e, x)
        watch == {d \in Sides : s[d] > 0}
    IN  [e |-> [e EXCEPT !.setup = [d \in Sides |->
                    IF /\ d \in watch
                       /\ x.evt = "drop" \/ s[d] > MaxAge \/ x.trend # d
                    THEN -1 ELSE s[d]]],
         t |-> {d \in watch : x.evt = "hit"}]

\* Completed bars of the structure timeframe.  A roll-over is seen as a change
\* in the number of kept bars, which stops changing once HtfKeep are kept.
update_htf(e, x) == [e EXCEPT !.done = IF x.roll THEN MinOf(@ + 1, HtfKeep) ELSE @]

struct_rolled(e, x) == e.mode = "fvg_struct" => update_htf(e, x).done # e.done

\* Fair-value gaps, one kept per side: a gap is used once, and erased when it
\* is filled or too old.
fvg_maintain(e, x) ==
    LET s == Aged(e.setup)
        gone == {d \in Sides : s[d] >= 0 /\ (x.evt = "drop" \/ s[d] > MaxAge)}
    IN  [age |-> [d \in Sides |-> IF d \in gone THEN -1 ELSE s[d]],
         gone |-> gone,
         t |-> {d \in Sides \ gone : /\ s[d] >= 0
                                     /\ <<d, "gap">> \notin e.used
                                     /\ x.evt = "hit"}]

FvgEngine(e, x) ==
    LET f == IF e.mode = "fvg_struct" THEN update_htf(e, x) ELSE e
        g == fvg_maintain(e, x)
        new == {d \in Sides : x.arm = d /\ struct_rolled(e, x)}
    IN  [e |-> [f EXCEPT
                 !.setup = [d \in Sides |-> IF d \in new THEN 0 ELSE g.age[d]],
                 !.used = {u \in @ : u[1] \notin new \union g.gone}
                          \union {<<d, "gap">> : d \in g.t \ new}],
         t |-> g.t]

\* Liquidity sweeps: one signal per level and period (evt names the level).
SweepEngine(e, x) ==
    LET lv == IF x.evt = "hit" THEN "day" ELSE "session"
        ok == x.arm # 0 /\ <<x.arm, lv>> \notin e.used
    IN  [e |-> IF ok THEN [e EXCEPT !.used = @ \union {<<x.arm, lv>>}] ELSE e,
         t |-> IF ok THEN {x.arm} ELSE {}]

\* trigger_mode chooses which machines may ask for an entry.
Triggers(e, x) ==
    CASE e.mode = "onset" -> OnsetEngine(e, x)
      [] e.mode = "flag_retest" -> RetestMachine(e, x)
      [] e.mode \in {"fvg", "fvg_struct"} -> FvgEngine(e, x)
      [] e.mode = "sweep" -> SweepEngine(e, x)
      [] e.mode = "plain" -> [e |-> e, t |-> {x.arm} \ {0}]
      [] e.mode = "auto" -> LET r == RetestMachine(e, x)
                            IN  [r EXCEPT !.t = @ \union ({x.arm} \ {0})]

(***************************************************************************)
(* The pipeline.                                                           *)
(***************************************************************************)

\* A new Globex day and a session start reset their levels and counters.  The
\* date of the last bar is kept relative to the present: e.day says it is today's.
Rollover(e, ph) ==
    LET nd == ~e.day
        ss == ph = "session" /\ ~e.inSess
        old == (IF nd THEN {"day"} ELSE {}) \union (IF ss THEN {"session"} ELSE {})
    IN  [e EXCEPT !.day = TRUE, !.trades = IF nd THEN 0 ELSE @,
                  !.eod = IF nd THEN FALSE ELSE @,
                  !.used = {u \in @ : u[2] \notin old},
                  !.cool = IF @ > 0 THEN @ - 1 ELSE 0]

RegimeFilter(e, x) ==
    [e EXCEPT !.regime = IF x.raw THEN MinOf(@ + 1, RegimeBars) ELSE 0]

\* The side all entry conditions and guards agree on, or 0.
SignalSide(e, ph, x, t, cooling) ==
    IF /\ x.gate /\ x.trend \in t
       /\ ph = "session"
       /\ e.regime >= RegimeBars
       /\ ~cooling
       /\ e.trades < MaxTrades \/ e.mode \in Unlimited
    THEN x.trend ELSE 0

\* Confirmation: a signal is kept pending and goes on the next confirmation
\* bar that closes on its side; that bar, age, a lost trend or a leg of that
\* side drop it.
ConfirmTf(e, ph, x, s) ==
    LET p == [d \in Sides |-> IF s = d /\ e.pos # d /\ e.pend[d] < 0 THEN 0
                              ELSE Aged(e.pend)[d]]
        go == {d \in Sides : p[d] >= 0 /\ x.roll /\ x.strong = d /\ ph = "session"}
    IN  [e  |-> [e EXCEPT !.pend = [d \in Sides |->
                    IF x.roll \/ x.trend # d \/ p[d] > MaxAge \/ e.pos = d
                    THEN -1 ELSE p[d]]],
         go |-> go]

\* The side that may enter: flat, or reversing a leg of the other side.
EntrySide(e, go) ==
    LET can(d) == /\ d \in go
                  /\ ~e.exitP
                  /\ e.pos = 0 \/ (e.flips /\ e.pos = -d)
    IN  IF can(1) THEN 1 ELSE IF can(-1) THEN -1 ELSE 0

\* An entry spends the retest it came from.
Enter(e, x, t, d) ==
    [e   |-> [open_position(e, d) EXCEPT !.setup =
                 IF e.mode \in {"flag_retest", "auto"} /\ d \in t
                    /\ x.evt = "hit" /\ e.setup[d] > 0
                 THEN [@ EXCEPT ![d] = -1] ELSE @],
     sig |-> IF d = 1 THEN "buy" ELSE "sell"]

\* Entries, or the exits of the leg.
EnterOrManage(x, t, c) ==
    IF EntrySide(c.e, c.go) # 0 THEN Enter(c.e, x, t, EntrySide(c.e, c.go))
    ELSE IF c.e.pos # 0 /\ ~c.e.exitP THEN update_exits(c.e, x)
    ELSE Stay(c.e)

\* The session ends under an open leg.
SessionEnd(ph, o) ==
    LET f == [o.e EXCEPT !.inSess = ph = "session"]
    IN  IF o.e.inSess /\ ph # "session" /\ o.e.pos # 0 /\ ~o.e.exitP
        THEN Flatten([f EXCEPT !.exitP = TRUE]) ELSE [o EXCEPT !.e = f]

Confirm(ph, x, r, s) ==
    IF r.e.conf THEN ConfirmTf(r.e, ph, x, s) ELSE [e |-> r.e, go |-> {s} \ {0}]

Pipeline(ph, x, cooling, r) ==
    SessionEnd(ph, EnterOrManage(x, r.t,
        Confirm(ph, x, r, SignalSide(r.e, ph, x, r.t, cooling))))

handle_completed_bar(e, ph, x) ==
    Pipeline(ph, x, e.cool > 0,
             Triggers(RegimeFilter(Rollover(e, ph), x), x))

\* A halted engine sees no tick: no bar, no bracket update, no exit.
mtf_on_tick(e, ph, x) ==
    IF e.halt # NoHalt THEN Stay(e) ELSE handle_completed_bar(e, ph, x)

=============================================================================
