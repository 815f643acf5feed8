--------------------------- MODULE TrendStrategy ---------------------------
(***************************************************************************)
(* The trend engine (src/src/execution/trend_strategy.hpp): one class with *)
(* many entry modes behind one session contract.  What the engine does     *)
(* with prices (averages, channels, profiles) is the input x of a          *)
(* completed bar: the side the bar asks for, whether the mode's own exit   *)
(* condition holds, whether the higher-timeframe gate lets the side pass   *)
(* and whether the mode's clock time is reached.  All the control is kept: *)
(* the position flag and when it is set, the halt, the trade count, the    *)
(* latches, the armed set-ups and their age, the order of the checks.      *)
(*                                                                         *)
(* An operation returns the engine after it and the signal it gave to the  *)
(* host's callback ("none" when it gave none).  One mode runs per engine,  *)
(* so the latches of all modes share fields:                               *)
(*   done     drive_done_ gap_done_ tod_done_ td_done_ gf_done_ nb_done_   *)
(*            hold_done_                                                   *)
(*   arm      drive_dir_ td_dir_ gf_dir_ ib_dir_ vp_dir_ fb_dir_ abs_dir_  *)
(*            ort_arm_ st_dir_ imb_dir_                                    *)
(*   age      fb_age_ abs_age_ ort_age_ and the time imb_dir_ has lasted   *)
(*   used     ort_used_* ab_used_* vp_used_* as the set of used sides      *)
(*   reenter  reenter_dir_                                                 *)
(***************************************************************************)
EXTENDS Integers

CONSTANTS
    MaxTrades,      \* max_daily_trades
    MaxAge          \* fb_bars, abs_arm_bars, ort_max_bars and bi_hold_secs

ASSUME TrendAssumption == MaxTrades \in Nat \ {0} /\ MaxAge \in Nat \ {0}

Sides == {-1, 1}
Dirs == {-1, 0, 1}

MinuteModes == {"gap_go", "tod_momentum", "rs_continuation"}
BarModes == {"donchian", "trend_day", "failed_breakout", "keltner_ride",
    "ichimoku", "roc_momentum", "delta_trend", "fib_pullback", "vwap_fade",
    "band_fade", "rsi2_pullback", "ema_pullback", "vwap_trend",
    "opening_drive", "pdhl_breakout", "squeeze", "supertrend", "nr7",
    "ema_ribbon", "thrust_fade", "absorption_reversal", "delta_divergence",
    "volume_burst", "orb_retest", "gap_fade", "news_break", "ib_break",
    "hold", "atr_break", "vprofile_fade", "vprofile_break"}
TrendModes == MinuteModes \union BarModes \union {"book_imbalance"}

(* The input of a completed bar or quote: the side it asks for, the mode's *)
(* exit condition, the alignment gate of can_enter, the mode's clock time. *)
BarInput == [want : Dirs, exit : BOOLEAN, ok : BOOLEAN, ripe : BOOLEAN]

(* The day as the engine sees it: the evening after the 18:00 rollover, the *)
(* night after midnight, the regular session, and the hours after it.  A    *)
(* test "hour >= end of day" holds late and in the evening, not at night.   *)
(* An overnight hold's window wraps midnight: it opens late in the day and  *)
(* ends the next morning.                                                   *)
Phases == {"evening", "night", "session", "late"}

in_window(mode, ph) == IF mode = "hold" THEN ph # "session"
                                        ELSE ph = "session"

past_end(mode, ph) == IF mode = "hold" THEN ph = "session"
                                       ELSE ph \in {"late", "evening"}

(***************************************************************************)
(* State and the host contract.                                            *)
(***************************************************************************)

NoHalt == "none"       \* halt_reason_ is empty
\* The reasons the hosts give.
Halts == {NoHalt, "pg_feed_stale", "pnl_plant_unavailable", "startup_stale_position",
          "startup_ghost_unwind_failed", "reconnect_unreconciled_position",
          "shutdown", "host"}

TrendNew(mode) ==
    [kind |-> "trend", mode |-> mode, pos |-> FALSE, dir |-> 0, trades |-> 0,
     halt |-> NoHalt, eod |-> FALSE, inRth |-> FALSE, inWin |-> FALSE,
     done |-> FALSE, arm |-> 0, age |-> 0, used |-> {}, reenter |-> 0]

TrendState == [kind : {"trend"}, mode : TrendModes, pos : BOOLEAN, dir : Dirs,
    trades : 0 .. MaxTrades, halt : Halts, eod : BOOLEAN, inRth : BOOLEAN,
    inWin : BOOLEAN, done : BOOLEAN, arm : Dirs, age : 0 .. MaxAge + 1,
    used : SUBSET Sides, reenter : Dirs]

Modes2809 == {"orb_retest", "gap_fade", "news_break", "ib_break", "hold",
              "atr_break", "vprofile_fade", "vprofile_break"}

\* The modes that trade an event once a session, or once a session and side.
OncePerSession == {"news_break", "gap_fade", "hold", "gap_go", "tod_momentum"}
OncePerSide == {"atr_break", "vprofile_fade", "vprofile_break", "orb_retest"}

\* A latch of this mode's set-up is dropped; the supertrend's side is not one.
ClearSetup(e) == [e EXCEPT !.done = FALSE, !.age = 0, !.used = {},
                           !.arm = IF e.mode = "supertrend" THEN @ ELSE 0]

reset_2809_modes(e) == IF e.mode \in Modes2809 THEN ClearSetup(e) ELSE e

trend_reset_session(e) ==
    LET keep == e.mode = "hold" /\ e.pos
    IN  [ClearSetup(e) EXCEPT !.inRth = FALSE, !.eod = FALSE, !.reenter = 0,
             !.trades = 0, !.halt = NoHalt, !.pos = keep,
             !.dir = IF keep THEN @ ELSE 0]

trend_seed_open_position(e, d) == [e EXCEPT !.pos = TRUE, !.dir = d]

trend_notify_trade_filled(e) == [e EXCEPT !.pos = FALSE, !.dir = 0]

(***************************************************************************)
(* Signals.  emit calls the host first and sets the position afterwards,   *)
(* whatever the host answered.                                             *)
(***************************************************************************)

Stay(e) == [e |-> e, sig |-> "none"]

Flatten(e) == [e |-> e, sig |-> "flatten"]

trend_emit(e, d) ==
    [e   |-> [e EXCEPT !.pos = TRUE, !.dir = d, !.trades = @ + 1],
     sig |-> IF d = 1 THEN "buy" ELSE "sell"]

\* Mutant: the trades of the day are not counted.
can_enter_unlimited(e, ph, x) ==
    ~e.pos /\ e.halt = NoHalt /\ in_window(e.mode, ph) /\ x.ok

trend_can_enter(e, ph, x) ==
    /\ ~e.pos
    /\ e.halt = NoHalt
    /\ in_window(e.mode, ph)
    /\ e.trades < MaxTrades
    /\ x.ok

trend_check_eod(e, ph) ==
    IF past_end(e.mode, ph) /\ e.pos /\ ~e.eod
    THEN Flatten([e EXCEPT !.eod = TRUE])
    ELSE Stay(e)

(***************************************************************************)
(* The modes.                                                              *)
(***************************************************************************)

\* The entry every mode ends in; f is the engine with the mode's latch set.
EnterOr(e, ph, x, f) ==
    IF x.want # 0 /\ trend_can_enter(e, ph, x) THEN trend_emit(f, x.want)
                                               ELSE Stay(e)

Try(e, ph, x) == EnterOr(e, ph, x, e)

\* An exit of the mode's own (a flip, a target) comes before an entry.
ExitOrTry(e, ph, x) == IF e.pos /\ x.exit THEN Flatten(e) ELSE Try(e, ph, x)

mode_donchian(e, ph, x) == Try(e, ph, x)
mode_pdhl(e, ph, x) == Try(e, ph, x)
mode_squeeze(e, ph, x) == Try(e, ph, x)
mode_nr7(e, ph, x) == Try(e, ph, x)
mode_rs(e, ph, x) == Try(e, ph, x)
mode_roc(e, ph, x) == Try(e, ph, x)
mode_fib(e, ph, x) == Try(e, ph, x)
mode_delta_div(e, ph, x) == Try(e, ph, x)
mode_volume_burst(e, ph, x) == Try(e, ph, x)

mode_vwap(e, ph, x) == IF e.inRth THEN Try(e, ph, x) ELSE Stay(e)
mode_delta(e, ph, x) == IF e.inRth THEN Try(e, ph, x) ELSE Stay(e)
mode_vwap_fade(e, ph, x) == IF e.inRth THEN ExitOrTry(e, ph, x) ELSE Stay(e)

mode_ema_pullback(e, ph, x) == ExitOrTry(e, ph, x)
mode_keltner(e, ph, x) == ExitOrTry(e, ph, x)
mode_ichimoku(e, ph, x) == ExitOrTry(e, ph, x)
mode_band_fade(e, ph, x) == ExitOrTry(e, ph, x)
mode_rsi2(e, ph, x) == ExitOrTry(e, ph, x)
mode_ema_ribbon(e, ph, x) == ExitOrTry(e, ph, x)
mode_thrust_fade(e, ph, x) == ExitOrTry(e, ph, x)

\* Decided once a session, at its clock time: the side of the day, or none.
Decide(e, x) == IF e.inRth /\ ~e.done /\ x.ripe
                THEN [e EXCEPT !.done = TRUE, !.arm = x.want] ELSE e

mode_drive(e, ph, x) ==
    LET d == Decide(e, x)
    IN  IF ~e.inRth \/ x.want # d.arm THEN Stay(d) ELSE Try(d, ph, x)

recognise_trend_day(e, x) == Stay(Decide(e, x))

mode_trend_day(e, ph, x) ==
    IF e.arm = 0 \/ ~e.inRth \/ x.want # e.arm THEN Stay(e) ELSE Try(e, ph, x)

\* One try per session: the latch is set before the day filters and can_enter.
\* The entry time (hold_entry_hhmm) lies in the hours after the session.
mode_hold(e, ph, x) ==
    IF e.pos \/ e.done \/ ~x.ripe \/ ph # "late" THEN Stay(e)
    ELSE Try([e EXCEPT !.done = TRUE], ph, x)

mode_gap(e, ph, x) ==
    IF ~e.inRth \/ e.done \/ ~x.ripe THEN Stay(e)
    ELSE Try([e EXCEPT !.done = TRUE], ph, x)

\* x.exit: the clock window has passed.
mode_tod(e, ph, x) ==
    IF e.done \/ ~x.ripe THEN Stay(e)
    ELSE IF x.exit THEN Stay([e EXCEPT !.done = TRUE])
    ELSE IF x.want = 0 THEN Stay(e)
    ELSE Try([e EXCEPT !.done = TRUE], ph, x)

\* Mutant: the latch is left to the trade limit.
news_break_unlatched(e, ph, x) == IF ~x.ripe THEN Stay(e) ELSE Try(e, ph, x)

\* One entry per session: the latch is set with the entry.
mode_news_break(e, ph, x) ==
    IF e.done \/ ~x.ripe THEN Stay(e)
    ELSE EnterOr(e, ph, x, [e EXCEPT !.done = TRUE])

mode_atr_break(e, ph, x) ==
    IF ~e.inRth \/ x.want \in e.used THEN Stay(e)
    ELSE EnterOr(e, ph, x, [e EXCEPT !.used = @ \union {x.want}])

\* A leg with a target of its own: while it is open only the target is watched.
TargetOr(e, x, entry) ==
    IF e.arm # 0 /\ e.pos
    THEN IF x.exit THEN Flatten([e EXCEPT !.arm = 0]) ELSE Stay(e)
    ELSE entry

mode_vprofile(e, ph, x) ==
    IF ~e.inRth THEN Stay(e)
    ELSE TargetOr(e, x,
            IF x.want \in e.used THEN Stay(e)
            ELSE EnterOr(e, ph, x,
                    [e EXCEPT !.used = @ \union {x.want},
                              !.arm = IF e.mode = "vprofile_fade"
                                      THEN x.want ELSE @]))

mode_gap_fade(e, ph, x) ==
    IF ~e.inRth THEN Stay(e)
    ELSE TargetOr(e, x,
            IF e.done \/ ~x.ripe THEN Stay(e)
            ELSE EnterOr(e, ph, x, [e EXCEPT !.done = TRUE, !.arm = x.want]))

mode_ib_break(e, ph, x) ==
    IF ~e.inRth \/ ~x.ripe THEN Stay(e)
    ELSE TargetOr(e, x, EnterOr(e, ph, x, [e EXCEPT !.arm = x.want]))

\* The break arms a side; the pull-back to the edge enters; a close back
\* through the edge or too many bars disarms.
mode_orb_retest(e, ph, x) ==
    LET a == [e EXCEPT !.age = @ + 1]
        off == [a EXCEPT !.arm = 0]
    IN  IF ~e.inRth \/ ~x.ripe THEN Stay(e)
        ELSE IF e.arm = 0
        THEN Stay(IF x.want \in e.used \union {0} THEN e
                  ELSE [e EXCEPT !.arm = x.want, !.age = 0])
        ELSE IF x.exit \/ a.age > MaxAge THEN Stay(off)
        ELSE IF x.want = e.arm
        THEN EnterOr(a, ph, x, [off EXCEPT !.used = @ \union {e.arm}])
        ELSE Stay(a)

\* Armed by a break (side arm); a close back inside enters the other way.
\* The set-up is spent by the close back, whether the entry is allowed or not.
mode_failed_breakout(e, ph, x) ==
    LET a == [e EXCEPT !.age = @ + 1]
        Arm(f) == IF f.arm = 0 /\ x.want # 0
                  THEN [f EXCEPT !.arm = x.want, !.age = 0] ELSE f
    IN  IF e.arm = 0 THEN Stay(Arm(e))
        ELSE IF a.age > MaxAge THEN Stay(Arm([e EXCEPT !.arm = 0, !.age = 0]))
        ELSE IF x.exit
        THEN Try([a EXCEPT !.arm = 0], ph, [x EXCEPT !.want = -e.arm])
        ELSE Stay(a)

\* As above, but a refused entry leaves the set-up armed until it is too old.
mode_absorption(e, ph, x) ==
    LET a == [e EXCEPT !.age = @ + 1]
        Arm(f) == IF x.want # 0 THEN [f EXCEPT !.arm = x.want, !.age = 0] ELSE f
    IN  IF e.arm = 0 THEN Stay(Arm(e))
        ELSE IF a.age > MaxAge THEN Stay(Arm([a EXCEPT !.arm = 0]))
        ELSE IF x.exit
        THEN EnterOr(a, ph, [x EXCEPT !.want = -e.arm], [a EXCEPT !.arm = 0])
        ELSE Stay(a)

\* Stop and reverse: a flip against the leg flattens and remembers the side to
\* enter once the host reports the leg closed.
mode_supertrend(e, ph, x) ==
    LET d == IF x.want # 0 THEN x.want ELSE e.arm
        flipped == e.arm # 0 /\ d # e.arm
        f == [e EXCEPT !.arm = d]
    IN  IF flipped /\ e.pos /\ e.dir # d
        THEN Flatten([f EXCEPT !.reenter = d])
        ELSE IF d = 0 \/ ~(flipped \/ e.reenter = d) THEN Stay(f)
        ELSE EnterOr(f, ph, [x EXCEPT !.want = d], [f EXCEPT !.reenter = 0])

\* book_imbalance decides on quotes: x.want is the heavy side of this quote.
trend_on_quote(e, ph, x) ==
    LET q == IF x.want # e.arm THEN [e EXCEPT !.arm = x.want, !.age = 0]
             ELSE [e EXCEPT !.age = IF @ > MaxAge THEN @ ELSE @ + 1]
    IN  IF e.pos THEN (IF x.exit THEN Flatten(q) ELSE Stay(q))
        ELSE IF q.age < MaxAge \/ ~x.ripe THEN Stay(q)
        ELSE Try(q, ph, x)

(***************************************************************************)
(* Ticks.                                                                  *)
(***************************************************************************)

\* A bar of the engine's timeframe completed.
on_tf_close(e, ph, x, stops) ==
    IF e.pos /\ "chandelier" \in stops THEN Flatten(e)
    ELSE CASE e.mode = "donchian" -> mode_donchian(e, ph, x)
           [] e.mode = "trend_day" -> mode_trend_day(e, ph, x)
           [] e.mode = "failed_breakout" -> mode_failed_breakout(e, ph, x)
           [] e.mode = "keltner_ride" -> mode_keltner(e, ph, x)
           [] e.mode = "ichimoku" -> mode_ichimoku(e, ph, x)
           [] e.mode = "roc_momentum" -> mode_roc(e, ph, x)
           [] e.mode = "delta_trend" -> mode_delta(e, ph, x)
           [] e.mode = "fib_pullback" -> mode_fib(e, ph, x)
           [] e.mode = "vwap_fade" -> mode_vwap_fade(e, ph, x)
           [] e.mode = "band_fade" -> mode_band_fade(e, ph, x)
           [] e.mode = "rsi2_pullback" -> mode_rsi2(e, ph, x)
           [] e.mode = "ema_pullback" -> mode_ema_pullback(e, ph, x)
           [] e.mode = "vwap_trend" -> mode_vwap(e, ph, x)
           [] e.mode = "opening_drive" -> mode_drive(e, ph, x)
           [] e.mode = "pdhl_breakout" -> mode_pdhl(e, ph, x)
           [] e.mode = "squeeze" -> mode_squeeze(e, ph, x)
           [] e.mode = "supertrend" -> mode_supertrend(e, ph, x)
           [] e.mode = "nr7" -> mode_nr7(e, ph, x)
           [] e.mode = "ema_ribbon" -> mode_ema_ribbon(e, ph, x)
           [] e.mode = "thrust_fade" -> mode_thrust_fade(e, ph, x)
           [] e.mode = "absorption_reversal" -> mode_absorption(e, ph, x)
           [] e.mode = "delta_divergence" -> mode_delta_div(e, ph, x)
           [] e.mode = "volume_burst" -> mode_volume_burst(e, ph, x)
           [] e.mode = "orb_retest" -> mode_orb_retest(e, ph, x)
           [] e.mode = "gap_fade" -> mode_gap_fade(e, ph, x)
           [] e.mode = "news_break" -> mode_news_break(e, ph, x)
           [] e.mode = "ib_break" -> mode_ib_break(e, ph, x)
           [] e.mode = "hold" -> mode_hold(e, ph, x)
           [] e.mode = "atr_break" -> mode_atr_break(e, ph, x)
           [] e.mode \in {"vprofile_fade", "vprofile_break"} ->
                mode_vprofile(e, ph, x)
           [] OTHER -> Stay(e)

\* The generic exits a bar can hit: the minute time stop, the chandelier stop.
GenericStops == SUBSET {"time", "chandelier"}

\* The modes that decide on minutes, after the timeframe bar gave r.
MinuteMode(ph, x, r) ==
    CASE r.e.mode = "trend_day" -> recognise_trend_day(r.e, x)
      [] r.e.mode = "gap_go" -> mode_gap(r.e, ph, x)
      [] r.e.mode = "tod_momentum" -> mode_tod(r.e, ph, x)
      [] r.e.mode = "rs_continuation" -> mode_rs(r.e, ph, x)
      [] OTHER -> r

\* A flatten already given stays given: the second one tells the host nothing.
BothSignals(stopped, r, m) ==
    [e   |-> m.e,
     sig |-> IF stopped \/ r.sig = "flatten" THEN "flatten"
             ELSE IF m.sig = "none" THEN r.sig ELSE m.sig]

JudgeMinute(stopped, ph, x, r) == BothSignals(stopped, r, MinuteMode(ph, x, r))

\* A minute completed: the time stop, the timeframe bar if this minute ends
\* one, then the modes that decide on minutes.  The code can close two timeframe bars
\* in one minute, when a gap skipped the last minute of the earlier one; here they
\* close with two minutes.
on_m1_close(e, ph, x, tf, stops) ==
    JudgeMinute(e.pos /\ "time" \in stops, ph, x,
                IF tf THEN on_tf_close(e, ph, x, stops) ELSE Stay(e))

\* The session phases move: a session that starts clears the latches of some
\* modes, one that ends clears the profile's (finalize_profile), and a window that
\* opens lets the engine flatten again.
move_session(e, ph) ==
    LET rth == ph = "session"
        s1 == IF rth /\ ~e.inRth
              THEN LET f == [reset_2809_modes(e) EXCEPT !.inRth = TRUE]
                   IN  IF e.mode = "trend_day" THEN ClearSetup(f) ELSE f
              ELSE IF ~rth /\ e.inRth
              THEN LET f == [e EXCEPT !.inRth = FALSE]
                   IN  IF e.mode \in {"vprofile_fade", "vprofile_break"}
                       THEN [f EXCEPT !.used = {}, !.arm = 0] ELSE f
              ELSE e
        win == in_window(e.mode, ph)
    IN  [s1 EXCEPT !.inWin = win, !.eod = IF win /\ ~e.inWin THEN FALSE ELSE @]

\* The phases first, then the completed minute is judged.  A halt does not stop
\* the tick: it only closes can_enter.
trend_on_tick(e, ph, x, tf, stops) ==
    on_m1_close(move_session(e, ph), ph, x, tf, stops)

=============================================================================
