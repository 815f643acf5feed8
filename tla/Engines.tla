------------------------------ MODULE Engines ------------------------------
(***************************************************************************)
(* The host contract the three engines share (run_executor is a template   *)
(* over them, paper_main's Runner wraps them), and the ticks a host can    *)
(* feed: each engine's own inputs, chosen freely.                          *)
(***************************************************************************)
EXTENDS MtfScalper

VARIABLES
    eng,            \* the engine, and its position flag, halt and latches
    phase           \* the phase of the day

EngineStates == TrendState \union OrbState \union MtfState

in_position(e) == IF e.kind = "mtf" THEN e.pos # 0 ELSE e.pos

reset_session(e) == CASE e.kind = "orb" -> orb_reset_session(e)
                      [] e.kind = "trend" -> trend_reset_session(e)
                      [] e.kind = "mtf" -> mtf_reset_session(e)

halt_trading(e, why) == [e EXCEPT !.halt = why]

unhalt_trading(e) == [e EXCEPT !.halt = NoHalt]

seed_trades_today(e, n) == [e EXCEPT !.trades = n]

\* The close of a trade in direction d.
notify_trade_filled(e, d, loss) ==
    CASE e.kind = "orb" -> orb_notify_trade_filled(e)
      [] e.kind = "trend" -> trend_notify_trade_filled(e)
      [] e.kind = "mtf" -> mtf_notify_trade_filled(e, d, loss)

\* "Release whatever you think you hold": no trade happened.
Release(e) == notify_trade_filled(e, 0, FALSE)

check_eod(e, ph) == CASE e.kind = "orb" -> orb_check_eod(e, ph)
                      [] e.kind = "trend" -> trend_check_eod(e, ph)
                      [] e.kind = "mtf" -> check_time_flatten(e, ph)

(***************************************************************************)
(* Every result a tick in phase ph can have, with the side px of the price.*)
(* A tick inside a bar changes nothing but the last price, so only ticks   *)
(* that complete one are followed for the bar engines.                     *)
(***************************************************************************)
OrbTicks(e, ph, px) ==
    {orb_on_tick(e, ph, px, ripe, open, rested) :
        ripe \in BOOLEAN, open \in BOOLEAN, rested \in BOOLEAN}

\* A minute that ends no timeframe bar is judged by the minute modes only; the
\* entry gate is asked only when flat.
BarsSeen(e) == {x \in BarInput : e.pos => x.ok}
Stops(e) == IF e.pos THEN GenericStops ELSE {{}}

MinuteInput(e) ==
    [x : BarsSeen(e), tf : {TRUE}, stops : Stops(e)]
    \union [x : IF e.mode \in MinuteModes \union {"trend_day"} THEN BarsSeen(e)
                ELSE {CHOOSE x \in BarInput : TRUE},
            tf : {FALSE}, stops : Stops(e)]

TrendTicks(e, ph) ==
    (IF e.mode = "book_imbalance" THEN {trend_on_quote(e, ph, x) : x \in BarsSeen(e)}
                                  ELSE {})
    \union {trend_on_tick(e, ph, i.x, i.tf, i.stops) : i \in MinuteInput(e)}

MtfTicks(e, ph) ==
    {mtf_on_tick(e, ph, x) :
        x \in IF e.pos = 0 THEN FlatInput(e) ELSE LegInput(e)}

Ticks(e, ph, px) == CASE e.kind = "orb" -> OrbTicks(e, ph, px)
                           [] e.kind = "trend" -> TrendTicks(e, ph)
                           [] e.kind = "mtf" -> MtfTicks(e, ph)

\* The engine of a new process.
Fresh(e) == CASE e.kind = "orb" -> OrbNew
              [] e.kind = "trend" -> TrendNew(e.mode)
              [] e.kind = "mtf" -> MtfNew(e.mode, e.conf, e.flips)

\* The hours go by; the date changes after "late".
NextPhase(ph) == CASE ph = "evening" -> "night" [] ph = "night" -> "session"
                   [] ph = "session" -> "late" [] ph = "late" -> "evening"

\* The date changes: bars seen so far were of an earlier one.
NewDate(e) == IF e.kind = "mtf" THEN [e EXCEPT !.day = FALSE] ELSE e

\* A note kept beside the state: t, if c.
Tag(c, t) == IF c THEN {t} ELSE {}

=============================================================================
