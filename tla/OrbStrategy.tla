---------------------------- MODULE OrbStrategy ----------------------------
(***************************************************************************)
(* The opening-range engine (src/src/execution/orb_strategy.hpp).  A price *)
(* is known by where it lies: below (-1), inside (0) or above (1) the      *)
(* range and its buffer; 2 stands for "no tick yet" (last_price_ is 0).    *)
(* Operations return the engine and the signal, as in TrendStrategy.       *)
(***************************************************************************)
EXTENDS TrendStrategy

NoPrice == 2

OrbNew == [kind |-> "orb", mode |-> "orb", pos |-> FALSE, trades |-> 0,
           halt |-> NoHalt, eod |-> FALSE, set |-> FALSE, last |-> NoPrice,
           cool |-> FALSE, seeded |-> FALSE]

OrbState == [kind : {"orb"}, mode : {"orb"}, pos : BOOLEAN,
    trades : 0 .. MaxTrades, halt : Halts, eod : BOOLEAN, set : BOOLEAN,
    last : Dirs \union {NoPrice}, cool : BOOLEAN, seeded : BOOLEAN]

\* Everything but the last price, which survives the session.
orb_reset_session(e) == [OrbNew EXCEPT !.last = e.last]

\* Every close starts the re-entry cooldown.
orb_notify_trade_filled(e) == [e EXCEPT !.pos = FALSE, !.cool = TRUE]

\* Mutant: the first tick after a restart is not held back to anchor the price.
seed_range_unanchored(e) == [e EXCEPT !.set = TRUE]

seed_orb_range(e) == [e EXCEPT !.set = TRUE, !.seeded = TRUE]

\* The first bar that completes after the opening window fixes the range, if
\* the window had ticks.  A bar completes with a tick after its first.
handle_completed_bar_orb(e, ph, ripe) ==
    [e EXCEPT !.set = @ \/ (ph \in {"session", "late"} /\ ripe /\ e.last # NoPrice)]

\* A cross from the inside.  The position is set after the host's callback,
\* so a release made inside the callback leaves only its cooldown.
check_breakout(e, px, prev, rested) ==
    IF ~e.pos /\ (~e.cool \/ rested) /\ px # 0 /\ px # prev
    THEN [e   |-> [e EXCEPT !.pos = TRUE, !.trades = @ + 1],
          sig |-> IF px = 1 THEN "buy" ELSE "sell"]
    ELSE Stay(e)

\* A halted engine sees no tick: its last price stays where the halt found it.
\* ripe: a bar completed past the window; open: before the last entry time and
\* outside the news blackouts; rested: the cooldown is over.
orb_on_tick(e, ph, px, ripe, open, rested) ==
    LET b == [handle_completed_bar_orb(e, ph, ripe) EXCEPT !.last = px]
    IN  IF e.halt # NoHalt THEN Stay(e)
        ELSE IF e.seeded THEN Stay([b EXCEPT !.seeded = FALSE])
        ELSE IF ~b.set \/ b.trades >= MaxTrades \/ ~open \/ ph # "session"
        THEN Stay(b)
        ELSE check_breakout(b, px, e.last, rested)

\* Once a session, whether or not a position is open: the hour alone decides.
orb_check_eod(e, ph) ==
    IF ph \in {"late", "evening"} /\ ~e.eod THEN Flatten([e EXCEPT !.eod = TRUE])
                                ELSE Stay(e)

=============================================================================
