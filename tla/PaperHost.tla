----------------------------- MODULE PaperHost -----------------------------
(***************************************************************************)
(* One engine of the paper fleet (src/src/paper): its runner and broker,   *)
(* the account envelope it shares with the other runners, and the main     *)
(* loop: start-up with a resumed position, warm-up replay, ticks, feed     *)
(* gaps, date rollover, control rows and restart.                          *)
(*                                                                         *)
(* The loop is one thread.  A tick is handled in two steps, broker and     *)
(* engine (pc), with nothing between them; the operations are functions of *)
(* the runner's state s.  Prices of a position are ticks in its favour     *)
(* from the entry (orb and trend), or from the close that opened the leg   *)
(* (the scalper), as in MtfScalper.                                        *)
(***************************************************************************)
EXTENDS Engines

CONSTANTS
    Sl,             \* sl_points
    BeTrigger,      \* trail_be_trigger; trail_be_offset is 0
    Steps,          \* trail steps (the regime chooses)
    LimitModes,     \* modes run with loss limits of the account
    RiskModes,      \* modes run with loss limits of their own
    WarmModes,      \* modes run with a warm-up and restarts
    MaxStarts,      \* process starts
    PaperTrend,     \* the modes of the trend engine and of the scalper run
    PaperMtf

ASSUME PaperAssumption ==
    /\ Sl \in Nat \ {0} /\ BeTrigger \in Nat \ {0} /\ MaxStarts \in Nat
    /\ Steps \subseteq Nat \ {0} /\ Steps # {}
    /\ PaperTrend \subseteq TrendModes /\ PaperMtf \subseteq MtfModes

VARIABLES
    brk,        \* the paper broker
    count,      \* trades closed today
    acct,       \* the account envelope
    notes,      \* paths the code leaves open that were taken (see below)
    pc,         \* "off", "loop", "engine" (the broker has seen the tick)
    pwarm,      \* warming_up
    tape,       \* the date (is it today's) and the phase of the replayed tape
    old,        \* the tape (in a tick: that tick) is before the resumed entry
    curDate,    \* cur_date is the current date
    startup,    \* a startup_halt that the end of the warm-up has to apply
    starts

pvars == <<brk, count, acct, notes, pc, pwarm, tape, old, curDate, startup,
           starts>>
vars == <<eng, phase, pvars>>

(***************************************************************************)
(* notes: what the properties have to know of.                             *)
(*   "free"    the account is halted and the runner is not: a trade close  *)
(*             set the halt and nobody applied it, the operator enabled    *)
(*             the runner, or the warm-up's reset lifted its halt          *)
(*   "gap"     the engine was reset while its entry was pending            *)
(*   "orb"     an ORB position was resumed; the engine is not told         *)
(*   "rolled"  the session was reset under an open or pending position     *)
(*   "flip"    an opposite entry that the broker had a reason to refuse    *)
(***************************************************************************)
Notes == {"free", "gap", "orb", "rolled", "flip"}

Top == MaxOf(BeTrigger + 1, TrailAt + 1)
NoBroker == [dir |-> 0, pend |-> 0, flip |-> 0, exit |-> FALSE, stop |-> 0,
             placed |-> 0, be |-> FALSE, far |-> FALSE, trail |-> FALSE,
             hit |-> FALSE, entries |-> 0]

\* hit: the runner's risk manager is halted; far: mfe has reached BeTrigger;
\* entries: today's entries of the plain broker.
BrokerState == [entries : 0 .. MaxTrades, dir : Dirs, pend : Dirs, flip : Dirs, exit : BOOLEAN,
    stop : -(RUnit + Sl + 1) .. Top, placed : -(RUnit + Sl + 1) .. Top,
    be : BOOLEAN, far : BOOLEAN, trail : BOOLEAN, hit : BOOLEAN]

(***************************************************************************)
(* The plain broker of the ORB and trend engines.                          *)
(***************************************************************************)

Side(sig) == IF sig = "buy" THEN 1 ELSE -1

\* The book and regime gates, the entry window and the cooldown: an entry passes
\* (ok) or not.
gate == BOOLEAN

plain_signal(b, sig, ok, warm) ==
    IF sig = "none" THEN b
    ELSE IF sig = "flatten" THEN [b EXCEPT !.exit = b.dir # 0]
    ELSE IF warm \/ b.dir # 0 \/ b.pend # 0 \/ b.hit \/ b.entries >= MaxTrades \/ ~ok
    THEN b
    ELSE [b EXCEPT !.pend = Side(sig)]

enter(b) == [b EXCEPT !.dir = b.pend, !.pend = 0, !.stop = -Sl, !.placed = -Sl,
                      !.be = FALSE, !.far = FALSE, !.trail = FALSE,
                      !.entries = MinOf(@ + 1, MaxTrades)]

\* A pending entry fills once its wait for a better book is over.
plain_fill(b, i) == IF b.pend # 0 /\ b.dir = 0 /\ i.ready THEN enter(b) ELSE b

\* Mutant: the break-even move waits for a whole step like any other.
sync_by_steps(b, step, force) ==
    IF b.stop - b.placed >= step THEN [b EXCEPT !.placed = b.stop] ELSE b

\* The working stop follows by whole steps; a break-even move is forced.
sync_placed_stop(b, step, force) ==
    IF force \/ b.stop - b.placed >= step THEN [b EXCEPT !.placed = b.stop]
                                          ELSE b

\* Break-even on a flipped book, while the price is beyond it.
book_break_even(b, i) ==
    IF i.book = "flip" /\ ~b.be /\ i.p > 0 /\ b.stop < 0
    THEN sync_placed_stop([b EXCEPT !.stop = 0, !.be = TRUE], i.step, TRUE)
    ELSE b

break_even(b, i) ==
    LET far == b.far \/ i.p >= BeTrigger
        m == [b EXCEPT !.far = far]
    IN  IF b.be \/ ~far THEN m
        ELSE IF b.stop < 0
        THEN sync_placed_stop([m EXCEPT !.be = TRUE, !.stop = 0], i.step, TRUE)
        ELSE [m EXCEPT !.be = TRUE]

trail_ratchet(b, i) ==
    LET a == [b EXCEPT !.trail = @ \/ (i.aged /\ b.far)]
    IN  IF a.trail /\ i.p - i.step > a.stop
        THEN sync_placed_stop([a EXCEPT !.stop = i.p - i.step], i.step, FALSE)
        ELSE a

Closed(b) == [NoBroker EXCEPT !.hit = b.hit, !.entries = b.entries]

\* The position is not managed by the price: there is none, or it is on its way out.
Unpriced(b) == b.dir = 0 \/ b.exit \/ b.hit

\* p: the price (a fill is at 0); aged: the trail delay is over; book: a book exit
\* or target, or a flipped book; ready: the fill waits no longer.  A book that asks an
\* older position to exit ends as its stop does, at the lowest price.
PlainInput(b) ==
    [p : IF Unpriced(b) THEN {0} ELSE -Sl .. BeTrigger + 1,
     step : IF Unpriced(b) THEN {1} ELSE Steps,
     aged : IF Unpriced(b) \/ b.trail THEN {FALSE} ELSE BOOLEAN,
     book : IF b.dir = 0 THEN IF b.pend = 0 THEN {"none"} ELSE {"none", "exit"}
            ELSE IF Unpriced(b) \/ b.be THEN {"none"} ELSE {"none", "flip"},
     ready : IF b.pend = 0 THEN {TRUE} ELSE BOOLEAN]

\* The order of the code: fill, asked exit, end of day, risk halt, stop, book,
\* break-even, trail.
plain_manage(b, mode, ph, i) ==
    LET f == plain_fill(b, i)
        s == sync_placed_stop(f, i.step, FALSE)
    IN  IF f.dir = 0 THEN f
        ELSE IF f.exit \/ past_end(mode, ph) \/ f.hit THEN Closed(f)
        ELSE IF i.p <= s.placed \/ i.book = "exit" THEN Closed(s)
        ELSE trail_ratchet(break_even(book_break_even(s, i), i), i)

\* Mutant: a resumed position is stopped out on the tape from before it too.
stopped_by_past(b, mode, ph, older, i) ==
    IF older /\ i.p > b.placed THEN b ELSE plain_manage(b, mode, ph, i)

\* A tick older than the position is not looked at.
plain_tick(b, mode, ph, older, i) ==
    IF older THEN b ELSE plain_manage(b, mode, ph, i)

(***************************************************************************)
(* The bracket broker of the scalper.                                      *)
(***************************************************************************)

\* The engine's stop as the broker of side d reads it: none, or on the wrong
\* side of the price.
NoStop == -(RUnit + 2)
Wrong == TrailAt + 1
cur_stop(e, d) == IF e.pos = 0 THEN NoStop ELSE IF e.pos = d THEN e.stop ELSE Wrong

\* Mutant: an opposite entry is refused like any other while a leg is held.
signal_one_leg(b, sig, ok, warm) ==
    IF sig = "none" THEN b
    ELSE IF sig = "flatten" THEN [b EXCEPT !.exit = @ \/ b.dir # 0]
    ELSE IF warm \/ b.hit \/ ~ok \/ b.dir # 0 \/ b.pend # 0 THEN b
    ELSE [b EXCEPT !.pend = Side(sig)]

bracket_signal(b, sig, ok, warm) ==
    LET d == Side(sig)
    IN  IF sig = "none" THEN b
        ELSE IF sig = "flatten" THEN [b EXCEPT !.exit = @ \/ b.dir # 0]
        ELSE IF warm \/ b.hit \/ ~ok THEN b
        ELSE IF b.dir = -d THEN [b EXCEPT !.flip = d]
        ELSE IF b.dir # 0 \/ b.pend # 0 THEN b
        ELSE [b EXCEPT !.pend = d]

bracket_enter(b, e) ==
    LET st == cur_stop(e, b.pend)
    IN  [b EXCEPT !.dir = b.pend, !.pend = 0, !.exit = FALSE,
                  !.stop = IF st = NoStop THEN -RUnit ELSE st]

update_bracket(b, e) ==
    IF cur_stop(e, b.dir) = NoStop THEN b
    ELSE [b EXCEPT !.stop = MaxOf(@, cur_stop(e, b.dir))]

BracketInput(b) ==
    [p : IF b.dir = 0 /\ b.pend = 0 THEN {0} ELSE {-(RUnit + 2), 0, TrailAt + 2},
     step : {1}, aged : {FALSE},
     book : IF b.dir = 0 /\ b.pend = 0 THEN {"none"} ELSE {"none", "exit", "flip"},
     ready : IF b.pend = 0 THEN {TRUE} ELSE BOOLEAN]

\* A risk halt drops a pending entry.
bracket_fill(b, e, i) ==
    IF b.pend = 0 \/ b.dir # 0 \/ ~i.ready THEN b
    ELSE IF b.hit THEN [b EXCEPT !.pend = 0]
    ELSE bracket_enter(b, e)

\* A flip closes the leg and queues the other side (Settle drops it if the close
\* halted the runner); the bracket is not read.
bracket_tick(b, e, ph, older, i) ==
    LET f == bracket_fill(b, e, i)
        s == update_bracket(f, e)
    IN  IF older THEN b
        ELSE IF b.flip # 0
        THEN [Closed(b) EXCEPT !.pend = b.flip]
        ELSE IF f.dir = 0 THEN f
        ELSE IF \/ i.p <= s.stop \/ i.book = "exit"
                \/ s.exit \/ s.hit \/ ph \in {"late", "evening"}
        THEN Closed(s)
        ELSE IF i.book = "flip" /\ i.p > 0 THEN [s EXCEPT !.stop = MaxOf(@, 0)]
        ELSE s

(***************************************************************************)
(* The runner: engine e, broker b, trades n, account a, notes t.           *)
(***************************************************************************)

State == [e |-> eng, b |-> brk, n |-> count, a |-> acct, t |-> notes]

\* What a close brings: its result, and what it does to the limits of the
\* account (day, dd) and of the runner (hit).
Outcome == [loss : BOOLEAN, day : BOOLEAN, dd : BOOLEAN, hit : BOOLEAN]

check_limits(a) == IF a.day THEN "account_daily_loss"
                   ELSE IF a.dd THEN "account_trailing_dd" ELSE NoHalt

\* A loss cannot take the account back inside its limits, a win cannot breach.
on_trade_close(a, o) ==
    LET c == [a EXCEPT !.day = IF o.loss THEN @ \/ o.day ELSE @ /\ o.day,
                       !.dd = IF o.loss THEN @ \/ o.dd ELSE @ /\ o.dd]
    IN  [c EXCEPT !.halt = IF check_limits(c) = NoHalt THEN @ ELSE check_limits(c)]

account_reset_day(a) ==
    [a EXCEPT !.day = FALSE,
              !.halt = IF @ = "account_daily_loss" THEN NoHalt ELSE @]

\* The callback: counters, the engine (not for a restart flatten), the account.
on_trade_closed(s, d, o, told) ==
    LET a == on_trade_close(s.a, o)
    IN  [s EXCEPT !.n = MinOf(@ + 1, MaxTrades),
                  !.b.hit = @ \/ o.hit,
                  !.e = IF told THEN notify_trade_filled(@, d, o.loss) ELSE @,
                  !.a = a,
                  !.t = @ \union Tag(a.halt # NoHalt /\ s.e.halt = NoHalt, "free")]

\* The broker's new state, with the callback if the position on side d ended; a
\* halted runner queues no reversal.
Settle(s, d, b, o) ==
    IF d # 0 /\ b.dir = 0
    THEN LET c == on_trade_closed([s EXCEPT !.b = b], d, o, TRUE)
         IN  [c EXCEPT !.b.pend = IF c.b.hit THEN 0 ELSE @]
    ELSE [s EXCEPT !.b = b]

broker_flatten(s, o) == Settle(s, s.b.dir, Closed(s.b), o)

\* The paper host never asks why an engine is halted.
s_halt(e) == halt_trading(e, "host")

halt_all(s, why, o) ==
    broker_flatten([s EXCEPT !.a.halt = why, !.e = s_halt(@),
                             !.t = @ \ {"free"}], o)

\* An opposite entry has its reasons to be refused: the warm-up, a halted runner, a
\* gate, and an entry of the other side that is pending.
Refused(b, d, ok, warm) == \/ b.pend = -d
                           \/ b.dir = -d /\ (warm \/ b.hit \/ ~ok)

\* A signal of the engine delivered to its broker.
Emit(s, r, ok, warm) ==
    LET b == IF s.e.kind = "mtf" THEN bracket_signal(s.b, r.sig, ok, warm)
             ELSE plain_signal(s.b, r.sig, ok, warm)
        refused == /\ s.e.kind = "mtf" /\ r.sig \in {"buy", "sell"}
                   /\ Refused(s.b, Side(r.sig), ok, warm)
    IN  [s EXCEPT !.e = r.e, !.b = b, !.t = @ \union Tag(refused, "flip")]

s_eod(s, ph, warm) == Emit(s, check_eod(s.e, ph), TRUE, warm)

reset_day(s, o) ==
    [s EXCEPT !.e = reset_session(@), !.b.hit = @ /\ o.hit, !.b.entries = 0, !.n = 0,
              !.a = account_reset_day(@),
              !.t = @ \union Tag(s.b.dir # 0 \/ s.b.pend # 0, "rolled")]

\* Mutant: the new date starts every runner.
reapply_nothing(s, o) == s

\* A halt that survives the date is applied again.
reapply_halt(s, o) == IF s.a.halt = NoHalt THEN s ELSE halt_all(s, s.a.halt, o)

roll_day_if_needed(s, o) == IF curDate THEN s ELSE reapply_halt(reset_day(s, o), o)

\* The tape's date changes under the replay: sessions only.
warm_roll_to(s) ==
    [s EXCEPT !.e = reset_session(@),
              !.t = @ \union Tag(s.b.dir # 0, "rolled")
                      \union Tag(s.a.halt # NoHalt, "free")]

live_again(s) ==
    LET e == IF in_position(s.e) /\ s.b.dir = 0 THEN Release(s.e) ELSE s.e
        f == seed_trades_today(e, s.n)
    IN  [s EXCEPT !.e = IF startup THEN s_halt(f) ELSE f]

paper_end_warmup(s, fresh) == live_again(IF fresh THEN warm_roll_to(s) ELSE s)

\* A feed gap restarts the session of a flat, unhalted ORB or trend engine; the
\* ORB is fed the day again with entries suppressed.
gap_resettable(s) == /\ s.e.kind # "mtf" /\ s.b.dir = 0
                     /\ ~s.b.hit /\ s.e.halt = NoHalt

refed(e, st, l, c) == [e EXCEPT !.set = st, !.last = l, !.cool = c]

refeed_orb(e, ph, warm) ==
    IF e.kind # "orb" \/ warm THEN {e}
    ELSE {refed(e, st, l, c) : st \in {b \in BOOLEAN : b => ph \in {"session", "late"}},
                               l \in Dirs, c \in BOOLEAN}

Gap(s, ph, warm) ==
    IF ~gap_resettable(s) THEN {s}
    ELSE {[s EXCEPT !.e = e, !.t = @ \union Tag(s.b.pend # 0, "gap")] :
             e \in refeed_orb(seed_trades_today(reset_session(s.e), s.n), ph, warm)}

\* Notes are dropped when what they excuse is over.
Current(s) ==
    s.t \ (Tag(s.a.halt = NoHalt, "free")
           \union Tag(s.b.dir = 0 /\ s.b.pend = 0, "flip")
           \union Tag(s.b.dir = 0, "orb")
           \union Tag(s.b.dir = 0 /\ s.b.pend = 0, "gap")
           \union Tag(s.b.dir = 0 /\ s.b.pend = 0, "rolled"))

Becomes(s) == /\ eng' = s.e /\ brk' = s.b /\ count' = s.n /\ acct' = s.a
              /\ notes' = Current(s)

(***************************************************************************)
(* The loop.                                                               *)
(***************************************************************************)

\* The tape moves on by a phase, up to the present.
Tapes == {tape} \union
         (IF tape = [day |-> TRUE, ph |-> phase] THEN {}
          ELSE {[day |-> tape.day \/ tape.ph = "late", ph |-> NextPhase(tape.ph)]})

\* A replay starts with the current date or in the session before it.
Histories == {[day |-> TRUE, ph |-> "evening"], [day |-> FALSE, ph |-> "session"]}

\* A free choice where c, none elsewhere.
If(c) == IF c THEN BOOLEAN ELSE {FALSE}
Limited == eng.mode \in LimitModes
AtRisk == eng.mode \in RiskModes

\* Outcomes matter only where a trade may close or the date changes.
Outcomes(c) == [loss : If(c), day : If(c /\ Limited), dd : If(c /\ Limited),
                hit : If(c /\ AtRisk)]

\* The warm-up ends, if the present is reached.
CaughtUp(caught) == IF caught THEN paper_end_warmup(State, ~tape.day) ELSE State

\* The date of the tick, and the feed gap before it.
Dated(t, caught) ==
    IF pwarm /\ ~caught
    THEN {IF t.day = tape.day THEN State ELSE warm_roll_to(State)}
    ELSE {roll_day_if_needed(CaughtUp(caught), o) : o \in Outcomes(~curDate)}

Gapped(t, caught) ==
    UNION {{s} \union Gap(s, t.ph, pwarm /\ ~caught) : s \in Dated(t, caught)}

\* The broker after the tick, and the side it held once a pending entry had filled.
broker_on_tick(s, ph, older) ==
    IF s.e.kind = "mtf"
    THEN {[held |-> bracket_fill(s.b, s.e, i).dir,
           b |-> bracket_tick(s.b, s.e, ph, older, i)] : i \in BracketInput(s.b)}
    ELSE {[held |-> plain_fill(s.b, i).dir,
           b |-> plain_tick(s.b, s.e.mode, ph, older, i)] : i \in PlainInput(s.b)}

\* A tick reaches the runner: the end of the warm-up if it is of the present
\* (caught), the date, a gap, the end-of-window check, the broker.  A tick older
\* than a resumed entry is not managed by the broker, and the replay does not check
\* the window on it; old is then that it was older, whatever became of the position.
BrokerTick ==
    /\ pc = "loop"
    /\ \E caught \in If(pwarm) :
       LET warm == pwarm /\ ~caught
       IN  /\ \E older \in If(old /\ ~caught),
                 t \in IF warm THEN Tapes ELSE {[day |-> TRUE, ph |-> phase]} :
              /\ \E s1 \in Gapped(t, caught) :
                 LET s2 == IF warm /\ older THEN s1 ELSE s_eod(s1, t.ph, warm)
                 IN  \E r \in broker_on_tick(s2, t.ph, older) :
                     \E s3 \in {Settle(s2, r.held, r.b, o) :
                                   o \in Outcomes(r.held # 0 /\ r.b.dir = 0)} :
                        Becomes(s3)
              /\ old' = older /\ tape' = t
           /\ pwarm' = warm /\ startup' = (startup /\ ~caught)
    /\ curDate' = (curDate \/ ~pwarm)
    /\ pc' = "engine"
    /\ UNCHANGED <<phase, starts>>

\* The same tick reaches the engine; in the replay not one before the entry.
EngineTick ==
    /\ pc = "engine"
    /\ \/ /\ pwarm /\ old
          /\ UNCHANGED <<eng, brk, count, acct, notes>>
       \/ /\ ~(pwarm /\ old)
          /\ \E px \in IF eng.kind = "orb" THEN Dirs ELSE {0} :
             \E s \in {Emit(State, r, ok, pwarm) :
                        r \in Ticks(eng, tape.ph, px), ok \in gate} : Becomes(s)
    /\ pc' = "loop"
    /\ UNCHANGED <<phase, pwarm, tape, old, curDate, startup, starts>>

\* Another runner of the fleet closes a trade.
OtherCloses ==
    /\ pc = "loop" /\ ~pwarm /\ Limited
    /\ \E o \in Outcomes(TRUE) :
       LET a == on_trade_close(acct, o)
       IN  /\ a # acct
           /\ acct' = a
           /\ notes' = Current([State EXCEPT !.a = a,
                          !.t = @ \union Tag(a.halt # NoHalt /\ eng.halt = NoHalt, "free")])
    /\ UNCHANGED <<eng, phase, brk, count, pc, pwarm, tape, old, curDate,
                   startup, starts>>

\* Control rows: enable is refused only by the runner's own risk halt.
Control(s, cmd, o) ==
    CASE cmd = "none" -> s
      [] cmd = "disable" -> [s EXCEPT !.e = s_halt(@)]
      [] cmd = "enable" -> IF s.b.hit THEN s
                           ELSE [s EXCEPT !.e = unhalt_trading(@),
                                    !.t = @ \union Tag(s.a.halt # NoHalt, "free")]
      [] cmd = "flatten" -> broker_flatten(s, o)

\* The end of a pass: warm-up, account limits, wall-clock end of window, date,
\* control rows.
recheck_limits(s, o) ==
    IF s.a.halt = NoHalt /\ check_limits(s.a) # NoHalt
    THEN halt_all(s, check_limits(s.a), o) ELSE s

clock_eod(s, warm) == IF warm THEN s ELSE s_eod(s, phase, FALSE)

Pass(caught, cmd, o) ==
    Control(roll_day_if_needed(clock_eod(recheck_limits(CaughtUp(caught), o),
                                         pwarm /\ ~caught), o), cmd, o)

LoopEnd ==
    /\ pc = "loop"
    /\ \E caught \in If(pwarm) :
       /\ \E s \in {Pass(caught, cmd, o) :
                    cmd \in {"none", "disable", "enable", "flatten"},
                    o \in Outcomes(~curDate \/ brk.dir # 0)} :
             /\ Becomes(s)
             /\ old' = (old /\ s.b.dir # 0)
       /\ pwarm' = (pwarm /\ ~caught)
       /\ startup' = (startup /\ ~caught)
       /\ tape' = IF caught THEN [day |-> TRUE, ph |-> phase] ELSE tape
    /\ curDate' = TRUE
    /\ UNCHANGED <<phase, pc, starts>>

resume_position(b) ==
    IF b.dir = 0 THEN NoBroker
    ELSE [NoBroker EXCEPT !.dir = b.dir, !.stop = b.stop, !.placed = b.stop,
                          !.be = b.stop >= 0, !.trail = b.stop >= 0]

\* The trades of today and the account by them, as the store has it: with one more
\* trade after a torn close, whose trade was written and its position not cleared.
Stored(torn, o) ==
    LET n == IF curDate THEN count ELSE 0
        a == [acct EXCEPT !.day = @ /\ curDate]
    IN  [n |-> IF torn THEN MinOf(n + 1, MaxTrades) ELSE n,
         a |-> [(IF torn THEN on_trade_close(a, o) ELSE a) EXCEPT !.halt = NoHalt]]

\* Stop or crash, also between the two writes of a close: an open position was stored
\* when it changed, and only what is stored remains.
Stop ==
    /\ pc = "loop" /\ starts < MaxStarts /\ eng.mode \in WarmModes
    /\ pc' = "off"
    /\ eng' = Fresh(eng)
    /\ brk' = resume_position(brk)
    /\ \E torn \in If(brk.dir # 0) : \E o \in Outcomes(torn) :
          count' = Stored(torn, o).n /\ acct' = Stored(torn, o).a
    /\ notes' = {} /\ pwarm' = FALSE /\ old' = FALSE /\ startup' = FALSE
    /\ tape' = [day |-> TRUE, ph |-> phase]
    /\ curDate' = TRUE
    /\ UNCHANGED <<phase, starts>>

\* Start: a halt of the operator, the day or the risk manager (h, hit); the
\* position; a scalper leg is closed at its entry; then the account limits.
Resumed(e, b, h) ==
    LET e1 == IF e.kind = "trend" /\ b.dir # 0
              THEN trend_seed_open_position(e, b.dir) ELSE e
    IN  [e |-> IF h \/ b.hit THEN s_halt(e1) ELSE e1, b |-> b, n |-> count,
         a |-> acct, t |-> Tag(e.kind = "orb", "orb")]

\* The account is seeded after this close, from the trades before it.
restart_flatten(s, o) ==
    IF s.e.kind # "mtf" \/ s.b.dir = 0 THEN s
    ELSE [on_trade_closed([s EXCEPT !.b = Closed(@)], s.b.dir, o, FALSE)
             EXCEPT !.a = s.a]

Started(h, hit, o) ==
    recheck_limits(restart_flatten(
        Resumed(seed_trades_today(eng, count),
                [brk EXCEPT !.hit = hit, !.entries = IF eng.kind = "mtf" THEN 0 ELSE count],
                h), o), o)

Start ==
    /\ pc = "off" /\ starts < MaxStarts
    /\ \E h, past \in BOOLEAN, hit \in If(AtRisk), warm \in If(eng.mode \in WarmModes) :
       \E t \in IF warm THEN Histories ELSE {[day |-> TRUE, ph |-> phase]} :
       /\ \E s \in {Started(h, hit, o) : o \in Outcomes(brk.dir # 0)} :
             /\ Becomes(s)
             /\ old' = (past /\ s.b.dir # 0)
       /\ startup' = (warm /\ (h \/ hit))
       /\ pwarm' = warm
       /\ tape' = t
    /\ starts' = starts + 1
    /\ curDate' = TRUE
    /\ pc' = "loop"
    /\ UNCHANGED phase

\* The clock: a phase lasts hours, the replay and the loop far less; the date changes
\* in the break of the market, past the minutes of tape a start reads again.
PaperClock ==
    /\ pc = "loop" => ~pwarm /\ curDate
                      /\ check_eod(eng, phase).sig = "none"
    /\ pc # "engine"
    /\ phase' = NextPhase(phase)
    /\ IF phase = "late"
       THEN /\ curDate' = FALSE
            /\ eng' = IF pc = "off" THEN eng ELSE NewDate(eng)
            /\ IF pc = "off" THEN count' = 0 /\ acct' = [acct EXCEPT !.day = FALSE]
                             ELSE UNCHANGED <<count, acct>>
       ELSE UNCHANGED <<curDate, eng, count, acct>>
    /\ tape' = [day |-> TRUE, ph |-> phase']
    /\ old' = (old /\ phase # "late")
    /\ UNCHANGED <<brk, notes, pc, pwarm, startup, starts>>

\* One engine of one of the modes; the plain scalper also with its confirmation
\* or with reversals.
Init ==
    /\ eng \in {OrbNew} \union {TrendNew(m) : m \in PaperTrend}
               \union {MtfNew(m, FALSE, FALSE) : m \in PaperMtf}
               \union {MtfNew("plain", conf, ~conf) : conf \in BOOLEAN}
    /\ phase = "evening"
    /\ brk = NoBroker /\ count = 0 /\ notes = {} /\ pc = "off" /\ pwarm = FALSE
    /\ acct = [halt |-> NoHalt, day |-> FALSE, dd |-> FALSE]
    /\ tape = [day |-> TRUE, ph |-> "evening"] /\ old = FALSE
    /\ curDate = TRUE /\ startup = FALSE /\ starts = 0

Next == BrokerTick \/ EngineTick \/ OtherCloses \/ LoopEnd \/ Stop \/ Start
        \/ PaperClock

Spec == Init /\ [][Next]_vars

(***************************************************************************)
(* Properties.                                                             *)
(***************************************************************************)

\* The type invariant of the engines and the paper host.
TypeOK ==
    /\ eng \in EngineStates /\ phase \in Phases
    /\ brk \in BrokerState
    /\ count \in 0 .. MaxTrades
    /\ acct \in [halt : {NoHalt, "account_daily_loss", "account_trailing_dd"},
                 day : BOOLEAN, dd : BOOLEAN]
    /\ notes \subseteq Notes /\ pc \in {"off", "loop", "engine"}
    /\ pwarm \in BOOLEAN /\ tape \in [day : BOOLEAN, ph : Phases]
    /\ old \in BOOLEAN /\ curDate \in BOOLEAN
    /\ startup \in BOOLEAN
    /\ starts \in 0 .. MaxStarts

\* A paper position has an engine that knows of it, and the scalper's leg is
\* managed by its own side's bracket: a reversal goes through the queue, and the
\* stop of the new leg never reaches the old one.  Only the named paths differ: a
\* resumed ORB position, an entry pending over a feed gap, a change of date, an
\* opposite entry refused for one of its reasons (a broker that just drops it differs).
PaperInStep ==
    pc = "loop" /\ brk.dir # 0 =>
        /\ in_position(eng) \/ notes \cap {"orb", "gap", "rolled", "flip"} # {}
        /\ eng.kind = "mtf" /\ eng.pos = -brk.dir /\ brk.flip = 0
               => notes \cap {"flip", "rolled"} # {}

\* While the account is halted every engine is halted: over the date (a drawdown
\* halt is applied again), restarts, gaps and the end of the warm-up.  Only a halt
\* set by a trade close, the operator's enable and the warm-up's reset differ.
AccountHaltHolds ==
    pc = "loop" /\ acct.halt # NoHalt /\ curDate
        => eng.halt # NoHalt \/ "free" \in notes

\* A tick from before a resumed position's entry neither moves its stop nor closes
\* it; in the warm-up the end of the window asks for no exit on it either.
PastTape ==
    [][pc = "loop" /\ pc' = "engine" /\ old'
          => /\ brk'.dir = brk.dir /\ brk'.stop = brk.stop
             /\ brk'.placed = brk.placed
             /\ pwarm => brk' = brk]_pvars

\* The working stop of a position never retreats: through break-even, trail steps
\* of two sizes and a restart; and a moved break-even is in the working stop.
PaperStopHolds ==
    [][brk.dir # 0 /\ brk'.dir = brk.dir /\ brk'.be /\ eng.kind # "mtf"
          => brk'.placed >= MaxOf(brk.placed, 0)]_brk

=============================================================================
