--------------------------- MODULE LiveHostProofs ---------------------------
(***************************************************************************)
(* The live executor with any engine, any number of connection losses and  *)
(* any bounds: its type, the agreement of the engine and the order         *)
(* manager, the halts, the once-only modes, the loss streak, the genuine   *)
(* cross, the stop that never retreats and the order manager's contract.   *)
(*                                                                         *)
(* One inductive invariant carries all of them.  What each property needs  *)
(* beyond itself is named below, next to the reason.                       *)
(***************************************************************************)
EXTENDS LiveHost, EngineProofs

\* The contracts the order manager says the exchange holds.
Booked(l) == IF l.st \in {"OPEN", "EXIT"} THEN l.dir ELSE 0

\* Each engine's own invariant, and no engine that reverses.
Sound == EngineInv(eng) /\ (eng.kind = "mtf" => ~eng.flips)

\* Every connection loss can leave one contract behind that no order manager
\* knows of; a draining process has used its own.
Strays ==
    /\ run = "up" => exch - Booked(leg) \in -drops .. drops
    /\ run = "drain" => drops > 0 /\ exch - Booked(leg) \in -(drops - 1) .. (drops - 1)
    /\ run \in {"down", "off"} => exch \in -drops .. drops /\ (~Flat(leg) => drops > 0)

\* What no process, and what a warm-up, leaves behind.
Blank ==
    /\ run \in {"down", "off"} => closed = {}
    /\ run = "off" => /\ ~in_position(eng) /\ ~warm /\ tries = NoTries
                      /\ mkt = NoPrice /\ odd = {}
    /\ warm => eng.kind # "orb"
    /\ warm /\ run \in {"up", "drain"} => leg = NoLeg

\* EngineInStep, with a close not yet reported that will not free the engine,
\* because it is of the other side.
InStep ==
    run = "up" /\ ~warm /\ in_position(eng) =>
        /\ /\ Flat(leg)
           /\ closed = {} \/ (eng.kind = "mtf" /\ \A c \in closed : eng.pos # c.dir)
           => "lost" \in odd \/ "twin" \in odd
        /\ eng.kind = "mtf" /\ ~Flat(leg) /\ eng.pos # leg.dir => "twin" \in odd

\* A halt that the feed does not lift by itself.
Lasting(h) == h \notin {NoHalt, "pg_feed_stale"}
Lifted == "lift" \in odd \/ "blind" \in odd

\* HaltHolds, with any difference to the book instead of a position while flat: a
\* leg taken over an unknown position would hide it.
Guarded ==
    /\ run = "up" /\ (pnl = "none" \/ exch # Booked(leg)) => Lasting(eng.halt) \/ Lifted
    /\ run = "up" /\ ~Flat(leg) /\ exch # Booked(leg) => Lifted
    /\ run = "down" /\ Flat(leg) /\ exch # 0 => Lasting(eng.halt) \/ Lifted

Once(e) == e.mode \in OncePerSession \union OncePerSide

\* OneTry, with the latch that stops the second try: a try leaves its latch set
\* for as long as the session in which it could be repeated lasts.
Tried ==
    eng.kind = "trend" /\ Once(eng) =>
        /\ phase \in {"evening", "night"} => tries = NoTries
        /\ phase = "session" /\ (eng.mode = "hold" \/ (eng.mode \in Modes2809 /\ ~eng.inRth))
              => tries = NoTries
        /\ eng.mode \in OncePerSession =>
              tries = NoTries \/ (eng.done /\ tries[1] + tries[-1] <= 1)
        /\ eng.mode \in OncePerSide =>
              \A d \in Sides : /\ tries[d] <= 1
                               /\ phase = "session" /\ tries[d] > 0 => d \in eng.used

\* StreakIsHistory, and what a close not yet reported will make of the streak.
Streaked ==
    eng.kind = "mtf" =>
        /\ closed = {} => hist = eng.streak
        /\ \A c \in closed : hist = NextStreak(eng, c.loss)

\* The last price the opening-range engine saw is the last price there was.
Anchored ==
    eng.kind = "orb" =>
        /\ eng.last = mkt \/ "stale" \in odd
        /\ eng.last # NoPrice => mkt # NoPrice

LiveInv == /\ TypeOK /\ Sound /\ Strays /\ Blank /\ InStep /\ LegHasEngine
           /\ Guarded /\ Tried /\ Streaked /\ Anchored

-----------------------------------------------------------------------------
(* Legs and tags. *)

LEMMA LegCases ==
    ASSUME NEW l \in LegStates
    PROVE  /\ l = [st |-> l.st, dir |-> l.dir]
           /\ \/ l = NoLeg /\ l.st = "FLAT" /\ l.dir = 0
              \/ l.st \in {"PEND", "OPEN", "EXIT"} /\ l.dir \in Sides
BY DEF LegStates, NoLeg

LEMMA NoLegFlat ==
    /\ NoLeg \in LegStates /\ NoLeg.st = "FLAT" /\ NoLeg.dir = 0 /\ Flat(NoLeg)
    /\ Booked(NoLeg) = 0
BY DEF NoLeg, LegStates, Flat, Booked

LEMMA FlattenLeg ==
    ASSUME NEW l \in LegStates, NEW f, f = flatten_leg(l)
    PROVE  /\ f \in LegStates /\ Booked(f) = Booked(l) /\ flatten_leg(f) = f
           /\ l.st \in {"FLAT", "PEND"} => f = NoLeg /\ Flat(f)
           /\ l.st \in {"OPEN", "EXIT"} => f.st = "EXIT" /\ f.dir = l.dir /\ ~Flat(f)
           /\ f = [st |-> f.st, dir |-> f.dir]
<1>1. CASE l.st \in {"FLAT", "PEND"}
  <2>1. f = NoLeg
    BY <1>1 DEF flatten_leg
  <2> QED
    BY <1>1, <2>1, NoLegFlat, LegCases DEF flatten_leg, Booked
<1>2. CASE l.st \in {"OPEN", "EXIT"}
  <2>1. l.dir \in Sides /\ l = [st |-> l.st, dir |-> l.dir]
    BY <1>2, LegCases
  <2>2. f = [st |-> "EXIT", dir |-> l.dir]
    BY <1>2, <2>1 DEF flatten_leg
  <2>3. f.st = "EXIT" /\ f.dir = l.dir /\ flatten_leg(f) = f
    BY <2>2 DEF flatten_leg
  <2> QED
    BY <1>2, <2>1, <2>2, <2>3 DEF Booked, Flat, LegStates
<1> QED
  BY <1>1, <1>2, LegCases

\* Which tags stay.
LEMMA TidyMember ==
    ASSUME NEW tags, NEW e, NEW l, NEW t
    PROVE  t \in Tidy(tags, e, l) <=>
              /\ t \in tags
              /\ t = "twin" => in_position(e)
              /\ t = "lost" => in_position(e) /\ Flat(l)
              /\ t = "cut" => ~in_position(e) /\ ~Flat(l)
BY DEF Tidy, Tag

LEMMA TidyType ==
    ASSUME NEW tags, NEW e, NEW l, tags \subseteq Odd
    PROVE  Tidy(tags, e, l) \subseteq Odd
BY DEF Tidy

LEMMA ClosedCases ==
    ASSUME TypeOK
    PROVE  \/ closed = {}
           \/ \E c : closed = {c} /\ c.dir \in Sides /\ c.loss \in BOOLEAN
BY DEF TypeOK

-----------------------------------------------------------------------------
(* What keeps a part of the invariant. *)

\* The engine but for its halt.
Rehalted(e, f) ==
    /\ Kept(e, f) /\ in_position(f) = in_position(e)
    /\ e.kind = "mtf" => f.pos = e.pos

LEMMA SoundKept ==
    ASSUME NEW e, NEW f, EngineInv(e), e.kind = "mtf" => ~e.flips, EngineInv(f), Alike(e, f)
    PROVE  f \in EngineStates /\ f.halt \in Halts /\ in_position(f) \in BOOLEAN
           /\ (f.kind = "mtf" => ~f.flips)
BY EngineStateType, KindCases DEF Alike

LEMMA TriedKept ==
    ASSUME Tried, Kept(eng, eng'), phase' = phase, tries' = tries
    PROVE  Tried'
BY DEF Tried, Kept, Alike, Once

LEMMA NoTriesFacts ==
    /\ NoTries \in [Sides -> 0 .. 2] /\ NoTries[1] + NoTries[-1] <= 1
    /\ \A d \in Sides : NoTries[d] = 0
BY DEF NoTries, Sides

LEMMA TriedAnew ==
    ASSUME tries' = NoTries
    PROVE  Tried'
BY NoTriesFacts DEF Tried

LEMMA StreakedKept ==
    ASSUME Streaked, Kept(eng, eng'), closed' = closed, hist' = hist
    PROVE  Streaked'
BY DEF Streaked, Kept, Alike, NextStreak

LEMMA AnchoredKept ==
    ASSUME Anchored, Kept(eng, eng'), mkt' = mkt, "stale" \in odd => "stale" \in odd'
    PROVE  Anchored'
BY DEF Anchored, Kept, Alike

-----------------------------------------------------------------------------
(* What a tick and a pass of the maintenance loop come to. *)

LEMMA ResumeStep ==
    ASSUME LiveInv
    PROVE  LET e == feed_resumes(eng)
           IN  /\ EngineInv(e) /\ Rehalted(eng, e)
               /\ e.halt = eng.halt \/ (eng.halt = "pg_feed_stale" /\ e.halt = NoHalt)
<1>1. EngineInv(eng)
  BY DEF LiveInv, Sound
<1>2. EngineInv(eng) /\ Rehalted(eng, eng)
  BY <1>1, UntouchedItself DEF Untouched, Rehalted
<1> DEFINE f == [eng EXCEPT !.halt = NoHalt]
<1>3. Kept(eng, f) /\ in_position(f) = in_position(eng) /\ f.halt = NoHalt
      /\ (eng.kind = "mtf" => f.pos = eng.pos)
  BY <1>1, HaltKept, NoHaltIsReason
<1>4. feed_resumes(eng) = IF ~feed /\ eng.halt = "pg_feed_stale" THEN f ELSE eng
  BY DEF feed_resumes, unhalt_trading
<1> HIDE DEF f
<1> QED
  BY <1>2, <1>3, <1>4 DEF Rehalted, Kept

\* The host's answer to a signal: l is the leg before it, f the engine and k the
\* leg after it.  An entry is taken from FLAT, or the engine is released; only the
\* opening-range engine is left with its position.
Answered(r, l, f, k) ==
    /\ Kept(r.e, f) /\ f.halt = r.e.halt /\ k \in LegStates
    /\ \/ in_position(f) = in_position(r.e) /\ (r.e.kind = "mtf" => f.pos = r.e.pos)
       \/ ~in_position(f) /\ Flat(k) /\ r.sig # "none"
    /\ r.sig # "none" /\ Flat(k) /\ r.e.kind # "orb" => ~in_position(f)
    /\ r.sig = "none" => k = l
    /\ r.sig = "flatten" => k = flatten_leg(l)
    /\ r.sig = "buy" => k = l \/ (Flat(l) /\ k = [st |-> "PEND", dir |-> 1])
    /\ r.sig = "sell" => k = l \/ (Flat(l) /\ k = [st |-> "PEND", dir |-> -1])

LEMMA DeliverStep ==
    ASSUME NEW r, NEW l \in LegStates, NEW act, EngineInv(r.e),
           r.sig \in {"none", "flatten", "buy", "sell"},
           NEW d, d = Deliver(r, l, act, FALSE)
    PROVE  Answered(r, l, d.eng, d.leg)
<1> DEFINE k == on_signal(l, r.sig, act = "order")
           g == gate_skip(r.e, act)
           f == settle_strategy(g, k, r.sig)
<1>1. d.leg = k /\ d.eng = f
  BY DEF Deliver
<1>2. /\ r.sig = "none" => k = l
      /\ r.sig = "flatten" => k = flatten_leg(l)
      /\ r.sig = "buy" => k = l \/ (Flat(l) /\ k = [st |-> "PEND", dir |-> 1])
      /\ r.sig = "sell" => k = l \/ (Flat(l) /\ k = [st |-> "PEND", dir |-> -1])
  BY DEF on_signal
<1>3. k \in LegStates
  BY <1>2, FlattenLeg DEF LegStates, Sides
<1>4. Untouched(r.e, g)
  <2>1. CASE r.e.kind = "orb" /\ act = "gate"
    BY <2>1, KindCases, CooldownStep DEF gate_skip
  <2>2. CASE ~(r.e.kind = "orb" /\ act = "gate")
    BY <2>2, UntouchedItself DEF gate_skip
  <2> QED
    BY <2>1, <2>2
<1> HIDE DEF k, g
<1>5. EngineInv(g) /\ g.kind = r.e.kind
  BY <1>4 DEF Untouched, Kept, Alike
<1>6. CASE g.kind # "orb" /\ r.sig # "none" /\ Flat(k) /\ in_position(g)
  <2>1. f = Release(g)
    BY <1>6 DEF settle_strategy
  <2>2. Kept(g, f) /\ ~in_position(f) /\ f.halt = g.halt
    BY <1>5, <2>1, ReleaseStep
  <2>3. Kept(r.e, f)
    BY <1>4, <2>2, KeptTrans DEF Untouched
  <2> QED
    BY <1>1, <1>2, <1>3, <1>4, <1>6, <2>2, <2>3 DEF Answered, Untouched
<1>7. CASE ~(g.kind # "orb" /\ r.sig # "none" /\ Flat(k) /\ in_position(g))
  <2>1. f = g
    BY <1>7 DEF settle_strategy
  <2> QED
    BY <1>1, <1>2, <1>3, <1>4, <1>5, <1>7, <2>1 DEF Answered, Untouched
<1> QED
  BY <1>6, <1>7

\* The bracket was checked: the leg is asked to exit, or the scalper's target
\* cancelled an entry.
Bracket(l) ==
    /\ l \in LegStates
    /\ \/ l = leg
       \/ leg.st = "OPEN" /\ l = flatten_leg(leg)
       \/ leg.st = "PEND" /\ l = NoLeg /\ eng.kind = "mtf" /\ in_position(eng)

\* A tick: the engine e after the feed was seen, its result r, the leg l after the
\* bracket, the price px.
TickTo(e, r, l, px) ==
    /\ EngineInv(e) /\ Rehalted(eng, e)
    /\ e.halt = eng.halt \/ (eng.halt = "pg_feed_stale" /\ e.halt = NoHalt)
    /\ Bracket(l) /\ TickStep(e, phase, px, r)
    /\ Answered(r, l, eng', leg')
    /\ odd' = Tidy((odd \ {"stale"})
                   \union Tag((r.sig # "none" /\ eng.kind = "orb")
                              \/ (l # leg /\ Flat(l)), "lost")
                   \union Tag(r.sig \in {"buy", "sell"} /\ ~Flat(l), "twin")
                   \union Tag(e.halt # NoHalt /\ eng.kind = "orb", "stale"), eng', leg')
    /\ px \in Dirs /\ mkt' = IF eng.kind = "orb" THEN px ELSE mkt
    /\ tries' = Count(tries, eng, r.sig)

\* The body of Tick, its choices made.
Handled(e, px, l, r, act) ==
    LET d == Deliver(r, l, act, FALSE)
    IN  /\ eng' = d.eng
        /\ leg' = d.leg
        /\ odd' = Tidy((odd \ {"stale"})
                       \union Tag((r.sig # "none" /\ eng.kind = "orb")
                                  \/ (l # leg /\ Flat(l)), "lost")
                       \union Tag(r.sig \in {"buy", "sell"} /\ ~Flat(l), "twin")
                       \union Tag(e.halt # NoHalt /\ eng.kind = "orb", "stale"), d.eng, d.leg)
        /\ mkt' = IF eng.kind = "orb" THEN px ELSE mkt
        /\ tries' = Count(tries, eng, r.sig)

LEMMA TickFacts ==
    ASSUME LiveInv, Tick
    PROVE  \E e, r, l, px : TickTo(e, r, l, px)
<1> DEFINE e == feed_resumes(eng)
<1>1. /\ EngineInv(e) /\ Rehalted(eng, e)
      /\ e.halt = eng.halt \/ (eng.halt = "pg_feed_stale" /\ e.halt = NoHalt)
  BY ResumeStep
<1>2. PICK px \in IF eng.kind = "orb" THEN Dirs ELSE {0} : \E l \in bracket_check(leg, e) :
        \E r \in Ticks(e, phase, px) : \E act \in Answers(r.sig) : Handled(e, px, l, r, act)
  BY Zenon DEF Tick, Handled
<1> HIDE DEF e
<1>3. PICK l \in bracket_check(leg, e) :
        \E r \in Ticks(e, phase, px) : \E act \in Answers(r.sig) : Handled(e, px, l, r, act)
  BY <1>2
<1>4. PICK r \in Ticks(e, phase, px) : \E act \in Answers(r.sig) : Handled(e, px, l, r, act)
  BY <1>3
<1>5. PICK act \in Answers(r.sig) : Handled(e, px, l, r, act)
  BY <1>4
<1>6. px \in Dirs
  BY <1>2 DEF Dirs
<1>7. e.kind = "mtf" => ~e.flips
  BY <1>1 DEF LiveInv, Sound, Rehalted, Kept, Alike
<1>8. TickStep(e, phase, px, r)
  BY <1>1, <1>4, <1>6, <1>7, TicksStep
<1>9. leg \in LegStates
  BY DEF LiveInv, TypeOK
<1>10. Bracket(l)
  <2>1. \/ l = leg
        \/ /\ leg.st = "OPEN" \/ (leg.st = "PEND" /\ e.kind = "mtf" /\ e.tp)
           /\ l = flatten_leg(leg)
    BY <1>3 DEF bracket_check
  <2>2. e.kind = "mtf" /\ e.tp => eng.kind = "mtf" /\ in_position(eng)
    BY <1>1, KindCases DEF MtfInv, in_position, Rehalted, Kept, Alike
  <2> QED
    BY <1>9, <2>1, <2>2, FlattenLeg DEF Bracket
<1> DEFINE d == Deliver(r, l, act, FALSE)
<1>11. r.sig \in {"none", "flatten", "buy", "sell"} /\ EngineInv(r.e) /\ l \in LegStates
  BY <1>8, <1>10 DEF TickStep, SignalStep, Bracket
<1>12. Answered(r, l, d.eng, d.leg)
  BY <1>11, DeliverStep
<1>13. eng' = d.eng /\ leg' = d.leg
  BY <1>5, Zenon DEF Handled
<1>14. TickTo(e, r, l, px)
  <2> HIDE DEF d
  <2>1. Answered(r, l, eng', leg')
    BY <1>12, <1>13
  <2>2. odd' = Tidy((odd \ {"stale"})
                   \union Tag((r.sig # "none" /\ eng.kind = "orb")
                              \/ (l # leg /\ Flat(l)), "lost")
                   \union Tag(r.sig \in {"buy", "sell"} /\ ~Flat(l), "twin")
                   \union Tag(e.halt # NoHalt /\ eng.kind = "orb", "stale"), eng', leg')
    BY <1>5, <1>13, Zenon DEF Handled, d
  <2>3. mkt' = (IF eng.kind = "orb" THEN px ELSE mkt) /\ tries' = Count(tries, eng, r.sig)
    BY <1>5, Zenon DEF Handled
  <2> QED
    BY <1>1, <1>6, <1>8, <1>10, <2>1, <2>2, <2>3, Zenon DEF TickTo
<1> QED
  BY <1>14

LEMMA TickTags ==
    ASSUME NEW e, NEW r, NEW l, NEW px, odd \subseteq Odd, TickTo(e, r, l, px)
    PROVE  /\ odd' \subseteq Odd
           /\ "lost" \in odd' <=>
                 /\ "lost" \in odd \/ (r.sig # "none" /\ eng.kind = "orb")
                                   \/ (l # leg /\ Flat(l))
                 /\ in_position(eng') /\ Flat(leg')
           /\ "twin" \in odd' <=>
                 /\ "twin" \in odd \/ (r.sig \in {"buy", "sell"} /\ ~Flat(l))
                 /\ in_position(eng')
           /\ "cut" \in odd /\ ~in_position(eng') /\ ~Flat(leg') => "cut" \in odd'
           /\ "lift" \in odd => "lift" \in odd'
           /\ "blind" \in odd => "blind" \in odd'
           /\ "stale" \in odd' <=> e.halt # NoHalt /\ eng.kind = "orb"
<1> DEFINE tags == (odd \ {"stale"})
                   \union Tag((r.sig # "none" /\ eng.kind = "orb")
                              \/ (l # leg /\ Flat(l)), "lost")
                   \union Tag(r.sig \in {"buy", "sell"} /\ ~Flat(l), "twin")
                   \union Tag(e.halt # NoHalt /\ eng.kind = "orb", "stale")
<1>1. odd' = Tidy(tags, eng', leg')
  BY Zenon DEF TickTo
<1>2. tags \subseteq Odd
  BY DEF Tag, Odd
<1>3. /\ "lost" \in tags <=> "lost" \in odd \/ (r.sig # "none" /\ eng.kind = "orb")
                             \/ (l # leg /\ Flat(l))
      /\ "twin" \in tags <=> "twin" \in odd \/ (r.sig \in {"buy", "sell"} /\ ~Flat(l))
      /\ "cut" \in tags <=> "cut" \in odd
      /\ "lift" \in tags <=> "lift" \in odd
      /\ "blind" \in tags <=> "blind" \in odd
      /\ "stale" \in tags <=> e.halt # NoHalt /\ eng.kind = "orb"
  BY DEF Tag
<1> HIDE DEF tags
<1>4. odd' \subseteq Odd
  BY <1>1, <1>2, TidyType
<1> QED
  BY <1>1, <1>3, <1>4, TidyMember

LEMMA CountType ==
    ASSUME NEW e, NEW sig, NEW n \in [Sides -> 0 .. 2]
    PROVE  Count(n, e, sig) \in [Sides -> 0 .. 2]
BY DEF Count, MinOf

\* The once-only modes through a tick of the engine.
LEMMA TriedTick ==
    ASSUME LiveInv, NEW e, NEW r, Kept(eng, e), Kept(r.e, eng'), Alike(e, r.e),
           r.sig \in {"none", "flatten", "buy", "sell"},
           eng.kind = "trend" => OnceStep(e, phase, r),
           phase' = phase, tries' = tries \/ tries' = Count(tries, eng, r.sig)
    PROVE  Tried'
<1>1. SUFFICES ASSUME eng.kind = "trend", Once(eng)
               PROVE  Tried'
  <2>1. eng'.kind = eng.kind /\ eng'.mode = eng.mode
    BY DEF Kept, Alike
  <2> QED
    BY <1>1, <2>1 DEF Tried, Once
<1>2. /\ eng'.mode = eng.mode /\ e.mode = eng.mode /\ e.done = eng.done /\ e.used = eng.used
      /\ e.inRth = eng.inRth /\ eng'.done = r.e.done /\ eng'.used = r.e.used
      /\ eng'.inRth = r.e.inRth /\ eng'.kind = "trend"
  BY <1>1 DEF Kept, Alike
<1>3. OnceStep(e, phase, r) /\ tries \in [Sides -> 0 .. 2] /\ phase \in Phases
  BY <1>1 DEF LiveInv, TypeOK
<1>4. /\ phase \in {"evening", "night"} => tries = NoTries
      /\ phase = "session" /\ (eng.mode = "hold" \/ (eng.mode \in Modes2809 /\ ~eng.inRth))
            => tries = NoTries
      /\ eng.mode \in OncePerSession =>
            tries = NoTries \/ (eng.done /\ tries[1] + tries[-1] <= 1)
      /\ eng.mode \in OncePerSide =>
            \A d \in Sides : /\ tries[d] <= 1
                             /\ phase = "session" /\ tries[d] > 0 => d \in eng.used
  BY <1>1 DEF LiveInv, Tried
<1>5. eng.mode \in OncePerSession \union OncePerSide
  BY <1>1 DEF Once
<1>6. /\ (eng'.inRth <=> phase = "session")
      /\ r.sig \in {"buy", "sell"} => in_window(eng.mode, phase)
      /\ eng.mode \in OncePerSession =>
            /\ eng.done /\ ~Cleared(e, phase) => eng'.done
            /\ r.sig \in {"buy", "sell"} => eng'.done /\ (Cleared(e, phase) \/ ~eng.done)
            /\ r.sig \in {"buy", "sell"} /\ eng.mode = "hold" => phase = "late"
      /\ eng.mode \in OncePerSide =>
            /\ phase = "session" /\ ~Cleared(e, phase) => eng.used \subseteq eng'.used
            /\ r.sig = "buy" => 1 \in eng'.used /\ (Cleared(e, phase) \/ 1 \notin eng.used)
            /\ r.sig = "sell" => -1 \in eng'.used /\ (Cleared(e, phase) \/ -1 \notin eng.used)
  BY <1>2, <1>3, <1>5 DEF OnceStep
\* A session that clears the latches has had no try.
<1>7. Cleared(e, phase) => tries = NoTries /\ phase = "session"
  BY <1>2, <1>4, <1>5 DEF Cleared, Modes2809, OncePerSession, OncePerSide
\* An entry is in the session, or in the late hours of a hold.
<1>8. r.sig \in {"buy", "sell"} =>
        /\ phase \notin {"evening", "night"}
        /\ eng.mode = "hold" => phase # "session"
        /\ eng.mode \in OncePerSide => phase = "session"
  BY <1>3, <1>5, <1>6 DEF in_window, Phases, OncePerSession, OncePerSide
<1>9. tries' = tries \/ r.sig \in {"buy", "sell"}
  <2>1. r.sig \notin {"buy", "sell"} => Count(tries, eng, r.sig) = tries
    BY <1>3 DEF Count
  <2> QED
    BY <2>1
<1>10. CASE tries' = tries
  <2>1. eng.mode \in OncePerSession =>
           tries = NoTries \/ (eng'.done /\ tries[1] + tries[-1] <= 1)
    BY <1>4, <1>6, <1>7
  <2>2. eng.mode \in OncePerSide =>
           \A d \in Sides : phase = "session" /\ tries[d] > 0 => d \in eng'.used
    <3>1. tries = NoTries => \A d \in Sides : ~(tries[d] > 0)
      BY NoTriesFacts
    <3> QED
      BY <1>4, <1>6, <1>7, <3>1
  <2>3. phase = "session" /\ (eng.mode = "hold" \/ (eng.mode \in Modes2809 /\ ~eng'.inRth))
            => tries = NoTries
    BY <1>4, <1>6
  <2> QED
    BY <1>2, <1>4, <1>10, <2>1, <2>2, <2>3 DEF Tried
<1>11. CASE r.sig \in {"buy", "sell"} /\ tries' # tries
  <2> DEFINE w == IF r.sig = "buy" THEN 1 ELSE -1
  <2>1. tries' = [d \in Sides |-> IF d = w THEN MinOf(tries[d] + 1, 2) ELSE tries[d]]
    <3>1. tries' = Count(tries, eng, r.sig)
      BY <1>11
    <3>2. \A d \in Sides : r.sig = (IF d = 1 THEN "buy" ELSE "sell") <=> d = w
      BY <1>11 DEF Sides
    <3> QED
      BY <1>5, <3>1, <3>2 DEF Count
  <2>2. w \in Sides
    BY DEF Sides
  <2>3. phase = "session" => eng'.inRth
    BY <1>6
  <2>4. eng.mode \in OncePerSession => eng'.done /\ tries'[1] + tries'[-1] <= 1
    <3>1. SUFFICES ASSUME eng.mode \in OncePerSession
                   PROVE  eng'.done /\ tries'[1] + tries'[-1] <= 1
      OBVIOUS
    <3>2. eng'.done /\ tries = NoTries
      BY <1>4, <1>6, <1>7, <1>11, <3>1
    <3>3. tries'[1] + tries'[-1] <= 1
      BY <2>1, <2>2, <3>2, NoTriesFacts DEF MinOf, Sides
    <3> QED
      BY <3>2, <3>3
  <2>5. eng.mode \in OncePerSide =>
           \A d \in Sides : tries'[d] <= 1 /\ (tries'[d] > 0 => d \in eng'.used)
    <3>1. SUFFICES ASSUME eng.mode \in OncePerSide
                   PROVE  \A d \in Sides : tries'[d] <= 1 /\ (tries'[d] > 0 => d \in eng'.used)
      OBVIOUS
    <3>2. phase = "session"
      BY <1>8, <1>11, <3>1
    <3>3. w \in eng'.used /\ (tries = NoTries \/ w \notin eng.used)
      BY <1>6, <1>7, <1>11, <3>1
    <3>4. tries[w] = 0
      <4>1. tries[w] \in 0 .. 2
        BY <1>3, <2>2
      <4> QED
        BY <1>4, <2>2, <3>1, <3>2, <3>3, <4>1, NoTriesFacts
    <3>5. tries'[w] <= 1
      BY <2>1, <2>2, <3>4 DEF MinOf
    <3>6. ASSUME NEW d \in Sides, d # w
          PROVE  tries'[d] <= 1 /\ (tries'[d] > 0 => d \in eng'.used)
      <4>1. tries'[d] = tries[d]
        BY <2>1, <3>6
      <4>2. tries = NoTries => tries[d] = 0
        BY NoTriesFacts
      <4> QED
        BY <1>4, <1>6, <1>7, <3>1, <3>2, <4>1, <4>2
    <3> QED
      BY <3>3, <3>5, <3>6
  <2> HIDE DEF w
  <2> QED
    BY <1>2, <1>8, <1>11, <2>3, <2>4, <2>5 DEF Tried
<1> QED
  BY <1>9, <1>10, <1>11

-----------------------------------------------------------------------------
(* One lemma per action: it preserves the invariant. *)

LEMMA TickPreserves ==
    ASSUME LiveInv, Tick
    PROVE  LiveInv'
<1> USE DEF LiveInv
<1>1. PICK e, r, l, px : TickTo(e, r, l, px)
  BY TickFacts
<1>2. /\ run = "up" /\ run' = "up" /\ ~warm /\ warm' = warm /\ phase' = phase
      /\ closed' = closed /\ today' = today /\ exch' = exch /\ pnl' = pnl /\ back' = back
      /\ drops' = drops /\ hist' = hist /\ feed' = TRUE
  BY DEF Tick
<1>3. /\ leg \in LegStates /\ EngineInv(eng) /\ odd \subseteq Odd
      /\ in_position(eng) \in BOOLEAN
  BY KindCases DEF TypeOK, Sound
<1>4. /\ EngineInv(e) /\ Rehalted(eng, e) /\ Bracket(l) /\ TickStep(e, phase, px, r)
      /\ Answered(r, l, eng', leg')
      /\ e.halt = eng.halt \/ (eng.halt = "pg_feed_stale" /\ e.halt = NoHalt)
  BY <1>1 DEF TickTo
<1>5. /\ Kept(eng, e) /\ Alike(eng, e) /\ Alike(e, r.e) /\ Alike(r.e, eng')
      /\ Kept(r.e, eng') /\ EngineInv(eng') /\ Alike(eng, eng') /\ eng'.halt = e.halt
      /\ leg' \in LegStates
  BY <1>4 DEF Rehalted, TickStep, Answered, Kept, Alike
<1>6. /\ odd' \subseteq Odd
      /\ "lost" \in odd' <=>
            /\ "lost" \in odd \/ (r.sig # "none" /\ eng.kind = "orb")
                              \/ (l # leg /\ Flat(l))
            /\ in_position(eng') /\ Flat(leg')
      /\ "twin" \in odd' <=>
            /\ "twin" \in odd \/ (r.sig \in {"buy", "sell"} /\ ~Flat(l))
            /\ in_position(eng')
      /\ "cut" \in odd /\ ~in_position(eng') /\ ~Flat(leg') => "cut" \in odd'
      /\ "lift" \in odd => "lift" \in odd'
      /\ "blind" \in odd => "blind" \in odd'
      /\ "stale" \in odd' <=> e.halt # NoHalt /\ eng.kind = "orb"
  BY <1>1, <1>3, TickTags
\* The position flag and the signal.
<1>7. /\ r.sig \in {"none", "flatten", "buy", "sell"}
      /\ in_position(e) = in_position(eng) /\ in_position(eng') \in BOOLEAN
      /\ r.sig = "none" => in_position(eng') = in_position(eng) /\ leg' = l
      /\ r.sig = "flatten" => in_position(eng) /\ leg' = flatten_leg(l)
      /\ r.sig \in {"buy", "sell"} => ~in_position(eng) /\ e.halt = NoHalt
      /\ r.sig = "buy" => leg' = l \/ (Flat(l) /\ leg' = [st |-> "PEND", dir |-> 1])
      /\ r.sig = "sell" => leg' = l \/ (Flat(l) /\ leg' = [st |-> "PEND", dir |-> -1])
      /\ r.sig # "none" /\ ~Flat(leg') => in_position(eng')
      /\ r.sig # "none" /\ Flat(leg') /\ eng.kind # "orb" => ~in_position(eng')
  <2>1. in_position(eng') \in BOOLEAN
    BY <1>5, KindCases
  <2>2. SignalStep(e, r) /\ r.e.kind = eng.kind /\ in_position(e) = in_position(eng)
    BY <1>4, <1>5 DEF TickStep, Rehalted, Alike
  <2> QED
    BY <1>3, <1>4, <2>1, <2>2 DEF SignalStep, Answered
<1>8. Booked(leg') = Booked(leg)
  <2>1. Booked(l) = Booked(leg) /\ l \in LegStates
    BY <1>3, <1>4, FlattenLeg, NoLegFlat DEF Bracket, Booked
  <2>2. Booked(flatten_leg(l)) = Booked(l)
    BY <2>1, FlattenLeg
  <2>3. Flat(l) => Booked(l) = 0
    BY DEF Flat, Booked
  <2>4. \A d : Booked([st |-> "PEND", dir |-> d]) = 0
    BY DEF Booked
  <2> QED
    BY <1>7, <2>1, <2>2, <2>3, <2>4
<1>9. TypeOK'
  <2>1. eng' \in EngineStates
    BY <1>5, EngineStateType
  <2>2. mkt' \in Dirs \union {NoPrice} /\ tries' \in [Sides -> 0 .. 2]
    BY <1>1, CountType DEF TickTo, TypeOK
  <2> QED
    BY <1>2, <1>5, <1>6, <2>1, <2>2 DEF TypeOK
<1>10. Sound'
  BY <1>5 DEF Sound, Alike
<1>11. Strays'
  BY <1>2, <1>8 DEF Strays
<1>12. Blank'
  BY <1>2, <1>5 DEF Blank, Alike
<1>13. InStep'
  <2>1. SUFFICES ASSUME in_position(eng')
                 PROVE  InStep'
    BY DEF InStep
  <2>2. ASSUME Flat(leg'), closed = {} \/ (eng'.kind = "mtf" /\ \A c \in closed : eng'.pos # c.dir)
        PROVE  "lost" \in odd' \/ "twin" \in odd'
    <3>1. CASE r.sig # "none"
      BY <1>6, <1>7, <2>1, <2>2, <3>1
    <3>2. CASE r.sig = "none" /\ l # leg
      BY <1>6, <1>7, <2>1, <2>2, <3>2
    <3>3. CASE r.sig = "none" /\ l = leg
      <4>1. in_position(eng) /\ Flat(leg)
        BY <1>7, <2>1, <2>2, <3>3
      <4>2. eng.kind = "mtf" => eng'.pos = eng.pos
        <5>1. eng.kind = "mtf" => e.pos = eng.pos /\ r.e.pos = e.pos
          BY <1>4, <1>5, <3>3 DEF Rehalted, TickStep, Alike
        <5>2. eng.kind = "mtf" => eng'.pos = r.e.pos
          BY <1>4, <1>5, <2>1, <3>3 DEF Answered, Alike
        <5> QED
          BY <5>1, <5>2
      <4>3. eng'.kind = eng.kind
        BY <1>5 DEF Alike
      <4> QED
        BY <1>2, <1>6, <2>1, <2>2, <4>1, <4>2, <4>3 DEF InStep
    <3> QED
      BY <3>1, <3>2, <3>3
  <2>3. ASSUME eng'.kind = "mtf", ~Flat(leg'), eng'.pos # leg'.dir
        PROVE  "twin" \in odd'
    <3>1. eng.kind = "mtf" /\ eng'.pos = r.e.pos /\ e.pos = eng.pos
      BY <1>4, <1>5, <2>1, <2>3 DEF Answered, Rehalted, Alike
    <3>2. CASE r.sig \in {"buy", "sell"} /\ ~Flat(l)
      BY <1>6, <2>1, <3>2
    <3>3. CASE r.sig \in {"buy", "sell"} /\ Flat(l)
      <4>1. leg' # l
        BY <2>3, <3>3
      <4>2. /\ r.sig = "buy" => r.e.pos = 1 /\ leg'.dir = 1
            /\ r.sig = "sell" => r.e.pos = -1 /\ leg'.dir = -1
        BY <1>4, <1>5, <1>7, <3>1, <4>1 DEF TickStep, Alike
      <4> QED
        BY <2>3, <3>1, <3>3, <4>2
    <3>4. CASE r.sig \in {"none", "flatten"}
      <4>1. ~Flat(leg) /\ leg'.dir = leg.dir
        <5>1. l \in LegStates /\ (leg' = l \/ leg' = flatten_leg(l))
          BY <1>4, <1>7, <3>4 DEF Bracket
        <5>2. ~Flat(l) /\ leg'.dir = l.dir
          BY <2>3, <5>1, FlattenLeg, LegCases DEF Flat
        <5> QED
          BY <1>3, <1>4, <5>2, FlattenLeg, LegCases, NoLegFlat DEF Bracket, Flat
      <4>2. in_position(eng) /\ r.e.pos = eng.pos
        <5>1. in_position(eng)
          BY <1>7, <2>1, <3>4
        <5>2. e.pos # 0
          BY <3>1, <5>1 DEF in_position
        <5> QED
          BY <1>4, <1>5, <3>1, <5>1, <5>2 DEF TickStep, Alike
      <4>3. "twin" \in odd
        BY <1>2, <2>3, <3>1, <4>1, <4>2 DEF InStep
      <4> QED
        BY <1>6, <2>1, <4>3
    <3> QED
      BY <1>7, <3>2, <3>3, <3>4
  <2> QED
    BY <1>2, <2>2, <2>3 DEF InStep
<1>14. LegHasEngine'
  <2>1. SUFFICES ASSUME ~Flat(leg'), ~in_position(eng')
                 PROVE  "cut" \in odd'
    BY DEF LegHasEngine
  <2>2. r.sig = "none" /\ leg' = l /\ ~in_position(eng)
    BY <1>7, <2>1
  <2>3. ~Flat(leg)
    BY <1>3, <1>4, <2>1, <2>2, LegCases DEF Bracket, Flat
  <2> QED
    BY <1>2, <1>6, <2>1, <2>2, <2>3 DEF LegHasEngine
<1>15. Guarded'
  <2>1. Lasting(eng.halt) => Lasting(eng'.halt)
    BY <1>4, <1>5 DEF Lasting
  <2>2. Lifted => Lifted'
    BY <1>6 DEF Lifted
  <2>3. ASSUME ~Flat(leg'), exch # Booked(leg)
        PROVE  Lifted'
    <3>1. CASE ~Flat(leg)
      BY <1>2, <2>2, <2>3, <3>1 DEF Guarded
    <3>2. CASE Flat(leg)
      <4>1. Flat(l) /\ leg.st = "FLAT"
        BY <1>3, <1>4, <3>2, LegCases DEF Bracket, Flat
      <4>2. r.sig \in {"buy", "sell"}
        BY <1>4, <1>7, <2>3, <4>1, FlattenLeg DEF Bracket, Flat
      <4>3. ~Lasting(eng.halt)
        BY <1>4, <1>7, <4>2 DEF Lasting
      <4> QED
        BY <1>2, <2>2, <2>3, <4>3 DEF Guarded
    <3> QED
      BY <3>1, <3>2
  <2> QED
    BY <1>2, <1>8, <2>1, <2>2, <2>3 DEF Guarded
<1>16. Tried'
  <2>1. eng.kind = "trend" => OnceStep(e, phase, r)
    BY <1>4, <1>5 DEF TickStep, Alike
  <2> QED
    BY <1>1, <1>2, <1>5, <1>7, <2>1, TriedTick DEF TickTo
<1>17. Streaked'
  <2>1. eng.kind = "mtf" => eng'.kind = "mtf" /\ eng'.streak = eng.streak
    BY <1>4, <1>5 DEF TickStep, Kept, Alike
  <2>2. eng'.kind = eng.kind
    BY <1>5 DEF Alike
  <2> QED
    BY <1>2, <2>1, <2>2 DEF Streaked, NextStreak
<1>18. Anchored'
  <2>1. SUFFICES ASSUME eng.kind = "orb"
                 PROVE  Anchored'
    <3>1. eng'.kind = eng.kind
      BY <1>5 DEF Alike
    <3> QED
      BY <2>1, <3>1 DEF Anchored
  <2>2. mkt' = px /\ px # NoPrice
    BY <1>1, <2>1 DEF TickTo, Dirs, NoPrice
  <2>3. eng'.last = r.e.last /\ e.last = eng.last
    BY <1>5, <2>1 DEF Kept, Alike
  <2>4. e.halt = NoHalt => r.e.last = px
    BY <1>4, <1>5, <2>1 DEF TickStep, Alike
  <2> QED
    BY <1>6, <2>1, <2>2, <2>3, <2>4 DEF Anchored
<1> QED
  BY <1>9, <1>10, <1>11, <1>12, <1>13, <1>14, <1>15, <1>16, <1>17, <1>18

LEMMA WarmTickPreserves ==
    ASSUME LiveInv, WarmTick
    PROVE  LiveInv'
<1> USE DEF LiveInv
<1> DEFINE e == feed_resumes(eng)
<1>1. /\ EngineInv(e) /\ Rehalted(eng, e)
      /\ e.halt = eng.halt \/ (eng.halt = "pg_feed_stale" /\ e.halt = NoHalt)
  BY ResumeStep
<1>2. PICK r \in Ticks(e, phase, 0) : eng' = r.e
  BY DEF WarmTick, Deliver
<1>3. /\ run = "up" /\ run' = "up" /\ warm /\ warm' = warm /\ phase' = phase /\ leg' = leg
      /\ closed' = closed /\ today' = today /\ exch' = exch /\ pnl' = pnl /\ back' = back
      /\ drops' = drops /\ hist' = hist /\ feed' = TRUE /\ odd' = odd /\ mkt' = mkt
      /\ tries' = tries
  BY DEF WarmTick
<1> HIDE DEF e
<1>4. 0 \in Dirs /\ (e.kind = "mtf" => ~e.flips)
  BY <1>1 DEF Dirs, Sound, Rehalted, Kept, Alike
<1>5. TickStep(e, phase, 0, r)
  BY <1>1, <1>2, <1>4, TicksStep
<1>6. /\ EngineInv(eng') /\ Alike(eng, eng') /\ Alike(e, r.e) /\ Alike(eng, e)
      /\ eng'.halt = e.halt /\ Kept(eng, e)
  BY <1>1, <1>2, <1>5 DEF TickStep, Rehalted, Kept, Alike
<1>7. leg = NoLeg /\ eng.kind # "orb"
  BY <1>3 DEF Blank
<1>8. TypeOK' /\ Sound'
  <2>1. eng' \in EngineStates
    BY <1>6, EngineStateType
  <2> QED
    BY <1>3, <1>6, <2>1 DEF TypeOK, Sound, Alike
<1>9. Strays' /\ Blank' /\ InStep' /\ LegHasEngine' /\ Anchored'
  BY <1>3, <1>6, <1>7, NoLegFlat DEF Strays, Blank, InStep, LegHasEngine, Anchored, Alike
<1>10. Guarded'
  <2>1. Lasting(eng.halt) => Lasting(eng'.halt)
    BY <1>1, <1>6 DEF Lasting
  <2> QED
    BY <1>3, <2>1 DEF Guarded, Lifted
<1>11. Tried'
  <2>1. Kept(r.e, eng')
    BY <1>2, <1>6, UntouchedItself DEF Untouched
  <2>2. eng.kind = "trend" => OnceStep(e, phase, r)
    BY <1>5, <1>6 DEF TickStep, Alike
  <2>3. r.sig \in {"none", "flatten", "buy", "sell"}
    BY <1>5 DEF TickStep, SignalStep
  <2> QED
    BY <1>3, <1>6, <2>1, <2>2, <2>3, TriedTick
<1>12. Streaked'
  <2>1. eng.kind = "mtf" => eng'.streak = eng.streak
    BY <1>2, <1>5, <1>6 DEF TickStep, Kept, Alike
  <2>2. eng'.kind = eng.kind
    BY <1>6 DEF Alike
  <2> QED
    BY <1>3, <2>1, <2>2 DEF Streaked, NextStreak
<1> QED
  BY <1>8, <1>9, <1>10, <1>11, <1>12

LEMMA WarmEndStep ==
    ASSUME NEW e, EngineInv(e), NEW n \in 0 .. MaxTrades, NEW f, f = end_warmup(e, n)
    PROVE  Kept(e, f) /\ ~in_position(f) /\ f.halt = e.halt
<1> DEFINE g == IF in_position(e) THEN Release(e) ELSE e
<1>1. Kept(e, g) /\ ~in_position(g) /\ g.halt = e.halt
  BY ReleaseStep, UntouchedItself DEF Untouched
<1>2. f = seed_trades_today(g, n)
  BY DEF end_warmup
<1> HIDE DEF g
<1>3. Untouched(g, f)
  BY <1>1, <1>2, SeedTradesKept DEF Kept
<1> QED
  BY <1>1, <1>3, KeptTrans DEF Untouched

LEMMA WarmEndPreserves ==
    ASSUME LiveInv, WarmEnd
    PROVE  LiveInv'
<1> USE DEF LiveInv
<1>1. PICK n \in 0 .. MaxTrades : eng' = end_warmup(eng, n)
  BY DEF WarmEnd
<1>2. /\ run = "up" /\ run' = "up" /\ warm /\ warm' = FALSE /\ phase' = phase /\ leg' = leg
      /\ closed' = closed /\ today' = today /\ exch' = exch /\ pnl' = pnl /\ back' = back
      /\ drops' = drops /\ hist' = hist /\ feed' = feed /\ mkt' = mkt
      /\ tries' = tries /\ odd' = Tidy(odd \union {"cut"}, eng', leg)
  BY DEF WarmEnd
<1>3. EngineInv(eng) /\ odd \subseteq Odd /\ leg = NoLeg
  BY <1>2 DEF TypeOK, Sound, Blank
<1>4. Kept(eng, eng') /\ ~in_position(eng') /\ eng'.halt = eng.halt
  BY <1>1, <1>3, WarmEndStep
<1>5. EngineInv(eng') /\ Alike(eng, eng')
  BY <1>4 DEF Kept
<1>6. /\ odd' \subseteq Odd /\ ("stale" \in odd => "stale" \in odd')
      /\ ("lift" \in odd => "lift" \in odd') /\ ("blind" \in odd => "blind" \in odd')
  BY <1>2, <1>3, TidyMember, TidyType DEF Odd
<1>7. TypeOK' /\ Sound'
  <2>1. eng' \in EngineStates
    BY <1>5, EngineStateType
  <2> QED
    BY <1>2, <1>5, <1>6, <2>1 DEF TypeOK, Sound, Alike
<1>8. Strays' /\ Blank' /\ InStep' /\ LegHasEngine'
  BY <1>2, <1>3, <1>4, <1>5, NoLegFlat DEF Strays, Blank, InStep, LegHasEngine, Alike
<1>9. Guarded'
  BY <1>2, <1>4, <1>6 DEF Guarded, Lifted
<1>10. Tried' /\ Streaked' /\ Anchored'
  BY <1>2, <1>4, <1>6, TriedKept, StreakedKept, AnchoredKept
<1> QED
  BY <1>7, <1>8, <1>9, <1>10

\* The watchdog and the date, as steps of the engine.
StaleHalt(e, st) == IF st THEN halt_trading(e, "pg_feed_stale") ELSE e
NewDay(e) == IF today THEN e ELSE reset_session(e)

\* A pass of the maintenance loop: the end of day gave r, which left the engine e
\* and the leg l; bs says whether the backstop, st whether the watchdog acts.
EodTo(r, e, l, bs, st) ==
    /\ EodStep(eng, r) /\ Kept(eng, e) /\ e.halt = eng.halt
    /\ l = leg \/ l = flatten_leg(leg)
    /\ \/ in_position(e) = in_position(eng) /\ (eng.kind = "mtf" => e.pos = eng.pos)
       \/ ~in_position(e) /\ Flat(l) /\ ~warm
    /\ l # leg /\ Flat(l) /\ in_position(e) => r.sig # "none" /\ eng.kind = "orb"
    /\ bs \in BOOLEAN /\ st \in BOOLEAN /\ (bs => ~Flat(l))
    /\ leg' = IF bs THEN flatten_leg(l) ELSE l
    /\ eng' = report_closed(NewDay(StaleHalt(e, st)))
    /\ back' \in BOOLEAN /\ feed' \in BOOLEAN
    /\ tries' = IF today THEN tries ELSE NoTries
    /\ odd' = Tidy(odd
         \union Tag((r.sig # "none" /\ eng.kind = "orb") \/ bs, "lost")
         \union Tag(~today \/ closed # {}, "cut")
         \union Tag((st /\ overwrites(e, "pg_feed_stale"))
                    \/ (~today /\ StaleHalt(e, st).halt # NoHalt), "lift"), eng', leg')

\* The body of EodTick, its choices made.
Passed(r, d, silent, late) ==
    LET bs == late /\ ~Flat(d.leg)
        l2 == IF bs THEN flatten_leg(d.leg) ELSE d.leg
        st == feed_stale(l2, silent)
        e2 == IF st THEN halt_trading(d.eng, "pg_feed_stale") ELSE d.eng
        roll == ~today
        e3 == IF roll THEN reset_session(e2) ELSE e2
        e4 == report_closed(e3)
    IN  /\ eng' = e4
        /\ leg' = l2
        /\ feed' = (feed /\ ~st)
        /\ back' = (bs \/ (back /\ ~roll))
        /\ tries' = IF roll THEN NoTries ELSE tries
        /\ odd' = Tidy(odd
             \union Tag((r.sig # "none" /\ eng.kind = "orb") \/ bs, "lost")
             \union Tag(roll \/ closed # {}, "cut")
             \union Tag((st /\ overwrites(d.eng, "pg_feed_stale"))
                        \/ (roll /\ e2.halt # NoHalt), "lift"), e4, l2)

LEMMA EodFacts ==
    ASSUME LiveInv, EodTick
    PROVE  \E r, e, l, bs, st : EodTo(r, e, l, bs, st)
<1> DEFINE r == check_eod(eng, phase)
           d == Deliver(r, leg, "order", warm)
<1>1. PICK silent \in IF feed THEN BOOLEAN ELSE {FALSE} :
      \E late \in IF eng.kind # "orb" /\ phase = "late" /\ ~back THEN BOOLEAN ELSE {FALSE} :
         Passed(r, d, silent, late)
  BY Zenon DEF EodTick, Passed
<1>2. PICK late \in BOOLEAN : Passed(r, d, silent, late)
  BY <1>1, Zenon
<1> DEFINE bs == late /\ ~Flat(d.leg)
           l2 == IF bs THEN flatten_leg(d.leg) ELSE d.leg
           st == feed_stale(l2, silent)
<1>3. EngineInv(eng) /\ leg \in LegStates /\ today \in BOOLEAN
  BY DEF LiveInv, Sound, TypeOK
<1>4. EodStep(eng, r)
  BY <1>3, CheckEodStep
<1>5. bs \in BOOLEAN /\ st \in BOOLEAN /\ (bs => ~Flat(d.leg))
  BY Zenon DEF feed_stale
<1>6. eng' = report_closed(NewDay(StaleHalt(d.eng, st)))
  BY <1>2, <1>3 DEF NewDay, StaleHalt, Passed
<1>7. /\ leg' = (IF bs THEN flatten_leg(d.leg) ELSE d.leg)
      /\ back' \in BOOLEAN /\ feed' \in BOOLEAN
      /\ tries' = IF today THEN tries ELSE NoTries
  <2>1. leg' = IF bs THEN flatten_leg(d.leg) ELSE d.leg
    BY <1>2 DEF Passed
  <2>2. back' \in BOOLEAN
    BY <1>2, Zenon DEF Passed
  <2>3. feed' \in BOOLEAN
    BY <1>2, Zenon DEF Passed
  <2>4. tries' = IF today THEN tries ELSE NoTries
    BY <1>2 DEF Passed
  <2> QED
    BY <2>1, <2>2, <2>3, <2>4
<1>8. odd' = Tidy(odd
         \union Tag((r.sig # "none" /\ eng.kind = "orb") \/ bs, "lost")
         \union Tag(~today \/ closed # {}, "cut")
         \union Tag((st /\ overwrites(d.eng, "pg_feed_stale"))
                    \/ (~today /\ StaleHalt(d.eng, st).halt # NoHalt), "lift"), eng', leg')
  BY <1>2, Zenon DEF StaleHalt, Passed
<1> HIDE DEF bs, st, r
<1>9. /\ Kept(eng, d.eng) /\ d.eng.halt = eng.halt
      /\ d.leg = leg \/ d.leg = flatten_leg(leg)
      /\ \/ in_position(d.eng) = in_position(eng) /\ (eng.kind = "mtf" => d.eng.pos = eng.pos)
         \/ ~in_position(d.eng) /\ Flat(d.leg) /\ ~warm
      /\ d.leg # leg /\ Flat(d.leg) /\ in_position(d.eng) => r.sig # "none" /\ eng.kind = "orb"
  <2>1. /\ Untouched(eng, r.e) /\ r.sig \in {"none", "flatten"} /\ EngineInv(r.e)
        /\ Kept(eng, r.e) /\ r.e.kind = eng.kind
    BY <1>4 DEF EodStep, Untouched, Kept, Alike
  <2>2. CASE warm
    <3>1. d.eng = r.e /\ d.leg = leg
      BY <2>2 DEF Deliver
    <3> HIDE DEF d
    <3> QED
      BY <2>1, <3>1 DEF Untouched
  <2>3. CASE ~warm
    <3>1. d = Deliver(r, leg, "order", FALSE)
      BY <2>3 DEF Deliver
    <3> HIDE DEF d
    <3>2. Answered(r, leg, d.eng, d.leg)
      BY <1>3, <2>1, <3>1, DeliverStep
    <3>3. Kept(eng, d.eng)
      BY <1>3, <2>1, <3>2, KeptTrans DEF Answered
    <3>4. d.leg = leg \/ d.leg = flatten_leg(leg)
      BY <2>1, <3>2 DEF Answered
    <3>5. \/ in_position(d.eng) = in_position(eng) /\ (eng.kind = "mtf" => d.eng.pos = eng.pos)
          \/ ~in_position(d.eng) /\ Flat(d.leg)
      BY <2>1, <3>2 DEF Answered, Untouched
    <3>6. d.leg # leg /\ Flat(d.leg) /\ in_position(d.eng) => r.sig # "none" /\ eng.kind = "orb"
      BY <2>1, <3>2 DEF Answered
    <3> QED
      BY <2>1, <2>3, <3>2, <3>3, <3>4, <3>5, <3>6 DEF Answered, Untouched
  <2> QED
    BY <2>2, <2>3
<1> HIDE DEF d
<1>10. EodTo(r, d.eng, d.leg, bs, st)
  BY <1>4, <1>5, <1>6, <1>7, <1>8, <1>9, Zenon DEF EodTo
<1> QED
  BY <1>10

\* The watchdog only halts; the date resets; the close frees.
LEMMA StaleHaltStep ==
    ASSUME NEW e, EngineInv(e), NEW st \in BOOLEAN, NEW f, f = StaleHalt(e, st)
    PROVE  /\ EngineInv(f) /\ Rehalted(e, f)
           /\ f.halt = IF st THEN "pg_feed_stale" ELSE e.halt
<1>1. "pg_feed_stale" \in Halts
  BY DEF Halts
<1>2. CASE st
  BY <1>1, <1>2, HaltKept DEF StaleHalt, halt_trading, Rehalted, Kept
<1>3. CASE ~st
  BY <1>3, UntouchedItself DEF StaleHalt, Untouched, Rehalted
<1> QED
  BY <1>2, <1>3

LEMMA ReportStep ==
    ASSUME LiveInv, NEW e, EngineInv(e), NEW f, f = report_closed(e)
    PROVE  \/ closed = {} /\ f = e
           \/ \E c : /\ closed = {c} /\ c.dir \in Sides /\ c.loss \in BOOLEAN
                     /\ ClosedStep(e, c.dir, c.loss, f)
<1>1. CASE closed = {}
  BY <1>1 DEF report_closed
<1>2. CASE closed # {}
  <2>1. PICK c : closed = {c} /\ c.dir \in Sides /\ c.loss \in BOOLEAN
    BY <1>2, ClosedCases DEF LiveInv
  <2>2. (CHOOSE x \in closed : TRUE) = c
    BY <2>1
  <2>3. f = notify_trade_filled(e, c.dir, c.loss)
    BY <1>2, <2>2 DEF report_closed
  <2> QED
    BY <2>1, <2>3, FilledStep
<1> QED
  BY <1>1, <1>2

\* The engine of an end-of-day pass, from e (after the end of day) to f.
PassStep(e, st, f) ==
    /\ EngineInv(f) /\ Alike(e, f)
    /\ f.halt = IF ~today THEN NoHalt ELSE IF st THEN "pg_feed_stale" ELSE e.halt
    /\ e.kind = "trend" /\ today => f.done = e.done /\ f.used = e.used /\ f.inRth = e.inRth
    /\ e.kind = "orb" => f.last = e.last
    /\ e.kind = "mtf" =>
          /\ closed = {} => f.streak = e.streak
          /\ \A c \in closed : f.streak = NextStreak(e, c.loss)
          /\ f.pos # 0 => /\ today /\ f.pos = e.pos /\ f.stop >= e.stop
                          /\ \A c \in closed : e.pos # c.dir
    /\ in_position(f) => in_position(e)
    /\ today /\ closed = {} => in_position(f) = in_position(e)
    /\ in_position(f) => closed = {} \/ e.kind = "mtf"

LEMMA PassFacts ==
    ASSUME LiveInv, NEW e, EngineInv(e), NEW st \in BOOLEAN,
           NEW f, f = report_closed(NewDay(StaleHalt(e, st)))
    PROVE  PassStep(e, st, f)
<1> DEFINE g == StaleHalt(e, st)
           h == NewDay(g)
<1>1. /\ EngineInv(g) /\ Rehalted(e, g)
      /\ g.halt = IF st THEN "pg_feed_stale" ELSE e.halt
  BY StaleHaltStep
<1> HIDE DEF g
<1>2. /\ Alike(e, g) /\ in_position(g) = in_position(e)
      /\ e.kind = "trend" => g.done = e.done /\ g.used = e.used /\ g.inRth = e.inRth
      /\ e.kind = "orb" => g.last = e.last
      /\ e.kind = "mtf" => g.streak = e.streak /\ g.pos = e.pos /\ (g.pos # 0 => g.stop >= e.stop)
  BY <1>1 DEF Rehalted, Kept
<1>3. /\ EngineInv(h) /\ Alike(g, h)
      /\ h.halt = IF ~today THEN NoHalt ELSE g.halt
      /\ g.kind = "trend" /\ today => h.done = g.done /\ h.used = g.used /\ h.inRth = g.inRth
      /\ g.kind = "orb" => h.last = g.last
      /\ g.kind = "mtf" => /\ h.streak = g.streak
                           /\ h.pos # 0 => today /\ h.pos = g.pos /\ h.stop = g.stop
      /\ in_position(h) => in_position(g)
      /\ today => in_position(h) = in_position(g)
  <2>1. CASE today
    BY <1>1, <2>1 DEF NewDay, Alike
  <2>2. CASE ~today
    <3>1. h = reset_session(g)
      BY <2>2 DEF NewDay
    <3>2. ResetStep(g, h)
      BY <1>1, <3>1, ResetSessionStep
    <3> QED
      BY <2>2, <3>2 DEF ResetStep
  <2> QED
    BY <2>1, <2>2
<1>4. f = report_closed(h)
  BY DEF g
<1> HIDE DEF h
<1>5. /\ in_position(e) \in BOOLEAN /\ in_position(h) \in BOOLEAN
      /\ e.kind = "mtf" => in_position(e) = (e.pos # 0) /\ in_position(h) = (h.pos # 0)
  BY <1>2, <1>3, KindCases DEF in_position, Alike
<1>6. CASE closed = {} /\ f = h
  BY <1>1, <1>2, <1>3, <1>5, <1>6 DEF PassStep, Alike
<1>7. ASSUME NEW c, closed = {c}, ClosedStep(h, c.dir, c.loss, f)
      PROVE  PassStep(e, st, f)
  <2>1. EngineInv(f) /\ Alike(e, f) /\ f.halt = h.halt
    BY <1>2, <1>3, <1>7 DEF ClosedStep, Alike
  <2>2. e.kind # "mtf" => ~in_position(f)
    BY <1>2, <1>3, <1>7 DEF ClosedStep, Alike
  <2>3. e.kind = "mtf" =>
          /\ f.streak = NextStreak(e, c.loss)
          /\ f.pos # 0 => today /\ f.pos = e.pos /\ f.stop >= e.stop /\ e.pos # c.dir
          /\ in_position(f) => f.pos # 0
          /\ in_position(f) => in_position(e)
    <3>1. SUFFICES ASSUME e.kind = "mtf"
                   PROVE  /\ f.streak = NextStreak(e, c.loss)
                          /\ f.pos # 0 => /\ today /\ f.pos = e.pos /\ f.stop >= e.stop
                                          /\ e.pos # c.dir
                          /\ in_position(f) => f.pos # 0
                          /\ in_position(f) => in_position(e)
      OBVIOUS
    <3>2. /\ h.kind = "mtf" /\ g.kind = "mtf" /\ f.kind = "mtf"
          /\ h.streak = e.streak /\ (h.pos # 0 => today /\ h.pos = e.pos /\ h.stop >= e.stop)
      BY <1>2, <1>3, <2>1, <3>1 DEF Alike
    <3>3. f.streak = NextStreak(e, c.loss)
      BY <1>7, <3>2 DEF ClosedStep, NextStreak
    <3>4. f.pos # 0 => h.pos # 0 /\ f.pos = h.pos /\ f.stop = h.stop /\ h.pos # c.dir
      BY <1>7, <3>2 DEF ClosedStep
    <3> QED
      BY <3>1, <3>2, <3>3, <3>4 DEF in_position
  <2>4. /\ e.kind = "trend" /\ today => f.done = e.done /\ f.used = e.used /\ f.inRth = e.inRth
        /\ e.kind = "orb" => f.last = e.last
    BY <1>2, <1>3, <1>7 DEF ClosedStep, Alike
  <2>5. e.kind \in {"trend", "orb", "mtf"}
    BY KindCases
  <2> QED
    BY <1>1, <1>3, <1>7, <2>1, <2>2, <2>3, <2>4, <2>5 DEF PassStep
<1> QED
  BY <1>3, <1>4, <1>6, <1>7, ReportStep

LEMMA EodTags ==
    ASSUME NEW r, NEW e, NEW l, NEW bs, NEW st, odd \subseteq Odd, EodTo(r, e, l, bs, st)
    PROVE  /\ odd' \subseteq Odd
           /\ "lost" \in odd \/ (r.sig # "none" /\ eng.kind = "orb") \/ bs
                 => "lost" \in odd' \/ ~in_position(eng') \/ ~Flat(leg')
           /\ "twin" \in odd => "twin" \in odd' \/ ~in_position(eng')
           /\ "cut" \in odd \/ ~today \/ closed # {}
                 => "cut" \in odd' \/ in_position(eng') \/ Flat(leg')
           /\ "lift" \in odd \/ (st /\ Lasting(e.halt))
                 \/ (~today /\ StaleHalt(e, st).halt # NoHalt) => "lift" \in odd'
           /\ "blind" \in odd => "blind" \in odd'
           /\ "stale" \in odd => "stale" \in odd'
<1> DEFINE tags == odd
         \union Tag((r.sig # "none" /\ eng.kind = "orb") \/ bs, "lost")
         \union Tag(~today \/ closed # {}, "cut")
         \union Tag((st /\ overwrites(e, "pg_feed_stale"))
                    \/ (~today /\ StaleHalt(e, st).halt # NoHalt), "lift")
<1>1. odd' = Tidy(tags, eng', leg')
  BY Zenon DEF EodTo
<1>2. tags \subseteq Odd
  BY DEF Tag, Odd
<1>3. /\ "lost" \in tags <=> "lost" \in odd \/ (r.sig # "none" /\ eng.kind = "orb") \/ bs
      /\ "twin" \in tags <=> "twin" \in odd
      /\ "cut" \in tags <=> "cut" \in odd \/ ~today \/ closed # {}
      /\ "lift" \in tags <=> "lift" \in odd \/ (st /\ Lasting(e.halt))
                             \/ (~today /\ StaleHalt(e, st).halt # NoHalt)
      /\ "blind" \in tags <=> "blind" \in odd
      /\ "stale" \in tags <=> "stale" \in odd
  BY DEF Tag, overwrites, Lasting
<1> HIDE DEF tags
<1>4. odd' \subseteq Odd
  BY <1>1, <1>2, TidyType
<1> QED
  BY <1>1, <1>3, <1>4, TidyMember

LEMMA EodTickPreserves ==
    ASSUME LiveInv, EodTick
    PROVE  LiveInv'
<1> USE DEF LiveInv
<1>1. PICK r, e, l, bs, st : EodTo(r, e, l, bs, st)
  BY EodFacts
<1>2. /\ run \in {"up", "drain"} /\ run' = run /\ warm' = warm /\ phase' = phase
      /\ closed' = {} /\ today' = TRUE /\ exch' = exch /\ pnl' = pnl
      /\ drops' = drops /\ hist' = hist /\ mkt' = mkt
  BY DEF EodTick
<1>3. /\ leg \in LegStates /\ EngineInv(eng) /\ odd \subseteq Odd /\ today \in BOOLEAN
      /\ in_position(eng) \in BOOLEAN
  BY KindCases DEF TypeOK, Sound
<1>4. /\ Kept(eng, e) /\ e.halt = eng.halt
      /\ l = leg \/ l = flatten_leg(leg)
      /\ \/ in_position(e) = in_position(eng) /\ (eng.kind = "mtf" => e.pos = eng.pos)
         \/ ~in_position(e) /\ Flat(l) /\ ~warm
      /\ l # leg /\ Flat(l) /\ in_position(e) => r.sig # "none" /\ eng.kind = "orb"
      /\ bs \in BOOLEAN /\ st \in BOOLEAN /\ (bs => ~Flat(l))
      /\ leg' = IF bs THEN flatten_leg(l) ELSE l
      /\ back' \in BOOLEAN /\ feed' \in BOOLEAN
      /\ tries' = IF today THEN tries ELSE NoTries
  BY <1>1, Zenon DEF EodTo
<1>5. eng' = report_closed(NewDay(StaleHalt(e, st)))
  BY <1>1 DEF EodTo
<1>6. EngineInv(e) /\ Alike(eng, e)
  BY <1>4 DEF Kept
<1>7. PassStep(e, st, eng')
  BY <1>4, <1>5, <1>6, PassFacts
<1>8. EngineInv(eng') /\ Alike(eng, eng') /\ in_position(eng') \in BOOLEAN
      /\ eng'.kind = eng.kind /\ e.kind = eng.kind
  BY <1>6, <1>7, KindCases DEF PassStep, Alike
<1>9. /\ odd' \subseteq Odd
      /\ "lost" \in odd \/ (r.sig # "none" /\ eng.kind = "orb") \/ bs
            => "lost" \in odd' \/ ~in_position(eng') \/ ~Flat(leg')
      /\ "twin" \in odd => "twin" \in odd' \/ ~in_position(eng')
      /\ "cut" \in odd \/ ~today \/ closed # {}
            => "cut" \in odd' \/ in_position(eng') \/ Flat(leg')
      /\ "lift" \in odd \/ (st /\ Lasting(e.halt))
            \/ (~today /\ StaleHalt(e, st).halt # NoHalt) => "lift" \in odd'
      /\ "blind" \in odd => "blind" \in odd'
      /\ "stale" \in odd => "stale" \in odd'
  BY <1>1, <1>3, EodTags
\* The leg is as it was or asked to exit.
<1>10. /\ leg' = leg \/ leg' = flatten_leg(leg)
       /\ leg' \in LegStates /\ Booked(leg') = Booked(leg)
       /\ ~Flat(leg') => ~Flat(leg) /\ leg'.dir = leg.dir /\ ~Flat(l)
       /\ leg = NoLeg => leg' = NoLeg
  <2>1. l \in LegStates /\ flatten_leg(flatten_leg(leg)) = flatten_leg(leg)
    BY <1>3, <1>4, FlattenLeg
  <2>2. leg' = leg \/ leg' = flatten_leg(leg)
    BY <1>4, <2>1
  <2>3. flatten_leg(leg) \in LegStates /\ Booked(flatten_leg(leg)) = Booked(leg)
    BY <1>3, FlattenLeg
  <2>4. ~Flat(leg') => ~Flat(leg) /\ leg'.dir = leg.dir
    BY <1>3, <2>2, FlattenLeg, LegCases DEF Flat
  <2>5. ~Flat(leg') => ~Flat(l)
    BY <1>4, <2>1, FlattenLeg, LegCases DEF Flat
  <2>6. flatten_leg(NoLeg) = NoLeg
    BY NoLegFlat DEF flatten_leg
  <2> QED
    BY <1>3, <2>2, <2>3, <2>4, <2>5, <2>6
<1>11. TypeOK'
  <2>1. eng' \in EngineStates
    BY <1>8, EngineStateType
  <2>2. tries' \in [Sides -> 0 .. 2]
    BY <1>4, NoTriesFacts DEF TypeOK
  <2> QED
    BY <1>2, <1>4, <1>9, <1>10, <2>1, <2>2 DEF TypeOK
<1>12. Sound'
  BY <1>8 DEF Sound, Alike
<1>13. Strays' /\ Blank'
  BY <1>2, <1>8, <1>10 DEF Strays, Blank
<1>14. InStep'
  <2>1. SUFFICES ASSUME run = "up", ~warm, in_position(eng')
                 PROVE  InStep'
    BY <1>2 DEF InStep
  <2>2. /\ in_position(e) /\ in_position(eng) /\ (eng.kind = "mtf" => e.pos = eng.pos)
        /\ closed = {} \/ eng.kind = "mtf"
        /\ eng.kind = "mtf" => eng'.pos = eng.pos /\ \A c \in closed : eng.pos # c.dir
    BY <1>3, <1>4, <1>7, <1>8, <2>1 DEF PassStep, in_position
  <2>3. Flat(leg') => "lost" \in odd' \/ "twin" \in odd'
    <3>1. CASE bs \/ l # leg
      BY <1>4, <1>9, <2>1, <2>2, <3>1
    <3>2. CASE ~bs /\ l = leg
      <4>1. leg' = leg
        BY <1>4, <3>2
      <4> QED
        BY <1>9, <2>1, <2>2, <4>1 DEF InStep
    <3> QED
      BY <3>1, <3>2
  <2>4. eng'.kind = "mtf" /\ ~Flat(leg') /\ eng'.pos # leg'.dir => "twin" \in odd'
    BY <1>8, <1>9, <1>10, <2>1, <2>2 DEF InStep
  <2> QED
    BY <2>3, <2>4 DEF InStep
<1>15. LegHasEngine'
  <2>1. SUFFICES ASSUME run = "up", ~Flat(leg'), ~in_position(eng')
                 PROVE  "cut" \in odd'
    BY <1>2 DEF LegHasEngine
  <2>2. CASE ~today \/ closed # {}
    BY <1>9, <2>1, <2>2
  <2>3. CASE today /\ closed = {}
    <3>1. ~in_position(e)
      BY <1>7, <2>1, <2>3 DEF PassStep
    <3>2. ~in_position(eng) /\ ~Flat(leg)
      BY <1>3, <1>4, <1>10, <2>1, <3>1
    <3> QED
      BY <1>9, <2>1, <3>2 DEF LegHasEngine
  <2> QED
    BY <1>3, <2>2, <2>3
<1>16. Guarded'
  <2>1. Lasting(eng.halt) => Lasting(eng'.halt) \/ "lift" \in odd'
    <3>1. StaleHalt(e, st).halt = IF st THEN "pg_feed_stale" ELSE e.halt
      BY <1>4, <1>6, StaleHaltStep
    <3>2. "pg_feed_stale" # NoHalt
      BY DEF NoHalt
    <3> QED
      BY <1>3, <1>4, <1>7, <1>9, <3>1, <3>2 DEF PassStep, Lasting
  <2>2. Lifted => Lifted'
    BY <1>9 DEF Lifted
  <2> QED
    BY <1>2, <1>10, <2>1, <2>2 DEF Guarded, Lifted
<1>17. Tried'
  <2>1. CASE today
    <3>1. /\ eng'.kind = eng.kind /\ eng'.mode = eng.mode /\ tries' = tries
          /\ eng.kind = "trend" => eng'.done = eng.done /\ eng'.used = eng.used
                                   /\ eng'.inRth = eng.inRth
      BY <1>4, <1>6, <1>7, <1>8, <2>1 DEF PassStep, Kept, Alike
    <3> QED
      BY <1>2, <3>1 DEF Tried, Once
  <2>2. CASE ~today
    BY <1>4, <2>2, TriedAnew
  <2> QED
    BY <1>3, <2>1, <2>2
<1>18. Streaked'
  <2>1. SUFFICES ASSUME eng.kind = "mtf"
                 PROVE  hist = eng'.streak
    BY <1>2, <1>8 DEF Streaked
  <2>2. e.streak = eng.streak
    BY <1>4, <2>1 DEF Kept
  <2>3. CASE closed = {}
    BY <1>7, <1>8, <2>1, <2>2, <2>3 DEF PassStep, Streaked
  <2>4. ASSUME NEW c, closed = {c}
        PROVE  hist = eng'.streak
    BY <1>7, <1>8, <2>1, <2>2, <2>4 DEF PassStep, Streaked, NextStreak
  <2> QED
    BY <2>3, <2>4, ClosedCases
<1>19. Anchored'
  BY <1>2, <1>4, <1>7, <1>8, <1>9 DEF PassStep, Kept, Anchored
<1> QED
  BY <1>11, <1>12, <1>13, <1>14, <1>15, <1>16, <1>17, <1>18, <1>19

LEMMA LiveTypes ==
    ASSUME LiveInv
    PROVE  /\ EngineInv(eng) /\ leg \in LegStates /\ odd \subseteq Odd
           /\ exch \in Int /\ drops \in 0 .. MaxDrops /\ MaxDrops \in Nat
           /\ in_position(eng) \in BOOLEAN /\ Booked(leg) \in -1 .. 1
           /\ warm \in BOOLEAN /\ today \in BOOLEAN
<1>1. EngineInv(eng) /\ leg \in LegStates /\ odd \subseteq Odd /\ drops \in 0 .. MaxDrops
      /\ exch \in -(MaxDrops + 1) .. (MaxDrops + 1) /\ warm \in BOOLEAN /\ today \in BOOLEAN
  BY DEF LiveInv, Sound, TypeOK
<1>2. MaxDrops \in Nat
  BY LiveAssumption
<1>3. exch \in Int
  BY <1>1, <1>2
<1>4. Booked(leg) \in -1 .. 1
  BY <1>1, LegCases DEF Booked, Sides
<1> QED
  BY <1>1, <1>2, <1>3, <1>4, KindCases

LEMMA EntryFillPreserves ==
    ASSUME LiveInv, EntryFill
    PROVE  LiveInv'
<1> USE DEF LiveInv
<1>1. /\ run \in {"up", "drain"} /\ leg.st = "PEND" /\ leg' = [leg EXCEPT !.st = "OPEN"]
      /\ exch' = exch + leg.dir
      /\ phase' = phase /\ closed' = closed /\ today' = today /\ run' = run /\ feed' = feed
      /\ warm' = warm /\ pnl' = pnl /\ back' = back /\ drops' = drops /\ odd' = odd
      /\ mkt' = mkt /\ tries' = tries /\ hist' = hist
  BY DEF EntryFill
<1>2. leg.dir \in Sides /\ leg' = [st |-> "OPEN", dir |-> leg.dir]
  BY <1>1, LegCases, LiveTypes
<1>3. /\ leg' \in LegStates /\ ~Flat(leg) /\ ~Flat(leg') /\ leg'.dir = leg.dir
      /\ Booked(leg) = 0 /\ Booked(leg') = leg.dir /\ leg # NoLeg
  BY <1>1, <1>2, NoLegFlat DEF LegStates, Flat, Booked
<1>4. Untouched(eng, eng')
  <2>1. PICK fill \in Sides :
          eng' = IF eng.kind = "mtf" THEN notify_entry_filled(eng, leg.dir, fill) ELSE eng
    BY DEF EntryFill
  <2>2. eng.kind = "mtf" => Untouched(eng, notify_entry_filled(eng, leg.dir, fill))
    BY <1>2, LiveTypes, KindCases, EntryFilledStep
  <2> QED
    BY <2>1, <2>2, LiveTypes, UntouchedItself
<1>5. /\ Kept(eng, eng') /\ EngineInv(eng') /\ Alike(eng, eng')
      /\ in_position(eng') = in_position(eng) /\ eng'.halt = eng.halt
      /\ eng.kind = "mtf" => eng'.pos = eng.pos
  BY <1>4 DEF Untouched, Kept
<1>6. Strays'
  <2>1. exch' - Booked(leg') = exch - Booked(leg)
    BY <1>1, <1>2, <1>3, LiveTypes DEF Sides
  <2> QED
    BY <1>1, <2>1 DEF Strays
<1>7. TypeOK'
  <2>1. eng' \in EngineStates
    BY <1>5, EngineStateType
  <2>2. exch' \in -(MaxDrops + 1) .. (MaxDrops + 1)
    BY <1>1, <1>2, <1>3, LiveTypes DEF Strays, Sides
  <2> QED
    BY <1>1, <1>3, <2>1, <2>2 DEF TypeOK
<1>8. Sound' /\ Blank' /\ InStep' /\ LegHasEngine'
  BY <1>1, <1>3, <1>5 DEF Sound, Blank, InStep, LegHasEngine, Alike
<1>9. Guarded'
  <2>1. exch' # Booked(leg') <=> exch # Booked(leg)
    BY <1>1, <1>2, <1>3, LiveTypes DEF Sides
  <2> QED
    BY <1>1, <1>3, <1>5, <2>1 DEF Guarded, Lifted
<1>10. Tried' /\ Streaked' /\ Anchored'
  BY <1>1, <1>5, TriedKept, StreakedKept, AnchoredKept
<1> QED
  BY <1>6, <1>7, <1>8, <1>9, <1>10

LEMMA EntryDiesPreserves ==
    ASSUME LiveInv, EntryDies
    PROVE  LiveInv'
<1> USE DEF LiveInv
<1>1. /\ run \in {"up", "drain"} /\ leg.st = "PEND" /\ leg' = NoLeg
      /\ odd' = Tidy(odd \union {"lost"}, eng, NoLeg)
      /\ eng' = eng /\ phase' = phase /\ closed' = closed /\ today' = today /\ run' = run
      /\ feed' = feed /\ warm' = warm /\ exch' = exch /\ pnl' = pnl /\ back' = back
      /\ drops' = drops /\ mkt' = mkt /\ tries' = tries /\ hist' = hist
  BY DEF EntryDies
<1>2. Booked(leg') = Booked(leg) /\ ~Flat(leg) /\ Flat(leg') /\ leg' \in LegStates
  BY <1>1, NoLegFlat DEF Booked, Flat
<1>3. /\ odd' \subseteq Odd /\ ("stale" \in odd => "stale" \in odd')
      /\ ("lift" \in odd => "lift" \in odd') /\ ("blind" \in odd => "blind" \in odd')
      /\ in_position(eng) => "lost" \in odd'
  BY <1>1, LiveTypes, NoLegFlat, TidyMember, TidyType DEF Odd
<1>4. Kept(eng, eng')
  BY <1>1, LiveTypes, UntouchedItself DEF Untouched
<1>5. TypeOK' /\ Sound' /\ Strays' /\ Blank'
  BY ZenonT(60), <1>1, <1>2, <1>3 DEF TypeOK, Sound, Strays, Blank
<1>6. InStep' /\ LegHasEngine' /\ Guarded'
  BY <1>1, <1>2, <1>3 DEF InStep, LegHasEngine, Guarded, Lifted
<1>7. Tried' /\ Streaked' /\ Anchored'
  BY <1>1, <1>3, <1>4, TriedKept, StreakedKept, AnchoredKept
<1> QED
  BY <1>5, <1>6, <1>7

LEMMA LegClosesPreserves ==
    ASSUME LiveInv, LegCloses
    PROVE  LiveInv'
<1> USE DEF LiveInv
<1>1. /\ run \in {"up", "drain"} /\ leg.st \in {"OPEN", "EXIT"} /\ leg' = NoLeg
      /\ exch' = exch - leg.dir /\ odd' = Tidy(odd, eng, NoLeg)
      /\ eng' = eng /\ phase' = phase /\ today' = today /\ run' = run
      /\ feed' = feed /\ warm' = warm /\ pnl' = pnl /\ back' = back
      /\ drops' = drops /\ mkt' = mkt /\ tries' = tries
  BY DEF LegCloses
<1>2. PICK loss \in BOOLEAN :
        /\ closed' = {[dir |-> leg.dir, loss |-> loss /\ eng.kind = "mtf"]}
        /\ hist' = Bump(loss)
  BY DEF LegCloses
<1> DEFINE lost == loss /\ eng.kind = "mtf"
           c == [dir |-> leg.dir, loss |-> lost]
<1>3. lost \in BOOLEAN /\ (eng.kind = "mtf" => lost = loss)
  BY Zenon
<1>4. leg.dir \in Sides
  BY <1>1, LegCases, LiveTypes
<1>5. /\ Booked(leg) = leg.dir /\ Booked(leg') = 0 /\ ~Flat(leg) /\ Flat(leg')
      /\ leg' \in LegStates /\ leg # NoLeg
  BY <1>1, NoLegFlat DEF Booked, Flat
<1> HIDE DEF lost
<1>6. /\ closed' = {c} /\ c.dir = leg.dir /\ c.loss = lost
      /\ c \in [dir : Sides, loss : BOOLEAN]
  BY <1>2, <1>3, <1>4 DEF lost
<1> HIDE DEF c
<1>7. /\ odd' \subseteq Odd /\ ("stale" \in odd => "stale" \in odd')
      /\ ("lift" \in odd => "lift" \in odd') /\ ("blind" \in odd => "blind" \in odd')
      /\ in_position(eng) /\ "twin" \in odd => "twin" \in odd'
  BY <1>1, LiveTypes, NoLegFlat, TidyMember, TidyType
<1>8. Kept(eng, eng')
  BY <1>1, LiveTypes, UntouchedItself DEF Untouched
<1>9. Strays'
  <2>1. exch' - Booked(leg') = exch - Booked(leg)
    BY <1>1, <1>4, <1>5, LiveTypes DEF Sides
  <2> QED
    BY <1>1, <2>1 DEF Strays
<1>10. hist' \in 0 .. CoolAfter
       /\ (eng.kind = "mtf" => hist' = NextStreak(eng, lost))
  <2>1. CASE eng.kind # "mtf"
    BY <1>2, <2>1, MtfConstants DEF Bump
  <2>2. CASE eng.kind = "mtf"
    <3>1. eng.streak \in 0 .. CoolAfter
      BY <2>2, LiveTypes, KindCases, MtfFields DEF MtfInv
    <3>2. hist' = IF ~loss THEN 0 ELSE MinOf(eng.streak + 1, CoolAfter)
      BY <1>2, <2>2 DEF Bump, Streak, Streaked
    <3>3. MinOf(eng.streak + 1, CoolAfter) \in 0 .. CoolAfter /\ 0 \in 0 .. CoolAfter
      BY <3>1, MinOfNat, MtfConstants
    <3> QED
      BY <1>3, <2>2, <3>2, <3>3 DEF NextStreak
  <2> QED
    BY <2>1, <2>2
<1>11. TypeOK'
  <2>1. exch' \in -(MaxDrops + 1) .. (MaxDrops + 1)
    BY <1>1, <1>4, <1>5, LiveTypes DEF Strays, Sides
  <2> QED
    BY <1>1, <1>5, <1>6, <1>7, <1>10, <2>1 DEF TypeOK
<1>12. Sound' /\ Blank' /\ LegHasEngine'
  BY <1>1, <1>5, <1>6 DEF Sound, Blank, LegHasEngine
<1>13. InStep'
  <2>1. run' = "up" /\ in_position(eng') /\ eng.kind = "mtf" /\ eng.pos # c.dir /\ ~warm
          => "twin" \in odd'
    BY <1>1, <1>5, <1>6, <1>7 DEF InStep
  <2> QED
    BY <1>1, <1>5, <1>6, <2>1 DEF InStep
<1>14. Guarded'
  <2>1. exch' # Booked(leg') <=> exch # Booked(leg)
    BY <1>1, <1>4, <1>5, LiveTypes DEF Sides
  <2> QED
    BY <1>1, <1>5, <1>7, <2>1 DEF Guarded, Lifted
<1>15. Streaked'
  BY <1>1, <1>6, <1>10 DEF Streaked
<1>16. Tried' /\ Anchored'
  BY <1>1, <1>7, <1>8, TriedKept, AnchoredKept
<1> QED
  BY <1>9, <1>11, <1>12, <1>13, <1>14, <1>15, <1>16

LEMMA ExitFailsPreserves ==
    ASSUME LiveInv, ExitFails
    PROVE  LiveInv'
<1> USE DEF LiveInv
<1>1. /\ run \in {"up", "drain"} /\ leg.st = "EXIT" /\ leg' = [leg EXCEPT !.st = "OPEN"]
      /\ eng' = eng /\ phase' = phase /\ closed' = closed /\ today' = today /\ run' = run
      /\ feed' = feed /\ warm' = warm /\ exch' = exch /\ pnl' = pnl /\ back' = back
      /\ drops' = drops /\ odd' = odd /\ mkt' = mkt /\ tries' = tries /\ hist' = hist
  BY DEF ExitFails
<1>2. leg.dir \in Sides /\ leg' = [st |-> "OPEN", dir |-> leg.dir]
  BY <1>1, LegCases, LiveTypes
<1>3. /\ leg' \in LegStates /\ ~Flat(leg) /\ ~Flat(leg') /\ leg'.dir = leg.dir
      /\ Booked(leg') = Booked(leg) /\ leg # NoLeg
  BY <1>1, <1>2, NoLegFlat DEF LegStates, Flat, Booked
<1>4. Kept(eng, eng')
  BY <1>1, LiveTypes, UntouchedItself DEF Untouched
<1>5. TypeOK' /\ Sound' /\ Strays' /\ Blank'
  BY <1>1, <1>3 DEF TypeOK, Sound, Strays, Blank
<1>6. InStep' /\ LegHasEngine' /\ Guarded'
  BY <1>1, <1>3 DEF InStep, LegHasEngine, Guarded, Lifted
<1>7. Tried' /\ Streaked' /\ Anchored'
  BY <1>1, <1>4, TriedKept, StreakedKept, AnchoredKept
<1> QED
  BY <1>5, <1>6, <1>7

LEMMA OfflineFillPreserves ==
    ASSUME LiveInv, OfflineFill
    PROVE  LiveInv'
<1> USE DEF LiveInv
<1>1. /\ run \in {"down", "off"} /\ ~Flat(leg) /\ leg' = leg
      /\ exch' = IF exch = 0 /\ leg.st = "PEND" THEN leg.dir ELSE 0
      /\ eng' = eng /\ phase' = phase /\ closed' = closed /\ today' = today /\ run' = run
      /\ feed' = feed /\ warm' = warm /\ pnl' = pnl /\ back' = back
      /\ drops' = drops /\ odd' = odd /\ mkt' = mkt /\ tries' = tries /\ hist' = hist
  BY DEF OfflineFill
<1>2. leg.dir \in Sides /\ drops > 0 /\ drops \in Nat /\ drops <= MaxDrops
  BY <1>1, LegCases, LiveTypes DEF Flat, Strays
<1>3. exch' \in -drops .. drops /\ exch' \in -(MaxDrops + 1) .. (MaxDrops + 1)
  BY <1>1, <1>2, LiveTypes DEF Sides
<1>4. Kept(eng, eng')
  BY <1>1, LiveTypes, UntouchedItself DEF Untouched
<1>5. TypeOK' /\ Sound' /\ Strays' /\ Blank'
  BY <1>1, <1>2, <1>3 DEF TypeOK, Sound, Strays, Blank
<1>6. InStep' /\ LegHasEngine' /\ Guarded'
  BY <1>1 DEF InStep, LegHasEngine, Guarded
<1>7. Tried' /\ Streaked' /\ Anchored'
  BY <1>1, <1>4, TriedKept, StreakedKept, AnchoredKept
<1> QED
  BY <1>5, <1>6, <1>7

\* A halt given or lifted.
LEMMA RehaltedTo ==
    ASSUME NEW e, EngineInv(e), NEW h \in Halts, NEW f, f = [e EXCEPT !.halt = h]
    PROVE  /\ Rehalted(e, f) /\ Kept(e, f) /\ EngineInv(f) /\ Alike(e, f) /\ f.halt = h
           /\ in_position(f) = in_position(e) /\ f.kind = e.kind
           /\ e.kind = "mtf" => f.pos = e.pos
BY HaltKept DEF Rehalted, Kept, Alike

LEMMA SnapshotPreserves ==
    ASSUME LiveInv, Snapshot
    PROVE  LiveInv'
<1> USE DEF LiveInv
<1>1. /\ run = "up" /\ pnl = "wait" /\ pnl' = "known"
      /\ phase' = phase /\ leg' = leg /\ closed' = closed /\ today' = today /\ run' = run
      /\ feed' = feed /\ warm' = warm /\ back' = back /\ drops' = drops /\ odd' = odd
      /\ mkt' = mkt /\ tries' = tries /\ hist' = hist
  BY DEF Snapshot
<1>2. EngineInv(eng) /\ leg \in LegStates
  BY LiveTypes
\* The engine is as it was, or its halt was lifted or given.
<1>3. \/ /\ exch = 0 \/ consistent
         /\ exch' = exch /\ (eng' = eng \/ eng' = [eng EXCEPT !.halt = NoHalt])
      \/ ~consistent /\ exch' = 0 /\ eng' = [eng EXCEPT !.halt = NoHalt]
      \/ exch' = exch /\ eng' = [eng EXCEPT !.halt = "startup_ghost_unwind_failed"]
  BY DEF Snapshot, unhalt_trading, halt_trading
<1>4. /\ Kept(eng, eng') /\ in_position(eng') = in_position(eng)
      /\ eng.kind = "mtf" => eng'.pos = eng.pos
  <2>1. "startup_ghost_unwind_failed" \in Halts
    BY DEF Halts
  <2>2. CASE eng' = eng
    BY <1>2, <2>2, UntouchedItself DEF Untouched
  <2>3. CASE eng' = [eng EXCEPT !.halt = NoHalt]
    BY <1>2, <2>3, RehaltedTo, NoHaltIsReason
  <2>4. CASE eng' = [eng EXCEPT !.halt = "startup_ghost_unwind_failed"]
    BY <1>2, <2>1, <2>4, RehaltedTo
  <2> QED
    BY <1>3, <2>2, <2>3, <2>4
<1>5. EngineInv(eng') /\ Alike(eng, eng')
  BY <1>4 DEF Kept
<1>6. Strays'
  <2>1. exch' = exch \/ exch' = 0
    BY <1>3
  <2>2. CASE exch' = exch
    BY <1>1, <2>2 DEF Strays
  <2>3. CASE exch' = 0 /\ drops > 0
    <3>1. 0 - Booked(leg) \in -drops .. drops
      BY <2>3, LiveTypes
    <3> QED
      BY <1>1, <2>3, <3>1 DEF Strays
  <2>4. CASE exch' = 0 /\ drops = 0
    <3>1. exch = Booked(leg)
      <4>1. exch - Booked(leg) \in -drops .. drops
        BY <1>1 DEF Strays
      <4> QED
        BY <2>4, <4>1, LiveTypes
    <3>2. consistent
      BY <1>2, <3>1, LegCases DEF consistent, Booked
    <3>3. exch' = exch \/ eng' = [eng EXCEPT !.halt = "startup_ghost_unwind_failed"]
      BY <1>3, <3>2
    <3>4. exch' = exch
      BY <1>3, <3>2
    <3> QED
      BY <1>1, <3>4 DEF Strays
  <2> QED
    BY <2>1, <2>2, <2>3, <2>4, LiveTypes
<1>7. TypeOK'
  <2>1. eng' \in EngineStates
    BY <1>5, EngineStateType
  <2>2. exch' \in -(MaxDrops + 1) .. (MaxDrops + 1)
    BY <1>3, LiveTypes DEF TypeOK
  <2> QED
    BY <1>1, <2>1, <2>2 DEF TypeOK
<1>8. Sound' /\ Blank' /\ InStep' /\ LegHasEngine'
  BY <1>1, <1>4, <1>5 DEF Sound, Blank, InStep, LegHasEngine, Alike
<1>9. Guarded'
  <2>1. Lifted' <=> Lifted
    BY <1>1 DEF Lifted
  <2>2. ~Flat(leg) /\ exch # Booked(leg) => Lifted
    BY <1>1 DEF Guarded
  <2>3. CASE eng' = [eng EXCEPT !.halt = "startup_ghost_unwind_failed"] /\ exch' = exch
    <3>1. Lasting(eng'.halt)
      <4>1. "startup_ghost_unwind_failed" \in Halts
        BY DEF Halts
      <4>2. eng'.halt = "startup_ghost_unwind_failed"
        BY <1>2, <2>3, <4>1, RehaltedTo
      <4> QED
        BY <4>2 DEF Lasting, NoHalt
    <3> QED
      BY <1>1, <2>1, <2>2, <2>3, <3>1 DEF Guarded
  <2>4. CASE (exch = 0 \/ consistent) /\ exch' = exch
    <3>1. exch # Booked(leg) => ~Flat(leg)
      BY <1>2, <2>4, LegCases DEF consistent, Booked, Flat
    <3> QED
      BY <1>1, <2>1, <2>2, <2>4, <3>1 DEF Guarded
  <2>5. CASE ~consistent /\ exch' = 0
    <3>1. exch' # Booked(leg) => ~Flat(leg) /\ exch # Booked(leg)
      BY <1>2, <2>5, LegCases DEF consistent, Booked, Flat
    <3> QED
      BY <1>1, <2>1, <2>2, <3>1 DEF Guarded
  <2> QED
    BY <1>3, <2>3, <2>4, <2>5
<1>10. Tried' /\ Streaked' /\ Anchored'
  BY <1>1, <1>4, TriedKept, StreakedKept, AnchoredKept
<1> QED
  BY <1>6, <1>7, <1>8, <1>9, <1>10

\* The end of a process, however it comes.
LEMMA EndedPreserves ==
    ASSUME LiveInv, Ended, phase' = phase, leg' = leg, today' = today, exch' = exch,
           drops' \in 0 .. MaxDrops, exch \in -drops' .. drops', ~Flat(leg) => drops' > 0
    PROVE  LiveInv'
<1> USE DEF LiveInv
<1>1. /\ run' = "off" /\ eng' = Fresh(eng) /\ closed' = {} /\ feed' = FALSE /\ warm' = FALSE
      /\ pnl' = "none" /\ back' = FALSE /\ odd' = {} /\ mkt' = NoPrice /\ tries' = NoTries
      /\ hist' = 0
  BY DEF Ended
<1>2. Newborn(eng') /\ Alike(eng, eng')
  BY <1>1, LiveTypes, FreshStep
<1>3. TypeOK'
  <2>1. eng' \in EngineStates
    BY <1>2, EngineStateType DEF Newborn
  <2>2. exch' \in -(MaxDrops + 1) .. (MaxDrops + 1)
    <3>1. MaxDrops \in Nat
      BY LiveAssumption
    <3>2. exch \in -drops' .. drops' /\ drops' \in 0 .. MaxDrops /\ exch' = exch
      OBVIOUS
    <3>3. \A x, n : n \in 0 .. MaxDrops /\ x \in -n .. n
                      => x \in -(MaxDrops + 1) .. (MaxDrops + 1)
      BY <3>1
    <3> QED
      BY <3>2, <3>3
  <2>3. hist' \in 0 .. CoolAfter
    BY <1>1, MtfConstants
  <2> QED
    BY <1>1, <2>1, <2>2, <2>3, NoTriesFacts DEF TypeOK
<1>4. Sound' /\ Strays' /\ Blank' /\ InStep' /\ LegHasEngine' /\ Guarded'
  BY <1>1, <1>2 DEF Sound, Strays, Blank, InStep, LegHasEngine, Guarded, Newborn, Alike
<1>5. Tried' /\ Streaked' /\ Anchored'
  BY <1>1, <1>2, TriedAnew DEF Streaked, Anchored, Newborn
<1> QED
  BY <1>3, <1>4, <1>5

LEMMA CycleEndsPreserves ==
    ASSUME LiveInv, CycleEnds, phase' = phase, leg' = leg, today' = today, exch' = exch,
           drops < MaxDrops, drops' = drops + 1
    PROVE  LiveInv'
<1> USE DEF LiveInv
<1>1. /\ run = "up" /\ run' = "down" /\ closed' = {}
      /\ hist' = IF closed = {} THEN hist ELSE Streak(eng)
      /\ eng' = eng /\ feed' = feed /\ warm' = warm /\ pnl' = pnl /\ back' = back
      /\ odd' = odd /\ mkt' = mkt /\ tries' = tries
  BY DEF CycleEnds
<1>2. Kept(eng, eng')
  BY <1>1, LiveTypes, UntouchedItself DEF Untouched
<1>3. eng.kind = "mtf" => eng.streak \in 0 .. CoolAfter /\ hist' = eng.streak
  BY <1>1, LiveTypes, KindCases, MtfFields DEF MtfInv, Streak, Streaked
<1>4. TypeOK'
  <2>1. hist' \in 0 .. CoolAfter
    BY <1>1, <1>3, MtfConstants DEF TypeOK, Streak
  <2>2. drops' \in 0 .. MaxDrops
    BY LiveTypes
  <2> QED
    BY <1>1, <2>1, <2>2 DEF TypeOK
<1>5. Strays'
  <2>1. exch \in -(drops + 1) .. (drops + 1) /\ drops + 1 > 0
    BY <1>1, LiveTypes DEF Strays
  <2> QED
    BY <1>1, <2>1 DEF Strays
<1>6. Sound' /\ Blank' /\ InStep' /\ LegHasEngine'
  BY <1>1 DEF Sound, Blank, InStep, LegHasEngine
<1>7. Guarded'
  BY <1>1 DEF Guarded, Lifted, Flat, Booked
<1>8. Tried' /\ Streaked' /\ Anchored'
  BY <1>1, <1>2, <1>3, TriedKept, AnchoredKept DEF Streaked
<1> QED
  BY <1>4, <1>5, <1>6, <1>7, <1>8

LEMMA DisconnectPreserves ==
    ASSUME LiveInv, Disconnect
    PROVE  LiveInv'
<1>1. /\ run \in {"up", "drain"} /\ drops < MaxDrops /\ drops' = drops + 1
      /\ phase' = phase /\ leg' = leg /\ today' = today /\ exch' = exch
      /\ CycleEnds \/ (run = "drain" /\ Ended)
  BY DEF Disconnect, MayDrop
<1>2. CASE CycleEnds
  BY <1>1, <1>2, CycleEndsPreserves
<1>3. CASE run = "drain" /\ Ended
  <2>1. drops' \in 0 .. MaxDrops /\ exch \in -drops' .. drops' /\ drops' > 0
    BY <1>1, <1>3, LiveTypes DEF LiveInv, Strays
  <2> QED
    BY <1>1, <1>3, <2>1, EndedPreserves
<1> QED
  BY <1>1, <1>2, <1>3

LEMMA DrainEndsPreserves ==
    ASSUME LiveInv, DrainEnds
    PROVE  LiveInv'
<1>1. /\ run = "drain" /\ Ended /\ drops' = drops
      /\ phase' = phase /\ leg' = leg /\ today' = today /\ exch' = exch
  BY DEF DrainEnds
<1>2. drops' \in 0 .. MaxDrops /\ exch \in -drops' .. drops' /\ drops' > 0
  BY <1>1, LiveTypes DEF LiveInv, Strays
<1> QED
  BY <1>1, <1>2, EndedPreserves

LEMMA CrashPreserves ==
    ASSUME LiveInv, Crash
    PROVE  LiveInv'
<1>1. /\ run \in {"up", "down"} /\ Ended /\ drops' = drops + 1 /\ drops < MaxDrops
      /\ phase' = phase /\ leg' = leg /\ today' = today /\ exch' = exch
  BY DEF Crash, MayDrop
<1>2. drops' \in 0 .. MaxDrops /\ exch \in -drops' .. drops' /\ drops' > 0
  BY <1>1, LiveTypes DEF LiveInv, Strays
<1> QED
  BY <1>1, <1>2, EndedPreserves

LEMMA ShutdownPreserves ==
    ASSUME LiveInv, Shutdown
    PROVE  LiveInv'
<1> USE DEF LiveInv
<1>1. /\ run = "up" /\ drops < MaxDrops /\ drops' = drops + 1 /\ run' = "drain"
      /\ eng' = [eng EXCEPT !.halt = "shutdown"] /\ leg' = flatten_leg(leg)
      /\ odd' = Tidy(odd \union {"lost"}, eng, leg')
      /\ phase' = phase /\ closed' = closed /\ today' = today
      /\ feed' = feed /\ warm' = warm /\ exch' = exch /\ pnl' = pnl /\ back' = back
      /\ mkt' = mkt /\ tries' = tries /\ hist' = hist
  BY DEF Shutdown, MayDrop, halt_trading
<1>2. "shutdown" \in Halts
  BY DEF Halts
<1>3. Kept(eng, eng') /\ EngineInv(eng') /\ Alike(eng, eng')
  BY <1>1, <1>2, LiveTypes, RehaltedTo
<1>4. leg' \in LegStates /\ Booked(leg') = Booked(leg) /\ (leg = NoLeg => leg' = NoLeg)
  BY <1>1, LiveTypes, FlattenLeg, NoLegFlat
<1>5. odd' \subseteq Odd /\ ("stale" \in odd => "stale" \in odd')
  BY <1>1, LiveTypes, TidyMember, TidyType DEF Odd
<1>6. TypeOK'
  <2>1. eng' \in EngineStates /\ drops' \in 0 .. MaxDrops
    BY <1>1, <1>3, LiveTypes, EngineStateType
  <2> QED
    BY <1>1, <1>4, <1>5, <2>1 DEF TypeOK
<1>7. Strays'
  <2>1. drops' > 0 /\ exch' - Booked(leg') \in -(drops' - 1) .. (drops' - 1)
    BY <1>1, <1>4, LiveTypes DEF Strays
  <2> QED
    BY <1>1, <2>1 DEF Strays
<1>8. Sound' /\ Blank' /\ InStep' /\ LegHasEngine' /\ Guarded'
  BY <1>1, <1>3, <1>4 DEF Sound, Blank, InStep, LegHasEngine, Guarded, Alike
<1>9. Tried' /\ Streaked' /\ Anchored'
  BY <1>1, <1>3, <1>5, TriedKept, StreakedKept, AnchoredKept
<1> QED
  BY <1>6, <1>7, <1>8, <1>9


\* A new cycle: the engine keeps what it knew, halted when there is no position
\* feed, and no leg is known.
LEMMA NewCycleStep ==
    ASSUME NEW e, EngineInv(e), NEW p \in {"none", "wait", "known"}, NEW w \in BOOLEAN,
           NewCycle(e, p, w)
    PROVE  /\ Kept(e, eng') /\ in_position(eng') = in_position(e)
           /\ e.kind = "mtf" => eng'.pos = e.pos
           /\ p = "none" => Lasting(eng'.halt)
           /\ Lasting(e.halt) => Lasting(eng'.halt)
           /\ leg' = NoLeg /\ closed' = {} /\ run' = "up" /\ feed' = FALSE /\ pnl' = p
           /\ warm' = w
<1>1. /\ eng' = IF p = "none" THEN [e EXCEPT !.halt = "pnl_plant_unavailable"] ELSE e
      /\ leg' = NoLeg /\ closed' = {} /\ run' = "up" /\ feed' = FALSE /\ pnl' = p
      /\ warm' = w
  BY DEF NewCycle, halt_trading
<1>2. CASE p = "none"
  <2>1. "pnl_plant_unavailable" \in Halts
    BY DEF Halts
  <2>2. /\ Kept(e, eng') /\ in_position(eng') = in_position(e)
        /\ e.kind = "mtf" => eng'.pos = e.pos
        /\ eng'.halt = "pnl_plant_unavailable"
    BY <1>1, <1>2, <2>1, RehaltedTo
  <2>3. Lasting(eng'.halt)
    BY <2>2 DEF Lasting, NoHalt
  <2> QED
    BY <1>1, <2>2, <2>3
<1>3. CASE p # "none"
  <2>1. eng' = e
    BY <1>1, <1>3
  <2>2. Untouched(e, eng')
    BY <2>1, UntouchedItself
  <2> QED
    BY <1>1, <1>3, <2>1, <2>2 DEF Untouched
<1> QED
  BY <1>2, <1>3

LEMMA ReconnectPreserves ==
    ASSUME LiveInv, Reconnect
    PROVE  LiveInv'
<1> USE DEF LiveInv
<1> DEFINE e == IF Flat(leg) THEN eng
                ELSE halt_trading(eng, "reconnect_unreconciled_position")
           tags == (odd \ {"lift"}) \union {"lost"}
                   \union Tag("lift" \in odd /\ Flat(leg) /\ exch # 0, "lift")
<1>1. /\ run = "down" /\ phase' = phase /\ today' = today /\ exch' = exch /\ back' = back
      /\ drops' = drops /\ mkt' = mkt /\ tries' = tries /\ hist' = hist
      /\ odd' = Tidy(tags, e, NoLeg)
  BY DEF Reconnect
<1>2. PICK p \in Plants : \E w \in WarmUps : NewCycle(e, p, w)
  BY DEF Reconnect
<1>3. PICK w \in WarmUps : NewCycle(e, p, w)
  BY <1>2
<1>4. p \in {"none", "wait", "known"} /\ w \in BOOLEAN /\ (w => eng.kind # "orb")
  BY <1>2, <1>3 DEF Plants, WarmUps
<1>5. /\ EngineInv(e) /\ Kept(eng, e) /\ in_position(e) = in_position(eng)
      /\ e.kind = eng.kind /\ (e.kind = "mtf" => e.pos = eng.pos)
      /\ ~Flat(leg) => Lasting(e.halt)
      /\ Flat(leg) => e.halt = eng.halt
  <2>1. EngineInv(eng)
    BY LiveTypes
  <2>2. CASE Flat(leg)
    <3>1. e = eng
      BY <2>2
    <3> HIDE DEF e
    <3> QED
      BY <2>1, <2>2, <3>1, UntouchedItself DEF Untouched
  <2>3. CASE ~Flat(leg)
    <3>1. e = [eng EXCEPT !.halt = "reconnect_unreconciled_position"]
      BY <2>3 DEF halt_trading
    <3>2. "reconnect_unreconciled_position" \in Halts
      BY DEF Halts
    <3> HIDE DEF e
    <3>3. /\ EngineInv(e) /\ Kept(eng, e) /\ in_position(e) = in_position(eng)
          /\ e.kind = eng.kind /\ (eng.kind = "mtf" => e.pos = eng.pos)
          /\ e.halt = "reconnect_unreconciled_position"
      BY <2>1, <3>1, <3>2, RehaltedTo
    <3> QED
      BY <2>3, <3>3 DEF Lasting, NoHalt
  <2> QED
    BY <2>2, <2>3
<1> HIDE DEF e
<1>6. /\ Kept(e, eng') /\ in_position(eng') = in_position(e)
      /\ p = "none" => Lasting(eng'.halt)
      /\ Lasting(e.halt) => Lasting(eng'.halt)
      /\ leg' = NoLeg /\ closed' = {} /\ run' = "up" /\ feed' = FALSE /\ pnl' = p
      /\ warm' = w
  BY <1>3, <1>4, <1>5, NewCycleStep
<1>7. Kept(eng, eng')
  BY <1>5, <1>6, LiveTypes, KeptTrans
<1>8. EngineInv(eng') /\ Alike(eng, eng')
  BY <1>7 DEF Kept
<1>9. /\ odd' \subseteq Odd
      /\ "blind" \in odd => "blind" \in odd'
      /\ "stale" \in odd => "stale" \in odd'
      /\ "lift" \in odd /\ Flat(leg) /\ exch # 0 => "lift" \in odd'
      /\ in_position(e) => "lost" \in odd'
  <2>1. tags \subseteq Odd
    BY LiveTypes DEF Odd, Tag
  <2>2. /\ "blind" \in odd => "blind" \in tags
        /\ "stale" \in odd => "stale" \in tags
        /\ "lift" \in odd /\ Flat(leg) /\ exch # 0 => "lift" \in tags
        /\ "lost" \in tags
    BY DEF Tag
  <2> HIDE DEF tags
  <2> QED
    BY <1>1, <2>1, <2>2, TidyMember, TidyType, NoLegFlat
<1>10. closed = {}
  BY <1>1 DEF Blank
<1>11. TypeOK'
  <2>1. eng' \in EngineStates
    BY <1>8, EngineStateType
  <2> QED
    BY <1>1, <1>4, <1>6, <1>9, <2>1, NoLegFlat DEF TypeOK
<1>12. Sound'
  BY <1>8 DEF Sound, Alike
<1>13. Strays'
  <2>1. exch \in -drops .. drops /\ exch \in Int
    BY <1>1, LiveTypes DEF Strays
  <2>2. exch - 0 = exch
    BY <2>1
  <2> QED
    BY <1>1, <1>6, <2>1, <2>2, NoLegFlat DEF Strays
<1>14. Blank'
  BY <1>4, <1>6, <1>8 DEF Blank, Alike
<1>15. InStep' /\ LegHasEngine'
  <2>1. Flat(leg)' /\ (in_position(eng') => "lost" \in odd')
    BY <1>6, <1>9, NoLegFlat
  <2> QED
    BY <2>1 DEF InStep, LegHasEngine
<1>16. Guarded'
  <2>1. Booked(leg)' = 0 /\ Flat(leg)' /\ run' = "up"
    BY <1>6, NoLegFlat
  <2>2. exch # 0 => Lasting(eng'.halt) \/ Lifted'
    <3>1. CASE ~Flat(leg)
      BY <1>5, <1>6, <3>1
    <3>2. CASE Flat(leg) /\ exch # 0
      BY <1>1, <1>5, <1>6, <1>9, <3>2 DEF Guarded, Lifted
    <3> QED
      BY <3>1, <3>2
  <2> QED
    BY <1>1, <1>6, <2>1, <2>2 DEF Guarded
<1>17. Tried' /\ Anchored'
  BY <1>1, <1>7, <1>9, TriedKept, AnchoredKept
<1>18. Streaked'
  BY <1>1, <1>6, <1>7, <1>10, StreakedKept
<1> QED
  BY <1>11, <1>12, <1>13, <1>14, <1>15, <1>16, <1>17, <1>18

LEMMA ClockPreserves ==
    ASSUME LiveInv, Clock
    PROVE  LiveInv'
<1> USE DEF LiveInv
<1>1. /\ phase' = NextPhase(phase)
      /\ leg' = leg /\ closed' = closed /\ run' = run /\ feed' = feed /\ warm' = warm
      /\ exch' = exch /\ pnl' = pnl /\ back' = back /\ drops' = drops /\ odd' = odd
      /\ mkt' = mkt /\ hist' = hist
      /\ phase = "late" => /\ today' = FALSE /\ tries' = NoTries
                           /\ eng' = eng \/ eng' = NewDate(eng)
      /\ phase # "late" => today' = today /\ eng' = eng /\ tries' = tries
  BY DEF Clock
<1>2. Untouched(eng, eng')
  BY <1>1, LiveTypes, UntouchedItself, NewDateStep
<1>3. Kept(eng, eng') /\ EngineInv(eng') /\ Alike(eng, eng')
  BY <1>2 DEF Untouched, Kept
<1>4. phase' \in Phases
  BY <1>1 DEF NextPhase, Phases, TypeOK
<1>5. TypeOK'
  <2>1. eng' \in EngineStates
    BY <1>3, EngineStateType
  <2> QED
    BY <1>1, <1>4, <2>1, NoTriesFacts DEF TypeOK
<1>6. Sound' /\ Strays' /\ InStep' /\ LegHasEngine'
  BY <1>1, <1>2, <1>3 DEF Sound, Strays, InStep, LegHasEngine, Untouched, Alike, Flat, Booked
<1>7. Blank'
  BY <1>1, <1>2, <1>3 DEF Blank, Untouched, Alike
<1>8. Guarded'
  BY <1>1, <1>2 DEF Guarded, Untouched, Lifted, Flat, Booked
<1>9. Tried'
  <2>1. CASE phase = "late"
    BY <1>1, <2>1, TriedAnew
  <2>2. CASE phase \in {"evening", "night"}
    <3>1. tries' = tries /\ eng' = eng
      BY <1>1, <2>2
    <3>2. CASE eng.kind = "trend" /\ Once(eng)
      BY <2>2, <3>1, <3>2, TriedAnew DEF Tried
    <3>3. CASE ~(eng.kind = "trend" /\ Once(eng))
      BY <3>1, <3>3 DEF Tried, Once
    <3> QED
      BY <3>2, <3>3
  <2>3. CASE phase = "session"
    <3>1. phase' = "late" /\ tries' = tries /\ eng' = eng
      BY <1>1, <2>3 DEF NextPhase
    <3> QED
      BY <2>3, <3>1 DEF Tried, Once
  <2> QED
    BY <2>1, <2>2, <2>3 DEF TypeOK, Phases
<1>10. Streaked' /\ Anchored'
  BY <1>1, <1>3, StreakedKept, AnchoredKept
<1> QED
  BY <1>5, <1>6, <1>7, <1>8, <1>9, <1>10

\* What a new process makes of its engine: the day's count, the halt of a position
\* it knows of, the opening range.
LEMMA SeededStep ==
    ASSUME LiveInv, run = "off", NEW db \in BOOLEAN, NEW range \in BOOLEAN,
           range => eng.kind = "orb",
           NEW n \in 0 .. MaxTrades, NEW known \in BOOLEAN,
           NEW e1, e1 = seed_trades_today(eng, IF db THEN n ELSE 0),
           NEW e2, e2 = IF known THEN halt_trading(e1, "startup_stale_position") ELSE e1,
           NEW e3, e3 = IF db /\ range THEN seed_range(e2) ELSE e2
    PROVE  /\ Kept(eng, e3) /\ EngineInv(e3) /\ ~in_position(e3)
           /\ known => Lasting(e3.halt)
<1>1. EngineInv(eng) /\ ~in_position(eng)
  BY LiveTypes DEF LiveInv, Blank
<1>2. Untouched(eng, e1)
  <2>1. (IF db THEN n ELSE 0) \in 0 .. MaxTrades
    BY MtfConstants
  <2> QED
    BY <1>1, <2>1, SeedTradesKept
<1>3. Kept(eng, e1) /\ EngineInv(e1) /\ ~in_position(e1) /\ e1.kind = eng.kind
  BY <1>1, <1>2 DEF Untouched, Kept, Alike
<1>4. /\ Kept(e1, e2) /\ EngineInv(e2) /\ ~in_position(e2) /\ e2.kind = eng.kind
      /\ known => Lasting(e2.halt)
  <2>1. CASE known
    <3>1. e2 = [e1 EXCEPT !.halt = "startup_stale_position"]
      BY <2>1 DEF halt_trading
    <3>2. "startup_stale_position" \in Halts
      BY DEF Halts
    <3>3. /\ Kept(e1, e2) /\ EngineInv(e2) /\ in_position(e2) = in_position(e1)
          /\ e2.kind = e1.kind /\ e2.halt = "startup_stale_position"
      BY <1>3, <3>1, <3>2, RehaltedTo
    <3> QED
      BY <1>3, <3>3 DEF Lasting, NoHalt
  <2>2. CASE ~known
    <3>1. e2 = e1
      BY <2>2
    <3> QED
      BY <1>3, <2>2, <3>1, UntouchedItself DEF Untouched
  <2> QED
    BY <2>1, <2>2
<1>5. Untouched(e2, e3)
  <2>1. CASE e3 = e2
    BY <1>4, <2>1, UntouchedItself
  <2>2. CASE e3 # e2
    <3>1. e2.kind = "orb" /\ e3 = seed_orb_range(e2)
      BY <2>2 DEF seed_range
    <3> QED
      BY <1>4, <3>1, KindCases, SeedRangeStep
  <2> QED
    BY <2>1, <2>2
<1>6. Kept(e2, e3) /\ EngineInv(e3) /\ ~in_position(e3) /\ e3.halt = e2.halt
  BY <1>4, <1>5 DEF Untouched, Kept
<1>7. Kept(eng, e3)
  BY <1>1, <1>3, <1>4, <1>6, KeptTrans
<1> QED
  BY <1>4, <1>6, <1>7

\* A new process: e is its engine before the plants answer.
Reborn(e, p, w, known) ==
    /\ Kept(eng, e) /\ EngineInv(e) /\ ~in_position(e)
    /\ known => Lasting(e.halt)
    /\ p \in {"none", "wait", "known"} /\ w \in BOOLEAN /\ (w => eng.kind # "orb")
    /\ NewCycle(e, p, w)
    /\ odd' = Tag(~known /\ exch # 0, "blind")

\* The body of Restart, its choices made.
Seeded(p, w, db, range, n) ==
    LET known == db /\ leg.st \in {"OPEN", "EXIT"}
        e1 == seed_trades_today(eng, IF db THEN n ELSE 0)
        e2 == IF known THEN halt_trading(e1, "startup_stale_position") ELSE e1
        e3 == IF db /\ range THEN seed_range(e2) ELSE e2
    IN  NewCycle(e3, p, w) /\ odd' = Tag(~known /\ exch # 0, "blind")

LEMMA RestartFacts ==
    ASSUME LiveInv, Restart
    PROVE  \E e, p, w : \E known \in BOOLEAN : Reborn(e, p, w, known)
<1>1. PICK p \in Plants : \E w \in WarmUps, db \in BOOLEAN,
          range \in IF eng.kind = "orb" THEN BOOLEAN ELSE {FALSE}, n \in 0 .. MaxTrades :
          Seeded(p, w, db, range, n)
  BY Zenon DEF Restart, Seeded
<1>2. PICK w \in WarmUps : \E db \in BOOLEAN,
          range \in IF eng.kind = "orb" THEN BOOLEAN ELSE {FALSE}, n \in 0 .. MaxTrades :
          Seeded(p, w, db, range, n)
  BY <1>1
<1>3. PICK db \in BOOLEAN :
          \E range \in IF eng.kind = "orb" THEN BOOLEAN ELSE {FALSE}, n \in 0 .. MaxTrades :
          Seeded(p, w, db, range, n)
  BY <1>2
<1>4. PICK range \in IF eng.kind = "orb" THEN BOOLEAN ELSE {FALSE} : \E n \in 0 .. MaxTrades :
          Seeded(p, w, db, range, n)
  BY <1>3
<1>5. PICK n \in 0 .. MaxTrades : Seeded(p, w, db, range, n)
  BY <1>4
<1>6. range \in BOOLEAN /\ (range => eng.kind = "orb")
  BY <1>4
<1>7. p \in {"none", "wait", "known"} /\ w \in BOOLEAN /\ (w => eng.kind # "orb")
  BY <1>1, <1>2 DEF Plants, WarmUps
<1> DEFINE known == db /\ leg.st \in {"OPEN", "EXIT"}
           e1 == seed_trades_today(eng, IF db THEN n ELSE 0)
           e2 == IF known THEN halt_trading(e1, "startup_stale_position") ELSE e1
           e3 == IF db /\ range THEN seed_range(e2) ELSE e2
<1>8. NewCycle(e3, p, w) /\ odd' = Tag(~known /\ exch # 0, "blind")
  BY <1>5, Zenon DEF Seeded
<1>9. known \in BOOLEAN
  BY Zenon
<1>10. run = "off"
  BY DEF Restart
<1> HIDE DEF known
<1>11. /\ Kept(eng, e3) /\ EngineInv(e3) /\ ~in_position(e3)
       /\ known => Lasting(e3.halt)
  <2>1. e1 = seed_trades_today(eng, IF db THEN n ELSE 0)
    OBVIOUS
  <2>2. e2 = IF known THEN halt_trading(e1, "startup_stale_position") ELSE e1
    OBVIOUS
  <2>3. e3 = IF db /\ range THEN seed_range(e2) ELSE e2
    OBVIOUS
  <2> HIDE DEF e1, e2, e3
  <2> QED
    BY <1>6, <1>9, <1>10, <2>1, <2>2, <2>3, SeededStep
<1> HIDE DEF e3
<1>12. Reborn(e3, p, w, known)
  BY <1>7, <1>8, <1>11 DEF Reborn
<1> QED
  BY <1>9, <1>12

LEMMA RestartPreserves ==
    ASSUME LiveInv, Restart
    PROVE  LiveInv'
<1> USE DEF LiveInv
<1>1. /\ run = "off" /\ today' = TRUE /\ phase' = phase /\ exch' = exch /\ back' = back
      /\ drops' = drops /\ mkt' = mkt /\ tries' = tries /\ hist' = hist
  BY DEF Restart
<1>2. PICK e, p, w : \E known \in BOOLEAN : Reborn(e, p, w, known)
  BY RestartFacts
<1>3. PICK known \in BOOLEAN : Reborn(e, p, w, known)
  BY <1>2
<1>4. /\ Kept(eng, e) /\ EngineInv(e) /\ ~in_position(e)
      /\ known => Lasting(e.halt)
      /\ p \in {"none", "wait", "known"} /\ w \in BOOLEAN /\ (w => eng.kind # "orb")
      /\ NewCycle(e, p, w)
      /\ odd' = Tag(~known /\ exch # 0, "blind")
  BY <1>3 DEF Reborn
<1>5. /\ Kept(e, eng') /\ in_position(eng') = in_position(e)
      /\ p = "none" => Lasting(eng'.halt)
      /\ Lasting(e.halt) => Lasting(eng'.halt)
      /\ leg' = NoLeg /\ closed' = {} /\ run' = "up" /\ feed' = FALSE /\ pnl' = p
      /\ warm' = w
  BY <1>4, NewCycleStep
<1>6. Kept(eng, eng') /\ ~in_position(eng')
  BY <1>4, <1>5, LiveTypes, KeptTrans
<1>7. EngineInv(eng') /\ Alike(eng, eng')
  BY <1>6 DEF Kept
<1>8. closed = {} /\ tries = NoTries /\ odd = {}
  BY <1>1 DEF Blank
<1>9. odd' \subseteq Odd /\ (~known /\ exch # 0 => "blind" \in odd')
  BY <1>4 DEF Tag, Odd
<1>10. TypeOK'
  <2>1. eng' \in EngineStates
    BY <1>7, EngineStateType
  <2> QED
    BY <1>1, <1>4, <1>5, <1>9, <2>1, NoLegFlat DEF TypeOK
<1>11. Strays'
  <2>1. exch \in -drops .. drops /\ exch \in Int
    BY <1>1, LiveTypes DEF Strays
  <2>2. exch - 0 = exch
    BY <2>1
  <2> QED
    BY <1>1, <1>5, <2>1, <2>2, NoLegFlat DEF Strays
<1>12. Sound' /\ Blank'
  BY <1>4, <1>5, <1>7 DEF Sound, Blank, Alike
<1>13. InStep' /\ LegHasEngine'
  <2>1. Flat(leg)'
    BY <1>5, NoLegFlat
  <2> QED
    BY <1>6, <2>1 DEF InStep, LegHasEngine
<1>14. Guarded'
  <2>1. Booked(leg)' = 0 /\ Flat(leg)' /\ run' = "up"
    BY <1>5, NoLegFlat
  <2>2. exch # 0 => Lasting(eng'.halt) \/ Lifted'
    BY <1>4, <1>5, <1>9 DEF Lifted
  <2> QED
    BY <1>1, <1>5, <2>1, <2>2 DEF Guarded
<1>15. Tried'
  BY <1>1, <1>8, TriedAnew
<1>16. Streaked'
  BY <1>1, <1>5, <1>6, <1>8, StreakedKept
<1>17. Anchored'
  <2>1. eng.kind = "orb" => eng.last = mkt
    BY <1>8 DEF Anchored
  <2>2. eng'.kind = eng.kind /\ (eng.kind = "orb" => eng'.last = eng.last)
    BY <1>6 DEF Kept, Alike
  <2> QED
    BY <1>1, <2>1, <2>2 DEF Anchored
<1> QED
  BY <1>10, <1>11, <1>12, <1>13, <1>14, <1>15, <1>16, <1>17

-----------------------------------------------------------------------------
(* The invariant. *)

LEMMA LiveStart ==
    Init => LiveInv
<1> SUFFICES ASSUME Init
             PROVE  LiveInv
  OBVIOUS
<1>1. /\ phase = "evening"
      /\ leg = NoLeg /\ closed = {} /\ today = TRUE /\ run = "off" /\ feed = FALSE
      /\ warm = FALSE /\ exch = 0 /\ pnl = "none" /\ back = FALSE /\ drops = 0
      /\ odd = {} /\ mkt = NoPrice /\ tries = NoTries /\ hist = 0
  BY DEF Init
<1>2. Newborn(eng) /\ (eng.kind = "mtf" => ~eng.flips)
  <2>1. CASE eng = OrbNew
    BY <2>1, OrbNewborn
  <2>2. CASE eng \in {TrendNew(m) : m \in LiveTrend}
    <3>1. PICK m \in LiveTrend : eng = TrendNew(m)
      BY <2>2
    <3>2. m \in TrendModes
      BY LiveAssumption
    <3> QED
      BY <3>1, <3>2, TrendNewborn
  <2>3. CASE eng \in {MtfNew(m, FALSE, FALSE) : m \in LiveMtf}
    <3>1. PICK m \in LiveMtf : eng = MtfNew(m, FALSE, FALSE)
      BY <2>3, Zenon
    <3>2. m \in MtfModes
      BY LiveAssumption
    <3> QED
      BY <3>1, <3>2, MtfNewborn, Zenon
  <2> QED
    BY <2>1, <2>2, <2>3, Zenon DEF Init
<1>3. TypeOK
  <2>1. eng \in EngineStates
    BY <1>2, EngineStateType DEF Newborn
  <2>2. 0 \in -(MaxDrops + 1) .. (MaxDrops + 1) /\ 0 \in 0 .. MaxDrops
    BY LiveAssumption
  <2>3. 0 \in 0 .. CoolAfter
    BY MtfConstants
  <2>4. NoPrice \in Dirs \union {NoPrice} /\ "evening" \in Phases
    BY DEF Phases
  <2> QED
    BY <1>1, <2>1, <2>2, <2>3, <2>4, NoLegFlat, NoTriesFacts DEF TypeOK
<1>4. Sound /\ Strays /\ Blank /\ InStep /\ LegHasEngine /\ Guarded
  <2>1. Sound /\ Blank
    BY <1>1, <1>2 DEF Sound, Blank, Newborn
  <2>2. Strays
    <3>1. 0 \in -0 .. 0 /\ Flat(leg)
      BY <1>1, NoLegFlat
    <3> QED
      BY <1>1, <3>1 DEF Strays
  <2>3. InStep /\ LegHasEngine /\ Guarded
    BY <1>1 DEF InStep, LegHasEngine, Guarded
  <2> QED
    BY <2>1, <2>2, <2>3
<1>5. Tried
  BY <1>1, NoTriesFacts DEF Tried
<1>6. Streaked /\ Anchored
  BY <1>1, <1>2 DEF Streaked, Anchored, Newborn
<1> QED
  BY <1>3, <1>4, <1>5, <1>6 DEF LiveInv

LEMMA LiveStep ==
    LiveInv /\ [Next]_vars => LiveInv'
<1> SUFFICES ASSUME LiveInv, [Next]_vars
             PROVE  LiveInv'
  OBVIOUS
<1>1. CASE UNCHANGED vars
  BY <1>1 DEF vars, lvars, LiveInv, TypeOK, Sound, Strays, Blank, InStep, LegHasEngine,
              Guarded, Lifted, Tried, Streaked, Anchored
<1>2. CASE Next
  BY <1>2, TickPreserves, WarmTickPreserves, WarmEndPreserves, EodTickPreserves,
     EntryFillPreserves, EntryDiesPreserves, LegClosesPreserves, ExitFailsPreserves,
     OfflineFillPreserves, SnapshotPreserves, DisconnectPreserves, ReconnectPreserves,
     ShutdownPreserves, DrainEndsPreserves, CrashPreserves, RestartPreserves, ClockPreserves
  DEF Next
<1> QED
  BY <1>1, <1>2

\* Every state the live executor reaches satisfies the inductive invariant.
THEOREM LiveInvariant ==
    Spec => []LiveInv
BY LiveStart, LiveStep, PTL DEF Spec

\* The type invariant, for every bound and every set of modes: the exchange never
\* holds more contracts than connection losses can have left behind, plus the leg.
THEOREM LiveTypeCorrect ==
    Spec => []TypeOK
<1>1. LiveInv => TypeOK
  BY DEF LiveInv
<1> QED
  BY <1>1, LiveInvariant, PTL

\* settle_strategy leaves no engine in a position that no one will report closed,
\* but for the named paths.
THEOREM EngineStaysInStep ==
    Spec => []EngineInStep
<1>1. LiveInv => EngineInStep
  BY DEF LiveInv, InStep, EngineInStep
<1> QED
  BY <1>1, LiveInvariant, PTL

\* An open or working leg keeps the engine that gives its exits, unless the date
\* or a late report cut it off.
THEOREM LegKeepsEngine ==
    Spec => []LegHasEngine
<1>1. LiveInv => LegHasEngine
  BY DEF LiveInv
<1> QED
  BY <1>1, LiveInvariant, PTL

\* The halts of halt_trading: no feed, no position snapshot and no new cycle lifts
\* the halt of a process that does not know its position.
THEOREM HaltsHold ==
    Spec => []HaltHolds
<1>1. LiveInv => HaltHolds
  <2>1. exch # 0 /\ Flat(leg) => exch # Booked(leg)
    BY DEF Flat, Booked
  <2> QED
    BY <2>1 DEF LiveInv, Guarded, HaltHolds, Lasting, Lifted
<1> QED
  BY <1>1, LiveInvariant, PTL

\* A mode that trades an event once signals it once in a session (per side),
\* whatever became of the order.
THEOREM TriesOnce ==
    Spec => []OneTry
<1>1. LiveInv => OneTry
  <2> SUFFICES ASSUME LiveInv, eng.kind = "trend"
               PROVE  /\ eng.mode \in OncePerSession => tries[1] + tries[-1] <= 1
                      /\ eng.mode \in OncePerSide => \A d \in Sides : tries[d] <= 1
    BY DEF OneTry
  <2> QED
    BY NoTriesFacts DEF LiveInv, Tried, Once
<1> QED
  BY <1>1, LiveInvariant, PTL

\* The scalper's loss streak is the history of its reported trades.
THEOREM StreakFollowsTrades ==
    Spec => []StreakIsHistory
<1>1. LiveInv => StreakIsHistory
  BY DEF LiveInv, Streaked, StreakIsHistory
<1> QED
  BY <1>1, LiveInvariant, PTL

-----------------------------------------------------------------------------
(* The steps of the engine and of the leg. *)

\* Every step that is neither a tick nor a pass of the maintenance loop takes no
\* position, and keeps the engine or starts a new one.
LEMMA QuietStep ==
    ASSUME LiveInv,
           \/ WarmEnd \/ EntryFill \/ EntryDies \/ LegCloses \/ ExitFails \/ OfflineFill
           \/ Snapshot \/ Disconnect \/ Reconnect \/ Shutdown \/ DrainEnds \/ Crash
           \/ Restart \/ Clock
    PROVE  /\ Kept(eng, eng') \/ (Alike(eng, eng') /\ Newborn(eng'))
           /\ in_position(eng') => in_position(eng)
<1>1. EngineInv(eng) /\ Untouched(eng, eng)
  BY LiveTypes, UntouchedItself
<1>2. ASSUME Untouched(eng, eng')
      PROVE  Kept(eng, eng') /\ (in_position(eng') => in_position(eng))
  BY <1>2 DEF Untouched
<1>3. ASSUME NEW h \in Halts, eng' = [eng EXCEPT !.halt = h]
      PROVE  Kept(eng, eng') /\ (in_position(eng') => in_position(eng))
  BY <1>1, <1>3, RehaltedTo
<1>4. CASE eng' = eng
  BY <1>1, <1>2, <1>4
<1>5. CASE WarmEnd
  BY <1>1, <1>5, WarmEndStep DEF WarmEnd
<1>6. CASE EntryFill
  <2>1. leg.dir \in Sides
    BY <1>6, LegCases, LiveTypes DEF EntryFill
  <2>2. PICK fill \in Sides :
          eng' = IF eng.kind = "mtf" THEN notify_entry_filled(eng, leg.dir, fill) ELSE eng
    BY <1>6 DEF EntryFill
  <2> QED
    BY <1>1, <1>2, <2>1, <2>2, KindCases, EntryFilledStep
<1>7. CASE EntryDies \/ LegCloses \/ ExitFails \/ OfflineFill
  BY <1>4, <1>7 DEF EntryDies, LegCloses, ExitFails, OfflineFill
<1>8. CASE Snapshot
  <2>1. "startup_ghost_unwind_failed" \in Halts
    BY DEF Halts
  <2>2. \/ eng' = eng
        \/ eng' = [eng EXCEPT !.halt = NoHalt]
        \/ eng' = [eng EXCEPT !.halt = "startup_ghost_unwind_failed"]
    BY <1>8 DEF Snapshot, unhalt_trading, halt_trading
  <2> QED
    BY <1>3, <1>4, <2>1, <2>2, NoHaltIsReason
<1>9. CASE Ended
  <2>1. Newborn(eng') /\ Alike(eng, eng')
    BY <1>1, <1>9, FreshStep DEF Ended
  <2> QED
    BY <2>1 DEF Newborn
<1>10. CASE Disconnect \/ DrainEnds \/ Crash
  BY <1>4, <1>9, <1>10 DEF Disconnect, DrainEnds, Crash, CycleEnds
<1>11. CASE Reconnect
  <2> DEFINE e == IF Flat(leg) THEN eng
                  ELSE halt_trading(eng, "reconnect_unreconciled_position")
  <2>1. PICK p \in Plants : \E w \in WarmUps : NewCycle(e, p, w)
    BY <1>11 DEF Reconnect
  <2>2. PICK w \in WarmUps : NewCycle(e, p, w)
    BY <2>1
  <2>3. p \in {"none", "wait", "known"} /\ w \in BOOLEAN
    BY <2>1, <2>2 DEF Plants, WarmUps
  <2>4. "reconnect_unreconciled_position" \in Halts
    BY DEF Halts
  <2>5. e = eng \/ e = [eng EXCEPT !.halt = "reconnect_unreconciled_position"]
    BY DEF halt_trading
  <2> HIDE DEF e
  <2>6. Kept(eng, e) /\ EngineInv(e) /\ in_position(e) = in_position(eng)
    BY <1>1, <2>4, <2>5, RehaltedTo DEF Untouched
  <2>7. Kept(e, eng') /\ in_position(eng') = in_position(e)
    BY <2>2, <2>3, <2>6, NewCycleStep
  <2> QED
    BY <1>1, <2>6, <2>7, KeptTrans
<1>12. CASE Shutdown
  <2>1. "shutdown" \in Halts /\ eng' = [eng EXCEPT !.halt = "shutdown"]
    BY <1>12 DEF Shutdown, halt_trading, Halts
  <2> QED
    BY <1>3, <2>1
<1>13. CASE Restart
  <2>1. PICK e, p, w : \E known \in BOOLEAN : Reborn(e, p, w, known)
    BY <1>13, RestartFacts
  <2>2. /\ Kept(eng, e) /\ EngineInv(e) /\ ~in_position(e)
        /\ p \in {"none", "wait", "known"} /\ w \in BOOLEAN /\ NewCycle(e, p, w)
    BY <2>1 DEF Reborn
  <2>3. Kept(e, eng') /\ in_position(eng') = in_position(e)
    BY <2>2, NewCycleStep
  <2> QED
    BY <1>1, <2>2, <2>3, KeptTrans
<1>14. CASE Clock
  <2>1. eng' = eng \/ eng' = NewDate(eng)
    BY <1>14 DEF Clock
  <2> QED
    BY <1>1, <1>2, <1>4, <2>1, NewDateStep
<1> QED
  BY <1>5, <1>6, <1>7, <1>8, <1>10, <1>11, <1>12, <1>13, <1>14

\* A position is taken only on a tick, and a leg of the scalper that lasts does not
\* lower its stop.
LEMMA EngineMoves ==
    ASSUME LiveInv, Next
    PROVE  /\ eng'.kind = eng.kind
           /\ eng.kind = "orb" /\ ~in_position(eng) /\ in_position(eng') =>
                /\ mkt' # 0 /\ mkt # NoPrice /\ (mkt # mkt' \/ "stale" \in odd)
           /\ eng.kind = "mtf" /\ eng.pos # 0 /\ eng'.pos = eng.pos => eng'.stop >= eng.stop
<1>1. EngineInv(eng) /\ (eng.kind = "mtf" => eng.stop \in Int)
  BY LiveTypes, KindCases
<1>2. CASE Tick
  <2>1. PICK e, r, l, px : TickTo(e, r, l, px)
    BY <1>2, TickFacts
  <2>2. /\ EngineInv(e) /\ Kept(eng, e) /\ in_position(e) = in_position(eng)
        /\ (eng.kind = "mtf" => e.pos = eng.pos)
        /\ TickStep(e, phase, px, r) /\ Answered(r, l, eng', leg')
        /\ mkt' = IF eng.kind = "orb" THEN px ELSE mkt
    BY <2>1 DEF TickTo, Rehalted
  <2>3. EngineInv(r.e) /\ SignalStep(e, r) /\ Alike(e, r.e) /\ Kept(r.e, eng')
    BY <2>2 DEF TickStep, Answered
  <2>4. ASSUME eng.kind = "orb", ~in_position(eng), in_position(eng')
        PROVE  mkt' # 0 /\ mkt # NoPrice /\ (mkt # mkt' \/ "stale" \in odd)
    <3>1. in_position(r.e)
      BY <2>2, <2>4 DEF Answered
    <3>2. r.sig # "none"
      BY <2>2, <2>3, <2>4, <3>1 DEF SignalStep
    <3>3. e.kind = "orb" /\ e.last = eng.last
      BY <2>2, <2>4 DEF Kept, Alike
    <3>4. px # 0 /\ px # e.last /\ e.last # NoPrice
      BY <2>2, <3>2, <3>3 DEF TickStep
    <3> QED
      BY <2>2, <2>4, <3>3, <3>4 DEF LiveInv, Anchored
  <2>5. ASSUME eng.kind = "mtf", eng.pos # 0, eng'.pos = eng.pos
        PROVE  eng'.stop >= eng.stop
    <3>1. e.kind = "mtf" /\ e.pos # 0 /\ e.stop >= eng.stop
      BY <2>2, <2>5 DEF Kept, Alike
    <3>2. r.e.kind = "mtf" /\ r.e.stop >= e.stop
      BY <2>2, <2>3, <3>1 DEF TickStep, Alike
    <3>3. eng'.kind = "mtf" /\ eng'.stop >= r.e.stop /\ EngineInv(eng')
      BY <2>3, <2>5, <3>2 DEF Kept, Alike
    <3>4. e.stop \in Int /\ r.e.stop \in Int /\ eng'.stop \in Int /\ eng.stop \in Int
      BY <1>1, <2>2, <2>3, <2>5, <3>1, <3>2, <3>3, KindCases
    <3> QED
      BY <3>1, <3>2, <3>3, <3>4
  <2> QED
    BY <2>2, <2>3, <2>4, <2>5 DEF Kept, Alike
<1>3. CASE WarmTick
  <2> DEFINE e == feed_resumes(eng)
  <2>1. EngineInv(e) /\ Rehalted(eng, e)
    BY ResumeStep
  <2>2. PICK r \in Ticks(e, phase, 0) : eng' = r.e
    BY <1>3 DEF WarmTick, Deliver
  <2> HIDE DEF e
  <2>3. 0 \in Dirs /\ (e.kind = "mtf" => ~e.flips) /\ eng.kind # "orb"
    BY <1>3, <2>1 DEF Dirs, LiveInv, Sound, Blank, WarmTick, Rehalted, Kept, Alike
  <2>4. TickStep(e, phase, 0, r)
    BY <2>1, <2>2, <2>3, TicksStep
  <2>5. ASSUME eng.kind = "mtf", eng.pos # 0
        PROVE  eng'.stop >= eng.stop
    <3>1. e.kind = "mtf" /\ e.pos # 0 /\ e.stop >= eng.stop
      BY <2>1, <2>5 DEF Rehalted, Kept, Alike
    <3>2. r.e.kind = "mtf" /\ r.e.stop >= e.stop /\ EngineInv(r.e)
      BY <2>4, <3>1 DEF TickStep, Alike
    <3>3. e.stop \in Int /\ r.e.stop \in Int /\ eng.stop \in Int
      BY <1>1, <2>1, <2>5, <3>1, <3>2, KindCases
    <3> QED
      BY <2>2, <3>1, <3>2, <3>3
  <2> QED
    BY <2>1, <2>2, <2>3, <2>4, <2>5 DEF TickStep, Rehalted, Kept, Alike
<1>4. CASE EodTick
  <2>1. PICK r, e, l, bs, st : EodTo(r, e, l, bs, st)
    BY <1>4, EodFacts
  <2>2. /\ Kept(eng, e) /\ EngineInv(e) /\ (in_position(e) => in_position(eng))
        /\ st \in BOOLEAN /\ eng' = report_closed(NewDay(StaleHalt(e, st)))
    BY <2>1 DEF EodTo, Kept
  <2>3. PassStep(e, st, eng')
    BY <2>2, PassFacts
  <2>4. in_position(eng') => in_position(eng)
    BY <2>2, <2>3 DEF PassStep
  <2>5. ASSUME eng.kind = "mtf", eng.pos # 0, eng'.pos = eng.pos
        PROVE  eng'.stop >= eng.stop
    <3>1. e.kind = "mtf"
      BY <2>2, <2>5 DEF Kept, Alike
    <3>2. eng'.pos = e.pos /\ eng'.stop >= e.stop /\ EngineInv(eng') /\ eng'.kind = "mtf"
      BY <2>3, <2>5, <3>1 DEF PassStep, Alike
    <3>3. e.stop >= eng.stop
      BY <2>2, <2>5, <3>2 DEF Kept
    <3>4. e.stop \in Int /\ eng'.stop \in Int /\ eng.stop \in Int
      BY <1>1, <2>2, <2>5, <3>1, <3>2, KindCases
    <3> QED
      BY <3>2, <3>3, <3>4
  <2> QED
    BY <2>2, <2>3, <2>4, <2>5 DEF PassStep, Kept, Alike
<1>5. CASE ~(Tick \/ WarmTick \/ EodTick)
  <2>1. /\ Kept(eng, eng') \/ (Alike(eng, eng') /\ Newborn(eng'))
        /\ in_position(eng') => in_position(eng)
    BY <1>5, QuietStep DEF Next
  <2>2. ASSUME eng.kind = "mtf", eng.pos # 0, eng'.pos = eng.pos
        PROVE  eng'.stop >= eng.stop
    BY <2>1, <2>2 DEF Kept, Alike, Newborn
  <2> QED
    BY <2>1, <2>2 DEF Kept, Alike
<1> QED
  BY <1>2, <1>3, <1>4, <1>5

\* An entry of the opening-range engine is a cross between two consecutive ticks.
THEOREM CrossIsGenuine ==
    Spec => GenuineCross
<1>1. ASSUME LiveInv, [Next]_vars
      PROVE  [run = "up" /\ eng.kind = "orb" /\ ~eng.pos /\ eng'.pos
                => mkt' # 0 /\ mkt # NoPrice /\ (mkt # mkt' \/ "stale" \in odd)]_<<eng, mkt, odd>>
  <2> SUFFICES ASSUME eng.kind = "orb", ~eng.pos, eng'.pos
               PROVE  mkt' # 0 /\ mkt # NoPrice /\ (mkt # mkt' \/ "stale" \in odd)
    OBVIOUS
  <2>1. Next /\ eng'.kind = "orb"
    <3>1. Next
      BY <1>1 DEF vars
    <3> QED
      BY <1>1, <3>1, EngineMoves
  <2>2. ~in_position(eng) /\ in_position(eng')
    BY <2>1 DEF in_position
  <2> QED
    BY <1>1, <2>1, <2>2, EngineMoves
<1> QED
  BY <1>1, LiveInvariant, PTL DEF Spec, GenuineCross

\* The scalper's stop never retreats while its leg lasts.
THEOREM StopHolds ==
    Spec => StopNeverRetreats
<1>1. ASSUME LiveInv, [Next]_vars
      PROVE  [eng.kind = "mtf" /\ eng.pos # 0 /\ eng'.pos = eng.pos /\ eng'.trades = eng.trades
                => eng'.stop >= eng.stop]_eng
  <2>1. CASE UNCHANGED vars
    BY <2>1 DEF vars
  <2>2. CASE Next
    BY <1>1, <2>2, EngineMoves
  <2> QED
    BY <1>1, <2>1, <2>2
<1> QED
  BY <1>1, LiveInvariant, PTL DEF Spec, StopNeverRetreats

\* What a step may do to the leg k it leaves.
LegMoves(l, k) ==
    \/ k = l
    \/ l = NoLeg /\ \E d \in Sides : k = [st |-> "PEND", dir |-> d]
    \/ l.st = "PEND" /\ k = [st |-> "OPEN", dir |-> l.dir]
    \/ l.st = "OPEN" /\ k = [st |-> "EXIT", dir |-> l.dir]
    \/ l.st = "EXIT" /\ k = [st |-> "OPEN", dir |-> l.dir]
    \/ l.st # "FLAT" /\ k = NoLeg

LEMMA FlattenMoves ==
    ASSUME NEW l \in LegStates
    PROVE  LegMoves(l, flatten_leg(l)) /\ LegMoves(l, NoLeg)
<1>1. LegMoves(l, NoLeg)
  BY LegCases DEF LegMoves
<1>2. CASE l.st \in {"FLAT", "PEND"}
  BY <1>1, <1>2, FlattenLeg
<1>3. CASE l.st \in {"OPEN", "EXIT"}
  <2>1. flatten_leg(l) = [st |-> "EXIT", dir |-> l.dir]
    BY <1>3, FlattenLeg
  <2> QED
    BY <1>1, <1>3, <2>1, LegCases DEF LegMoves
<1> QED
  BY <1>1, <1>2, <1>3, LegCases

LEMMA LegStepMoves ==
    ASSUME LiveInv, Next
    PROVE  LegMoves(leg, leg')
<1>1. leg \in LegStates
  BY LiveTypes
<1>2. LegMoves(leg, leg) /\ LegMoves(leg, NoLeg) /\ LegMoves(leg, flatten_leg(leg))
  BY <1>1, FlattenMoves DEF LegMoves
<1>3. CASE leg' = leg \/ leg' = NoLeg \/ leg' = flatten_leg(leg)
  BY <1>2, <1>3
<1>4. CASE Tick
  <2>1. PICK e, r, l, px : TickTo(e, r, l, px)
    BY <1>4, TickFacts
  <2>2. /\ in_position(e) = in_position(eng) /\ Bracket(l) /\ SignalStep(e, r)
        /\ Answered(r, l, eng', leg')
    BY <2>1 DEF TickTo, TickStep, Rehalted
  <2>3. r.sig \in {"none", "flatten", "buy", "sell"}
    BY <2>2 DEF SignalStep
  <2>4. CASE l = leg
    <3>1. CASE r.sig \in {"none", "flatten"}
      BY <1>3, <2>2, <2>4, <3>1 DEF Answered
    <3>2. CASE r.sig \in {"buy", "sell"}
      <4>1. leg' = leg \/ (Flat(leg) /\ \E d \in Sides : leg' = [st |-> "PEND", dir |-> d])
        BY <2>2, <2>4, <3>2 DEF Answered, Sides
      <4>2. Flat(leg) => leg = NoLeg
        BY <1>1, LegCases DEF Flat
      <4> QED
        BY <4>1, <4>2 DEF LegMoves
    <3> QED
      BY <2>3, <3>1, <3>2
  <2>5. CASE leg.st = "OPEN" /\ l = flatten_leg(leg)
    <3>1. ~Flat(l) /\ flatten_leg(l) = l
      BY <1>1, <2>5, FlattenLeg
    <3>2. leg' = l
      BY <2>2, <2>3, <3>1 DEF Answered
    <3> QED
      BY <1>3, <2>5, <3>2
  <2>6. CASE leg.st = "PEND" /\ l = NoLeg /\ in_position(eng)
    <3>1. r.sig \in {"none", "flatten"}
      BY <2>2, <2>3, <2>6 DEF SignalStep
    <3>2. leg' = NoLeg
      BY <2>2, <2>6, <3>1, NoLegFlat, FlattenLeg DEF Answered
    <3> QED
      BY <1>3, <3>2
  <2> QED
    BY <2>2, <2>4, <2>5, <2>6 DEF Bracket
<1>5. CASE EodTick
  <2>1. PICK r, e, l, bs, st : EodTo(r, e, l, bs, st)
    BY <1>5, EodFacts
  <2>2. (l = leg \/ l = flatten_leg(leg)) /\ (leg' = l \/ leg' = flatten_leg(l))
    BY <2>1 DEF EodTo
  <2>3. flatten_leg(flatten_leg(leg)) = flatten_leg(leg)
    BY <1>1, FlattenLeg
  <2> QED
    BY <1>3, <2>2, <2>3
<1>6. CASE EntryFill \/ ExitFails
  <2>1. leg = [st |-> leg.st, dir |-> leg.dir] /\ leg' = [leg EXCEPT !.st = "OPEN"]
        /\ leg.st \in {"PEND", "EXIT"}
    BY <1>1, <1>6, LegCases DEF EntryFill, ExitFails
  <2>2. leg' = [st |-> "OPEN", dir |-> leg.dir]
    BY <2>1
  <2> QED
    BY <2>1, <2>2 DEF LegMoves
<1>7. CASE \/ WarmTick \/ WarmEnd \/ EntryDies \/ LegCloses \/ OfflineFill \/ Snapshot
           \/ Shutdown \/ Clock
  BY <1>3, <1>7 DEF WarmTick, WarmEnd, EntryDies, LegCloses, OfflineFill, Snapshot,
                    Shutdown, Clock
<1>8. CASE Disconnect \/ Reconnect \/ DrainEnds \/ Crash \/ Restart
  <2>1. leg' = leg \/ leg' = NoLeg
    BY <1>8, ZenonT(60) DEF Disconnect, Reconnect, DrainEnds, Crash, Restart, NewCycle
  <2> QED
    BY <1>3, <2>1
<1> QED
  BY <1>4, <1>5, <1>6, <1>7, <1>8 DEF Next

\* What the live executor assumes of the order manager is the abstract leg, which
\* OrderManager is proved to implement: every step of the host's leg is one of its.
THEOREM HostKeepsContract ==
    Spec => LegContract
<1>1. Init => Legs!Init
  BY DEF Init, Legs!Init, Legs!NoLeg, NoLeg
<1>2. ASSUME LiveInv, [Next]_vars
      PROVE  [Legs!Next]_leg
  <2>1. CASE UNCHANGED vars
    BY <2>1 DEF vars, lvars
  <2>2. CASE Next
    <3>1. LegMoves(leg, leg')
      BY <1>2, <2>2, LegStepMoves
    <3> QED
      BY <3>1
      DEF LegMoves, NoLeg, Legs!Next, Legs!Take, Legs!Open, Legs!AskExit, Legs!ExitFails,
          Legs!End, Legs!Moves, Legs!NoLeg
  <2> QED
    BY <1>2, <2>1, <2>2
<1> QED
  BY <1>1, <1>2, LiveInvariant, PTL DEF Spec, LegContract, Legs!Spec
=============================================================================
