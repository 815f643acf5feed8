-------------------------- MODULE PaperHostProofs --------------------------
(***************************************************************************)
(* The paper host with any engine, any number of starts, any trail steps   *)
(* and any limits: its type, the agreement of the engine and the broker,   *)
(* the account's halt, the past tape and the working stop.                 *)
(*                                                                         *)
(* The operations are functions of the runner's state, so the invariant is *)
(* made of predicates on that state, and each operation has one lemma.     *)
(***************************************************************************)
EXTENDS PaperHost, EngineProofs

Accounts == [halt : {NoHalt, "account_daily_loss", "account_trailing_dd"},
             day : BOOLEAN, dd : BOOLEAN]

\* The states of a runner.
Runners == [e : EngineStates, b : BrokerState, n : 0 .. MaxTrades, a : Accounts,
            t : SUBSET Notes]

\* One position and at most one order: nothing is pending while a leg is held, and
\* a reversal waits for the leg it reverses.
Single(s) ==
    /\ s.b.dir # 0 => s.b.pend = 0
    /\ s.b.flip # 0 => s.b.dir = -s.b.flip
    /\ s.e.kind # "mtf" => s.b.flip = 0

\* The stop of a plain position: break-even is taken with its stop below the entry
\* and at once, and nothing trails before it.
Working(s) ==
    s.e.kind # "mtf" /\ s.b.dir # 0 =>
        /\ s.b.placed <= s.b.stop
        /\ s.b.be => s.b.placed >= 0
        /\ ~s.b.be => s.b.stop < 0 /\ ~s.b.far /\ ~s.b.trail

\* The side the broker is on or going to.
Bound(b) == IF b.flip # 0 THEN b.flip ELSE IF b.dir # 0 THEN b.dir ELSE b.pend

\* PaperInStep, for what is pending too: an order of the scalper is the side its
\* engine holds.
InStep(s) ==
    /\ s.e.kind = "mtf" /\ Bound(s.b) # 0 =>
          s.e.pos = Bound(s.b) \/ "flip" \in s.t \/ "rolled" \in s.t
    /\ s.e.kind # "mtf" /\ s.b.dir # 0 =>
          in_position(s.e) \/ "orb" \in s.t \/ "gap" \in s.t \/ "rolled" \in s.t
    /\ s.e.kind # "mtf" /\ s.b.pend # 0 =>
          in_position(s.e) \/ "gap" \in s.t \/ "rolled" \in s.t

\* AccountHaltHolds, at any time.
HaltKnown(s) == s.a.halt # NoHalt => s.e.halt # NoHalt \/ "free" \in s.t

\* What holds of a runner whose process is up, halted or not.
Sound(s) == /\ s \in Runners /\ EngineInv(s.e)
            /\ Single(s) /\ Working(s) /\ InStep(s)

\* A broker that waits for nothing: a start, and the whole warm-up.
Quiet(b) == b.pend = 0 /\ b.flip = 0

PaperInv ==
    /\ TypeOK
    /\ EngineInv(eng) /\ Single(State) /\ Working(State) /\ HaltKnown(State)
    /\ pc # "off" => InStep(State)
    /\ pc = "off" => Quiet(brk) /\ acct.halt = NoHalt /\ ~pwarm
    /\ pc = "engine" => brk.flip = 0
    /\ pwarm => Quiet(brk)
    /\ old => brk.dir # 0 /\ eng.kind # "mtf"
    /\ old \/ pwarm => curDate

-----------------------------------------------------------------------------
(* Two states of one runner. *)

\* Nothing but a signal opens a position, one position does not become another,
\* and the working stop of a plain one does not retreat.
Follows(b, c) ==
    /\ b.dir = 0 /\ b.pend = 0 => c.dir = 0 /\ c.pend = 0
    /\ b.dir # 0 => \/ c.dir = 0 /\ c.pend = 0
                    \/ c.dir = b.dir /\ c.placed >= b.placed

\* What every operation of the host does to the runner: u after s.
Goes(s, u) ==
    /\ Sound(u) /\ Alike(s.e, u.e)
    /\ s.e.kind # "mtf" => Follows(s.b, u.b)
    /\ s.b.flip = 0 => u.b.flip = 0
    /\ Quiet(s.b) => Quiet(u.b)

LEMMA BrokerFields ==
    ASSUME NEW b \in BrokerState
    PROVE  /\ b.dir \in Dirs /\ b.pend \in Dirs /\ b.flip \in Dirs /\ b.exit \in BOOLEAN
           /\ b.stop \in -(RUnit + Sl + 1) .. Top /\ b.placed \in -(RUnit + Sl + 1) .. Top
           /\ b.be \in BOOLEAN /\ b.far \in BOOLEAN /\ b.trail \in BOOLEAN
           /\ b.hit \in BOOLEAN /\ b.entries \in 0 .. MaxTrades
           /\ b.stop \in Int /\ b.placed \in Int
<1>1. -(RUnit + Sl + 1) \in Int /\ Top \in Int
  BY MtfConstants, PaperAssumption DEF Top, MaxOf
<1>2. b.stop \in -(RUnit + Sl + 1) .. Top /\ b.placed \in -(RUnit + Sl + 1) .. Top
  BY DEF BrokerState
<1>3. b.stop \in Int /\ b.placed \in Int
  BY <1>1, <1>2
<1> QED
  BY <1>2, <1>3 DEF BrokerState

LEMMA RunnerFields ==
    ASSUME NEW s \in Runners
    PROVE  /\ s.e \in EngineStates /\ s.b \in BrokerState /\ s.n \in 0 .. MaxTrades
           /\ s.a \in Accounts /\ s.t \in SUBSET Notes
BY DEF Runners

LEMMA PaperConstants ==
    /\ Sl \in Nat \ {0} /\ BeTrigger \in Nat \ {0} /\ MaxStarts \in Nat
    /\ Steps \subseteq Nat \ {0} /\ Top \in Nat /\ Top >= BeTrigger + 1
    /\ Top >= TrailAt + 1
BY MtfConstants, PaperAssumption DEF Top, MaxOf

LEMMA GoesItself ==
    ASSUME NEW s, Sound(s)
    PROVE  Goes(s, s)
<1>1. s.b.placed >= s.b.placed
  BY RunnerFields, BrokerFields DEF Sound
<1> QED
  BY <1>1 DEF Goes, Follows, Alike

LEMMA GoesTrans ==
    ASSUME NEW s, NEW u, NEW w, Sound(s), Goes(s, u), Goes(u, w)
    PROVE  Goes(s, w)
<1>1. s.b.placed \in Int /\ u.b.placed \in Int /\ w.b.placed \in Int
  BY RunnerFields, BrokerFields DEF Sound, Goes
<1>2. Alike(s.e, w.e) /\ u.e.kind = s.e.kind
  BY DEF Goes, Alike
<1>3. s.e.kind # "mtf" => Follows(s.b, w.b)
  BY <1>1, <1>2 DEF Goes, Follows
<1> QED
  BY <1>2, <1>3 DEF Goes

-----------------------------------------------------------------------------
(* A close. *)

LEMMA ClosedBroker ==
    ASSUME NEW b \in BrokerState
    PROVE  /\ Closed(b) \in BrokerState /\ Closed(b).dir = 0 /\ Closed(b).pend = 0
           /\ Closed(b).flip = 0 /\ Closed(b).hit = b.hit /\ Closed(b).entries = b.entries
<1>1. 0 \in -(RUnit + Sl + 1) .. Top /\ 0 \in 0 .. MaxTrades
  BY PaperConstants, MtfConstants
<1>2. NoBroker \in BrokerState
  BY <1>1 DEF NoBroker, BrokerState, Dirs
<1>3. b.hit \in BOOLEAN /\ b.entries \in 0 .. MaxTrades
  BY BrokerFields
<1> QED
  BY <1>2, <1>3 DEF Closed, NoBroker, BrokerState

LEMMA AccountClose ==
    ASSUME NEW a \in Accounts, NEW o \in Outcome
    PROVE  /\ on_trade_close(a, o) \in Accounts
           /\ a.halt # NoHalt => on_trade_close(a, o).halt # NoHalt
<1> DEFINE c == [a EXCEPT !.day = IF o.loss THEN @ \/ o.day ELSE @ /\ o.day,
                          !.dd = IF o.loss THEN @ \/ o.dd ELSE @ /\ o.dd]
<1>1. c \in Accounts /\ c.halt = a.halt
  BY DEF Accounts, Outcome
<1> HIDE DEF c
<1>2. check_limits(c) \in {NoHalt, "account_daily_loss", "account_trailing_dd"}
  BY DEF check_limits
<1>3. on_trade_close(a, o)
        = [c EXCEPT !.halt = IF check_limits(c) = NoHalt THEN @ ELSE check_limits(c)]
  BY DEF on_trade_close, c
<1> QED
  BY <1>1, <1>2, <1>3 DEF Accounts

\* The callback with the engine told of the close, and without (restart_flatten).
Told(s, d, o) == on_trade_closed(s, d, o, TRUE)
Untold(s, d, o) == on_trade_closed(s, d, o, FALSE)

\* The callback knows of the account's halt, and frees an engine on that side.
Closes(s, d, u) ==
    /\ u \in Runners /\ EngineInv(u.e) /\ Alike(s.e, u.e) /\ u.e.halt = s.e.halt
    /\ u.b.dir = s.b.dir /\ u.b.pend = s.b.pend /\ u.b.flip = s.b.flip
    /\ s.e.kind = "mtf" /\ s.e.pos # d => u.e.pos = s.e.pos
    /\ s.t \subseteq u.t
    /\ HaltKnown(u)

LEMMA TradeCloses ==
    ASSUME NEW s \in Runners, EngineInv(s.e), NEW o \in Outcome, NEW d, NEW f,
           EngineInv(f), Alike(s.e, f), f.halt = s.e.halt,
           s.e.kind = "mtf" /\ s.e.pos # d => f.pos = s.e.pos, NEW u,
           LET a == on_trade_close(s.a, o)
           IN  u = [s EXCEPT !.n = MinOf(@ + 1, MaxTrades), !.b.hit = @ \/ o.hit,
                             !.e = f, !.a = a,
                             !.t = @ \union Tag(a.halt # NoHalt /\ s.e.halt = NoHalt, "free")]
    PROVE  Closes(s, d, u)
<1> DEFINE a == on_trade_close(s.a, o)
           g == [s.b EXCEPT !.hit = s.b.hit \/ o.hit]
           m == MinOf(s.n + 1, MaxTrades)
           t == s.t \union Tag(a.halt # NoHalt /\ s.e.halt = NoHalt, "free")
<1>1. a \in Accounts
  BY RunnerFields, AccountClose
<1>3. /\ g \in BrokerState /\ g.dir = s.b.dir /\ g.pend = s.b.pend
      /\ g.flip = s.b.flip
  <2>1. s.b \in BrokerState /\ o.hit \in BOOLEAN /\ s.b.hit \in BOOLEAN
    BY RunnerFields, BrokerFields DEF Outcome
  <2> QED
    BY <2>1 DEF BrokerState
<1>4. m \in 0 .. MaxTrades
  BY RunnerFields, MtfConstants DEF MinOf
<1>5. /\ t \in SUBSET Notes /\ s.t \subseteq t
      /\ a.halt # NoHalt => s.e.halt # NoHalt \/ "free" \in t
  BY RunnerFields DEF Tag, Notes
<1>6. u = [s EXCEPT !.n = m, !.b = g, !.e = f, !.a = a, !.t = t]
  OBVIOUS
<1> HIDE DEF a, g, m, t
<1>7. u \in Runners /\ u.e = f /\ u.b = g /\ u.a = a /\ u.t = t
  BY <1>1, <1>3, <1>4, <1>5, <1>6, EngineStateType DEF Runners
<1> QED
  BY <1>3, <1>5, <1>7 DEF HaltKnown, Closes

LEMMA TradeClosed ==
    ASSUME NEW s \in Runners, EngineInv(s.e), NEW d \in Sides, NEW o \in Outcome
    PROVE  Closes(s, d, Told(s, d, o))
<1> DEFINE f == notify_trade_filled(s.e, d, o.loss)
           u == Told(s, d, o)
<1>1. ClosedStep(s.e, d, o.loss, f)
  BY FilledStep DEF Outcome
<1>2. LET a == on_trade_close(s.a, o)
      IN  u = [s EXCEPT !.n = MinOf(@ + 1, MaxTrades), !.b.hit = @ \/ o.hit,
                        !.e = f, !.a = a,
                        !.t = @ \union Tag(a.halt # NoHalt /\ s.e.halt = NoHalt, "free")]
  BY DEF Told, on_trade_closed
<1> HIDE DEF f, u
<1>3. /\ EngineInv(f) /\ Alike(s.e, f) /\ f.halt = s.e.halt
      /\ s.e.kind = "mtf" /\ s.e.pos # d => f.pos = s.e.pos
  BY <1>1 DEF ClosedStep
<1>4. Closes(s, d, u)
  BY <1>2, <1>3, TradeCloses
<1> QED
  BY <1>4 DEF u

LEMMA TradeClosedUntold ==
    ASSUME NEW s \in Runners, EngineInv(s.e), NEW d \in Sides, NEW o \in Outcome
    PROVE  Closes(s, d, Untold(s, d, o)) /\ Untold(s, d, o).e = s.e
<1> DEFINE u == Untold(s, d, o)
           f == s.e
<1>1. LET a == on_trade_close(s.a, o)
      IN  u = [s EXCEPT !.n = MinOf(@ + 1, MaxTrades), !.b.hit = @ \/ o.hit,
                        !.e = f, !.a = a,
                        !.t = @ \union Tag(a.halt # NoHalt /\ s.e.halt = NoHalt, "free")]
  BY DEF Untold, on_trade_closed
<1>2. /\ EngineInv(f) /\ Alike(s.e, f) /\ f.halt = s.e.halt
      /\ s.e.kind = "mtf" /\ s.e.pos # d => f.pos = s.e.pos
  BY DEF Alike
<1> HIDE DEF u, f
<1>3. Closes(s, d, u)
  BY <1>1, <1>2, TradeCloses
<1>4. u.e = f
  BY <1>1 DEF Runners
<1> QED
  BY <1>3, <1>4 DEF u, f

LEMMA WithBroker ==
    ASSUME NEW s \in Runners, NEW c \in BrokerState
    PROVE  LET u == [s EXCEPT !.b = c]
           IN  /\ u \in Runners /\ u.e = s.e /\ u.b = c /\ u.n = s.n /\ u.a = s.a
               /\ u.t = s.t
BY DEF Runners

\* A runner without position or order has nothing to disagree with.
LEMMA FlatSound ==
    ASSUME NEW s, NEW u \in Runners, Sound(s), EngineInv(u.e), Alike(s.e, u.e),
           u.b.dir = 0, u.b.pend = 0, u.b.flip = 0
    PROVE  Goes(s, u)
BY DEF Goes, Follows, Quiet, Sound, Single, Working, InStep, Bound

LEMMA FlatStep ==
    ASSUME NEW s, Sound(s), NEW c \in BrokerState, c.dir = 0, c.pend = 0, c.flip = 0
    PROVE  /\ Goes(s, [s EXCEPT !.b = c])
           /\ HaltKnown(s) => HaltKnown([s EXCEPT !.b = c])
<1> DEFINE u == [s EXCEPT !.b = c]
<1>1. u \in Runners /\ u.e = s.e /\ u.b = c /\ u.a = s.a /\ u.t = s.t
  BY WithBroker DEF Sound
<1> HIDE DEF u
<1>2. Goes(s, u)
  BY <1>1, FlatSound DEF Sound, Alike
<1> QED
  BY <1>1, <1>2 DEF u, HaltKnown

\* The position on side d ends in c: nothing is pending afterwards but a reversal,
\* which the engine already holds.
LEMMA CloseStep ==
    ASSUME NEW s, Sound(s), NEW c \in BrokerState, c.dir = 0, c.flip = 0,
           NEW d \in Sides, NEW o \in Outcome,
           c.pend # 0 => s.e.kind = "mtf" /\ c.pend = s.b.flip /\ d = -c.pend
    PROVE  LET u == Settle(s, d, c, o)
           IN  /\ Goes(s, u) /\ HaltKnown(u) /\ u.b.dir = 0 /\ u.e.halt = s.e.halt
               /\ c.pend = 0 => u.b.pend = 0
<1> DEFINE v == [s EXCEPT !.b = c]
           w == on_trade_closed(v, d, o, TRUE)
           p == IF w.b.hit THEN 0 ELSE w.b.pend
           g == [w.b EXCEPT !.pend = p]
           u == [w EXCEPT !.b = g]
<1>0. d # 0
  BY DEF Sides
<1>1. v \in Runners /\ v.e = s.e /\ v.b = c /\ v.a = s.a /\ v.t = s.t
  BY WithBroker DEF Sound
<1> HIDE DEF v
<1>2. /\ w \in Runners /\ EngineInv(w.e) /\ Alike(s.e, w.e) /\ w.e.halt = s.e.halt
      /\ w.b.dir = 0 /\ w.b.pend = c.pend /\ w.b.flip = 0
      /\ s.e.kind = "mtf" /\ s.e.pos # d => w.e.pos = s.e.pos
      /\ s.t \subseteq w.t /\ HaltKnown(w)
  <2>1. EngineInv(v.e) /\ w = Told(v, d, o)
    BY <1>1 DEF Sound, Told
  <2>2. Closes(v, d, w)
    BY <1>1, <2>1, TradeClosed
  <2> HIDE DEF w
  <2> QED
    BY <1>1, <2>2 DEF Closes
<1>3. Settle(s, d, c, o) = u
  BY <1>0 DEF Settle, v
<1> HIDE DEF w
<1>4. w.b \in BrokerState /\ p \in Dirs /\ (p = 0 \/ p = c.pend)
  BY <1>2, RunnerFields, BrokerFields DEF Dirs
<1> HIDE DEF p
<1>5. g \in BrokerState /\ g.dir = 0 /\ g.pend = p /\ g.flip = 0
  BY <1>2, <1>4 DEF BrokerState
<1> HIDE DEF g
<1>6. u \in Runners /\ u.e = w.e /\ u.b = g /\ u.a = w.a /\ u.t = w.t
  BY <1>2, <1>5, WithBroker
<1> HIDE DEF u
<1>7. HaltKnown(u)
  BY <1>2, <1>6 DEF HaltKnown
<1>8. Goes(s, u)
  <2>1. CASE p = 0
    BY <1>2, <1>5, <1>6, <2>1, FlatSound
  <2>2. CASE p # 0
    <3>1. s.e.kind = "mtf" /\ p = s.b.flip /\ d = -p /\ p \in {-1, 1}
      BY <1>4, <2>2 DEF Dirs
    <3>2. Bound(s.b) = p /\ Bound(u.b) = p
      BY <1>5, <1>6, <3>1 DEF Bound
    <3>3. s.e.pos = p => u.e.pos = p
      BY <1>2, <1>6, <3>1
    <3>4. InStep(u)
      BY <1>2, <1>6, <3>1, <3>2, <3>3 DEF Sound, InStep, Alike
    <3>5. u.e.kind = "mtf" /\ Alike(s.e, u.e)
      BY <1>2, <1>6, <3>1 DEF Alike
    <3> QED
      BY <1>2, <1>5, <1>6, <3>1, <3>4, <3>5
      DEF Goes, Quiet, Sound, Single, Working
  <2> QED
    BY <2>1, <2>2
<1> QED
  BY <1>2, <1>3, <1>4, <1>5, <1>6, <1>7, <1>8

\* A host's flatten.
LEMMA FlattenBroker ==
    ASSUME NEW s, Sound(s), NEW o \in Outcome
    PROVE  LET u == broker_flatten(s, o)
           IN  /\ Goes(s, u) /\ u.b.dir = 0 /\ u.b.pend = 0 /\ u.e.halt = s.e.halt
               /\ HaltKnown(s) \/ s.e.halt # NoHalt => HaltKnown(u)
<1> DEFINE c == Closed(s.b)
<1>1. c \in BrokerState /\ c.dir = 0 /\ c.pend = 0 /\ c.flip = 0
  BY ClosedBroker, RunnerFields DEF Sound
<1>2. broker_flatten(s, o) = Settle(s, s.b.dir, c, o)
  BY DEF broker_flatten
<1> HIDE DEF c
<1>3. CASE s.b.dir # 0
  <2>1. s.b.dir \in Sides
    BY <1>3, RunnerFields, BrokerFields DEF Sound, Dirs, Sides
  <2> QED
    BY <1>1, <1>2, <2>1, CloseStep
<1>4. CASE s.b.dir = 0
  <2>1. broker_flatten(s, o) = [s EXCEPT !.b = c]
    BY <1>2, <1>4 DEF Settle
  <2>2. [s EXCEPT !.b = c].e = s.e /\ [s EXCEPT !.b = c].b = c
    BY <1>1, WithBroker DEF Sound
  <2>3. s.e.halt # NoHalt => HaltKnown([s EXCEPT !.b = c])
    BY <2>2 DEF HaltKnown
  <2> QED
    BY <1>1, <2>1, <2>2, <2>3, FlatStep
<1> QED
  BY <1>3, <1>4

-----------------------------------------------------------------------------
(* What leaves the position and the orders alone. *)

SameOrders(b, c) ==
    /\ c.dir = b.dir /\ c.pend = b.pend /\ c.flip = b.flip
    /\ c.stop = b.stop /\ c.placed = b.placed
    /\ c.be = b.be /\ c.far = b.far /\ c.trail = b.trail

\* The engine still knows of the position or the order, or a note says why not.
StillKnown(s, u) ==
    \/ /\ in_position(s.e) => in_position(u.e)
       /\ s.e.kind = "mtf" => u.e.pos = s.e.pos
    \/ "rolled" \in u.t
    \/ s.e.kind # "mtf" /\ "gap" \in u.t

LEMMA SameOrdersStep ==
    ASSUME NEW s, NEW u \in Runners, Sound(s), EngineInv(u.e), Alike(s.e, u.e),
           SameOrders(s.b, u.b), s.t \ {"free"} \subseteq u.t,
           s.b.dir # 0 \/ s.b.pend # 0 => StillKnown(s, u)
    PROVE  Goes(s, u)
<1>1. u.b.placed \in Int /\ s.b.placed \in Int
  BY RunnerFields, BrokerFields DEF Sound
<1>2. Bound(u.b) = Bound(s.b)
  BY DEF Bound, SameOrders
<1>3. Single(u)
  BY DEF Sound, Single, SameOrders, Alike
<1>4. Working(u)
  BY DEF Sound, Working, SameOrders, Alike
<1>5. InStep(u)
  <2>1. /\ "flip" \in s.t => "flip" \in u.t
        /\ "orb" \in s.t => "orb" \in u.t
        /\ "gap" \in s.t => "gap" \in u.t
        /\ "rolled" \in s.t => "rolled" \in u.t
    OBVIOUS
  <2>2. CASE s.e.kind = "mtf"
    <3>1. Bound(s.b) # 0 => s.b.dir # 0 \/ s.b.pend # 0
      BY RunnerFields, BrokerFields DEF Sound, Single, Bound, Dirs
    <3> QED
      BY <1>2, <2>1, <2>2, <3>1 DEF Sound, InStep, StillKnown, Alike
  <2>3. CASE s.e.kind # "mtf"
    BY <2>1, <2>3 DEF Sound, InStep, StillKnown, Alike, SameOrders
  <2> QED
    BY <2>2, <2>3
<1>6. s.e.kind # "mtf" => Follows(s.b, u.b)
  BY <1>1 DEF Follows, SameOrders
<1>7. Quiet(s.b) => Quiet(u.b)
  BY DEF Quiet, SameOrders
<1> QED
  BY <1>3, <1>4, <1>5, <1>6, <1>7 DEF Goes, Sound, SameOrders

LEMMA SameItself ==
    ASSUME NEW b
    PROVE  SameOrders(b, b)
BY DEF SameOrders

\* An account halt: the position is closed and the engine is halted.
LEMMA HaltAllStep ==
    ASSUME NEW s, Sound(s), NEW why \in {"account_daily_loss", "account_trailing_dd"},
           NEW o \in Outcome
    PROVE  LET u == halt_all(s, why, o)
           IN  Goes(s, u) /\ HaltKnown(u) /\ u.b.dir = 0 /\ u.b.pend = 0
<1> DEFINE f == s_halt(s.e)
           a == [s.a EXCEPT !.halt = why]
           t == s.t \ {"free"}
           v == [s EXCEPT !.a = a, !.e = f, !.t = t]
<1>0. "host" \in Halts /\ "host" # NoHalt
  BY DEF Halts, NoHalt
<1>1. /\ EngineInv(f) /\ Alike(s.e, f) /\ f.halt # NoHalt
      /\ in_position(f) = in_position(s.e) /\ (s.e.kind = "mtf" => f.pos = s.e.pos)
  <2>1. f = [s.e EXCEPT !.halt = "host"]
    BY DEF s_halt, halt_trading
  <2> HIDE DEF f
  <2> QED
    BY <1>0, <2>1, HaltKept DEF Kept, Sound
<1>2. a \in Accounts /\ t \in SUBSET Notes
  BY RunnerFields DEF Accounts, Sound
<1> HIDE DEF f, a
<1>3. v \in Runners /\ v.e = f /\ v.b = s.b /\ v.t = t
  BY <1>1, <1>2, EngineStateType DEF Runners, Sound
<1>4. halt_all(s, why, o) = broker_flatten(v, o)
  BY DEF halt_all, f, a
<1> HIDE DEF v
<1>5. Goes(s, v)
  <2>1. StillKnown(s, v) /\ SameOrders(s.b, v.b)
    BY <1>1, <1>3, SameItself DEF StillKnown
  <2> QED
    BY <1>1, <1>3, <2>1, SameOrdersStep
<1>6. Sound(v) /\ v.e.halt # NoHalt
  BY <1>1, <1>3, <1>5 DEF Goes
<1>7. /\ Goes(v, broker_flatten(v, o)) /\ HaltKnown(broker_flatten(v, o))
      /\ broker_flatten(v, o).b.dir = 0 /\ broker_flatten(v, o).b.pend = 0
  BY <1>6, FlattenBroker
<1> HIDE DEF v
<1> QED
  BY <1>4, <1>5, <1>7, GoesTrans

\* The end-of-window check asks for an exit and opens nothing.
LEMMA EodCheckStep ==
    ASSUME NEW s, Sound(s), NEW ph, NEW warm
    PROVE  LET u == s_eod(s, ph, warm)
           IN  /\ Goes(s, u) /\ (HaltKnown(s) => HaltKnown(u))
               /\ u.b = [s.b EXCEPT !.exit = u.b.exit] /\ SameOrders(s.b, u.b)
<1> DEFINE r == check_eod(s.e, ph)
           x == IF r.sig = "flatten" THEN
                  IF s.e.kind = "mtf" THEN s.b.exit \/ s.b.dir # 0 ELSE s.b.dir # 0
                ELSE s.b.exit
           b == [s.b EXCEPT !.exit = x]
           u == [s EXCEPT !.e = r.e, !.b = b, !.t = s.t]
<1>1. EodStep(s.e, r)
  BY CheckEodStep DEF Sound
<1>2. s.b \in BrokerState /\ s.t \in SUBSET Notes
  BY RunnerFields DEF Sound
<1>3. s_eod(s, ph, warm) = u
  <2>1. s_eod(s, ph, warm) = Emit(s, r, TRUE, warm)
    BY DEF s_eod
  <2>2. r.sig \in {"none", "flatten"}
    BY <1>1 DEF EodStep
  <2> HIDE DEF r
  <2>3. /\ bracket_signal(s.b, r.sig, TRUE, warm)
             = IF r.sig = "flatten" THEN [s.b EXCEPT !.exit = @ \/ s.b.dir # 0] ELSE s.b
        /\ plain_signal(s.b, r.sig, TRUE, warm)
             = IF r.sig = "flatten" THEN [s.b EXCEPT !.exit = s.b.dir # 0] ELSE s.b
    BY <2>2 DEF bracket_signal, plain_signal
  <2>4. (IF s.e.kind = "mtf" THEN bracket_signal(s.b, r.sig, TRUE, warm)
                             ELSE plain_signal(s.b, r.sig, TRUE, warm)) = b
    BY <1>2, <2>3 DEF BrokerState
  <2>5. r.sig \notin {"buy", "sell"}
    BY <2>2
  <2> HIDE DEF b
  <2> QED
    BY <2>1, <2>4, <2>5 DEF Emit, Tag
<1>4. x \in BOOLEAN
  BY <1>2, BrokerFields
<1>5. /\ EngineInv(r.e) /\ Alike(s.e, r.e) /\ in_position(r.e) = in_position(s.e)
      /\ r.e.halt = s.e.halt /\ (s.e.kind = "mtf" => r.e.pos = s.e.pos)
  BY <1>1 DEF EodStep, Untouched, Kept
<1> HIDE DEF r, x
<1>6. b \in BrokerState /\ SameOrders(s.b, b) /\ b.exit = x
  BY <1>2, <1>4 DEF BrokerState, SameOrders
<1>7. b = [s.b EXCEPT !.exit = b.exit]
  BY <1>6
<1> HIDE DEF b
<1>8. u \in Runners /\ u.e = r.e /\ u.b = b /\ u.a = s.a /\ u.t = s.t
  BY <1>2, <1>5, <1>6, EngineStateType DEF Runners, Sound
<1> HIDE DEF u
<1>9. Goes(s, u)
  <2>1. StillKnown(s, u)
    BY <1>5, <1>8 DEF StillKnown
  <2> QED
    BY <1>5, <1>6, <1>8, <2>1, SameOrdersStep
<1>10. HaltKnown(s) => HaltKnown(u)
  BY <1>5, <1>8 DEF HaltKnown
<1> QED
  BY <1>3, <1>6, <1>7, <1>8, <1>9, <1>10

\* The position was closed, or is the one there was.
Keeps(s, u) == u.b.dir = 0 \/ SameOrders(s.b, u.b)

\* The account's limits are checked again.
LEMMA RecheckStep ==
    ASSUME NEW s, Sound(s), HaltKnown(s), NEW o \in Outcome
    PROVE  LET u == recheck_limits(s, o)
           IN  Goes(s, u) /\ HaltKnown(u) /\ Keeps(s, u)
<1>1. CASE s.a.halt = NoHalt /\ check_limits(s.a) # NoHalt
  <2>1. check_limits(s.a) \in {"account_daily_loss", "account_trailing_dd"}
    BY <1>1 DEF check_limits
  <2> DEFINE why == check_limits(s.a)
  <2>2. recheck_limits(s, o) = halt_all(s, why, o)
    BY <1>1 DEF recheck_limits
  <2> HIDE DEF why
  <2> QED
    BY <2>1, <2>2, HaltAllStep DEF why, Keeps
<1>2. CASE ~(s.a.halt = NoHalt /\ check_limits(s.a) # NoHalt)
  <2>1. recheck_limits(s, o) = s
    BY <1>2 DEF recheck_limits
  <2> QED
    BY <2>1, GoesItself, SameItself DEF Keeps
<1> QED
  BY <1>1, <1>2

LEMMA ResetDayStep ==
    ASSUME NEW s, Sound(s), NEW o \in Outcome
    PROVE  Goes(s, reset_day(s, o)) /\ SameOrders(s.b, reset_day(s, o).b)
<1> DEFINE f == reset_session(s.e)
           b == [s.b EXCEPT !.hit = s.b.hit /\ o.hit, !.entries = 0]
           a == account_reset_day(s.a)
           t == s.t \union Tag(s.b.dir # 0 \/ s.b.pend # 0, "rolled")
           u == [s EXCEPT !.e = f, !.b = b, !.n = 0, !.a = a, !.t = t]
<1>1. EngineInv(f) /\ Alike(s.e, f)
  BY ResetSessionStep DEF ResetStep, Sound
<1>2. b \in BrokerState /\ SameOrders(s.b, b)
  <2>1. s.b \in BrokerState /\ o.hit \in BOOLEAN /\ s.b.hit \in BOOLEAN /\ 0 \in 0 .. MaxTrades
    BY RunnerFields, BrokerFields, MtfConstants DEF Sound, Outcome
  <2> QED
    BY <2>1 DEF BrokerState, SameOrders
<1>3. a \in Accounts /\ 0 \in 0 .. MaxTrades
  <2> DEFINE h == IF s.a.halt = "account_daily_loss" THEN NoHalt ELSE s.a.halt
  <2>1. s.a \in Accounts
    BY RunnerFields DEF Sound
  <2>2. h \in {NoHalt, "account_daily_loss", "account_trailing_dd"}
    BY <2>1 DEF Accounts
  <2>3. a = [s.a EXCEPT !.day = FALSE, !.halt = h]
    BY <2>1 DEF account_reset_day, Accounts
  <2> HIDE DEF h, a
  <2>4. a \in Accounts
    BY <2>1, <2>2, <2>3 DEF Accounts
  <2> QED
    BY <2>4, MtfConstants
<1>4. /\ t \in SUBSET Notes /\ s.t \subseteq t
      /\ s.b.dir # 0 \/ s.b.pend # 0 => "rolled" \in t
  BY RunnerFields DEF Tag, Notes, Sound
<1>5. reset_day(s, o) = u
  BY DEF reset_day
<1> HIDE DEF f, b, a, t
<1>6. u \in Runners /\ u.e = f /\ u.b = b /\ u.t = t
  BY <1>1, <1>2, <1>3, <1>4, EngineStateType DEF Runners, Sound
<1> HIDE DEF u
<1>7. Goes(s, u)
  <2>1. s.b.dir # 0 \/ s.b.pend # 0 => StillKnown(s, u)
    BY <1>4, <1>6 DEF StillKnown
  <2> QED
    BY <1>1, <1>2, <1>4, <1>6, <2>1, SameOrdersStep
<1> QED
  BY <1>2, <1>5, <1>6, <1>7

\* A change of date, with the halt that survives it.
LEMMA RollDayStep ==
    ASSUME NEW s, Sound(s), HaltKnown(s), NEW o \in Outcome
    PROVE  LET u == roll_day_if_needed(s, o)
           IN  Goes(s, u) /\ HaltKnown(u) /\ (curDate => u = s)
<1> DEFINE v == reset_day(s, o)
           why == v.a.halt
<1>1. CASE curDate
  <2>1. roll_day_if_needed(s, o) = s
    BY <1>1 DEF roll_day_if_needed
  <2> QED
    BY <2>1, GoesItself
<1>2. CASE ~curDate
  <2>1. Goes(s, v) /\ SameOrders(s.b, v.b)
    BY ResetDayStep
  <2>2. roll_day_if_needed(s, o) = IF why = NoHalt THEN v ELSE halt_all(v, why, o)
    BY <1>2 DEF roll_day_if_needed, reapply_halt
  <2> HIDE DEF v
  <2>3. CASE why = NoHalt
    BY <1>2, <2>1, <2>2, <2>3 DEF HaltKnown
  <2>4. CASE why # NoHalt
    <3>1. why \in {"account_daily_loss", "account_trailing_dd"}
      BY <2>1, <2>4, RunnerFields DEF Goes, Sound, Accounts
    <3> HIDE DEF why
    <3>2. Goes(v, halt_all(v, why, o)) /\ HaltKnown(halt_all(v, why, o))
      BY <2>1, <3>1, HaltAllStep DEF Goes
    <3>3. Goes(s, halt_all(v, why, o))
      BY <2>1, <3>2, GoesTrans
    <3>4. roll_day_if_needed(s, o) = halt_all(v, why, o)
      BY <2>2, <2>4
    <3> QED
      BY <1>2, <3>2, <3>3, <3>4
  <2> QED
    BY <2>3, <2>4
<1> QED
  BY <1>1, <1>2

\* The replayed tape reaches the next date.
LEMMA WarmRollStep ==
    ASSUME NEW s, Sound(s), Quiet(s.b)
    PROVE  LET u == warm_roll_to(s)
           IN  Goes(s, u) /\ HaltKnown(u) /\ u.b = s.b
<1> DEFINE f == reset_session(s.e)
           t == s.t \union Tag(s.b.dir # 0, "rolled") \union Tag(s.a.halt # NoHalt, "free")
           u == [s EXCEPT !.e = f, !.t = t]
<1>1. EngineInv(f) /\ Alike(s.e, f)
  BY ResetSessionStep DEF ResetStep, Sound
<1>2. /\ t \in SUBSET Notes /\ s.t \subseteq t
      /\ s.b.dir # 0 => "rolled" \in t
      /\ s.a.halt # NoHalt => "free" \in t
  BY RunnerFields DEF Tag, Notes, Sound
<1>3. warm_roll_to(s) = u
  BY DEF warm_roll_to
<1> HIDE DEF f, t
<1>4. u \in Runners /\ u.e = f /\ u.b = s.b /\ u.a = s.a /\ u.t = t
  BY <1>1, <1>2, EngineStateType DEF Runners, Sound
<1> HIDE DEF u
<1>5. Goes(s, u)
  <2>1. s.b.dir # 0 \/ s.b.pend # 0 => StillKnown(s, u)
    BY <1>2, <1>4 DEF StillKnown, Quiet
  <2> QED
    BY <1>1, <1>2, <1>4, <2>1, SameItself, SameOrdersStep
<1>6. HaltKnown(u)
  BY <1>2, <1>4 DEF HaltKnown
<1> QED
  BY <1>3, <1>4, <1>5, <1>6

\* The warm-up is over: an engine without a position is released.
LEMMA LiveAgainStep ==
    ASSUME NEW s, Sound(s), Quiet(s.b), HaltKnown(s)
    PROVE  LET u == live_again(s)
           IN  Goes(s, u) /\ HaltKnown(u) /\ u.b = s.b
<1> DEFINE e == IF in_position(s.e) /\ s.b.dir = 0 THEN Release(s.e) ELSE s.e
           f == seed_trades_today(e, s.n)
           h == IF startup THEN s_halt(f) ELSE f
           u == [s EXCEPT !.e = h]
<1>0. "host" \in Halts /\ "host" # NoHalt
  BY DEF Halts, NoHalt
<1>1. /\ EngineInv(e) /\ Alike(s.e, e) /\ e.halt = s.e.halt
      /\ s.b.dir # 0 => e = s.e
  BY ReleaseStep DEF Sound, Kept, Alike
<1> HIDE DEF e
<1>2. /\ EngineInv(f) /\ Alike(s.e, f) /\ f.halt = s.e.halt
      /\ s.b.dir # 0 => /\ in_position(f) = in_position(s.e)
                        /\ s.e.kind = "mtf" => f.pos = s.e.pos
  <2>1. Untouched(e, f)
    BY <1>1, RunnerFields, SeedTradesKept DEF Sound
  <2> HIDE DEF f
  <2> QED
    BY <1>1, <2>1 DEF Untouched, Kept, Alike
<1> HIDE DEF f
<1>3. /\ EngineInv(h) /\ Alike(s.e, h)
      /\ s.e.halt # NoHalt => h.halt # NoHalt
      /\ s.b.dir # 0 => /\ in_position(h) = in_position(s.e)
                        /\ s.e.kind = "mtf" => h.pos = s.e.pos
  <2>1. CASE startup
    <3>1. h = [f EXCEPT !.halt = "host"]
      BY <2>1 DEF s_halt, halt_trading
    <3> HIDE DEF h
    <3>2. /\ Kept(f, h) /\ in_position(h) = in_position(f) /\ h.halt = "host"
          /\ f.kind = "mtf" => h.pos = f.pos
      BY <1>0, <1>2, <3>1, HaltKept
    <3> QED
      BY <1>0, <1>2, <3>2 DEF Kept, Alike
  <2>2. CASE ~startup
    BY <1>2, <2>2
  <2> QED
    BY <2>1, <2>2
<1>4. live_again(s) = u
  BY DEF live_again, e, f
<1> HIDE DEF h
<1>5. u \in Runners /\ u.e = h /\ u.b = s.b /\ u.a = s.a /\ u.t = s.t
  BY <1>3, EngineStateType DEF Runners, Sound
<1> HIDE DEF u
<1>6. Goes(s, u)
  <2>1. s.b.dir # 0 \/ s.b.pend # 0 => StillKnown(s, u)
    BY <1>3, <1>5 DEF StillKnown, Quiet
  <2> QED
    BY <1>3, <1>5, <2>1, SameItself, SameOrdersStep
<1>7. HaltKnown(u)
  BY <1>3, <1>5 DEF HaltKnown
<1> QED
  BY <1>4, <1>5, <1>6, <1>7

LEMMA EndWarmupStep ==
    ASSUME NEW s, Sound(s), Quiet(s.b), HaltKnown(s), NEW fresh
    PROVE  LET u == paper_end_warmup(s, fresh)
           IN  Goes(s, u) /\ HaltKnown(u) /\ u.b = s.b
<1> DEFINE w == warm_roll_to(s)
<1>1. Goes(s, w) /\ HaltKnown(w) /\ w.b = s.b
  BY WarmRollStep
<1> HIDE DEF w
<1>2. Sound(w) /\ Quiet(w.b)
  BY <1>1 DEF Goes
<1>3. Goes(w, live_again(w)) /\ HaltKnown(live_again(w)) /\ live_again(w).b = w.b
  BY <1>1, <1>2, LiveAgainStep
<1>4. Goes(s, live_again(w))
  BY <1>1, <1>3, GoesTrans
<1>5. Goes(s, live_again(s)) /\ HaltKnown(live_again(s)) /\ live_again(s).b = s.b
  BY LiveAgainStep
<1> QED
  BY <1>1, <1>3, <1>4, <1>5 DEF paper_end_warmup, w

\* The ORB is fed the day again: its range, its last price and its cooldown.
LEMMA RefeedStep ==
    ASSUME NEW f, EngineInv(f), NEW ph, NEW warm \in BOOLEAN, NEW g \in refeed_orb(f, ph, warm)
    PROVE  EngineInv(g) /\ Alike(f, g)
<1>1. CASE g = f
  BY <1>1 DEF Alike
<1>2. CASE g # f
  <2>0. f.kind = "orb" /\ ~warm
    BY <1>2 DEF refeed_orb
  <2>1. \E st \in BOOLEAN, l \in Dirs, c \in BOOLEAN : g = refed(f, st, l, c)
    BY <2>0 DEF refeed_orb
  <2>2. PICK st \in BOOLEAN, l \in Dirs, c \in BOOLEAN : g = refed(f, st, l, c)
    BY <2>1
  <2>3. f \in OrbState
    BY <2>0, KindCases DEF OrbInv
  <2>4. g \in OrbState /\ g.kind = "orb" /\ g.mode = f.mode /\ g.last = l
    BY <2>2, <2>3 DEF refed, OrbState
  <2>5. l # NoPrice
    BY DEF Dirs, NoPrice
  <2> QED
    BY <2>0, <2>3, <2>4, <2>5, OrbFields DEF OrbInv, EngineInv, Alike
<1> QED
  BY <1>1, <1>2

\* A feed gap.
LEMMA GapStepPaper ==
    ASSUME NEW s, Sound(s), HaltKnown(s), NEW ph, NEW warm \in BOOLEAN,
           NEW u \in Gap(s, ph, warm)
    PROVE  Goes(s, u) /\ HaltKnown(u) /\ u.b = s.b
<1>1. CASE u = s
  BY <1>1, GoesItself
<1>2. CASE u # s
  <2> DEFINE r == reset_session(s.e)
             f == seed_trades_today(r, s.n)
             t == s.t \union Tag(s.b.pend # 0, "gap")
  <2>1. gap_resettable(s) /\ \E e \in refeed_orb(f, ph, warm) : u = [s EXCEPT !.e = e, !.t = t]
    BY <1>2 DEF Gap
  <2>2. s.e.kind # "mtf" /\ s.b.dir = 0 /\ s.e.halt = NoHalt
    BY <2>1 DEF gap_resettable
  <2>3. EngineInv(r) /\ Alike(s.e, r)
    BY ResetSessionStep DEF ResetStep, Sound
  <2> HIDE DEF r
  <2>4. EngineInv(f) /\ Alike(s.e, f)
    <3>1. Untouched(r, f)
      BY <2>3, RunnerFields, SeedTradesKept DEF Sound
    <3> HIDE DEF f
    <3> QED
      BY <2>3, <3>1 DEF Untouched, Kept, Alike
  <2>5. PICK e \in refeed_orb(f, ph, warm) : u = [s EXCEPT !.e = e, !.t = t]
    BY <2>1
  <2> HIDE DEF f
  <2>6. EngineInv(e) /\ Alike(s.e, e)
    BY <2>4, RefeedStep DEF Alike
  <2>7. t \in SUBSET Notes /\ s.t \subseteq t /\ (s.b.pend # 0 => "gap" \in t)
    BY RunnerFields DEF Tag, Notes, Sound
  <2> HIDE DEF t
  <2>8. u \in Runners /\ u.e = e /\ u.b = s.b /\ u.a = s.a /\ u.t = t
    BY <2>5, <2>6, <2>7, EngineStateType DEF Runners, Sound
  <2>9. s.b.dir # 0 \/ s.b.pend # 0 => StillKnown(s, u)
    BY <2>2, <2>7, <2>8 DEF StillKnown
  <2>10. Goes(s, u)
    BY <2>6, <2>7, <2>8, <2>9, SameItself, SameOrdersStep
  <2> QED
    BY <2>2, <2>7, <2>8, <2>10 DEF HaltKnown
<1> QED
  BY <1>1, <1>2

\* A control row.
LEMMA ControlStep ==
    ASSUME NEW s, Sound(s), HaltKnown(s), NEW o \in Outcome,
           NEW cmd \in {"none", "disable", "enable", "flatten"}
    PROVE  Goes(s, Control(s, cmd, o)) /\ HaltKnown(Control(s, cmd, o))
<1>0. "host" \in Halts /\ "host" # NoHalt
  BY DEF Halts, NoHalt
<1>1. CASE cmd = "none"
  <2>1. Control(s, cmd, o) = s
    BY <1>1 DEF Control
  <2> QED
    BY <2>1, GoesItself
<1>2. CASE cmd = "disable"
  <2> DEFINE f == [s.e EXCEPT !.halt = "host"]
             u == [s EXCEPT !.e = f]
  <2>1. /\ EngineInv(f) /\ Alike(s.e, f) /\ f.halt # NoHalt
        /\ in_position(f) = in_position(s.e) /\ (s.e.kind = "mtf" => f.pos = s.e.pos)
    BY <1>0, HaltKept DEF Kept, Sound
  <2>2. Control(s, cmd, o) = u
    BY <1>2 DEF Control, s_halt, halt_trading
  <2> HIDE DEF f
  <2>3. u \in Runners /\ u.e = f /\ u.b = s.b /\ u.t = s.t
    BY <2>1, EngineStateType DEF Runners, Sound
  <2> HIDE DEF u
  <2>4. StillKnown(s, u)
    BY <2>1, <2>3 DEF StillKnown
  <2>5. Goes(s, u)
    BY <2>1, <2>3, <2>4, SameItself, SameOrdersStep
  <2> QED
    BY <2>1, <2>2, <2>3, <2>5 DEF HaltKnown
<1>3. CASE cmd = "enable" /\ s.b.hit
  <2>1. Control(s, cmd, o) = s
    BY <1>3 DEF Control
  <2> QED
    BY <2>1, GoesItself
<1>4. CASE cmd = "enable" /\ ~s.b.hit
  <2> DEFINE f == [s.e EXCEPT !.halt = NoHalt]
             t == s.t \union Tag(s.a.halt # NoHalt, "free")
             u == [s EXCEPT !.e = f, !.t = t]
  <2>1. /\ EngineInv(f) /\ Alike(s.e, f)
        /\ in_position(f) = in_position(s.e) /\ (s.e.kind = "mtf" => f.pos = s.e.pos)
    BY NoHaltIsReason, HaltKept DEF Kept, Sound
  <2>2. /\ t \in SUBSET Notes /\ s.t \subseteq t
        /\ s.a.halt # NoHalt => "free" \in t
    BY RunnerFields DEF Tag, Notes, Sound
  <2>3. Control(s, cmd, o) = u
    BY <1>4 DEF Control, unhalt_trading
  <2> HIDE DEF f, t
  <2>4. u \in Runners /\ u.e = f /\ u.b = s.b /\ u.a = s.a /\ u.t = t
    BY <2>1, <2>2, EngineStateType DEF Runners, Sound
  <2> HIDE DEF u
  <2>5. StillKnown(s, u)
    BY <2>1, <2>4 DEF StillKnown
  <2>6. Goes(s, u)
    BY <2>1, <2>2, <2>4, <2>5, SameItself, SameOrdersStep
  <2> QED
    BY <2>2, <2>3, <2>4, <2>6 DEF HaltKnown
<1>5. CASE cmd = "flatten"
  <2>1. Control(s, cmd, o) = broker_flatten(s, o)
    BY <1>5 DEF Control
  <2> QED
    BY <2>1, FlattenBroker
<1> QED
  BY <1>1, <1>2, <1>3, <1>4, <1>5

-----------------------------------------------------------------------------
(* A signal of the engine. *)

\* What a tick does to the engine, for a broker that follows its signals.
EngineTicks(e, r) ==
    /\ EngineInv(r.e) /\ Alike(e, r.e) /\ r.e.halt = e.halt
    /\ r.sig \in {"none", "flatten", "buy", "sell"}
    /\ r.sig \in {"none", "flatten"} =>
          /\ in_position(r.e) = in_position(e)
          /\ e.kind = "mtf" => r.e.pos = e.pos
    /\ r.sig \in {"buy", "sell"} =>
          /\ e.kind # "mtf" => in_position(r.e)
          /\ e.kind = "mtf" => r.e.pos = Side(r.sig)

LEMMA PaperTicksStep ==
    ASSUME NEW e, NEW ph, NEW px \in Dirs, EngineInv(e), NEW r \in Ticks(e, ph, px)
    PROVE  EngineTicks(e, r)
<1>1. CASE e.kind = "trend"
  <2>1. r \in TrendTicks(e, ph) /\ TrendInv(e)
    BY <1>1, KindCases DEF Ticks
  <2>2. TrendTick(e, ph, r)
    BY <2>1, TrendTicksStep
  <2>3. r.e.kind = "trend"
    BY <2>2, TrendFields DEF TrendTick, TrendInv
  <2>4. EngineInv(r.e) /\ Alike(e, r.e)
    BY <1>1, <2>2, <2>3 DEF TrendTick, EngineInv, Alike
  <2> QED
    BY <1>1, <2>2, <2>3, <2>4, KindCases DEF TrendTick, SignalStep, EngineTicks
<1>2. CASE e.kind = "orb"
  <2>1. r \in OrbTicks(e, ph, px) /\ OrbInv(e)
    BY <1>2, KindCases DEF Ticks
  <2>2. OrbTick(e, px, r)
    BY <2>1, OrbTicksStep
  <2>3. r.e.kind = "orb" /\ r.e.mode = e.mode
    BY <2>1, <2>2, OrbFields DEF OrbTick, OrbInv
  <2>4. EngineInv(r.e) /\ Alike(e, r.e)
    BY <1>2, <2>2, <2>3 DEF OrbTick, EngineInv, Alike
  <2> QED
    BY <1>2, <2>2, <2>3, <2>4, KindCases DEF OrbTick, SignalStep, EngineTicks
<1>3. CASE e.kind = "mtf"
  <2>1. r \in MtfTicks(e, ph) /\ MtfInv(e)
    BY <1>3, KindCases DEF Ticks
  <2>2. MtfTick(e, r)
    BY <2>1, MtfTicksStep
  <2>3. r.e.kind = "mtf"
    BY <2>2, MtfFields DEF MtfTick, MtfInv
  <2>4. EngineInv(r.e) /\ Alike(e, r.e)
    BY <1>3, <2>2, <2>3 DEF MtfTick, EngineInv, Alike
  <2>5. r.sig \in {"none", "flatten"} => r.e.pos = e.pos
    BY <2>2 DEF MtfTick
  <2>6. r.sig \in {"buy", "sell"} => r.e.pos = Side(r.sig)
    BY <2>2 DEF MtfTick, Side
  <2>7. r.e.halt = e.halt /\ r.sig \in {"none", "flatten", "buy", "sell"}
    BY <2>2 DEF MtfTick
  <2> QED
    BY <1>3, <2>3, <2>4, <2>5, <2>6, <2>7 DEF EngineTicks, in_position
<1> QED
  BY <1>1, <1>2, <1>3, KindCases

\* The orders of c follow from those of b by a signal that the broker takes.
Takes(b, c, sig, warm) ==
    /\ c \in BrokerState
    /\ c.dir = b.dir /\ c.stop = b.stop /\ c.placed = b.placed
    /\ c.be = b.be /\ c.far = b.far /\ c.trail = b.trail
    /\ \/ c.pend = b.pend /\ c.flip = b.flip
       \/ /\ sig \in {"buy", "sell"} /\ ~warm
          /\ \/ b.dir = 0 /\ b.pend = 0 /\ c.pend = Side(sig) /\ c.flip = b.flip
             \/ b.dir = -Side(sig) /\ c.pend = b.pend /\ c.flip = Side(sig)

LEMMA SideOf ==
    ASSUME NEW sig
    PROVE  Side(sig) \in Sides /\ Side(sig) \in Dirs
BY DEF Side, Sides, Dirs

LEMMA PlainSignalStep ==
    ASSUME NEW b \in BrokerState, NEW sig \in {"none", "flatten", "buy", "sell"},
           NEW ok \in BOOLEAN, NEW warm \in BOOLEAN
    PROVE  LET c == plain_signal(b, sig, ok, warm)
           IN  Takes(b, c, sig, warm) /\ c.flip = b.flip
<1> DEFINE x == [b EXCEPT !.exit = b.dir # 0]
           p == [b EXCEPT !.pend = Side(sig)]
<1>1. Takes(b, b, sig, warm)
  BY DEF Takes
<1>2. Takes(b, x, sig, warm) /\ x.flip = b.flip
  BY DEF Takes, BrokerState
<1>3. CASE sig \in {"none", "flatten"}
  <2>1. plain_signal(b, sig, ok, warm) \in {b, x}
    BY <1>3 DEF plain_signal
  <2> HIDE DEF x
  <2> QED
    BY <1>1, <1>2, <2>1
<1>4. CASE sig \in {"buy", "sell"}
  <2>1. \/ plain_signal(b, sig, ok, warm) = b
        \/ plain_signal(b, sig, ok, warm) = p /\ ~warm /\ b.dir = 0 /\ b.pend = 0
    BY <1>4 DEF plain_signal
  <2>2. /\ p \in BrokerState /\ p.dir = b.dir /\ p.stop = b.stop /\ p.placed = b.placed
        /\ p.be = b.be /\ p.far = b.far /\ p.trail = b.trail /\ p.flip = b.flip
        /\ p.pend = Side(sig)
    BY SideOf DEF BrokerState
  <2> HIDE DEF p
  <2> QED
    BY <1>1, <1>4, <2>1, <2>2 DEF Takes
<1> QED
  BY <1>3, <1>4

LEMMA BracketSignalStep ==
    ASSUME NEW b \in BrokerState, NEW sig \in {"none", "flatten", "buy", "sell"},
           NEW ok \in BOOLEAN, NEW warm \in BOOLEAN
    PROVE  LET c == bracket_signal(b, sig, ok, warm)
           IN  /\ Takes(b, c, sig, warm)
               /\ sig \in {"buy", "sell"} /\ c.pend = b.pend /\ c.flip = b.flip => c = b
               /\ sig \notin {"buy", "sell"} => c.pend = b.pend /\ c.flip = b.flip
               /\ /\ sig \in {"buy", "sell"} /\ b.dir = -Side(sig)
                  /\ ~Refused(b, Side(sig), ok, warm)
                  => c.flip = Side(sig)
<1> DEFINE x == [b EXCEPT !.exit = @ \/ b.dir # 0]
           p == [b EXCEPT !.pend = Side(sig)]
           f == [b EXCEPT !.flip = Side(sig)]
<1>1. Takes(b, b, sig, warm)
  BY DEF Takes
<1>2. CASE sig \in {"none", "flatten"}
  <2>1. bracket_signal(b, sig, ok, warm) \in {b, x}
    BY <1>2 DEF bracket_signal
  <2>2. Takes(b, x, sig, warm) /\ x.flip = b.flip /\ x.pend = b.pend
    <3> DEFINE y == (b.exit \/ b.dir # 0)
    <3>1. y \in BOOLEAN /\ x = [b EXCEPT !.exit = y]
      BY BrokerFields
    <3> HIDE DEF x, y
    <3> QED
      BY <3>1 DEF Takes, BrokerState
  <2> HIDE DEF x
  <2> QED
    BY <1>1, <1>2, <2>1, <2>2
<1>3. CASE sig \in {"buy", "sell"}
  <2>1. \/ bracket_signal(b, sig, ok, warm) = b
        \/ bracket_signal(b, sig, ok, warm) = f /\ ~warm /\ b.dir = -Side(sig)
        \/ bracket_signal(b, sig, ok, warm) = p /\ ~warm /\ b.dir = 0 /\ b.pend = 0
    BY <1>3 DEF bracket_signal
  <2>2. /\ p \in BrokerState /\ p.dir = b.dir /\ p.stop = b.stop /\ p.placed = b.placed
        /\ p.be = b.be /\ p.far = b.far /\ p.trail = b.trail /\ p.flip = b.flip
        /\ p.pend = Side(sig)
    BY SideOf DEF BrokerState
  <2>3. /\ f \in BrokerState /\ f.dir = b.dir /\ f.stop = b.stop /\ f.placed = b.placed
        /\ f.be = b.be /\ f.far = b.far /\ f.trail = b.trail /\ f.flip = Side(sig)
        /\ f.pend = b.pend
    BY SideOf DEF BrokerState
  <2>4. b.flip = Side(sig) => f = b
    BY DEF BrokerState
  <2>5. Side(sig) # 0
    BY SideOf DEF Sides
  <2>6. b.dir = -Side(sig) /\ ~Refused(b, Side(sig), ok, warm)
           => bracket_signal(b, sig, ok, warm) = f
    BY <1>3 DEF bracket_signal, Refused
  <2> HIDE DEF p, f
  <2> QED
    BY <1>1, <1>3, <2>1, <2>2, <2>3, <2>4, <2>5, <2>6 DEF Takes
<1> QED
  BY <1>2, <1>3

\* The signal of a tick delivered: the position and its stop are as they were.
Emits(s, u, warm) ==
    /\ Sound(u) /\ Alike(s.e, u.e) /\ (HaltKnown(s) => HaltKnown(u))
    /\ u.b.dir = s.b.dir /\ u.b.stop = s.b.stop /\ u.b.placed = s.b.placed
    /\ u.b.be = s.b.be
    /\ warm => u.b.pend = s.b.pend /\ u.b.flip = s.b.flip

\* An opposite entry that the scalper's broker refuses is noted.
Delivers(s, r, warm, u) ==
    /\ Takes(s.b, u.b, r.sig, warm) /\ u \in Runners
    /\ u.e = r.e /\ u.a = s.a /\ s.t \subseteq u.t
    /\ s.e.kind # "mtf" => u.b.flip = 0
    /\ /\ s.e.kind = "mtf" /\ r.sig \in {"buy", "sell"}
       /\ u.b.pend = s.b.pend /\ u.b.flip = 0 /\ s.b.dir + s.b.pend = -Side(r.sig)
       => "flip" \in u.t

LEMMA SignalKnown ==
    ASSUME NEW s, Sound(s), s.b.flip = 0, NEW r, EngineTicks(s.e, r), NEW warm \in BOOLEAN,
           NEW u, Delivers(s, r, warm, u)
    PROVE  Emits(s, u, warm)
<1> DEFINE c == u.b
<1>0. /\ Takes(s.b, c, r.sig, warm) /\ u \in Runners
      /\ u.e = r.e /\ u.b = c /\ u.a = s.a /\ s.t \subseteq u.t
      /\ s.e.kind # "mtf" => c.flip = 0
      /\ /\ s.e.kind = "mtf" /\ r.sig \in {"buy", "sell"}
         /\ c.pend = s.b.pend /\ c.flip = 0 /\ s.b.dir + s.b.pend = -Side(r.sig)
         => "flip" \in u.t
  BY DEF Delivers
<1> USE <1>0
<1> HIDE DEF c
<1>1. /\ s.b.dir \in Dirs /\ s.b.pend \in Dirs /\ s.b.flip \in Dirs
      /\ c.dir \in Dirs /\ c.pend \in Dirs /\ c.flip \in Dirs
  BY RunnerFields, BrokerFields DEF Sound, Takes
<1>2. Side(r.sig) \in {-1, 1}
  BY DEF Side
<1>3. Alike(s.e, u.e) /\ u.e.kind = s.e.kind /\ EngineInv(u.e) /\ u.e.halt = s.e.halt
  BY DEF EngineTicks, Alike
<1>4. Single(u)
  BY <1>1, <1>2, <1>3 DEF Sound, Single, Takes, Dirs
<1>5. Working(u)
  BY <1>3 DEF Sound, Working, Takes
<1>6. /\ "flip" \in s.t => "flip" \in u.t
      /\ "orb" \in s.t => "orb" \in u.t
      /\ "gap" \in s.t => "gap" \in u.t
      /\ "rolled" \in s.t => "rolled" \in u.t
  OBVIOUS
<1>7. InStep(u)
  <2>1. CASE s.e.kind # "mtf" /\ r.sig \in {"none", "flatten"}
    <3>1. c.dir = s.b.dir /\ c.pend = s.b.pend /\ in_position(u.e) = in_position(s.e)
      BY <2>1 DEF Takes, EngineTicks
    <3> QED
      BY <1>3, <1>6, <2>1, <3>1 DEF Sound, InStep
  <2>2. CASE s.e.kind # "mtf" /\ r.sig \in {"buy", "sell"}
    <3>1. in_position(u.e)
      BY <2>2 DEF EngineTicks
    <3> QED
      BY <1>3, <2>2, <3>1 DEF InStep
  <2>3. CASE s.e.kind = "mtf" /\ r.sig \in {"none", "flatten"}
    <3>1. u.e.pos = s.e.pos
      BY <2>3 DEF EngineTicks
    <3>2. c.dir = s.b.dir /\ c.pend = s.b.pend /\ c.flip = s.b.flip
      BY <2>3 DEF Takes
    <3>3. Bound(c) = Bound(s.b)
      BY <3>2 DEF Bound
    <3> QED
      BY <1>3, <1>6, <2>3, <3>1, <3>3 DEF Sound, InStep
  <2>4. CASE s.e.kind = "mtf" /\ r.sig \in {"buy", "sell"}
    <3>1. u.e.pos = Side(r.sig)
      BY <2>4 DEF EngineTicks
    <3>2. CASE c.pend = s.b.pend /\ c.flip = 0
      <4>1. Bound(c) # 0 => Bound(c) = s.b.dir + s.b.pend
        BY <1>1, <3>2 DEF Sound, Single, Takes, Bound, Dirs
      <4>2. Bound(c) \in Dirs
        BY <1>1 DEF Bound
      <4>3. Bound(c) = 0 \/ Bound(c) = Side(r.sig) \/ Bound(c) = -Side(r.sig)
        BY <1>2, <4>2 DEF Dirs
      <4>4. Bound(c) = -Side(r.sig) => "flip" \in u.t
        <5>1. Bound(c) = -Side(r.sig) => Bound(c) # 0
          BY <1>2
        <5> QED
          BY <2>4, <3>2, <4>1, <5>1
      <4> QED
        BY <1>3, <2>4, <3>1, <4>3, <4>4 DEF InStep
    <3>3. CASE ~(c.pend = s.b.pend /\ c.flip = 0)
      <4>1. Bound(c) = Side(r.sig)
        BY <1>1, <1>2, <3>3 DEF Takes, Bound, Dirs
      <4> QED
        BY <1>3, <2>4, <3>1, <4>1 DEF InStep
    <3> QED
      BY <3>2, <3>3
  <2>5. r.sig \in {"none", "flatten", "buy", "sell"}
    BY DEF EngineTicks
  <2> QED
    BY <2>1, <2>2, <2>3, <2>4, <2>5
<1>8. HaltKnown(s) => HaltKnown(u)
  BY <1>3 DEF HaltKnown
<1>9. warm => c.pend = s.b.pend /\ c.flip = s.b.flip
  BY DEF Takes
<1> QED
  BY <1>3, <1>4, <1>5, <1>7, <1>8, <1>9 DEF Emits, Sound, Takes

LEMMA EmitStep ==
    ASSUME NEW s, Sound(s), s.b.flip = 0, NEW r, EngineTicks(s.e, r),
           NEW ok \in BOOLEAN, NEW warm \in BOOLEAN
    PROVE  Emits(s, Emit(s, r, ok, warm), warm)
<1> DEFINE c == IF s.e.kind = "mtf" THEN bracket_signal(s.b, r.sig, ok, warm)
                ELSE plain_signal(s.b, r.sig, ok, warm)
           x == /\ s.e.kind = "mtf" /\ r.sig \in {"buy", "sell"}
                /\ Refused(s.b, Side(r.sig), ok, warm)
           t == s.t \union Tag(x, "flip")
           f == r.e
           u == [s EXCEPT !.e = f, !.b = c, !.t = t]
<1>1. s.b \in BrokerState /\ s.t \in SUBSET Notes
  BY RunnerFields DEF Sound
<1>2. r.sig \in {"none", "flatten", "buy", "sell"} /\ EngineInv(f)
  BY DEF EngineTicks
<1>3. /\ Takes(s.b, c, r.sig, warm)
      /\ s.e.kind # "mtf" => c.flip = 0
      /\ /\ s.e.kind = "mtf" /\ r.sig \in {"buy", "sell"}
         /\ s.b.dir = -Side(r.sig) /\ ~x
         => c.flip = Side(r.sig)
  <2>1. CASE s.e.kind = "mtf"
    <3> DEFINE d == bracket_signal(s.b, r.sig, ok, warm)
    <3>1. /\ Takes(s.b, d, r.sig, warm)
          /\ /\ r.sig \in {"buy", "sell"} /\ s.b.dir = -Side(r.sig)
             /\ ~Refused(s.b, Side(r.sig), ok, warm)
             => d.flip = Side(r.sig)
      BY <1>1, <1>2, BracketSignalStep
    <3>2. c = d
      BY <2>1
    <3> HIDE DEF c, d
    <3> QED
      BY <2>1, <3>1, <3>2
  <2>2. CASE s.e.kind # "mtf"
    <3> DEFINE d == plain_signal(s.b, r.sig, ok, warm)
    <3>1. Takes(s.b, d, r.sig, warm) /\ d.flip = s.b.flip
      BY <1>1, <1>2, PlainSignalStep
    <3>2. c = d
      BY <2>2
    <3> HIDE DEF c, d
    <3> QED
      BY <2>2, <3>1, <3>2
  <2> QED
    BY <2>1, <2>2
<1>4. Emit(s, r, ok, warm) = u
  BY DEF Emit
<1>5. t \in SUBSET Notes /\ s.t \subseteq t /\ (x => "flip" \in t)
  BY <1>1 DEF Tag, Notes
<1>6. /\ s.e.kind = "mtf" /\ r.sig \in {"buy", "sell"}
      /\ c.pend = s.b.pend /\ c.flip = 0 /\ s.b.dir + s.b.pend = -Side(r.sig)
      => x
  <2>1. /\ s.b.dir \in Dirs /\ s.b.pend \in Dirs /\ Side(r.sig) # 0
        /\ (s.b.dir # 0 => s.b.pend = 0)
    BY <1>1, SideOf, BrokerFields DEF Sound, Single, Sides
  <2>2. s.b.dir + s.b.pend = -Side(r.sig) => s.b.dir = -Side(r.sig) \/ s.b.pend = -Side(r.sig)
    BY <2>1, SideOf DEF Dirs
  <2>3. s.b.pend = -Side(r.sig) => Refused(s.b, Side(r.sig), ok, warm)
    BY DEF Refused
  <2> HIDE DEF c
  <2>4. /\ s.e.kind = "mtf" /\ r.sig \in {"buy", "sell"} /\ s.b.pend = -Side(r.sig)
        => x
    BY <2>3
  <2> HIDE DEF x
  <2> QED
    BY <1>3, <2>1, <2>2, <2>4
<1> HIDE DEF c, t, x, f
<1>7. c \in BrokerState /\ f \in EngineStates
  BY <1>2, <1>3, EngineStateType DEF Takes
<1>8. u \in Runners /\ u.e = f /\ u.b = c /\ u.a = s.a /\ u.t = t
  BY <1>5, <1>7 DEF Runners, Sound
<1> HIDE DEF u
<1>9. Delivers(s, r, warm, u)
  BY <1>3, <1>5, <1>6, <1>8 DEF Delivers, f
<1>10. Emits(s, u, warm)
  BY <1>9, SignalKnown
<1> QED
  BY <1>4, <1>10

-----------------------------------------------------------------------------
(* A tick at the plain broker. *)

\* The broker of the ORB and trend engines, by itself.
Plain(b) ==
    /\ b \in BrokerState /\ b.flip = 0 /\ (b.dir # 0 => b.pend = 0)
    /\ b.dir # 0 => /\ b.placed <= b.stop
                    /\ b.be => b.placed >= 0
                    /\ ~b.be => b.stop < 0 /\ ~b.far /\ ~b.trail

\* The stop of an open position was worked on.
Moves(b, c) ==
    Plain(c) /\ c.dir = b.dir /\ c.pend = b.pend /\ c.placed >= b.placed

TickInput(i) ==
    /\ i.p \in -Sl .. BeTrigger + 1 /\ i.step \in Nat \ {0}
    /\ i.aged \in BOOLEAN

LEMMA PlainTickInput ==
    ASSUME NEW b, NEW i \in PlainInput(b)
    PROVE  TickInput(i)
<1>1. Steps \subseteq Nat \ {0} /\ 0 \in -Sl .. BeTrigger + 1
  BY PaperConstants
<1> DEFINE P == IF Unpriced(b) THEN {0} ELSE -Sl .. BeTrigger + 1
           S == IF Unpriced(b) THEN {1} ELSE Steps
           A == IF Unpriced(b) \/ b.trail THEN {FALSE} ELSE BOOLEAN
           K == IF b.dir = 0 THEN IF b.pend = 0 THEN {"none"} ELSE {"none", "exit"}
                ELSE IF Unpriced(b) \/ b.be THEN {"none"} ELSE {"none", "flip"}
           R == IF b.pend = 0 THEN {TRUE} ELSE BOOLEAN
<1>2. i \in [p : P, step : S, aged : A, book : K, ready : R]
  BY DEF PlainInput
<1>3. P \subseteq -Sl .. BeTrigger + 1 /\ S \subseteq Nat \ {0} /\ A \subseteq BOOLEAN
  <2>1. P \subseteq -Sl .. BeTrigger + 1
    BY <1>1
  <2>2. S \subseteq Nat \ {0}
    BY <1>1
  <2>3. A \subseteq BOOLEAN
    OBVIOUS
  <2> QED
    BY <2>1, <2>2, <2>3
<1> HIDE DEF P, S, A, K, R
<1>4. i.p \in P /\ i.step \in S /\ i.aged \in A
  BY <1>2
<1> QED
  BY <1>3, <1>4 DEF TickInput

LEMMA MovesTrans ==
    ASSUME NEW b, NEW c, NEW d, Plain(b), Moves(b, c), Moves(c, d)
    PROVE  Moves(b, d)
<1>1. b.placed \in Int /\ c.placed \in Int /\ d.placed \in Int
  BY BrokerFields DEF Moves, Plain
<1> QED
  BY <1>1 DEF Moves

LEMMA SyncMoves ==
    ASSUME NEW b, Plain(b), b.dir # 0, NEW step, NEW force \in BOOLEAN
    PROVE  Moves(b, sync_placed_stop(b, step, force))
<1> DEFINE c == [b EXCEPT !.placed = b.stop]
<1>1. b \in BrokerState /\ b.placed \in Int /\ b.stop \in Int
  BY BrokerFields DEF Plain
<1>2. /\ c \in BrokerState /\ c.placed = b.stop /\ c.dir = b.dir /\ c.pend = b.pend
      /\ c.flip = b.flip /\ c.stop = b.stop /\ c.be = b.be /\ c.far = b.far
      /\ c.trail = b.trail
  BY <1>1 DEF BrokerState
<1>3. sync_placed_stop(b, step, force) \in {b, c}
  BY DEF sync_placed_stop
<1> HIDE DEF c
<1>4. Moves(b, c)
  BY <1>1, <1>2 DEF Moves, Plain
<1>5. Moves(b, b)
  BY <1>1 DEF Moves
<1> QED
  BY <1>3, <1>4, <1>5

\* Break-even takes the working stop along.
LEMMA BreakEvenMoves ==
    ASSUME NEW b, Plain(b), b.dir # 0, ~b.be, NEW far \in BOOLEAN, NEW step
    PROVE  Moves(b, sync_placed_stop([b EXCEPT !.far = far, !.be = TRUE, !.stop = 0],
                                     step, TRUE))
<1> DEFINE c == [b EXCEPT !.far = far, !.be = TRUE, !.stop = 0]
           d == [c EXCEPT !.placed = 0]
<1>1. b \in BrokerState /\ b.placed \in Int /\ b.stop \in Int
  BY BrokerFields DEF Plain
<1>2. 0 \in -(RUnit + Sl + 1) .. Top
  BY PaperConstants, MtfConstants
<1>3. c \in BrokerState /\ c.stop = 0
  BY <1>1, <1>2 DEF BrokerState
<1>4. sync_placed_stop(c, step, TRUE) = d
  BY <1>3 DEF sync_placed_stop
<1>5. /\ d \in BrokerState /\ d.placed = 0 /\ d.dir = b.dir /\ d.pend = b.pend
      /\ d.flip = b.flip /\ d.stop = 0 /\ d.be = TRUE
  BY <1>1, <1>2 DEF BrokerState
<1> HIDE DEF c, d
<1>6. b.placed <= 0
  BY <1>1 DEF Plain
<1>7. Moves(b, d)
  BY <1>1, <1>5, <1>6 DEF Moves, Plain
<1> QED
  BY <1>4, <1>7 DEF c

LEMMA BookBreakEvenMoves ==
    ASSUME NEW b, Plain(b), b.dir # 0, NEW i
    PROVE  Moves(b, book_break_even(b, i))
<1>1. b \in BrokerState /\ b.placed \in Int
  BY BrokerFields DEF Plain
<1>2. CASE i.book = "flip" /\ ~b.be /\ i.p > 0 /\ b.stop < 0
  <2> DEFINE far == b.far
  <2>1. [b EXCEPT !.stop = 0, !.be = TRUE] = [b EXCEPT !.far = far, !.be = TRUE, !.stop = 0]
    BY <1>1 DEF BrokerState
  <2>2. far \in BOOLEAN
    BY <1>1, BrokerFields
  <2>3. book_break_even(b, i)
           = sync_placed_stop([b EXCEPT !.far = far, !.be = TRUE, !.stop = 0], i.step, TRUE)
    BY <1>2, <2>1 DEF book_break_even
  <2> HIDE DEF far
  <2> QED
    BY <1>2, <2>2, <2>3, BreakEvenMoves
<1>3. CASE ~(i.book = "flip" /\ ~b.be /\ i.p > 0 /\ b.stop < 0)
  <2>1. book_break_even(b, i) = b
    BY <1>3 DEF book_break_even
  <2> QED
    BY <1>1, <2>1 DEF Moves
<1> QED
  BY <1>2, <1>3

LEMMA BreakEvenStep ==
    ASSUME NEW b, Plain(b), b.dir # 0, NEW i, TickInput(i)
    PROVE  Moves(b, break_even(b, i))
<1> DEFINE far == b.far \/ i.p >= BeTrigger
           m == [b EXCEPT !.far = far]
<1>1. b \in BrokerState /\ b.placed \in Int /\ b.be \in BOOLEAN /\ b.far \in BOOLEAN
  BY BrokerFields DEF Plain
<1>2. far \in BOOLEAN
  BY <1>1
<1>3. CASE b.be \/ ~far
  <2>1. break_even(b, i) = m
    BY <1>3 DEF break_even
  <2>2. b.be \/ far = b.far
    BY <1>1, <1>3
  <2> HIDE DEF far
  <2>3. /\ m \in BrokerState /\ m.placed = b.placed /\ m.dir = b.dir /\ m.pend = b.pend
        /\ m.flip = b.flip /\ m.stop = b.stop /\ m.be = b.be /\ m.trail = b.trail
        /\ m.far = far
    BY <1>1, <1>2 DEF BrokerState
  <2> HIDE DEF m
  <2>4. Moves(b, m)
    BY <1>1, <2>2, <2>3 DEF Moves, Plain
  <2> QED
    BY <2>1, <2>4
<1>4. CASE ~(b.be \/ ~far)
  <2>1. b.stop < 0 /\ ~b.be
    BY <1>4 DEF Plain
  <2>2. [m EXCEPT !.be = TRUE, !.stop = 0] = [b EXCEPT !.far = far, !.be = TRUE, !.stop = 0]
    BY <1>1 DEF BrokerState
  <2>3. break_even(b, i) = sync_placed_stop([m EXCEPT !.be = TRUE, !.stop = 0], i.step, TRUE)
    BY <1>4, <2>1 DEF break_even
  <2>4. break_even(b, i)
          = sync_placed_stop([b EXCEPT !.far = far, !.be = TRUE, !.stop = 0], i.step, TRUE)
    BY <2>2, <2>3
  <2> HIDE DEF far
  <2> QED
    BY <1>2, <2>1, <2>4, BreakEvenMoves
<1> QED
  BY <1>3, <1>4

LEMMA TrailMoves ==
    ASSUME NEW b, Plain(b), b.dir # 0, NEW i, TickInput(i)
    PROVE  Moves(b, trail_ratchet(b, i))
<1> DEFINE tr == b.trail \/ (i.aged /\ b.far)
           a == [b EXCEPT !.trail = tr]
           c == [a EXCEPT !.stop = i.p - i.step]
<1>1. /\ b \in BrokerState /\ b.placed \in Int /\ b.stop \in Int
      /\ b.trail \in BOOLEAN /\ b.far \in BOOLEAN
  BY BrokerFields DEF Plain
<1>2. tr \in BOOLEAN /\ (~b.be => ~tr)
  BY <1>1 DEF Plain, TickInput
<1>3. trail_ratchet(b, i) = IF tr /\ i.p - i.step > a.stop
                            THEN sync_placed_stop(c, i.step, FALSE) ELSE a
  BY <1>1 DEF trail_ratchet, BrokerState
<1> HIDE DEF tr
<1>4. /\ a \in BrokerState /\ a.placed = b.placed /\ a.dir = b.dir /\ a.pend = b.pend
      /\ a.flip = b.flip /\ a.stop = b.stop /\ a.be = b.be /\ a.far = b.far
      /\ a.trail = tr
  BY <1>1, <1>2 DEF BrokerState
<1>5. Moves(b, a)
  BY <1>1, <1>2, <1>4 DEF Moves, Plain
<1> HIDE DEF a
<1>6. ASSUME tr, i.p - i.step > a.stop
      PROVE  Moves(a, c)
  <2>1. a.stop \in -(RUnit + Sl + 1) .. Top
    BY <1>4, BrokerFields
  <2>2. /\ i.p \in Int /\ i.step \in Int /\ i.p <= BeTrigger + 1 /\ i.step >= 1
        /\ BeTrigger \in Int
    BY PaperConstants DEF TickInput
  <2>3. i.p - i.step \in -(RUnit + Sl + 1) .. Top
    BY <1>6, <2>1, <2>2, PaperConstants, MtfConstants
  <2>4. /\ c \in BrokerState /\ c.placed = a.placed /\ c.dir = a.dir /\ c.pend = a.pend
        /\ c.flip = a.flip /\ c.stop = i.p - i.step /\ c.be = a.be
    BY <1>4, <2>3 DEF BrokerState
  <2>5. a.be /\ a.placed \in Int /\ a.stop \in Int /\ c.stop \in Int
    BY <1>1, <1>2, <1>4, <1>6, <2>2, <2>4
  <2> HIDE DEF c
  <2> QED
    BY <1>4, <1>5, <1>6, <2>4, <2>5 DEF Moves, Plain
<1>7. ASSUME tr, i.p - i.step > a.stop
      PROVE  Moves(b, sync_placed_stop(c, i.step, FALSE))
  <2>1. Moves(a, c)
    BY <1>6, <1>7
  <2> HIDE DEF c
  <2>2. Plain(c) /\ c.dir # 0
    BY <1>4, <2>1 DEF Moves
  <2>3. Moves(c, sync_placed_stop(c, i.step, FALSE))
    BY <2>2, SyncMoves
  <2>4. Moves(b, c)
    BY <1>5, <2>1, MovesTrans DEF Moves
  <2> QED
    BY <2>3, <2>4, MovesTrans
<1> QED
  BY <1>3, <1>5, <1>7

\* A broker that held nothing has the entry it waited for, or still waits.
Opens(b, f) ==
    /\ Plain(f)
    /\ \/ f = b
       \/ b.dir = 0 /\ b.pend # 0 /\ f.dir = b.pend /\ f.pend = 0

LEMMA PlainFillStep ==
    ASSUME NEW b, Plain(b), NEW i
    PROVE  Opens(b, plain_fill(b, i))
<1>1. CASE b.pend # 0 /\ b.dir = 0 /\ i.ready
  <2> DEFINE m == MinOf(b.entries + 1, MaxTrades)
             f == [b EXCEPT !.dir = b.pend, !.pend = 0, !.stop = -Sl, !.placed = -Sl,
                            !.be = FALSE, !.far = FALSE, !.trail = FALSE,
                            !.entries = m]
  <2>1. b \in BrokerState /\ b.pend \in Dirs /\ m \in 0 .. MaxTrades
    BY BrokerFields, MtfConstants DEF Plain, MinOf
  <2>2. -Sl \in -(RUnit + Sl + 1) .. Top /\ -Sl < 0 /\ -Sl <= -Sl
    BY PaperConstants, MtfConstants
  <2>3. plain_fill(b, i) = f
    BY <1>1 DEF plain_fill, enter
  <2> HIDE DEF m
  <2>4. /\ f \in BrokerState /\ f.dir = b.pend /\ f.pend = 0 /\ f.stop = -Sl
        /\ f.placed = -Sl /\ ~f.be /\ ~f.far /\ ~f.trail /\ f.flip = b.flip
    BY <2>1, <2>2 DEF BrokerState, Dirs
  <2> HIDE DEF f
  <2> QED
    BY <1>1, <2>2, <2>3, <2>4 DEF Opens, Plain
<1>2. CASE ~(b.pend # 0 /\ b.dir = 0 /\ i.ready)
  BY <1>2 DEF plain_fill, Opens
<1> QED
  BY <1>1, <1>2

\* f: the broker after a fill.
PlainTicked(b, f, c) ==
    \/ f.dir = 0 /\ c = f
    \/ f.dir # 0 /\ c.dir = 0 /\ c.pend = 0 /\ c.flip = 0 /\ c \in BrokerState
    \/ f.dir # 0 /\ Moves(f, c)

LEMMA PlainTickStep ==
    ASSUME NEW b, Plain(b), NEW mode, NEW ph, NEW i \in PlainInput(b)
    PROVE  LET f == plain_fill(b, i)
           IN  Opens(b, f) /\ PlainTicked(b, f, plain_tick(b, mode, ph, FALSE, i))
<1> DEFINE f == plain_fill(b, i)
           s == sync_placed_stop(f, i.step, FALSE)
           k == book_break_even(s, i)
           m == break_even(k, i)
           t == trail_ratchet(m, i)
           c == plain_tick(b, mode, ph, FALSE, i)
<1>0. TickInput(i)
  BY PlainTickInput
<1>1. Opens(b, f)
  BY PlainFillStep
<1>2. \/ f.dir = 0 /\ c = f
      \/ f.dir # 0 /\ c \in {Closed(f), Closed(s), t}
  BY DEF plain_tick, plain_manage
<1> HIDE DEF f, c
<1>3. ASSUME f.dir # 0
      PROVE  Moves(f, s) /\ Moves(f, t)
  <2>1. Plain(f)
    BY <1>1 DEF Opens
  <2>2. Moves(f, s)
    BY <1>3, <2>1, SyncMoves
  <2> HIDE DEF s
  <2>3. Plain(s) /\ s.dir # 0
    BY <1>3, <2>2 DEF Moves
  <2>4. Moves(s, k)
    BY <2>3, BookBreakEvenMoves
  <2> HIDE DEF k
  <2>5. Plain(k) /\ k.dir # 0
    BY <2>3, <2>4 DEF Moves
  <2>6. Moves(k, m)
    BY <1>0, <2>5, BreakEvenStep
  <2> HIDE DEF m
  <2>7. Plain(m) /\ m.dir # 0
    BY <2>5, <2>6 DEF Moves
  <2>8. Moves(m, t)
    BY <1>0, <2>7, TrailMoves
  <2> HIDE DEF t
  <2>9. Moves(f, k)
    BY <2>1, <2>2, <2>4, MovesTrans
  <2>10. Moves(f, m)
    BY <2>1, <2>6, <2>9, MovesTrans
  <2>11. Moves(f, t)
    BY <2>1, <2>8, <2>10, MovesTrans
  <2> QED
    BY <2>2, <2>11
<1> HIDE DEF s, t
<1>4. PlainTicked(b, f, c)
  <2>1. CASE f.dir = 0
    BY <1>2, <2>1 DEF PlainTicked
  <2>2. CASE f.dir # 0
    <3>1. f \in BrokerState /\ s \in BrokerState
      BY <1>1, <1>3, <2>2 DEF Opens, Moves, Plain
    <3>2. c = Closed(f) \/ c = Closed(s) \/ c = t
      BY <1>2, <2>2
    <3>3. c # t => c.dir = 0 /\ c.pend = 0 /\ c.flip = 0 /\ c \in BrokerState
      BY <3>1, <3>2, ClosedBroker
    <3> QED
      BY <1>3, <2>2, <3>3 DEF PlainTicked
  <2> QED
    BY <2>1, <2>2
<1> QED
  BY <1>1, <1>4 DEF c, f

\* The broker of a runner that is not the scalper's.
LEMMA PlainOf ==
    ASSUME NEW s, Sound(s), s.e.kind # "mtf"
    PROVE  Plain(s.b)
<1>1. s.b \in BrokerState
  BY RunnerFields DEF Sound
<1> QED
  BY <1>1 DEF Sound, Single, Working, Plain

\* The broker went on: what it holds or waits for is what it held or waited for.
Holds(b, c) ==
    /\ c \in BrokerState /\ c.flip = 0 /\ (c.dir # 0 => c.pend = 0)
    /\ c.dir # 0 => c.dir = b.dir \/ (b.dir = 0 /\ c.dir = b.pend)
    /\ c.pend # 0 => b.dir = 0 /\ c.pend = b.pend

LEMMA HoldsStep ==
    ASSUME NEW s, Sound(s), s.b.flip = 0, NEW c, Holds(s.b, c),
           s.e.kind # "mtf" => Plain(c) /\ Follows(s.b, c)
    PROVE  /\ Goes(s, [s EXCEPT !.b = c])
           /\ HaltKnown(s) => HaltKnown([s EXCEPT !.b = c])
<1> DEFINE u == [s EXCEPT !.b = c]
<1>1. u \in Runners /\ u.e = s.e /\ u.b = c /\ u.a = s.a /\ u.t = s.t
  BY WithBroker DEF Sound, Holds
<1> HIDE DEF u
<1>2. Single(u)
  BY <1>1 DEF Single, Holds
<1>3. Working(u)
  BY <1>1 DEF Working, Plain
<1>4. InStep(u)
  <2>1. CASE s.e.kind = "mtf"
    <3>1. Bound(c) # 0 => Bound(c) = Bound(s.b)
      BY DEF Holds, Bound
    <3> QED
      BY <1>1, <2>1, <3>1 DEF Sound, InStep
  <2>2. CASE s.e.kind # "mtf"
    <3>1. c.dir # 0 => s.b.dir # 0 \/ s.b.pend # 0
      BY DEF Holds
    <3>2. c.pend # 0 => s.b.pend # 0
      BY DEF Holds
    <3> QED
      BY <1>1, <2>2, <3>1, <3>2 DEF Sound, InStep
  <2> QED
    BY <2>1, <2>2
<1>5. Quiet(s.b) => Quiet(c)
  BY DEF Quiet, Holds
<1>6. Goes(s, u)
  BY <1>1, <1>2, <1>3, <1>4, <1>5 DEF Goes, Sound, Alike, Holds
<1> QED
  BY <1>1, <1>6 DEF u, HaltKnown

-----------------------------------------------------------------------------
(* A tick at the bracket broker. *)

LEMMA CurStopType ==
    ASSUME NEW e, MtfInv(e), NEW d
    PROVE  /\ cur_stop(e, d) \in Int
           /\ cur_stop(e, d) # NoStop => cur_stop(e, d) \in -(RUnit + Sl + 1) .. Top
<1>1. e.stop \in -(RUnit + 1) .. TrailAt
  BY MtfFields DEF MtfInv
<1>2. /\ RUnit \in Nat /\ Sl \in Nat /\ Sl >= 1 /\ TrailAt \in Nat /\ Top \in Nat
      /\ Top >= TrailAt + 1
  BY PaperConstants, MtfConstants
<1>3. e.stop \in Int /\ e.stop \in -(RUnit + Sl + 1) .. Top
  BY <1>1, <1>2
<1>4. Wrong \in -(RUnit + Sl + 1) .. Top /\ Wrong \in Int /\ NoStop \in Int
  BY <1>2 DEF Wrong, NoStop
<1> HIDE DEF Wrong, NoStop
<1> QED
  BY <1>3, <1>4 DEF cur_stop

LEMMA BracketFillStep ==
    ASSUME NEW b \in BrokerState, b.flip = 0, b.dir # 0 => b.pend = 0,
           NEW e, MtfInv(e), NEW i
    PROVE  Holds(b, bracket_fill(b, e, i))
<1>0. b.dir \in Dirs /\ b.pend \in Dirs
  BY BrokerFields
<1>1. CASE b.pend = 0 \/ b.dir # 0 \/ ~i.ready
  BY <1>1 DEF bracket_fill, Holds
<1>2. CASE ~(b.pend = 0 \/ b.dir # 0 \/ ~i.ready) /\ b.hit
  <2> DEFINE c == [b EXCEPT !.pend = 0]
  <2>1. c \in BrokerState /\ c.dir = b.dir /\ c.pend = 0 /\ c.flip = b.flip
    BY DEF BrokerState, Dirs
  <2>2. bracket_fill(b, e, i) = c
    BY <1>2 DEF bracket_fill
  <2> HIDE DEF c
  <2> QED
    BY <2>1, <2>2 DEF Holds
<1>3. CASE ~(b.pend = 0 \/ b.dir # 0 \/ ~i.ready) /\ ~b.hit
  <2> DEFINE x == IF cur_stop(e, b.pend) = NoStop THEN -RUnit ELSE cur_stop(e, b.pend)
             c == [b EXCEPT !.dir = b.pend, !.pend = 0, !.exit = FALSE, !.stop = x]
  <2>1. -RUnit \in -(RUnit + Sl + 1) .. Top
    BY PaperConstants, MtfConstants
  <2>2. x \in -(RUnit + Sl + 1) .. Top
    BY <2>1, CurStopType
  <2>3. bracket_fill(b, e, i) = c
    BY <1>3 DEF bracket_fill, bracket_enter
  <2> HIDE DEF x
  <2>4. c \in BrokerState /\ c.dir = b.pend /\ c.pend = 0 /\ c.flip = b.flip
    BY <1>0, <2>2 DEF BrokerState, Dirs
  <2> HIDE DEF c
  <2> QED
    BY <1>3, <2>3, <2>4 DEF Holds
<1> QED
  BY <1>1, <1>2, <1>3

\* The stop of a leg was moved.
StopMoved(b, c) ==
    c \in BrokerState /\ c.dir = b.dir /\ c.pend = b.pend /\ c.flip = b.flip

LEMMA StopMoves ==
    ASSUME NEW b \in BrokerState, NEW x \in -(RUnit + Sl + 1) .. Top
    PROVE  StopMoved(b, [b EXCEPT !.stop = MaxOf(b.stop, x)])
<1>1. MaxOf(b.stop, x) \in -(RUnit + Sl + 1) .. Top
  BY BrokerFields DEF MaxOf
<1> QED
  BY <1>1 DEF StopMoved, BrokerState

LEMMA UpdateBracketStep ==
    ASSUME NEW b \in BrokerState, NEW e, MtfInv(e)
    PROVE  StopMoved(b, update_bracket(b, e))
<1> DEFINE x == cur_stop(e, b.dir)
<1>1. x = NoStop \/ x \in -(RUnit + Sl + 1) .. Top
  BY CurStopType
<1>2. update_bracket(b, e) = IF x = NoStop THEN b ELSE [b EXCEPT !.stop = MaxOf(b.stop, x)]
  BY DEF update_bracket
<1> HIDE DEF x
<1>3. StopMoved(b, b)
  BY DEF StopMoved
<1> QED
  BY <1>1, <1>2, <1>3, StopMoves

\* f: the broker after a fill.
BracketTicked(f, c) ==
    \/ f.dir = 0 /\ c = f
    \/ f.dir # 0 /\ c.dir = 0 /\ c.pend = 0 /\ c.flip = 0 /\ c \in BrokerState
    \/ f.dir # 0 /\ StopMoved(f, c)

LEMMA BracketTickStep ==
    ASSUME NEW b \in BrokerState, b.flip = 0, b.dir # 0 => b.pend = 0,
           NEW e, MtfInv(e), NEW ph, NEW i
    PROVE  LET f == bracket_fill(b, e, i)
           IN  Holds(b, f) /\ BracketTicked(f, bracket_tick(b, e, ph, FALSE, i))
<1> DEFINE f == bracket_fill(b, e, i)
           s == update_bracket(f, e)
           t == [s EXCEPT !.stop = MaxOf(s.stop, 0)]
           c == bracket_tick(b, e, ph, FALSE, i)
<1>1. Holds(b, f)
  BY BracketFillStep
<1>2. \/ f.dir = 0 /\ c = f
      \/ f.dir # 0 /\ c \in {Closed(s), t, s}
  BY DEF bracket_tick
<1> HIDE DEF f, c
<1>3. f \in BrokerState
  BY <1>1 DEF Holds
<1>4. StopMoved(f, s)
  BY <1>3, UpdateBracketStep
<1> HIDE DEF s
<1>5. s \in BrokerState /\ 0 \in -(RUnit + Sl + 1) .. Top
  BY <1>4, PaperConstants, MtfConstants DEF StopMoved
<1>6. StopMoved(s, t)
  BY <1>5, StopMoves
<1> HIDE DEF t
<1>7. StopMoved(f, t)
  BY <1>4, <1>6 DEF StopMoved
<1>8. Closed(s) \in BrokerState /\ Closed(s).dir = 0 /\ Closed(s).pend = 0
      /\ Closed(s).flip = 0
  BY <1>5, ClosedBroker
<1>9. BracketTicked(f, c)
  BY <1>2, <1>4, <1>7, <1>8 DEF BracketTicked
<1> QED
  BY <1>1, <1>9 DEF c, f

\* A reversal: the leg is closed and the other side waits.
Reverses(b) == b.flip # 0 /\ b.dir = -b.flip
Turns(b, c) == c \in BrokerState /\ c.dir = 0 /\ c.flip = 0 /\ c.pend = b.flip

LEMMA FlipTickStep ==
    ASSUME NEW b \in BrokerState, Reverses(b), NEW e, NEW ph, NEW i
    PROVE  LET c == bracket_tick(b, e, ph, FALSE, i)
           IN  bracket_fill(b, e, i).dir = b.dir /\ Turns(b, c)
<1>1. b.dir # 0 /\ b.flip # 0 /\ b.flip \in Dirs
  BY BrokerFields DEF Dirs, Reverses
<1>2. bracket_fill(b, e, i) = b
  BY <1>1 DEF bracket_fill
<1> DEFINE k == Closed(b)
<1>3. bracket_tick(b, e, ph, FALSE, i) = [k EXCEPT !.pend = b.flip]
  BY <1>1 DEF bracket_tick
<1>4. k \in BrokerState /\ k.dir = 0 /\ k.flip = 0
  BY ClosedBroker
<1> HIDE DEF k
<1> QED
  BY <1>1, <1>2, <1>3, <1>4 DEF BrokerState, Turns

-----------------------------------------------------------------------------
(* A tick at the broker, with the callback of a close. *)

LEMMA SettleOpen ==
    ASSUME NEW s, NEW d, NEW c, NEW o, d = 0 \/ c.dir # 0
    PROVE  Settle(s, d, c, o) = [s EXCEPT !.b = c]
BY DEF Settle

LEMMA PlainBrokerStep ==
    ASSUME NEW s, Sound(s), HaltKnown(s), s.e.kind # "mtf", NEW ph, NEW o \in Outcome,
           NEW i \in PlainInput(s.b)
    PROVE  LET u == Settle(s, plain_fill(s.b, i).dir,
                           plain_tick(s.b, s.e.mode, ph, FALSE, i), o)
           IN  Goes(s, u) /\ HaltKnown(u) /\ u.b.flip = 0
<1> DEFINE b == s.b
           f == plain_fill(b, i)
           c == plain_tick(b, s.e.mode, ph, FALSE, i)
           u == Settle(s, f.dir, c, o)
<1>1. Plain(b)
  BY PlainOf
<1>2. Opens(b, f) /\ PlainTicked(b, f, c)
  BY <1>1, PlainTickStep
<1> HIDE DEF f, c
<1>3. b.flip = 0 /\ f \in BrokerState /\ b \in BrokerState
  BY <1>1, <1>2 DEF Plain, Opens
<1>4. b.dir \in Dirs /\ b.pend \in Dirs /\ f.dir \in Dirs /\ b.placed \in Int
  BY <1>3, BrokerFields
<1>5. CASE f.dir # 0 /\ c.dir = 0
  <2>1. c.pend = 0 /\ c.flip = 0 /\ c \in BrokerState /\ f.dir \in Sides
    BY <1>2, <1>4, <1>5 DEF PlainTicked, Moves, Dirs, Sides
  <2>2. Goes(s, u) /\ HaltKnown(u)
    BY <1>5, <2>1, CloseStep
  <2>3. u.b.flip = 0
    BY <1>3, <2>2 DEF Goes
  <2> QED
    BY <2>2, <2>3 DEF f, c
<1>6. CASE ~(f.dir # 0 /\ c.dir = 0)
  <2>1. u = [s EXCEPT !.b = c]
    BY <1>6, SettleOpen
  <2>2. CASE f.dir = 0
    <3>1. c = b
      BY <1>2, <2>2 DEF PlainTicked, Opens
    <3>2. Holds(b, c) /\ Follows(b, c)
      BY <1>1, <1>3, <1>4, <3>1 DEF Holds, Follows, Plain
    <3>3. Goes(s, u) /\ HaltKnown(u)
      BY <1>1, <1>3, <2>1, <3>1, <3>2, HoldsStep
    <3>4. u.b.flip = 0
      BY <1>3, <3>3 DEF Goes
    <3> QED
      BY <3>3, <3>4 DEF f, c
  <2>3. CASE f.dir # 0
    <3>1. Moves(f, c) /\ c.dir # 0
      BY <1>2, <1>6, <2>3 DEF PlainTicked
    <3>2. Plain(c) /\ Plain(f) /\ c.dir = f.dir /\ c.placed >= f.placed
      BY <1>2, <3>1 DEF Moves, Opens
    <3>3. Holds(b, c)
      BY <1>2, <3>1, <3>2 DEF Holds, Opens, Plain
    <3>4. Follows(b, c)
      BY <1>2, <3>1, <3>2 DEF Follows, Opens
    <3>5. Goes(s, u) /\ HaltKnown(u)
      BY <1>3, <2>1, <3>2, <3>3, <3>4, HoldsStep
    <3>6. u.b.flip = 0
      BY <1>3, <3>5 DEF Goes
    <3> QED
      BY <3>5, <3>6 DEF f, c
  <2> QED
    BY <2>2, <2>3
<1> QED
  BY <1>5, <1>6

LEMMA BracketBrokerStep ==
    ASSUME NEW s, Sound(s), HaltKnown(s), s.e.kind = "mtf", NEW ph, NEW o \in Outcome,
           NEW i
    PROVE  LET u == Settle(s, bracket_fill(s.b, s.e, i).dir,
                           bracket_tick(s.b, s.e, ph, FALSE, i), o)
           IN  Goes(s, u) /\ HaltKnown(u) /\ u.b.flip = 0
<1> DEFINE b == s.b
           f == bracket_fill(b, s.e, i)
           c == bracket_tick(b, s.e, ph, FALSE, i)
           u == Settle(s, f.dir, c, o)
<1>1. b \in BrokerState /\ (b.dir # 0 => b.pend = 0) /\ (b.flip # 0 => b.dir = -b.flip)
  BY RunnerFields DEF Sound, Single
<1>2. MtfInv(s.e)
  BY KindCases DEF Sound
<1>3. b.dir \in Dirs /\ b.pend \in Dirs /\ b.flip \in Dirs
  BY <1>1, BrokerFields
<1>4. CASE b.flip # 0
  <2>0. Reverses(b)
    BY <1>1, <1>4 DEF Reverses
  <2>1. f.dir = b.dir /\ Turns(b, c)
    BY <1>1, <2>0, FlipTickStep
  <2> HIDE DEF f, c
  <2>2. f.dir \in Sides /\ f.dir = -c.pend
    BY <1>1, <1>3, <1>4, <2>1 DEF Dirs, Sides, Turns
  <2>3. Goes(s, u) /\ HaltKnown(u) /\ u.b.dir = 0
    BY <2>1, <2>2, CloseStep DEF Turns
  <2>4. u.b.flip = 0
    <3>1. u.b.flip # 0 => u.b.dir = -u.b.flip /\ u.b.flip \in {-1, 1}
      BY <2>3, RunnerFields, BrokerFields DEF Goes, Sound, Single, Dirs
    <3> QED
      BY <2>3, <3>1
  <2> QED
    BY <2>3, <2>4 DEF f, c
<1>5. CASE b.flip = 0
  <2>1. Holds(b, f) /\ BracketTicked(f, c)
    BY <1>1, <1>2, <1>5, BracketTickStep
  <2> HIDE DEF f, c
  <2>2. f.dir \in Dirs
    BY <2>1, BrokerFields DEF Holds
  <2>3. CASE f.dir # 0 /\ c.dir = 0
    <3>1. c.pend = 0 /\ c.flip = 0 /\ c \in BrokerState /\ f.dir \in Sides
      BY <2>1, <2>2, <2>3 DEF BracketTicked, StopMoved, Dirs, Sides
    <3>2. Goes(s, u) /\ HaltKnown(u)
      BY <2>3, <3>1, CloseStep
    <3>3. u.b.flip = 0
      BY <1>5, <3>2 DEF Goes
    <3> QED
      BY <3>2, <3>3 DEF f, c
  <2>4. CASE ~(f.dir # 0 /\ c.dir = 0)
    <3>1. u = [s EXCEPT !.b = c]
      BY <2>4, SettleOpen
    <3>2. Holds(b, c)
      BY <2>1, <2>4 DEF Holds, BracketTicked, StopMoved
    <3>3. Goes(s, u) /\ HaltKnown(u)
      BY <1>5, <3>1, <3>2, HoldsStep
    <3>4. u.b.flip = 0
      BY <1>5, <3>3 DEF Goes
    <3> QED
      BY <3>3, <3>4 DEF f, c
  <2> QED
    BY <2>3, <2>4
<1> QED
  BY <1>4, <1>5

\* What a tick at the broker does: nothing, if it is older than the position.
Ticked(s, u, older) ==
    /\ Goes(s, u) /\ HaltKnown(u) /\ u.b.flip = 0
    /\ older => u.b = s.b

LEMMA OlderStep ==
    ASSUME NEW s, Sound(s), HaltKnown(s), s.e.kind # "mtf", s.b.pend = 0, NEW ph,
           NEW r \in broker_on_tick(s, ph, TRUE), NEW o \in Outcome
    PROVE  Ticked(s, Settle(s, r.held, r.b, o), TRUE)
<1> DEFINE b == s.b
<1>1. PICK i \in PlainInput(b) : r = [held |-> plain_fill(b, i).dir,
                                      b |-> plain_tick(b, s.e.mode, ph, TRUE, i)]
  BY DEF broker_on_tick
<1>2. r.held = b.dir /\ r.b = b
  BY <1>1 DEF plain_fill, plain_tick
<1>3. Settle(s, r.held, r.b, o) = [s EXCEPT !.b = b]
  BY <1>2 DEF Settle
<1>4. [s EXCEPT !.b = b] = s
  BY DEF Sound, Runners
<1>5. b.flip = 0
  BY DEF Sound, Single
<1> QED
  BY <1>3, <1>4, <1>5, GoesItself DEF Ticked

LEMMA PresentStep ==
    ASSUME NEW s, Sound(s), HaltKnown(s), NEW ph,
           NEW r \in broker_on_tick(s, ph, FALSE), NEW o \in Outcome
    PROVE  Ticked(s, Settle(s, r.held, r.b, o), FALSE)
<1>1. CASE s.e.kind = "mtf"
  <2>1. \E i \in BracketInput(s.b) : r = [held |-> bracket_fill(s.b, s.e, i).dir,
                                        b |-> bracket_tick(s.b, s.e, ph, FALSE, i)]
    BY <1>1 DEF broker_on_tick
  <2>2. PICK i : r = [held |-> bracket_fill(s.b, s.e, i).dir,
                      b |-> bracket_tick(s.b, s.e, ph, FALSE, i)]
    BY <2>1
  <2> DEFINE u == Settle(s, bracket_fill(s.b, s.e, i).dir,
                         bracket_tick(s.b, s.e, ph, FALSE, i), o)
  <2>3. Goes(s, u) /\ HaltKnown(u) /\ u.b.flip = 0
    BY <1>1, BracketBrokerStep
  <2>4. u = Settle(s, r.held, r.b, o)
    BY <2>2
  <2> HIDE DEF u
  <2> QED
    BY <2>3, <2>4 DEF Ticked
<1>2. CASE s.e.kind # "mtf"
  <2>1. \E i \in PlainInput(s.b) : r = [held |-> plain_fill(s.b, i).dir,
                                      b |-> plain_tick(s.b, s.e.mode, ph, FALSE, i)]
    BY <1>2 DEF broker_on_tick
  <2>2. PICK i \in PlainInput(s.b) : r = [held |-> plain_fill(s.b, i).dir,
                                        b |-> plain_tick(s.b, s.e.mode, ph, FALSE, i)]
    BY <2>1
  <2> DEFINE u == Settle(s, plain_fill(s.b, i).dir,
                         plain_tick(s.b, s.e.mode, ph, FALSE, i), o)
  <2>3. Goes(s, u) /\ HaltKnown(u) /\ u.b.flip = 0
    BY <1>2, PlainBrokerStep
  <2>4. u = Settle(s, r.held, r.b, o)
    BY <2>2
  <2> HIDE DEF u
  <2> QED
    BY <2>3, <2>4 DEF Ticked
<1> QED
  BY <1>1, <1>2

-----------------------------------------------------------------------------
(* The runner's next state. *)

LEMMA OutcomesType ==
    ASSUME NEW c, NEW o \in Outcomes(c)
    PROVE  o \in Outcome
<1>1. \A x : If(x) \subseteq BOOLEAN
  BY DEF If
<1> QED
  BY <1>1 DEF Outcomes, Outcome

\* A note is dropped when there is nothing left that it excuses.
LEMMA CurrentStep ==
    ASSUME NEW u, Sound(u), HaltKnown(u)
    PROVE  LET w == [u EXCEPT !.t = Current(u)]
           IN  Sound(w) /\ HaltKnown(w) /\ w.e = u.e /\ w.b = u.b
<1> DEFINE t == Current(u)
           w == [u EXCEPT !.t = t]
<1>1. /\ t \subseteq u.t
      /\ u.a.halt # NoHalt /\ "free" \in u.t => "free" \in t
      /\ u.b.dir # 0 \/ u.b.pend # 0 => /\ "flip" \in u.t => "flip" \in t
                                        /\ "gap" \in u.t => "gap" \in t
                                        /\ "rolled" \in u.t => "rolled" \in t
      /\ u.b.dir # 0 /\ "orb" \in u.t => "orb" \in t
  BY DEF Current, Tag
<1> HIDE DEF t
<1>2. t \in SUBSET Notes
  BY <1>1, RunnerFields DEF Sound
<1>3. w \in Runners /\ w.e = u.e /\ w.b = u.b /\ w.a = u.a /\ w.t = t
  BY <1>2 DEF Runners, Sound
<1> HIDE DEF w
<1>4. HaltKnown(w)
  BY <1>1, <1>3 DEF HaltKnown
<1>5. Bound(u.b) # 0 => u.b.dir # 0 \/ u.b.pend # 0
  BY RunnerFields, BrokerFields DEF Sound, Single, Bound, Dirs
<1>6. InStep(w)
  BY <1>1, <1>3, <1>5 DEF Sound, InStep
<1>7. Single(w) /\ Working(w)
  BY <1>3 DEF Sound, Single, Working
<1> QED
  BY <1>3, <1>4, <1>6, <1>7 DEF Sound, w, t

\* The invariant of a runner, as the state has it.
RunnerInv ==
    /\ State \in Runners /\ EngineInv(eng) /\ Single(State) /\ Working(State)
    /\ HaltKnown(State)

LEMMA RunnerStep ==
    ASSUME NEW u, Sound(u), HaltKnown(u), Becomes(u)
    PROVE  RunnerInv' /\ InStep(State)' /\ brk' = u.b /\ eng' = u.e
<1> DEFINE w == [u EXCEPT !.t = Current(u)]
<1>1. Sound(w) /\ HaltKnown(w)
  BY CurrentStep
<1>2. State' = w
  <2>1. u \in Runners
    BY DEF Sound
  <2> QED
    BY <2>1 DEF Becomes, State, Runners
<1> HIDE DEF w
<1>3. State' \in Runners /\ Single(State') /\ Working(State') /\ InStep(State')
      /\ HaltKnown(State') /\ EngineInv(State'.e)
  BY <1>1, <1>2 DEF Sound
<1>4. State'.e = eng'
  BY DEF State
<1> QED
  BY <1>3, <1>4 DEF RunnerInv, Becomes

LEMMA UpSound ==
    ASSUME PaperInv
    PROVE  /\ RunnerInv
           /\ pc # "off" => Sound(State)
           /\ State.e = eng /\ State.b = brk /\ State.n = count /\ State.a = acct
           /\ State.t = notes
<1>1. State \in Runners
  BY DEF PaperInv, TypeOK, State, Runners, Accounts
<1> QED
  BY <1>1 DEF PaperInv, RunnerInv, Sound, State

-----------------------------------------------------------------------------
(* A tick, as far as the broker. *)

\* s: the runner before the tick is handed to the broker; on one date its broker is
\* still the same.
Ready(s) == Goes(State, s) /\ HaltKnown(s) /\ (curDate => s.b = brk)

LEMMA CaughtUpStep ==
    ASSUME PaperInv, pc = "loop", NEW caught \in BOOLEAN, caught => pwarm
    PROVE  LET u == CaughtUp(caught)
           IN  Goes(State, u) /\ HaltKnown(u) /\ u.b = brk
<1> DEFINE fresh == ~tape.day
           w == paper_end_warmup(State, fresh)
<1>1. Sound(State) /\ HaltKnown(State) /\ State.b = brk /\ (pwarm => Quiet(brk))
  BY UpSound DEF RunnerInv, PaperInv
<1>2. Goes(State, State)
  BY <1>1, GoesItself
<1> HIDE DEF fresh
<1>3. caught => Goes(State, w) /\ HaltKnown(w) /\ w.b = State.b
  BY <1>1, EndWarmupStep
<1>4. CaughtUp(caught) = IF caught THEN w ELSE State
  BY DEF CaughtUp, fresh
<1> HIDE DEF w
<1> QED
  BY <1>1, <1>2, <1>3, <1>4

LEMMA DatedStep ==
    ASSUME PaperInv, pc = "loop", NEW t, NEW caught \in BOOLEAN, caught => pwarm,
           NEW s \in Dated(t, caught)
    PROVE  Ready(s)
<1>1. /\ Sound(State) /\ HaltKnown(State) /\ State.b = brk
      /\ pwarm => Quiet(State.b)
  BY UpSound DEF RunnerInv, PaperInv
<1>2. CASE pwarm /\ ~caught
  <2>1. s = State \/ s = warm_roll_to(State)
    BY <1>2 DEF Dated
  <2>2. Goes(State, State)
    BY <1>1, GoesItself
  <2>3. LET u == warm_roll_to(State) IN Goes(State, u) /\ HaltKnown(u) /\ u.b = State.b
    BY <1>1, <1>2, WarmRollStep
  <2> QED
    BY <1>1, <2>1, <2>2, <2>3 DEF Ready
<1>3. CASE ~(pwarm /\ ~caught)
  <2> DEFINE c == CaughtUp(caught)
  <2>1. \E o \in Outcomes(~curDate) : s = roll_day_if_needed(c, o)
    BY <1>3 DEF Dated
  <2>2. PICK o \in Outcome : s = roll_day_if_needed(c, o)
    BY <2>1, OutcomesType
  <2>3. Goes(State, c) /\ HaltKnown(c) /\ c.b = brk
    BY CaughtUpStep
  <2> HIDE DEF c
  <2>4. LET u == roll_day_if_needed(c, o)
        IN  Goes(c, u) /\ HaltKnown(u) /\ (curDate => u = c)
    BY <2>3, RollDayStep DEF Goes
  <2>5. Goes(State, s)
    BY <1>1, <2>2, <2>3, <2>4, GoesTrans
  <2> QED
    BY <2>2, <2>3, <2>4, <2>5 DEF Ready
<1> QED
  BY <1>2, <1>3

LEMMA GappedStep ==
    ASSUME PaperInv, pc = "loop", NEW t, NEW caught \in BOOLEAN, caught => pwarm,
           NEW u \in Gapped(t, caught)
    PROVE  Ready(u)
<1> DEFINE warm == pwarm /\ ~caught
<1>1. PICK s \in Dated(t, caught) : u \in {s} \union Gap(s, t.ph, warm)
  BY DEF Gapped
<1>2. Ready(s)
  BY DatedStep
<1>3. CASE u = s
  BY <1>2, <1>3
<1>4. CASE u \in Gap(s, t.ph, warm)
  <2>1. warm \in BOOLEAN /\ Sound(State) /\ Sound(s) /\ HaltKnown(s)
    BY <1>2, UpSound DEF PaperInv, TypeOK, Ready, Goes
  <2> HIDE DEF warm
  <2>2. Goes(s, u) /\ HaltKnown(u) /\ u.b = s.b
    BY <1>4, <2>1, GapStepPaper
  <2>3. Goes(State, u)
    BY <1>2, <2>1, <2>2, GoesTrans DEF Ready
  <2> QED
    BY <1>2, <2>2, <2>3 DEF Ready
<1> QED
  BY <1>1, <1>3, <1>4

\* The same, once the end of the window was looked at: an older tick of the
\* replay does not even ask for an exit.
Checked(s, older, warm) ==
    /\ Goes(State, s) /\ HaltKnown(s)
    /\ curDate => SameOrders(brk, s.b)
    /\ curDate /\ warm /\ older => s.b = brk

LEMMA CheckedStep ==
    ASSUME PaperInv, pc = "loop", NEW t, NEW caught \in BOOLEAN, caught => pwarm,
           NEW s \in Gapped(t, caught), NEW older \in BOOLEAN, NEW warm \in BOOLEAN
    PROVE  Checked(IF warm /\ older THEN s ELSE s_eod(s, t.ph, warm), older, warm)
<1>1. Ready(s)
  BY GappedStep
<1>2. CASE warm /\ older
  BY <1>1, <1>2, SameItself DEF Ready, Checked
<1>3. CASE ~(warm /\ older)
  <2> DEFINE u == s_eod(s, t.ph, warm)
  <2>1. Sound(State) /\ Sound(s) /\ HaltKnown(s)
    BY <1>1, UpSound DEF Ready, Goes
  <2>2. Goes(s, u) /\ HaltKnown(u) /\ SameOrders(s.b, u.b)
    BY <2>1, EodCheckStep
  <2> HIDE DEF u
  <2>3. Goes(State, u)
    BY <1>1, <2>1, <2>2, GoesTrans DEF Ready
  <2>4. Checked(u, older, warm)
    BY <1>1, <1>3, <2>2, <2>3 DEF Ready, Checked
  <2> QED
    BY <1>3, <2>4 DEF u
<1> QED
  BY <1>2, <1>3

\* The whole first step of a tick: one that is older leaves the position alone.
TickMade(u, older) ==
    /\ Goes(State, u) /\ HaltKnown(u) /\ u.b.flip = 0
    /\ older => /\ SameOrders(brk, u.b)
                /\ pwarm => u.b = brk

LEMMA BrokerTickMade ==
    ASSUME PaperInv, BrokerTick
    PROVE  \E older \in BOOLEAN : \E u :
              /\ older => old
              /\ TickMade(u, older) /\ Becomes(u)
              /\ old' = older
<1>0. pc = "loop" /\ old \in BOOLEAN /\ pwarm \in BOOLEAN
  BY DEF BrokerTick, PaperInv, TypeOK
<1>1. PICK caught \in If(pwarm) :
         \E older \in If(old /\ ~caught) :
         \E t \in IF pwarm /\ ~caught THEN Tapes ELSE {[day |-> TRUE, ph |-> phase]} :
         /\ \E s1 \in Gapped(t, caught) :
            LET s2 == IF (pwarm /\ ~caught) /\ older THEN s1
                      ELSE s_eod(s1, t.ph, pwarm /\ ~caught)
            IN  \E r \in broker_on_tick(s2, t.ph, older) :
                \E s3 \in {Settle(s2, r.held, r.b, o) :
                              o \in Outcomes(r.held # 0 /\ r.b.dir = 0)} :
                   Becomes(s3)
         /\ old' = older
  BY DEF BrokerTick
<1> DEFINE warm == pwarm /\ ~caught
<1>12. caught \in BOOLEAN /\ (caught => pwarm) /\ warm \in BOOLEAN
  BY <1>0 DEF If
<1>13. PICK older \in If(old /\ ~caught),
            t \in IF warm THEN Tapes ELSE {[day |-> TRUE, ph |-> phase]} :
         /\ \E s1 \in Gapped(t, caught) :
            LET s2 == IF warm /\ older THEN s1 ELSE s_eod(s1, t.ph, warm)
            IN  \E r \in broker_on_tick(s2, t.ph, older) :
                \E s3 \in {Settle(s2, r.held, r.b, o) :
                              o \in Outcomes(r.held # 0 /\ r.b.dir = 0)} :
                   Becomes(s3)
         /\ old' = older
  BY <1>1
<1>2. /\ older \in BOOLEAN /\ (older => old) /\ (older => ~caught)
      /\ older /\ pwarm => warm
  BY <1>0, <1>12 DEF If
<1> HIDE DEF warm
<1>3. PICK s1 \in Gapped(t, caught) :
          LET s2 == IF warm /\ older THEN s1 ELSE s_eod(s1, t.ph, warm)
          IN  \E r \in broker_on_tick(s2, t.ph, older) :
              \E s3 \in {Settle(s2, r.held, r.b, o) :
                            o \in Outcomes(r.held # 0 /\ r.b.dir = 0)} :
                 Becomes(s3)
  BY <1>13
<1> DEFINE s2 == IF warm /\ older THEN s1 ELSE s_eod(s1, t.ph, warm)
<1>4. Checked(s2, older, warm)
  BY <1>0, <1>12, <1>2, CheckedStep
<1>5. PICK r \in broker_on_tick(s2, t.ph, older) :
              \E s3 \in {Settle(s2, r.held, r.b, o) :
                            o \in Outcomes(r.held # 0 /\ r.b.dir = 0)} :
                 Becomes(s3)
  BY <1>3
<1> HIDE DEF s2
<1>6. \E o \in Outcomes(r.held # 0 /\ r.b.dir = 0) : Becomes(Settle(s2, r.held, r.b, o))
  BY <1>5
<1>7. PICK o \in Outcome : Becomes(Settle(s2, r.held, r.b, o))
  BY <1>6, OutcomesType
<1> DEFINE u == Settle(s2, r.held, r.b, o)
<1>8. Sound(State) /\ Sound(s2) /\ HaltKnown(s2) /\ State.b = brk /\ State.e = eng
  BY <1>0, <1>4, UpSound DEF Checked, Goes
<1>9. Ticked(s2, u, older)
  <2>1. CASE ~older
    <3>1. older = FALSE
      BY <1>2, <2>1
    <3>2. r \in broker_on_tick(s2, t.ph, FALSE)
      BY <3>1
    <3>3. Ticked(s2, u, FALSE)
      BY <1>8, <3>2, PresentStep
    <3> HIDE DEF u
    <3> QED
      BY <2>1, <3>3 DEF Ticked
  <2>2. CASE older
    <3>1. older = TRUE
      BY <1>2, <2>2
    <3>2. r \in broker_on_tick(s2, t.ph, TRUE)
      BY <3>1
    <3>3. brk.dir # 0 /\ eng.kind # "mtf"
      BY <1>2, <2>2 DEF PaperInv
    <3>4. s2.e.kind # "mtf" /\ Follows(brk, s2.b)
      BY <1>4, <1>8, <3>3 DEF Checked, Goes, Alike
    <3>5. s2.b.pend = 0
      BY <1>8, <3>3, <3>4 DEF Follows, Sound, Single
    <3>6. Ticked(s2, u, TRUE)
      BY <1>8, <3>2, <3>4, <3>5, OlderStep
    <3> HIDE DEF u
    <3> QED
      BY <2>2, <3>6 DEF Ticked
  <2> QED
    BY <2>1, <2>2
<1>10. Becomes(u) /\ old' = older
  BY <1>7, <1>13
<1> HIDE DEF u
<1>11. TickMade(u, older)
  <2>1. Goes(State, u)
    BY <1>4, <1>8, <1>9, GoesTrans DEF Ticked, Checked
  <2>2. older => curDate
    BY <1>2 DEF PaperInv
  <2>3. older => /\ SameOrders(brk, u.b)
                 /\ pwarm => u.b = brk
    BY <1>2, <1>4, <1>8, <1>9, <2>2 DEF Ticked, Checked
  <2> QED
    BY <1>9, <2>1, <2>3 DEF Ticked, TickMade
<1> QED
  BY <1>2, <1>10, <1>11

-----------------------------------------------------------------------------
(* The invariant is inductive. *)

\* The types of what is not the runner's.
RestOK ==
    /\ phase \in Phases /\ pc \in {"off", "loop", "engine"} /\ pwarm \in BOOLEAN
    /\ tape \in [day : BOOLEAN, ph : Phases] /\ old \in BOOLEAN /\ curDate \in BOOLEAN
    /\ startup \in BOOLEAN /\ starts \in 0 .. MaxStarts

LEMMA TypeParts ==
    (RunnerInv' /\ RestOK' => TypeOK') /\ (PaperInv => RestOK)
<1>1. State' \in Runners => /\ eng' \in EngineStates /\ brk' \in BrokerState
                            /\ count' \in 0 .. MaxTrades /\ acct' \in Accounts
                            /\ notes' \in SUBSET Notes
  BY DEF Runners, State
<1> QED
  BY <1>1 DEF RunnerInv, RestOK, TypeOK, PaperInv, Accounts

\* A step of a running process that takes the runner to u.
LEMMA StaysUp ==
    ASSUME PaperInv, pc # "off", NEW u, Goes(State, u), HaltKnown(u), Becomes(u),
           RestOK', pc' # "off", pwarm' => pwarm,
           old' => old /\ brk'.dir # 0, curDate => curDate',
           pc' = "engine" => brk'.flip = 0
    PROVE  PaperInv'
<1>1. RunnerInv' /\ InStep(State)' /\ brk' = u.b /\ eng' = u.e
  BY RunnerStep DEF Goes
<1>2. TypeOK'
  BY <1>1, TypeParts
<1>3. State.e = eng /\ State.b = brk
  BY UpSound
<1>4. pwarm' => Quiet(brk')
  BY <1>1, <1>3 DEF Goes, PaperInv
<1>5. old' => eng'.kind # "mtf"
  BY <1>1, <1>3 DEF Goes, PaperInv, Alike
<1>6. old' \/ pwarm' => curDate'
  BY DEF PaperInv
<1> QED
  BY <1>1, <1>2, <1>4, <1>5, <1>6 DEF PaperInv, RunnerInv

LEMMA TapeType ==
    ASSUME PaperInv, NEW t \in Tapes
    PROVE  t \in [day : BOOLEAN, ph : Phases]
<1>1. tape \in [day : BOOLEAN, ph : Phases]
  BY DEF PaperInv, TypeOK
<1>2. tape.day \in BOOLEAN /\ tape.ph \in Phases
  BY <1>1
<1>3. NextPhase(tape.ph) \in Phases
  BY <1>2 DEF NextPhase, Phases
<1> QED
  <2> DEFINE n == [day |-> tape.day \/ tape.ph = "late", ph |-> NextPhase(tape.ph)]
  <2>1. t = tape \/ t = n
    BY DEF Tapes
  <2>2. n \in [day : BOOLEAN, ph : Phases]
    BY <1>2, <1>3
  <2> QED
    BY <1>1, <2>1, <2>2

LEMMA BrokerTickInv ==
    ASSUME PaperInv, BrokerTick
    PROVE  PaperInv'
<1>0. PICK older \in BOOLEAN : \E u : /\ older => old
                                      /\ TickMade(u, older) /\ Becomes(u)
                                      /\ old' = older
  BY BrokerTickMade
<1>1. PICK u : /\ older => old
               /\ TickMade(u, older) /\ Becomes(u)
               /\ old' = older
  BY <1>0
<1>2. /\ pc = "loop" /\ pc' = "engine" /\ curDate' = (curDate \/ ~pwarm)
      /\ UNCHANGED <<phase, starts>>
      /\ tape' \in Tapes \union {[day |-> TRUE, ph |-> phase]}
      /\ \E caught \in If(pwarm) : /\ pwarm' = (pwarm /\ ~caught)
                                   /\ startup' = (startup /\ ~caught)
  BY DEF BrokerTick
<1>3. RestOK /\ phase \in Phases
  BY TypeParts DEF RestOK
<1>4. tape' \in [day : BOOLEAN, ph : Phases]
  <2>1. [day |-> TRUE, ph |-> phase] \in [day : BOOLEAN, ph : Phases]
    BY <1>3
  <2> QED
    BY <1>2, <2>1, TapeType
<1>5. RestOK' /\ (pwarm' => pwarm) /\ (curDate => curDate')
  BY <1>1, <1>2, <1>3, <1>4 DEF RestOK
<1>6. brk' = u.b
  BY <1>1 DEF Becomes
<1>7. old' => old /\ brk'.dir # 0
  BY <1>1, <1>6 DEF TickMade, SameOrders, PaperInv
<1> QED
  BY <1>1, <1>2, <1>5, <1>6, <1>7, StaysUp DEF TickMade

\* What the second step of a tick leaves of the broker.
LEMMA EngineTickMade ==
    ASSUME PaperInv, EngineTick
    PROVE  \/ UNCHANGED <<eng, brk, count, acct, notes>>
           \/ \E u : Emits(State, u, pwarm) /\ Becomes(u)
<1>1. /\ pc = "engine" /\ brk.flip = 0 /\ pwarm \in BOOLEAN /\ RunnerInv
      /\ Sound(State) /\ State.b = brk /\ State.e = eng
  BY UpSound DEF EngineTick, PaperInv, TypeOK
<1>2. CASE UNCHANGED <<eng, brk, count, acct, notes>>
  BY <1>2
<1>3. CASE \E px \in IF eng.kind = "orb" THEN Dirs ELSE {0} :
             \E s \in {Emit(State, r, ok, pwarm) :
                        r \in Ticks(eng, tape.ph, px), ok \in gate} : Becomes(s)
  <2>1. PICK px \in IF eng.kind = "orb" THEN Dirs ELSE {0} :
             \E s \in {Emit(State, r, ok, pwarm) :
                        r \in Ticks(eng, tape.ph, px), ok \in gate} : Becomes(s)
    BY <1>3
  <2>2. px \in Dirs
    BY DEF Dirs
  <2>3. PICK r \in Ticks(eng, tape.ph, px), ok \in BOOLEAN :
             Becomes(Emit(State, r, ok, pwarm))
    BY <2>1 DEF gate
  <2>4. EngineTicks(eng, r)
    BY <1>1, <2>2, PaperTicksStep DEF RunnerInv
  <2>5. Emits(State, Emit(State, r, ok, pwarm), pwarm)
    BY <1>1, <2>4, EmitStep
  <2> QED
    BY <2>3, <2>5
<1> QED
  BY <1>2, <1>3 DEF EngineTick

LEMMA EngineTickInv ==
    ASSUME PaperInv, EngineTick
    PROVE  PaperInv'
<1>1. /\ pc = "engine" /\ pc' = "loop"
      /\ UNCHANGED <<phase, pwarm, tape, old, curDate, startup, starts>>
  BY DEF EngineTick
<1>2. CASE UNCHANGED <<eng, brk, count, acct, notes>>
  <2>1. State' = State
    BY <1>2 DEF State
  <2>2. Single(State') /\ Working(State') /\ HaltKnown(State') /\ InStep(State')
    BY <1>1, <2>1 DEF PaperInv
  <2>3. TypeOK'
    BY <1>1, <1>2 DEF PaperInv, TypeOK
  <2> QED
    BY <1>1, <1>2, <2>2, <2>3 DEF PaperInv
<1>3. CASE \E u : Emits(State, u, pwarm) /\ Becomes(u)
  <2>1. PICK u : Emits(State, u, pwarm) /\ Becomes(u)
    BY <1>3
  <2>2. HaltKnown(State) /\ State.e = eng /\ State.b = brk
    BY UpSound DEF RunnerInv
  <2>3. RunnerInv' /\ InStep(State)' /\ brk' = u.b /\ eng' = u.e
    BY <2>1, <2>2, RunnerStep DEF Emits
  <2>4. RestOK'
    BY <1>1, TypeParts DEF RestOK
  <2>5. TypeOK'
    BY <2>3, <2>4, TypeParts
  <2>6. pwarm' => Quiet(brk')
    BY <1>1, <2>1, <2>2, <2>3 DEF PaperInv, Emits, Quiet
  <2>7. old' => brk'.dir # 0 /\ eng'.kind # "mtf"
    BY <1>1, <2>1, <2>2, <2>3 DEF PaperInv, Emits, Alike
  <2> QED
    BY <1>1, <2>3, <2>5, <2>6, <2>7 DEF PaperInv, RunnerInv
<1> QED
  BY <1>2, <1>3, EngineTickMade

LEMMA OtherClosesInv ==
    ASSUME PaperInv, OtherCloses
    PROVE  PaperInv'
<1>1. /\ pc = "loop" /\ UNCHANGED <<eng, phase, brk, count, pc, pwarm, tape, old, curDate,
                                    startup, starts>>
  BY DEF OtherCloses
<1>2. \E o \in Outcomes(TRUE) :
       LET a == on_trade_close(acct, o)
       IN  /\ acct' = a
           /\ notes' = Current([State EXCEPT !.a = a,
                          !.t = @ \union Tag(a.halt # NoHalt /\ eng.halt = NoHalt, "free")])
  BY DEF OtherCloses
<1>3. PICK o \in Outcome :
       LET a == on_trade_close(acct, o)
       IN  /\ acct' = a
           /\ notes' = Current([State EXCEPT !.a = a,
                          !.t = @ \union Tag(a.halt # NoHalt /\ eng.halt = NoHalt, "free")])
  BY <1>2, OutcomesType
<1> DEFINE a == on_trade_close(acct, o)
           t == State.t \union Tag(a.halt # NoHalt /\ eng.halt = NoHalt, "free")
           u == [State EXCEPT !.a = a, !.t = t]
<1>4. /\ Sound(State) /\ State.e = eng /\ State.b = brk /\ State.n = count
      /\ State.a = acct /\ State.t = notes /\ State \in Runners
  BY <1>1, UpSound DEF RunnerInv
<1>5. a \in Accounts
  BY <1>4, AccountClose, RunnerFields
<1>6. /\ t \in SUBSET Notes /\ State.t \subseteq t
      /\ a.halt # NoHalt => eng.halt # NoHalt \/ "free" \in t
  BY <1>4, RunnerFields DEF Tag, Notes
<1>7. acct' = a /\ notes' = Current(u)
  BY <1>3
<1> HIDE DEF a, t
<1>8. u \in Runners /\ u.e = eng /\ u.b = brk /\ u.n = count /\ u.a = a /\ u.t = t
  BY <1>4, <1>5, <1>6 DEF Runners
<1> HIDE DEF u
<1>9. Goes(State, u)
  <2>1. StillKnown(State, u) /\ SameOrders(State.b, u.b) /\ EngineInv(u.e)
        /\ Alike(State.e, u.e)
    BY <1>4, <1>8, SameItself DEF StillKnown, Sound, Alike
  <2> QED
    BY <1>4, <1>6, <1>8, <2>1, SameOrdersStep
<1>10. HaltKnown(u)
  BY <1>6, <1>8 DEF HaltKnown
<1>11. Becomes(u)
  BY <1>1, <1>7, <1>8 DEF Becomes
<1>12. RestOK'
  BY <1>1, TypeParts DEF RestOK
<1>13. (old' => old /\ brk'.dir # 0) /\ (pwarm' => pwarm)
  BY <1>1 DEF PaperInv
<1> QED
  BY <1>1, <1>9, <1>10, <1>11, <1>12, <1>13, StaysUp

\* u: the runner after a pass of the loop.
PassMade(u) == Goes(State, u) /\ HaltKnown(u)

LEMMA ClockEodStep ==
    ASSUME NEW s, Sound(s), HaltKnown(s), NEW warm \in BOOLEAN
    PROVE  Goes(s, clock_eod(s, warm)) /\ HaltKnown(clock_eod(s, warm))
<1>1. CASE warm
  BY <1>1, GoesItself DEF clock_eod
<1>2. CASE ~warm
  <2>1. clock_eod(s, warm) = s_eod(s, phase, FALSE)
    BY <1>2 DEF clock_eod
  <2>2. /\ Goes(s, s_eod(s, phase, FALSE))
        /\ HaltKnown(s) => HaltKnown(s_eod(s, phase, FALSE))
    BY EodCheckStep
  <2> QED
    BY <2>1, <2>2
<1> QED
  BY <1>1, <1>2

LEMMA PassStep ==
    ASSUME PaperInv, pc = "loop", NEW caught \in BOOLEAN, caught => pwarm, NEW o \in Outcome,
           NEW cmd \in {"none", "disable", "enable", "flatten"}
    PROVE  PassMade(Pass(caught, cmd, o))
<1> DEFINE warm == pwarm /\ ~caught
           s1 == CaughtUp(caught)
           s2 == recheck_limits(s1, o)
           s3 == clock_eod(s2, warm)
           s4 == roll_day_if_needed(s3, o)
           s5 == Control(s4, cmd, o)
<1>1. /\ Sound(State) /\ HaltKnown(State) /\ State.b = brk /\ pwarm \in BOOLEAN
      /\ pwarm => Quiet(brk)
  BY UpSound DEF RunnerInv, PaperInv, TypeOK
<1>2. Goes(State, s1) /\ HaltKnown(s1)
  BY CaughtUpStep
<1> HIDE DEF s1
<1>3. Sound(s1)
  BY <1>2 DEF Goes
<1>4. Goes(s1, s2) /\ HaltKnown(s2)
  BY <1>2, <1>3, RecheckStep
<1> HIDE DEF s2
<1>5. Sound(s2) /\ warm \in BOOLEAN
  BY <1>1, <1>4 DEF Goes
<1> HIDE DEF warm
<1>6. Goes(s2, s3) /\ HaltKnown(s3)
  BY <1>4, <1>5, ClockEodStep
<1> HIDE DEF s3
<1>7. Sound(s3)
  BY <1>6 DEF Goes
<1>8. Goes(s3, s4) /\ HaltKnown(s4)
  BY <1>6, <1>7, RollDayStep
<1> HIDE DEF s4
<1>9. Sound(s4)
  BY <1>8 DEF Goes
<1>10. Goes(s4, s5) /\ HaltKnown(s5)
  BY <1>8, <1>9, ControlStep
<1>11. Pass(caught, cmd, o) = s5
  BY DEF Pass, s1, s2, s3, s4, warm
<1> HIDE DEF s5
<1>12. Goes(State, s2)
  BY <1>1, <1>2, <1>4, GoesTrans
<1>13. Goes(State, s3)
  BY <1>1, <1>6, <1>12, GoesTrans
<1>14. Goes(State, s4)
  BY <1>1, <1>8, <1>13, GoesTrans
<1>15. Goes(State, s5)
  BY <1>1, <1>10, <1>14, GoesTrans
<1> QED
  BY <1>10, <1>11, <1>15 DEF PassMade

LEMMA LoopEndMade ==
    ASSUME PaperInv, LoopEnd
    PROVE  \E u : PassMade(u) /\ Becomes(u) /\ old' = (old /\ u.b.dir # 0)
<1>0. pc = "loop" /\ pwarm \in BOOLEAN
  BY DEF LoopEnd, PaperInv, TypeOK
<1>1. PICK caught \in If(pwarm) :
       \E s \in {Pass(caught, cmd, o) :
                  cmd \in {"none", "disable", "enable", "flatten"},
                  o \in Outcomes(~curDate \/ brk.dir # 0)} :
             /\ Becomes(s)
             /\ old' = (old /\ s.b.dir # 0)
  BY DEF LoopEnd
<1>2. caught \in BOOLEAN /\ (caught => pwarm)
  BY <1>0 DEF If
<1>3. PICK cmd \in {"none", "disable", "enable", "flatten"},
           o \in Outcomes(~curDate \/ brk.dir # 0) :
             /\ Becomes(Pass(caught, cmd, o))
             /\ old' = (old /\ Pass(caught, cmd, o).b.dir # 0)
  BY <1>1
<1>4. o \in Outcome
  BY OutcomesType
<1>5. PassMade(Pass(caught, cmd, o))
  BY <1>0, <1>2, <1>4, PassStep
<1> QED
  BY <1>3, <1>5

LEMMA LoopEndInv ==
    ASSUME PaperInv, LoopEnd
    PROVE  PaperInv'
<1>1. PICK u : PassMade(u) /\ Becomes(u) /\ old' = (old /\ u.b.dir # 0)
  BY LoopEndMade
<1>2. pc = "loop" /\ curDate' = TRUE /\ UNCHANGED <<phase, pc, starts>>
  BY DEF LoopEnd
<1>3. RestOK
  BY TypeParts
<1>4. tape' \in [day : BOOLEAN, ph : Phases]
  <2>1. [day |-> TRUE, ph |-> phase] \in [day : BOOLEAN, ph : Phases]
    BY <1>3 DEF RestOK
  <2>2. tape' = [day |-> TRUE, ph |-> phase] \/ tape' = tape
    BY DEF LoopEnd
  <2> QED
    BY <1>3, <2>1, <2>2 DEF RestOK
<1>5. /\ pwarm' \in BOOLEAN /\ (pwarm' => pwarm)
      /\ startup' \in BOOLEAN
  BY <1>3 DEF LoopEnd, RestOK, If
<1>6. RestOK'
  BY <1>1, <1>2, <1>3, <1>4, <1>5 DEF RestOK
<1>7. brk' = u.b
  BY <1>1 DEF Becomes
<1>8. old' => old /\ brk'.dir # 0
  BY <1>1, <1>7
<1> QED
  BY <1>1, <1>2, <1>5, <1>6, <1>8, StaysUp DEF PassMade

\* What is stored of a position.
LEMMA ResumeStep ==
    ASSUME NEW b \in BrokerState
    PROVE  LET c == resume_position(b)
           IN  /\ c \in BrokerState /\ Quiet(c) /\ c.dir = b.dir
               /\ b.dir # 0 => /\ c.placed = b.stop /\ c.stop = b.stop /\ ~c.far
                               /\ c.be => b.stop >= 0
                               /\ ~c.be => b.stop < 0 /\ ~c.trail
<1>1. NoBroker \in BrokerState /\ Quiet(NoBroker) /\ NoBroker.dir = 0
  <2>1. 0 \in -(RUnit + Sl + 1) .. Top /\ 0 \in 0 .. MaxTrades
    BY PaperConstants, MtfConstants
  <2> QED
    BY <2>1 DEF NoBroker, BrokerState, Dirs, Quiet
<1>2. CASE b.dir = 0
  BY <1>1, <1>2 DEF resume_position
<1>3. CASE b.dir # 0
  <2> DEFINE x == b.stop >= 0
             c == [NoBroker EXCEPT !.dir = b.dir, !.stop = b.stop, !.placed = b.stop,
                                   !.be = x, !.trail = x]
  <2>1. resume_position(b) = c
    BY <1>3 DEF resume_position
  <2>2. /\ b.dir \in Dirs /\ x \in BOOLEAN
        /\ b.stop \in -(RUnit + Sl + 1) .. Top
    BY BrokerFields
  <2> HIDE DEF x
  <2>3. /\ c \in BrokerState /\ c.dir = b.dir /\ c.pend = 0 /\ c.flip = 0
        /\ c.placed = b.stop /\ c.stop = b.stop /\ ~c.far /\ c.be = x /\ c.trail = x
    BY <1>1, <2>2 DEF BrokerState, NoBroker
  <2> HIDE DEF c
  <2>4. (x => b.stop >= 0) /\ (~x => b.stop < 0)
    <3>1. b.stop \in Int
      BY BrokerFields
    <3> QED
      BY <3>1 DEF x
  <2> QED
    BY <2>1, <2>3, <2>4 DEF Quiet
<1> QED
  BY <1>2, <1>3

LEMMA StopInv ==
    ASSUME PaperInv, Stop
    PROVE  PaperInv'
<1>1. /\ pc' = "off" /\ eng' = Fresh(eng) /\ brk' = resume_position(brk)
      /\ notes' = {} /\ pwarm' = FALSE
      /\ old' = FALSE /\ startup' = FALSE /\ tape' = [day |-> TRUE, ph |-> phase]
      /\ curDate' = TRUE /\ UNCHANGED <<phase, starts>>
  BY DEF Stop
<1>10. PICK torn \in BOOLEAN, o \in Outcome : count' = Stored(torn, o).n /\ acct' = Stored(torn, o).a
  <2>1. PICK torn \in If(brk.dir # 0) : \E o \in Outcomes(torn) :
                count' = Stored(torn, o).n /\ acct' = Stored(torn, o).a
    BY DEF Stop
  <2> QED
    BY <2>1, OutcomesType DEF If
<1>2. EngineInv(eng') /\ Alike(eng, eng')
  BY <1>1, FreshStep DEF PaperInv, Newborn
<1>3. brk \in BrokerState
  BY DEF PaperInv, TypeOK
<1>4. /\ brk' \in BrokerState /\ Quiet(brk') /\ brk'.dir = brk.dir
      /\ brk.dir # 0 => /\ brk'.placed = brk.stop /\ brk'.stop = brk.stop /\ ~brk'.far
                        /\ brk'.be => brk.stop >= 0
                        /\ ~brk'.be => brk.stop < 0 /\ ~brk'.trail
  BY <1>1, <1>3, ResumeStep
<1>5. acct' \in Accounts /\ acct'.halt = NoHalt
  <2> DEFINE a == [acct EXCEPT !.day = @ /\ curDate]
             c == IF torn THEN on_trade_close(a, o) ELSE a
  <2>1. acct \in Accounts /\ curDate \in BOOLEAN
    BY DEF PaperInv, TypeOK, Accounts
  <2>2. a \in Accounts
    BY <2>1 DEF Accounts
  <2> HIDE DEF a
  <2>3. c \in Accounts
    BY <2>2, AccountClose
  <2>4. acct' = [c EXCEPT !.halt = NoHalt]
    BY <1>10 DEF Stored, a
  <2> HIDE DEF c
  <2> QED
    BY <2>3, <2>4 DEF Accounts
<1>6. count' \in 0 .. MaxTrades /\ RestOK'
  <2>1. RestOK /\ count \in 0 .. MaxTrades
    BY TypeParts DEF PaperInv, TypeOK
  <2>2. [day |-> TRUE, ph |-> phase] \in [day : BOOLEAN, ph : Phases]
    BY <2>1 DEF RestOK
  <2>3. RestOK'
    BY <1>1, <2>1, <2>2 DEF RestOK
  <2> DEFINE n == IF curDate THEN count ELSE 0
  <2>4. n \in 0 .. MaxTrades /\ MaxTrades \in Nat
    BY <2>1, MtfConstants
  <2>5. count' = IF torn THEN MinOf(n + 1, MaxTrades) ELSE n
    BY <1>10 DEF Stored
  <2> HIDE DEF n
  <2> QED
    BY <2>3, <2>4, <2>5 DEF MinOf
<1>7. State' \in Runners
  <2>1. eng' \in EngineStates /\ notes' \in SUBSET Notes
    BY <1>1, <1>2, EngineStateType
  <2> QED
    BY <1>4, <1>5, <1>6, <2>1 DEF State, Runners
<1>8. Single(State') /\ Working(State') /\ HaltKnown(State')
  <2>1. /\ State'.e = eng' /\ State'.b = brk' /\ State'.a = acct' /\ State'.t = notes'
    BY DEF State
  <2>2. Single(State')
    BY <1>4, <2>1 DEF Single, Quiet
  <2>3. brk.stop \in Int
    BY <1>3, BrokerFields
  <2>4. Working(State')
    BY <1>4, <2>1, <2>3 DEF Working
  <2>5. HaltKnown(State')
    BY <1>5, <2>1 DEF HaltKnown
  <2> QED
    BY <2>2, <2>4, <2>5
<1>9. TypeOK'
  BY <1>2, <1>6, <1>7, <1>8, TypeParts DEF RunnerInv
<1> QED
  BY <1>1, <1>2, <1>4, <1>5, <1>8, <1>9 DEF PaperInv

-----------------------------------------------------------------------------
(* A start. *)

LEMMA SeededEngine ==
    ASSUME NEW e, EngineInv(e), NEW d \in Sides
    PROVE  LET f == IF e.kind = "trend" THEN trend_seed_open_position(e, d) ELSE e
           IN  /\ EngineInv(f) /\ Alike(e, f)
               /\ e.kind = "trend" => in_position(f)
<1>1. CASE e.kind = "trend"
  <2> DEFINE f == [e EXCEPT !.pos = TRUE, !.dir = d]
  <2>1. TrendInv(e) /\ e \in TrendState
    BY <1>1, KindCases DEF TrendInv
  <2>2. d \in Dirs
    BY DEF Sides, Dirs
  <2>3. /\ f \in TrendState /\ f.kind = "trend" /\ f.mode = e.mode /\ f.age = e.age
        /\ f.arm = e.arm /\ f.used = e.used /\ f.pos = TRUE
    BY <1>1, <2>1, <2>2 DEF TrendState
  <2>4. trend_seed_open_position(e, d) = f
    BY DEF trend_seed_open_position
  <2> HIDE DEF f
  <2>5. TrendInv(f)
    BY <2>1, <2>3 DEF TrendInv
  <2> QED
    BY <1>1, <2>3, <2>4, <2>5 DEF EngineInv, Alike, in_position
<1>2. CASE e.kind # "trend"
  BY <1>2 DEF Alike
<1> QED
  BY <1>1, <1>2

\* A started runner holds what was resumed, or nothing: the scalper's leg is closed.
Begins(s, c) ==
    /\ Sound(s) /\ HaltKnown(s) /\ Quiet(s.b) /\ Alike(eng, s.e)
    /\ s.b.dir = 0 \/ (SameOrders(c, s.b) /\ s.e.kind # "mtf")

\* Before a scalper's leg is closed.
Seeded(s, c) ==
    /\ s \in Runners /\ EngineInv(s.e) /\ Alike(eng, s.e) /\ HaltKnown(s)
    /\ SameOrders(c, s.b) /\ Quiet(s.b)
    /\ s.b.dir # 0 /\ s.e.kind # "mtf" => in_position(s.e) \/ "orb" \in s.t

LEMMA ResumedStep ==
    ASSUME PaperInv, pc = "off", NEW h \in BOOLEAN, NEW b \in BrokerState,
           SameOrders(brk, b)
    PROVE  Seeded(Resumed(seed_trades_today(eng, count), b, h), brk)
<1>1. /\ EngineInv(eng) /\ count \in 0 .. MaxTrades /\ acct \in Accounts
      /\ acct.halt = NoHalt /\ Quiet(brk)
  BY DEF PaperInv, TypeOK, Accounts
<1> DEFINE e == seed_trades_today(eng, count)
           g == IF e.kind = "trend" THEN trend_seed_open_position(e, b.dir) ELSE e
           e1 == IF e.kind = "trend" /\ b.dir # 0
                 THEN trend_seed_open_position(e, b.dir) ELSE e
           f == IF h \/ b.hit THEN s_halt(e1) ELSE e1
           t == Tag(e.kind = "orb", "orb")
           s == [e |-> f, b |-> b, n |-> count, a |-> acct, t |-> t]
<1>2. EngineInv(e) /\ Alike(eng, e)
  <2>1. Untouched(eng, e)
    BY <1>1, SeedTradesKept
  <2> HIDE DEF e
  <2> QED
    BY <2>1 DEF Untouched, Kept
<1> HIDE DEF e
<1>3. EngineInv(e1) /\ Alike(e, e1) /\ (b.dir # 0 /\ e.kind = "trend" => in_position(e1))
  <2>1. CASE b.dir = 0
    <3>1. e1 = e
      BY <2>1
    <3> QED
      BY <1>2, <2>1, <3>1 DEF Alike
  <2>2. CASE b.dir # 0
    <3>1. b.dir \in Sides
      BY <2>2, BrokerFields DEF Dirs, Sides
    <3>2. EngineInv(g) /\ Alike(e, g) /\ (e.kind = "trend" => in_position(g))
      BY <1>2, <3>1, SeededEngine
    <3>3. e1 = g
      BY <2>2
    <3> HIDE DEF g, e1
    <3> QED
      BY <3>2, <3>3
  <2> QED
    BY <2>1, <2>2
<1>4. e.kind \in {"trend", "orb", "mtf"}
  BY <1>2, KindCases
<1> HIDE DEF e1
<1>5. EngineInv(f) /\ Alike(e1, f) /\ (in_position(e1) => in_position(f))
  <2> DEFINE k == [e1 EXCEPT !.halt = "host"]
  <2>1. "host" \in Halts
    BY DEF Halts
  <2>2. Kept(e1, k) /\ in_position(k) = in_position(e1)
    BY <1>3, <2>1, HaltKept
  <2>3. f = e1 \/ f = k
    BY DEF s_halt, halt_trading
  <2> HIDE DEF k, f
  <2> QED
    BY <1>3, <2>2, <2>3 DEF Kept, Alike
<1> HIDE DEF f
<1>6. t \in SUBSET Notes /\ (e.kind = "orb" => "orb" \in t)
  BY DEF Tag, Notes
<1> HIDE DEF t
<1>7. s \in Runners
  BY <1>1, <1>5, <1>6, EngineStateType DEF Runners
<1>8. Resumed(e, b, h) = s
  BY DEF Resumed, e1, f, t
<1>9. s.e = f /\ s.b = b /\ s.a = acct /\ s.t = t
  OBVIOUS
<1> HIDE DEF s
<1>10. Quiet(b) /\ HaltKnown(s)
  BY <1>1, <1>9 DEF Quiet, SameOrders, HaltKnown
<1>11. b.dir # 0 /\ f.kind # "mtf" => in_position(f) \/ "orb" \in t
  BY <1>3, <1>4, <1>5, <1>6 DEF Alike
<1>12. Alike(eng, f)
  BY <1>2, <1>3, <1>5 DEF Alike
<1>13. Seeded(s, brk)
  BY <1>5, <1>7, <1>9, <1>10, <1>11, <1>12 DEF Seeded
<1> QED
  BY <1>8, <1>13 DEF e

LEMMA RestartFlattenStep ==
    ASSUME PaperInv, NEW s, Seeded(s, brk), NEW o \in Outcome
    PROVE  Begins(restart_flatten(s, o), brk)
<1>1. s \in Runners /\ s.b \in BrokerState /\ s.e.kind = eng.kind
  BY RunnerFields DEF Seeded, Alike
<1>2. CASE s.e.kind # "mtf" \/ s.b.dir = 0
  <2>1. restart_flatten(s, o) = s
    BY <1>2 DEF restart_flatten
  <2>2. Working(State) /\ State.b = brk /\ State.e = eng
    BY UpSound DEF RunnerInv
  <2>3. Working(s)
    BY <1>1, <2>2 DEF Working, Seeded, SameOrders
  <2>4. Single(s) /\ InStep(s)
    BY <1>2 DEF Seeded, Single, InStep, Bound, Quiet
  <2> QED
    BY <1>1, <1>2, <2>1, <2>3, <2>4 DEF Begins, Seeded, Sound
<1>3. CASE s.e.kind = "mtf" /\ s.b.dir # 0
  <2> DEFINE d == s.b.dir
             c == Closed(s.b)
             v == [s EXCEPT !.b = c]
             w == Untold(v, d, o)
             u == [w EXCEPT !.a = s.a]
  <2>1. restart_flatten(s, o) = u
    BY <1>3 DEF restart_flatten, Untold
  <2>2. d \in Sides
    BY <1>1, <1>3, BrokerFields DEF Dirs, Sides
  <2>3. c \in BrokerState /\ c.dir = 0 /\ c.pend = 0 /\ c.flip = 0
    BY <1>1, ClosedBroker
  <2> HIDE DEF c, d
  <2>4. v \in Runners /\ v.e = s.e /\ v.b = c /\ v.t = s.t
    BY <1>1, <2>3, WithBroker
  <2> HIDE DEF v
  <2>5. Closes(v, d, w)
    BY <2>2, <2>4, TradeClosedUntold DEF Seeded
  <2> HIDE DEF w
  <2>6. /\ w \in Runners /\ EngineInv(w.e) /\ Alike(s.e, w.e) /\ w.e.halt = s.e.halt
        /\ w.b.dir = 0 /\ w.b.pend = 0 /\ w.b.flip = 0 /\ s.t \subseteq w.t
    BY <2>3, <2>4, <2>5 DEF Closes
  <2>7. u \in Runners /\ u.e = w.e /\ u.b = w.b /\ u.a = s.a /\ u.t = w.t
    BY <1>1, <2>6, RunnerFields DEF Runners
  <2> HIDE DEF u
  <2>8. HaltKnown(u)
    BY <2>6, <2>7 DEF Seeded, HaltKnown
  <2>9. Sound(u) /\ Quiet(u.b)
    BY <2>6, <2>7 DEF Sound, Single, Working, InStep, Bound, Quiet
  <2>10. Alike(eng, u.e)
    BY <2>6, <2>7 DEF Seeded, Alike
  <2> QED
    BY <2>1, <2>6, <2>7, <2>8, <2>9, <2>10 DEF Begins
<1> QED
  BY <1>2, <1>3

LEMMA StartedStep ==
    ASSUME PaperInv, pc = "off", NEW h \in BOOLEAN, NEW hit \in BOOLEAN, NEW o \in Outcome
    PROVE  Begins(Started(h, hit, o), brk)
<1> DEFINE m == IF eng.kind = "mtf" THEN 0 ELSE count
           b == [brk EXCEPT !.hit = hit, !.entries = m]
           s == Resumed(seed_trades_today(eng, count), b, h)
           x == restart_flatten(s, o)
           u == recheck_limits(x, o)
<1>1. b \in BrokerState /\ SameOrders(brk, b)
  <2>1. brk \in BrokerState /\ count \in 0 .. MaxTrades
    BY DEF PaperInv, TypeOK
  <2>2. m \in 0 .. MaxTrades
    BY <2>1, MtfConstants
  <2> HIDE DEF m
  <2> QED
    BY <2>1, <2>2 DEF BrokerState, SameOrders
<1>2. Started(h, hit, o) = u
  BY DEF Started
<1> HIDE DEF b
<1>3. Seeded(s, brk)
  BY <1>1, ResumedStep
<1> HIDE DEF s
<1>4. Begins(x, brk)
  BY <1>3, RestartFlattenStep
<1> HIDE DEF x
<1>5. Sound(x) /\ HaltKnown(x)
  BY <1>4 DEF Begins
<1>6. Goes(x, u) /\ HaltKnown(u) /\ Keeps(x, u)
  BY <1>5, RecheckStep
<1> HIDE DEF u
<1>7. Sound(u) /\ Quiet(u.b) /\ Alike(eng, u.e)
  BY <1>4, <1>6 DEF Begins, Goes, Alike
<1>8. u.b.dir = 0 \/ (SameOrders(brk, u.b) /\ u.e.kind # "mtf")
  BY <1>4, <1>6 DEF Begins, Keeps, SameOrders, Goes, Alike
<1> QED
  BY <1>2, <1>6, <1>7, <1>8 DEF Begins

LEMMA StartMade ==
    ASSUME PaperInv, Start
    PROVE  \E u : /\ Begins(u, brk) /\ Becomes(u)
                  /\ old' \in BOOLEAN /\ (old' => u.b.dir # 0)
                  /\ pwarm' \in BOOLEAN /\ startup' \in BOOLEAN
                  /\ tape' \in [day : BOOLEAN, ph : Phases]
<1>0. pc = "off" /\ phase \in Phases
  BY DEF Start, PaperInv, TypeOK
<1>1. PICK h \in BOOLEAN, past \in BOOLEAN, hit \in If(AtRisk),
           warm \in If(eng.mode \in WarmModes) :
       \E t \in IF warm THEN Histories ELSE {[day |-> TRUE, ph |-> phase]} :
       /\ \E s \in {Started(h, hit, o) : o \in Outcomes(brk.dir # 0)} :
             /\ Becomes(s)
             /\ old' = (past /\ s.b.dir # 0)
       /\ startup' = (warm /\ (h \/ hit))
       /\ pwarm' = warm
       /\ tape' = t
  BY DEF Start
<1>2. hit \in BOOLEAN /\ warm \in BOOLEAN
  BY DEF If
<1>3. PICK o \in Outcomes(brk.dir # 0) :
             /\ Becomes(Started(h, hit, o))
             /\ old' = (past /\ Started(h, hit, o).b.dir # 0)
  BY <1>1
<1>4. o \in Outcome
  BY OutcomesType
<1> DEFINE u == Started(h, hit, o)
<1>5. Begins(u, brk)
  BY <1>0, <1>2, <1>4, StartedStep
<1>6. Becomes(u) /\ old' = (past /\ u.b.dir # 0)
  BY <1>3
<1> HIDE DEF u
<1>7. startup' = (warm /\ (h \/ hit)) /\ pwarm' = warm
  BY <1>1
<1>8. tape' \in [day : BOOLEAN, ph : Phases]
  <2>1. [day |-> TRUE, ph |-> phase] \in [day : BOOLEAN, ph : Phases]
    BY <1>0
  <2>2. \A t \in Histories : t \in [day : BOOLEAN, ph : Phases]
    <3>1. "evening" \in Phases /\ "session" \in Phases
      BY DEF Phases
    <3>2. [day |-> TRUE, ph |-> "evening"] \in [day : BOOLEAN, ph : Phases]
      BY <3>1
    <3>3. [day |-> FALSE, ph |-> "session"] \in [day : BOOLEAN, ph : Phases]
      BY <3>1
    <3> QED
      BY <3>2, <3>3 DEF Histories
  <2>3. tape' \in Histories \/ tape' = [day |-> TRUE, ph |-> phase]
    BY <1>1
  <2> QED
    BY <2>1, <2>2, <2>3
<1>9. old' \in BOOLEAN /\ (old' => u.b.dir # 0)
  BY <1>6
<1>10. startup' \in BOOLEAN /\ pwarm' \in BOOLEAN
  BY <1>2, <1>7
<1> QED
  BY <1>5, <1>6, <1>8, <1>9, <1>10

LEMMA StartInv ==
    ASSUME PaperInv, Start
    PROVE  PaperInv'
<1>1. PICK u : /\ Begins(u, brk) /\ Becomes(u)
               /\ old' \in BOOLEAN /\ (old' => u.b.dir # 0)
               /\ pwarm' \in BOOLEAN /\ startup' \in BOOLEAN
               /\ tape' \in [day : BOOLEAN, ph : Phases]
  BY StartMade
<1>2. /\ pc = "off" /\ starts < MaxStarts /\ starts' = starts + 1 /\ curDate' = TRUE
      /\ pc' = "loop" /\ UNCHANGED phase
  BY DEF Start
<1>3. RunnerInv' /\ InStep(State)' /\ brk' = u.b /\ eng' = u.e
  BY <1>1, RunnerStep DEF Begins
<1>4. RestOK'
  <2>1. RestOK
    BY TypeParts
  <2>2. starts' \in 0 .. MaxStarts
    BY <1>2, <2>1, PaperConstants DEF RestOK
  <2> QED
    BY <1>1, <1>2, <2>1, <2>2 DEF RestOK
<1>5. TypeOK'
  BY <1>3, <1>4, TypeParts
<1>6. Quiet(brk') /\ (old' => brk'.dir # 0 /\ eng'.kind # "mtf")
  BY <1>1, <1>3 DEF Begins
<1> QED
  BY <1>2, <1>3, <1>5, <1>6 DEF PaperInv, RunnerInv

-----------------------------------------------------------------------------
(* The clock. *)

LEMMA ClockInv ==
    ASSUME PaperInv, PaperClock
    PROVE  PaperInv'
<1>1. /\ pc' = pc /\ phase' = NextPhase(phase)
      /\ tape' = [day |-> TRUE, ph |-> phase']
      /\ old' = (old /\ phase # "late")
      /\ UNCHANGED <<brk, notes, pc, pwarm, startup, starts>>
  BY DEF PaperClock
<1>2. eng' = eng \/ eng' = NewDate(eng)
  BY DEF PaperClock
<1>3. /\ count' = count \/ count' = 0
      /\ acct' = acct \/ acct' = [acct EXCEPT !.day = FALSE]
      /\ curDate' = curDate \/ curDate' = FALSE
  BY DEF PaperClock
<1>4. Untouched(eng, eng')
  BY <1>2, UntouchedItself, NewDateStep DEF PaperInv
<1>5. /\ EngineInv(eng') /\ Alike(eng, eng') /\ in_position(eng') = in_position(eng)
      /\ eng'.halt = eng.halt /\ (eng.kind = "mtf" => eng'.pos = eng.pos)
  BY <1>4 DEF Untouched, Kept
<1>6. acct' \in Accounts /\ acct'.halt = acct.halt
  <2>1. acct \in Accounts
    BY DEF PaperInv, TypeOK, Accounts
  <2> QED
    BY <1>3, <2>1 DEF Accounts
<1>7. count' \in 0 .. MaxTrades
  BY <1>3, MtfConstants DEF PaperInv, TypeOK
<1>8. RestOK'
  <2>1. RestOK /\ phase \in Phases
    BY TypeParts DEF RestOK
  <2>2. NextPhase(phase) \in Phases
    BY <2>1 DEF NextPhase, Phases
  <2>3. [day |-> TRUE, ph |-> phase'] \in [day : BOOLEAN, ph : Phases]
    BY <1>1, <2>2
  <2> QED
    BY <1>1, <1>3, <2>1, <2>2, <2>3 DEF RestOK
<1>9. State' \in Runners
  <2>1. eng' \in EngineStates /\ notes' \in SUBSET Notes /\ brk' \in BrokerState
    BY <1>1, <1>5, EngineStateType DEF PaperInv, TypeOK
  <2> QED
    BY <1>6, <1>7, <2>1 DEF State, Runners
<1>10. /\ State'.e = eng' /\ State'.b = brk' /\ State'.a = acct' /\ State'.t = notes'
       /\ State.e = eng /\ State.b = brk /\ State.a = acct /\ State.t = notes
  BY DEF State
<1>11. Single(State') /\ Working(State') /\ HaltKnown(State')
  <2>1. Single(State) /\ Working(State) /\ HaltKnown(State)
    BY DEF PaperInv
  <2> QED
    BY <1>1, <1>5, <1>6, <1>10, <2>1 DEF Single, Working, HaltKnown, Alike
<1>12. InStep(State) => InStep(State')
  BY <1>1, <1>5, <1>10 DEF InStep, Alike
<1>13. TypeOK'
  BY <1>5, <1>8, <1>9, <1>11, TypeParts DEF RunnerInv
<1>14. ~pwarm' /\ (old' => curDate')
  <2>1. ~pwarm /\ (old => curDate)
    BY DEF PaperInv, PaperClock, TypeOK
  <2>2. phase # "late" => curDate' = curDate
    BY DEF PaperClock
  <2> QED
    BY <1>1, <2>1, <2>2
<1> QED
  BY <1>1, <1>5, <1>6, <1>11, <1>12, <1>13, <1>14 DEF PaperInv, Alike

-----------------------------------------------------------------------------
(* The theorems. *)

LEMMA EnginesOfInit ==
    Init => EngineInv(eng) /\ eng.kind \in {"orb", "trend", "mtf"}
<1> SUFFICES ASSUME Init
             PROVE  EngineInv(eng)
  BY KindCases
<1>1. CASE eng = OrbNew
  BY <1>1, OrbNewborn DEF Newborn
<1>2. ASSUME NEW m \in PaperTrend, eng = TrendNew(m)
      PROVE  EngineInv(eng)
  <2>1. m \in TrendModes
    BY PaperAssumption
  <2> QED
    BY <1>2, <2>1, TrendNewborn DEF Newborn
<1>3. ASSUME NEW m \in MtfModes, NEW x \in BOOLEAN, NEW y \in BOOLEAN, eng = MtfNew(m, x, y)
      PROVE  EngineInv(eng)
  BY <1>3, MtfNewborn DEF Newborn
<1>4. PaperMtf \subseteq MtfModes /\ "plain" \in MtfModes
  BY PaperAssumption DEF MtfModes
<1>5. \/ eng = OrbNew
      \/ \E m \in PaperTrend : eng = TrendNew(m)
      \/ \E m \in MtfModes, x \in BOOLEAN, y \in BOOLEAN : eng = MtfNew(m, x, y)
  BY <1>4 DEF Init
<1> QED
  BY <1>1, <1>2, <1>3, <1>5

LEMMA PaperStart ==
    Init => PaperInv
<1> SUFFICES ASSUME Init
             PROVE  PaperInv
  OBVIOUS
<1>1. /\ phase = "evening" /\ brk = NoBroker /\ count = 0 /\ notes = {} /\ pc = "off"
      /\ pwarm = FALSE /\ acct = [halt |-> NoHalt, day |-> FALSE, dd |-> FALSE]
      /\ tape = [day |-> TRUE, ph |-> "evening"] /\ old = FALSE
      /\ curDate = TRUE /\ startup = FALSE /\ starts = 0
  BY DEF Init
<1>2. EngineInv(eng)
  BY EnginesOfInit
<1>3. /\ brk \in BrokerState /\ Quiet(brk) /\ brk.dir = 0
  <2>1. 0 \in -(RUnit + Sl + 1) .. Top /\ 0 \in 0 .. MaxTrades
    BY PaperConstants, MtfConstants
  <2> QED
    BY <1>1, <2>1 DEF NoBroker, BrokerState, Dirs, Quiet
<1>4. TypeOK
  <2>1. count \in 0 .. MaxTrades /\ starts \in 0 .. MaxStarts
    BY <1>1, MtfConstants, PaperConstants
  <2>2. phase \in Phases /\ tape \in [day : BOOLEAN, ph : Phases]
    BY <1>1 DEF Phases
  <2>3. acct \in [halt : {NoHalt, "account_daily_loss", "account_trailing_dd"},
                  day : BOOLEAN, dd : BOOLEAN]
    BY <1>1
  <2> QED
    BY <1>1, <1>2, <1>3, <2>1, <2>2, <2>3, EngineStateType DEF TypeOK
<1>5. State.e = eng /\ State.b = brk /\ State.a = acct /\ State.t = notes
  BY DEF State
<1>6. Single(State) /\ Working(State)
  BY <1>3, <1>5 DEF Single, Working, Quiet
<1>7. acct.halt = NoHalt
  BY <1>1
<1>8. HaltKnown(State)
  BY <1>5, <1>7 DEF HaltKnown
<1> QED
  BY <1>1, <1>2, <1>3, <1>4, <1>6, <1>7, <1>8 DEF PaperInv

LEMMA PaperStep ==
    PaperInv /\ [Next]_vars => PaperInv'
<1> SUFFICES ASSUME PaperInv, [Next]_vars
             PROVE  PaperInv'
  OBVIOUS
<1>1. CASE BrokerTick
  BY <1>1, BrokerTickInv
<1>2. CASE EngineTick
  BY <1>2, EngineTickInv
<1>3. CASE OtherCloses
  BY <1>3, OtherClosesInv
<1>4. CASE LoopEnd
  BY <1>4, LoopEndInv
<1>5. CASE Stop
  BY <1>5, StopInv
<1>6. CASE Start
  BY <1>6, StartInv
<1>7. CASE PaperClock
  BY <1>7, ClockInv
<1>8. CASE UNCHANGED vars
  <2>1. UNCHANGED <<eng, phase, brk, count, acct, notes, pc, pwarm, tape, old, curDate,
                    startup, starts>>
    BY <1>8 DEF vars, pvars
  <2>2. State' = State
    BY <2>1 DEF State
  <2>3. TypeOK'
    BY <2>1 DEF PaperInv, TypeOK
  <2>4. /\ Single(State') /\ Working(State') /\ HaltKnown(State')
        /\ InStep(State) => InStep(State')
    BY <2>2 DEF PaperInv
  <2> QED
    BY <2>1, <2>3, <2>4 DEF PaperInv
<1> QED
  BY <1>1, <1>2, <1>3, <1>4, <1>5, <1>6, <1>7, <1>8 DEF Next

\* The inductive invariant of the paper host.
THEOREM PaperInvariant ==
    Spec => []PaperInv
BY PaperStart, PaperStep, PTL DEF Spec

\* The type invariant, with any number of starts and any steps: no stop leaves the
\* range of its trail, and no counter passes the cap.
THEOREM PaperTypeCorrect ==
    Spec => []TypeOK
<1>1. PaperInv => TypeOK
  BY DEF PaperInv
<1> QED
  BY <1>1, PaperInvariant, PTL

\* A paper position has an engine that knows of it, and the scalper's leg is managed
\* by its own side's bracket, but for the named paths.
THEOREM PaperStaysInStep ==
    Spec => []PaperInStep
<1>1. PaperInv => PaperInStep
  <2> SUFFICES ASSUME PaperInv, pc = "loop", brk.dir # 0
               PROVE  /\ in_position(eng) \/ notes \cap {"orb", "gap", "rolled", "flip"} # {}
                      /\ eng.kind = "mtf" /\ eng.pos = -brk.dir /\ brk.flip = 0
                             => notes \cap {"flip", "rolled"} # {}
    BY DEF PaperInStep
  <2>1. /\ InStep(State) /\ Single(State) /\ State.e = eng /\ State.b = brk
        /\ State.t = notes /\ brk \in BrokerState
    BY UpSound DEF PaperInv, TypeOK
  <2>2. brk.dir \in Dirs /\ brk.flip \in Dirs
    BY <2>1, BrokerFields
  <2>3. CASE eng.kind # "mtf"
    BY <2>1, <2>3 DEF InStep
  <2>4. CASE eng.kind = "mtf"
    <3>1. Bound(brk) # 0 /\ (brk.flip = 0 => Bound(brk) = brk.dir)
      BY DEF Bound
    <3>2. eng.pos = Bound(brk) \/ "flip" \in notes \/ "rolled" \in notes
      BY <2>1, <2>4, <3>1 DEF InStep
    <3>3. eng.pos = Bound(brk) => in_position(eng)
      BY <2>4, <3>1 DEF in_position
    <3>4. brk.flip = 0 /\ eng.pos = Bound(brk) => eng.pos # -brk.dir
      BY <2>2, <3>1 DEF Dirs
    <3> QED
      BY <3>2, <3>3, <3>4
  <2> QED
    BY <2>3, <2>4
<1> QED
  BY <1>1, PaperInvariant, PTL

\* While the account is halted every engine is halted, but for a halt set by a trade
\* close, the operator's enable and the warm-up's reset; the date makes no difference.
THEOREM AccountHaltKept ==
    Spec => []AccountHaltHolds
<1>1. PaperInv => AccountHaltHolds
  BY UpSound DEF RunnerInv, HaltKnown, AccountHaltHolds
<1> QED
  BY <1>1, PaperInvariant, PTL

\* A tick from before a resumed entry neither moves the stop nor closes the position,
\* and asks for no exit in the warm-up.
THEOREM PastTapeIgnored ==
    Spec => PastTape
<1>1. ASSUME PaperInv, [Next]_vars
      PROVE  [pc = "loop" /\ pc' = "engine" /\ old'
                => /\ brk'.dir = brk.dir /\ brk'.stop = brk.stop
                   /\ brk'.placed = brk.placed
                   /\ pwarm => brk' = brk]_pvars
  <2> SUFFICES ASSUME pc = "loop", pc' = "engine", old'
               PROVE  /\ brk'.dir = brk.dir /\ brk'.stop = brk.stop
                      /\ brk'.placed = brk.placed
                      /\ pwarm => brk' = brk
    OBVIOUS
  <2>1. BrokerTick
    BY <1>1 DEF Next, vars, pvars, EngineTick, OtherCloses, LoopEnd, Stop, Start, PaperClock
  <2>0. PICK older \in BOOLEAN : \E u : /\ TickMade(u, older) /\ Becomes(u)
                                        /\ old' = older
    BY <1>1, <2>1, BrokerTickMade
  <2>2. PICK u : TickMade(u, older) /\ Becomes(u) /\ old' = older
    BY <2>0
  <2>3. brk' = u.b /\ older
    BY <2>2 DEF Becomes
  <2> QED
    BY <2>2, <2>3 DEF TickMade, SameOrders
<1> QED
  BY <1>1, PaperInvariant, PTL DEF Spec, PastTape

\* Every step keeps the engine's kind, and lowers no working stop of a plain position.
PlacedKept ==
    /\ Alike(eng, eng')
    /\ eng.kind # "mtf" /\ brk.dir # 0 /\ brk'.dir = brk.dir => brk'.placed >= brk.placed

LEMMA PlacedStep ==
    ASSUME PaperInv, Next
    PROVE  PlacedKept
<1>1. /\ brk \in BrokerState /\ brk.placed \in Int /\ brk.stop \in Int
      /\ State.e = eng /\ State.b = brk
  BY UpSound, BrokerFields DEF PaperInv, TypeOK
<1>2. ASSUME NEW u, Goes(State, u), Becomes(u)
      PROVE  PlacedKept
  <2>1. eng' = u.e /\ brk' = u.b
    BY <1>2 DEF Becomes
  <2> QED
    BY <1>1, <1>2, <2>1 DEF Goes, Follows, PlacedKept
<1>3. CASE BrokerTick
  BY <1>2, <1>3, BrokerTickMade DEF TickMade
<1>4. CASE EngineTick
  <2>1. ASSUME NEW u, Emits(State, u, pwarm), Becomes(u)
        PROVE  PlacedKept
    <3>1. eng' = u.e /\ brk' = u.b
      BY <2>1 DEF Becomes
    <3> QED
      BY <1>1, <2>1, <3>1 DEF Emits, PlacedKept
  <2>2. UNCHANGED <<eng, brk, count, acct, notes>> => PlacedKept
    BY <1>1 DEF PlacedKept, Alike
  <2> QED
    BY <1>4, <2>1, <2>2, EngineTickMade
<1>5. CASE LoopEnd
  BY <1>2, <1>5, LoopEndMade DEF PassMade
<1>6. CASE OtherCloses
  <2>1. UNCHANGED <<eng, brk>>
    BY <1>6 DEF OtherCloses
  <2> QED
    BY <1>1, <2>1 DEF PlacedKept, Alike
<1>7. CASE Stop
  <2>1. eng' = Fresh(eng) /\ brk' = resume_position(brk)
    BY <1>7 DEF Stop
  <2>2. Alike(eng, eng')
    BY <2>1, FreshStep DEF PaperInv
  <2>3. brk.dir # 0 => brk'.placed = brk.stop
    BY <1>1, <2>1, ResumeStep
  <2>4. eng.kind # "mtf" /\ brk.dir # 0 => brk.stop >= brk.placed
    BY <1>1 DEF PaperInv, Working
  <2> QED
    BY <2>2, <2>3, <2>4 DEF PlacedKept
<1>8. CASE Start
  <2>1. PICK u : Begins(u, brk) /\ Becomes(u)
    BY <1>8, StartMade
  <2>2. eng' = u.e /\ brk' = u.b
    BY <2>1 DEF Becomes
  <2>3. brk.dir # 0 /\ brk'.dir = brk.dir => brk'.placed = brk.placed
    BY <2>1, <2>2 DEF Begins, SameOrders
  <2>4. Alike(eng, eng')
    BY <2>1, <2>2 DEF Begins
  <2> QED
    BY <1>1, <2>3, <2>4 DEF PlacedKept
<1>9. CASE PaperClock
  <2>1. brk' = brk /\ (eng' = eng \/ eng' = NewDate(eng))
    BY <1>9 DEF PaperClock
  <2>2. Alike(eng, eng')
    BY <2>1, NewDateStep DEF PaperInv, Untouched, Kept, Alike
  <2> QED
    BY <1>1, <2>1, <2>2 DEF PlacedKept
<1> QED
  BY <1>3, <1>4, <1>5, <1>6, <1>7, <1>8, <1>9 DEF Next

\* The working stop of a plain position never retreats, over ticks, passes of the
\* loop and restarts, and a moved break-even is in it.
THEOREM PaperStopKept ==
    Spec => PaperStopHolds
<1>1. ASSUME PaperInv, PaperInv', [Next]_vars
      PROVE  [brk.dir # 0 /\ brk'.dir = brk.dir /\ brk'.be /\ eng.kind # "mtf"
                => brk'.placed >= MaxOf(brk.placed, 0)]_brk
  <2>1. CASE UNCHANGED vars
    BY <2>1 DEF vars, pvars
  <2>2. CASE Next
    <3> SUFFICES ASSUME brk.dir # 0, brk'.dir = brk.dir, brk'.be, eng.kind # "mtf"
                 PROVE  brk'.placed >= MaxOf(brk.placed, 0)
      OBVIOUS
    <3>1. PlacedKept
      BY <1>1, <2>2, PlacedStep
    <3>2. eng'.kind # "mtf" /\ brk'.placed >= brk.placed
      BY <3>1 DEF PlacedKept, Alike
    <3>3. Working(State')
      BY <1>1 DEF PaperInv
    <3>4. State'.e = eng' /\ State'.b = brk'
      BY DEF State
    <3>5. brk'.placed >= 0
      BY <3>2, <3>3, <3>4 DEF Working
    <3> QED
      BY <3>2, <3>5 DEF MaxOf
  <2> QED
    BY <1>1, <2>1, <2>2
<1>2. PaperInv /\ [Next]_vars => PaperInv'
  BY PaperStep
<1> QED
  BY <1>1, <1>2, PaperInvariant, PTL DEF Spec, PaperStopHolds

=============================================================================
