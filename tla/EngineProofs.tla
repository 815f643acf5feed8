---------------------------- MODULE EngineProofs ----------------------------
(***************************************************************************)
(* What one operation of an engine does to its state, for every mode: the  *)
(* lemmas the proofs about the hosts cite.  An operation preserves the     *)
(* engine's own invariant and stands in a step relation to its argument:   *)
(* a signal changes the position flag exactly as the host believes it      *)
(* does, an entry comes from a flat engine that is not halted, and the     *)
(* latches of a mode that trades once are set with its entry.              *)
(***************************************************************************)
EXTENDS Engines, TLAPS

-----------------------------------------------------------------------------
(* The trend engine. *)

\* The modes whose set-up has an age.
Aging == {"orb_retest", "failed_breakout", "absorption_reversal", "book_imbalance"}

\* The age of a set-up is bounded because a set-up past its age is disarmed, and an
\* armed retest waits on a side that was not traded.
TrendInv(e) ==
    /\ e \in TrendState
    /\ e.mode \notin Aging => e.age = 0
    /\ e.mode # "book_imbalance" /\ e.arm # 0 => e.age <= MaxAge
    /\ e.mode = "orb_retest" => e.arm \notin e.used

\* What a completed bar may do: r is the result of an engine that was e.
TrendStep(e, ph, r) ==
    /\ TrendInv(r.e)
    /\ r.e.mode = e.mode /\ r.e.halt = e.halt /\ r.e.inRth = e.inRth
    /\ r.sig \in {"none", "flatten", "buy", "sell"}
    /\ r.sig = "none" => r.e.pos = e.pos
    /\ r.sig = "flatten" => e.pos /\ r.e.pos
    /\ r.sig \in {"buy", "sell"} =>
          ~e.pos /\ r.e.pos /\ e.halt = NoHalt /\ in_window(e.mode, ph)
    /\ e.mode \in OncePerSession =>
          /\ e.done => r.e.done
          /\ r.sig \in {"buy", "sell"} => ~e.done /\ r.e.done
          /\ r.sig \in {"buy", "sell"} /\ e.mode = "hold" => ph = "late"
    /\ e.mode \in OncePerSide =>
          /\ e.used \subseteq r.e.used
          /\ r.sig = "buy" => 1 \in r.e.used \ e.used
          /\ r.sig = "sell" => -1 \in r.e.used \ e.used

LEMMA TrendFields ==
    ASSUME NEW e \in TrendState
    PROVE  /\ e.kind = "trend" /\ e.mode \in TrendModes /\ e.pos \in BOOLEAN
           /\ e.dir \in Dirs /\ e.trades \in 0 .. MaxTrades /\ e.halt \in Halts
           /\ e.eod \in BOOLEAN /\ e.inRth \in BOOLEAN /\ e.inWin \in BOOLEAN
           /\ e.done \in BOOLEAN /\ e.arm \in Dirs /\ e.age \in 0 .. MaxAge + 1
           /\ e.used \in SUBSET Sides /\ e.reenter \in Dirs
BY DEF TrendState

\* g is e with latches set or a set-up armed, aged or disarmed.
Like(e, g) ==
    /\ g.mode = e.mode /\ g.halt = e.halt /\ g.inRth = e.inRth /\ g.pos = e.pos
    /\ e.done => g.done
    /\ e.used \subseteq g.used

\* The latch of the mode is free in e and set in f; w is the side of the entry.
Latched(e, f, ph, w) ==
    /\ e.mode \in OncePerSession => ~e.done /\ f.done
    /\ e.mode = "hold" => ph = "late"
    /\ e.mode \in OncePerSide => w \in f.used \ e.used

LEMMA StayStep ==
    ASSUME NEW e, NEW g, NEW ph, TrendInv(g), Like(e, g)
    PROVE  TrendStep(e, ph, Stay(g))
BY TrendFields DEF TrendStep, Stay, TrendInv, Like

LEMMA FlattenStep ==
    ASSUME NEW e, NEW g, NEW ph, TrendInv(g), Like(e, g), e.pos
    PROVE  TrendStep(e, ph, Flatten(g))
BY TrendFields DEF TrendStep, Flatten, TrendInv, Like

LEMMA EmitState ==
    ASSUME NEW f, TrendInv(f), f.trades < MaxTrades, NEW w \in Sides
    PROVE  LET g == trend_emit(f, w).e
           IN  /\ TrendInv(g)
               /\ g.mode = f.mode /\ g.halt = f.halt /\ g.inRth = f.inRth
               /\ g.done = f.done /\ g.used = f.used /\ g.pos = TRUE
<1> DEFINE g == [f EXCEPT !.pos = TRUE, !.dir = w, !.trades = @ + 1]
<1>1. f \in TrendState
  BY DEF TrendInv
<1>2. f.trades + 1 \in 0 .. MaxTrades
  BY <1>1, TrendFields, TrendAssumption
<1>3. g \in TrendState
  BY <1>1, <1>2 DEF TrendState, Sides, Dirs
<1>4. /\ g.mode = f.mode /\ g.halt = f.halt /\ g.inRth = f.inRth
      /\ g.done = f.done /\ g.used = f.used /\ g.pos = TRUE
      /\ g.age = f.age /\ g.arm = f.arm
  BY <1>1 DEF TrendState
<1> QED
  BY <1>3, <1>4 DEF TrendInv, trend_emit

LEMMA EnterStep ==
    ASSUME NEW e, NEW g, NEW f, NEW ph, NEW x,
           TrendInv(g), TrendInv(f), Like(e, g), Like(e, f), e.pos \in BOOLEAN,
           f.trades = g.trades, x.want \in Dirs,
           x.want # 0 /\ g.pos = FALSE => Latched(e, f, ph, x.want)
    PROVE  TrendStep(e, ph, EnterOr(g, ph, x, f))
<1>1. CASE ~(x.want # 0 /\ trend_can_enter(g, ph, x))
  BY <1>1, StayStep DEF EnterOr
<1>2. CASE x.want # 0 /\ trend_can_enter(g, ph, x)
  <2>1. x.want \in Sides /\ f.trades < MaxTrades
    BY <1>2 DEF trend_can_enter, Sides, Dirs
  <2>2. ~g.pos /\ g.halt = NoHalt /\ in_window(g.mode, ph)
    BY <1>2 DEF trend_can_enter
  <2> DEFINE r == trend_emit(f, x.want)
  <2>3. EnterOr(g, ph, x, f) = r
    BY <1>2 DEF EnterOr
  <2>4. /\ TrendInv(r.e)
        /\ r.e.mode = f.mode /\ r.e.halt = f.halt /\ r.e.inRth = f.inRth
        /\ r.e.done = f.done /\ r.e.used = f.used /\ r.e.pos = TRUE
    BY <2>1, EmitState
  <2>5. r.sig = (IF x.want = 1 THEN "buy" ELSE "sell")
    BY DEF trend_emit
  <2>6. Latched(e, f, ph, x.want) /\ g.pos = e.pos /\ g.halt = e.halt /\ g.mode = e.mode
    BY <1>2, <2>2 DEF Like
  <2> HIDE DEF r
  <2> QED
    BY <2>1, <2>2, <2>3, <2>4, <2>5, <2>6 DEF TrendStep, Like, Latched, Sides
<1> QED
  BY <1>1, <1>2

-----------------------------------------------------------------------------
(* The modes, one by one. *)

LEMMA LikeItself ==
    ASSUME NEW e
    PROVE  Like(e, e)
BY DEF Like

LEMMA InputFields ==
    ASSUME NEW x \in BarInput
    PROVE  /\ x.want \in Dirs /\ x.exit \in BOOLEAN /\ x.ok \in BOOLEAN
           /\ x.ripe \in BOOLEAN
BY DEF BarInput

\* The modes without a latch.
LEMMA TryStep ==
    ASSUME NEW e, NEW ph, NEW x, TrendInv(e), x.want \in Dirs,
           e.mode \notin OncePerSession \union OncePerSide
    PROVE  TrendStep(e, ph, Try(e, ph, x))
<1>1. e.pos \in BOOLEAN /\ Latched(e, e, ph, x.want)
  BY TrendFields DEF TrendInv, Latched, OncePerSession
<1> QED
  BY <1>1, LikeItself, EnterStep DEF Try

LEMMA ExitOrTryStep ==
    ASSUME NEW e, NEW ph, NEW x, TrendInv(e), x.want \in Dirs,
           e.mode \notin OncePerSession \union OncePerSide
    PROVE  TrendStep(e, ph, ExitOrTry(e, ph, x))
BY TryStep, FlattenStep, LikeItself DEF ExitOrTry

\* The latch of a mode that trades once a session is set.
LEMMA DoneState ==
    ASSUME NEW e, TrendInv(e)
    PROVE  LET f == [e EXCEPT !.done = TRUE]
           IN  TrendInv(f) /\ Like(e, f) /\ f.trades = e.trades /\ f.done = TRUE
               /\ f.pos = e.pos
<1> DEFINE f == [e EXCEPT !.done = TRUE]
<1>1. e \in TrendState
  BY DEF TrendInv
<1>2. f \in TrendState
  BY <1>1 DEF TrendState
<1>3. /\ f.mode = e.mode /\ f.halt = e.halt /\ f.inRth = e.inRth /\ f.pos = e.pos
      /\ f.done = TRUE /\ f.used = e.used /\ f.trades = e.trades /\ f.age = e.age
      /\ f.arm = e.arm
  BY <1>1 DEF TrendState
<1> QED
  BY <1>2, <1>3 DEF TrendInv, Like

LEMMA TryDoneStep ==
    ASSUME NEW e, NEW ph, NEW x, TrendInv(e), x.want \in Dirs, ~e.done,
           e.mode = "hold" => ph = "late", e.mode \notin OncePerSide
    PROVE  TrendStep(e, ph, Try([e EXCEPT !.done = TRUE], ph, x))
<1> DEFINE f == [e EXCEPT !.done = TRUE]
<1>1. TrendInv(f) /\ Like(e, f) /\ f.trades = e.trades /\ f.done = TRUE
  BY DoneState
<1>2. e.pos \in BOOLEAN
  BY TrendFields DEF TrendInv
<1> HIDE DEF f
<1>3. Latched(e, f, ph, x.want)
  BY <1>1 DEF Latched
<1> QED
  BY <1>1, <1>2, <1>3, EnterStep DEF Try, f

LEMMA HoldStep ==
    ASSUME NEW e, NEW ph, NEW x \in BarInput, TrendInv(e), e.mode = "hold"
    PROVE  TrendStep(e, ph, mode_hold(e, ph, x))
BY InputFields, StayStep, LikeItself, TryDoneStep DEF mode_hold, OncePerSide

LEMMA GapStep ==
    ASSUME NEW e, NEW ph, NEW x \in BarInput, TrendInv(e), e.mode = "gap_go"
    PROVE  TrendStep(e, ph, mode_gap(e, ph, x))
BY InputFields, StayStep, LikeItself, TryDoneStep DEF mode_gap, OncePerSide

LEMMA TodStep ==
    ASSUME NEW e, NEW ph, NEW x \in BarInput, TrendInv(e), e.mode = "tod_momentum"
    PROVE  TrendStep(e, ph, mode_tod(e, ph, x))
<1>1. TrendStep(e, ph, Stay([e EXCEPT !.done = TRUE]))
  BY DoneState, StayStep
<1> QED
  BY <1>1, InputFields, StayStep, LikeItself, TryDoneStep DEF mode_tod, OncePerSide

LEMMA NewsBreakStep ==
    ASSUME NEW e, NEW ph, NEW x \in BarInput, TrendInv(e), e.mode = "news_break"
    PROVE  TrendStep(e, ph, mode_news_break(e, ph, x))
<1> DEFINE f == [e EXCEPT !.done = TRUE]
<1>1. TrendInv(f) /\ Like(e, f) /\ f.trades = e.trades /\ f.done = TRUE
  BY DoneState
<1>2. e.pos \in BOOLEAN /\ x.want \in Dirs
  BY TrendFields, InputFields DEF TrendInv
<1> HIDE DEF f
<1>3. ~e.done => Latched(e, f, ph, x.want)
  BY <1>1 DEF Latched, OncePerSide
<1>4. ~e.done => TrendStep(e, ph, EnterOr(e, ph, x, f))
  BY <1>1, <1>2, <1>3, LikeItself, EnterStep
<1> QED
  BY <1>4, StayStep, LikeItself DEF mode_news_break, f

\* A side is used, and a set-up armed or kept.
WithSide(e, u, a) == [e EXCEPT !.used = u, !.arm = a]

LEMMA UsedState ==
    ASSUME NEW e, TrendInv(e), NEW u, u \subseteq Sides, NEW a \in Dirs,
           e.mode \notin Aging, e.used \subseteq u,
           NEW f, f = WithSide(e, u, a)
    PROVE  TrendInv(f) /\ f.trades = e.trades /\ f.used = u /\ Like(e, f)
<1>0. f = [e EXCEPT !.used = u, !.arm = a]
  BY DEF WithSide
<1>1. e \in TrendState
  BY DEF TrendInv
<1>2. f \in TrendState
  BY <1>0, <1>1 DEF TrendState
<1>3. /\ f.mode = e.mode /\ f.halt = e.halt /\ f.inRth = e.inRth /\ f.pos = e.pos
      /\ f.done = e.done /\ f.used = u /\ f.trades = e.trades /\ f.age = e.age
  BY <1>0, <1>1 DEF TrendState
<1>4. e.age = 0
  BY DEF TrendInv
<1> QED
  BY <1>2, <1>3, <1>4, TrendAssumption DEF TrendInv, Like, Aging

LEMMA ArmState ==
    ASSUME NEW e, TrendInv(e), NEW a \in Dirs, e.mode \notin Aging
    PROVE  LET f == [e EXCEPT !.arm = a]
           IN  /\ TrendInv(f) /\ f.trades = e.trades /\ f.pos = e.pos /\ Like(e, f)
               /\ f.arm = a /\ f.reenter = e.reenter /\ f.dir = e.dir
<1> DEFINE f == [e EXCEPT !.arm = a]
<1>1. e \in TrendState
  BY DEF TrendInv
<1>2. f \in TrendState
  BY <1>1 DEF TrendState
<1>3. /\ f.mode = e.mode /\ f.halt = e.halt /\ f.inRth = e.inRth /\ f.pos = e.pos
      /\ f.done = e.done /\ f.used = e.used /\ f.trades = e.trades /\ f.age = e.age
      /\ f.arm = a /\ f.reenter = e.reenter /\ f.dir = e.dir
  BY <1>1 DEF TrendState
<1>4. e.age = 0
  BY DEF TrendInv
<1> QED
  BY <1>2, <1>3, <1>4, TrendAssumption DEF TrendInv, Like, Aging

LEMMA AtrBreakStep ==
    ASSUME NEW e, NEW ph, NEW x \in BarInput, TrendInv(e), e.mode = "atr_break"
    PROVE  TrendStep(e, ph, mode_atr_break(e, ph, x))
<1> DEFINE f == [e EXCEPT !.used = @ \union {x.want}]
<1>1. e \in TrendState /\ x.want \in Dirs
  BY InputFields DEF TrendInv
<1>2. e.used \in SUBSET Sides /\ e.arm \in Dirs /\ e.pos \in BOOLEAN
  BY <1>1, TrendFields
<1>3. CASE ~e.inRth \/ x.want \in e.used \/ x.want = 0
  BY <1>3, StayStep, LikeItself DEF mode_atr_break, EnterOr
<1>4. CASE ~(~e.inRth \/ x.want \in e.used \/ x.want = 0)
  <2>1. e.used \union {x.want} \subseteq Sides
    BY <1>1, <1>2, <1>4 DEF Sides, Dirs
  <2>2. f = [e EXCEPT !.used = e.used \union {x.want}, !.arm = e.arm]
    BY <1>1 DEF TrendState
  <2> HIDE DEF f
  <2>3. /\ TrendInv(f) /\ f.trades = e.trades /\ f.used = e.used \union {x.want}
        /\ Like(e, f)
    <3> DEFINE u == e.used \union {x.want}
    <3>1. e.mode \notin Aging /\ e.used \subseteq u
      BY DEF Aging
    <3>2. u \subseteq Sides /\ f = WithSide(e, u, e.arm)
      BY <2>1, <2>2 DEF WithSide
    <3> HIDE DEF u
    <3>3. TrendInv(f) /\ f.trades = e.trades /\ f.used = u /\ Like(e, f)
      BY <1>2, <3>1, <3>2, UsedState
    <3> QED
      BY <3>3 DEF u
  <2>4. Latched(e, f, ph, x.want)
    BY <1>4, <2>3 DEF Latched, OncePerSession
  <2>5. TrendStep(e, ph, EnterOr(e, ph, x, f))
    BY <1>1, <1>2, <2>3, <2>4, LikeItself, EnterStep
  <2> QED
    BY <1>4, <2>5 DEF mode_atr_break, f
<1> QED
  BY <1>3, <1>4

LEMMA TargetStep ==
    ASSUME NEW e, NEW ph, NEW x, NEW entry, TrendInv(e), e.mode \notin Aging,
           ~(e.arm # 0 /\ e.pos) => TrendStep(e, ph, entry)
    PROVE  TrendStep(e, ph, TargetOr(e, x, entry))
<1> DEFINE f == [e EXCEPT !.arm = 0]
<1>1. TrendInv(f) /\ Like(e, f)
  BY ArmState DEF Dirs
<1> HIDE DEF f
<1>2. e.pos => TrendStep(e, ph, Flatten(f))
  BY <1>1, FlattenStep
<1> QED
  BY <1>2, StayStep, LikeItself DEF TargetOr, f

LEMMA VprofileStep ==
    ASSUME NEW e, NEW ph, NEW x \in BarInput, TrendInv(e),
           e.mode \in {"vprofile_fade", "vprofile_break"}
    PROVE  TrendStep(e, ph, mode_vprofile(e, ph, x))
<1> DEFINE a == IF e.mode = "vprofile_fade" THEN x.want ELSE e.arm
           f == [e EXCEPT !.used = e.used \union {x.want}, !.arm = a]
           entry == IF x.want \in e.used THEN Stay(e) ELSE EnterOr(e, ph, x, f)
<1>1. e \in TrendState /\ x.want \in Dirs
  BY InputFields DEF TrendInv
<1>2. /\ e.used \in SUBSET Sides /\ e.arm \in Dirs /\ e.pos \in BOOLEAN
      /\ a \in Dirs /\ e.mode \notin Aging
  BY <1>1, TrendFields DEF Aging
<1> HIDE DEF a
<1>3. TrendStep(e, ph, entry)
  <2>1. CASE x.want \in e.used \/ x.want = 0
    BY <2>1, StayStep, LikeItself DEF EnterOr
  <2>2. CASE ~(x.want \in e.used \/ x.want = 0)
    <3>1. e.used \union {x.want} \subseteq Sides
      BY <1>1, <1>2, <2>2 DEF Sides, Dirs
    <3>2. /\ TrendInv(f) /\ f.trades = e.trades /\ f.used = e.used \union {x.want}
          /\ Like(e, f)
      <4> DEFINE u == e.used \union {x.want}
      <4>1. e.used \subseteq u /\ u \subseteq Sides
        BY <3>1
      <4>2. f = WithSide(e, u, a)
        BY DEF WithSide
      <4> HIDE DEF u, f
      <4>3. TrendInv(f) /\ f.trades = e.trades /\ f.used = u /\ Like(e, f)
        BY <1>2, <4>1, <4>2, UsedState
      <4> QED
        BY <4>3 DEF u
    <3> HIDE DEF f
    <3>3. Latched(e, f, ph, x.want)
      BY <2>2, <3>2 DEF Latched, OncePerSession
    <3>4. TrendStep(e, ph, EnterOr(e, ph, x, f))
      BY <1>1, <1>2, <3>2, <3>3, LikeItself, EnterStep
    <3> QED
      BY <2>2, <3>4
  <2> QED
    BY <2>1, <2>2
<1>4. mode_vprofile(e, ph, x) = IF ~e.inRth THEN Stay(e) ELSE TargetOr(e, x, entry)
  BY DEF mode_vprofile, a
<1> HIDE DEF entry
<1> QED
  BY <1>2, <1>3, <1>4, TargetStep, StayStep, LikeItself

LEMMA GapFadeStep ==
    ASSUME NEW e, NEW ph, NEW x \in BarInput, TrendInv(e), e.mode = "gap_fade"
    PROVE  TrendStep(e, ph, mode_gap_fade(e, ph, x))
<1> DEFINE f == [e EXCEPT !.done = TRUE, !.arm = x.want]
           d == [e EXCEPT !.done = TRUE]
           entry == IF e.done \/ ~x.ripe THEN Stay(e) ELSE EnterOr(e, ph, x, f)
<1>1. e \in TrendState /\ x.want \in Dirs /\ e.pos \in BOOLEAN /\ e.mode \notin Aging
  BY InputFields, TrendFields DEF TrendInv, Aging
<1>2. TrendInv(d) /\ Like(e, d) /\ d.trades = e.trades /\ d.done = TRUE
  BY DoneState
<1>3. f = [d EXCEPT !.arm = x.want]
  BY <1>1 DEF TrendState
<1> HIDE DEF d, f
<1>4. TrendInv(f) /\ Like(d, f) /\ f.trades = d.trades
  <2>1. d.mode \notin Aging
    BY <1>1, <1>2 DEF Like
  <2> QED
    BY <1>1, <1>2, <1>3, <2>1, ArmState
<1>5. Like(e, f) /\ f.done
  BY <1>2, <1>4 DEF Like
<1>6. ~e.done => Latched(e, f, ph, x.want)
  BY <1>5 DEF Latched, OncePerSide
<1>7. TrendStep(e, ph, entry)
  BY <1>1, <1>2, <1>4, <1>5, <1>6, LikeItself, EnterStep, StayStep
<1>8. mode_gap_fade(e, ph, x) = IF ~e.inRth THEN Stay(e) ELSE TargetOr(e, x, entry)
  BY DEF mode_gap_fade, f
<1> HIDE DEF entry
<1> QED
  BY <1>1, <1>7, <1>8, TargetStep, StayStep, LikeItself

LEMMA IbBreakStep ==
    ASSUME NEW e, NEW ph, NEW x \in BarInput, TrendInv(e), e.mode = "ib_break"
    PROVE  TrendStep(e, ph, mode_ib_break(e, ph, x))
<1> DEFINE f == [e EXCEPT !.arm = x.want]
           entry == EnterOr(e, ph, x, f)
<1>1. e \in TrendState /\ x.want \in Dirs /\ e.pos \in BOOLEAN /\ e.mode \notin Aging
  BY InputFields, TrendFields DEF TrendInv, Aging
<1>2. TrendInv(f) /\ Like(e, f) /\ f.trades = e.trades
  BY <1>1, ArmState
<1> HIDE DEF f
<1>3. Latched(e, f, ph, x.want)
  BY DEF Latched, OncePerSession, OncePerSide
<1>4. TrendStep(e, ph, entry)
  BY <1>1, <1>2, <1>3, LikeItself, EnterStep
<1>5. mode_ib_break(e, ph, x) = IF ~e.inRth \/ ~x.ripe THEN Stay(e)
                                ELSE TargetOr(e, x, entry)
  BY DEF mode_ib_break, f
<1> HIDE DEF entry
<1> QED
  BY <1>1, <1>4, <1>5, TargetStep, StayStep, LikeItself

\* The decision of the day: the modes that take it have neither age nor latch.
LEMMA DecideState ==
    ASSUME NEW e, NEW x \in BarInput, TrendInv(e), e.mode \notin Aging
    PROVE  LET d == Decide(e, x)
           IN  TrendInv(d) /\ Like(e, d) /\ d.trades = e.trades
<1> DEFINE d == [e EXCEPT !.done = TRUE]
           f == [d EXCEPT !.arm = x.want]
<1>1. TrendInv(d) /\ Like(e, d) /\ d.trades = e.trades
  BY DoneState
<1>2. [e EXCEPT !.done = TRUE, !.arm = x.want] = f
  BY DEF TrendInv, TrendState
<1> HIDE DEF d
<1>3. TrendInv(f) /\ Like(d, f) /\ f.trades = d.trades
  <2>1. d.mode \notin Aging
    BY <1>1 DEF Like
  <2> QED
    BY <1>1, <2>1, ArmState, InputFields
<1> HIDE DEF f
<1>4. Like(e, f)
  BY <1>1, <1>3 DEF Like
<1> QED
  BY <1>1, <1>2, <1>3, <1>4, LikeItself DEF Decide

LEMMA DriveStep ==
    ASSUME NEW e, NEW ph, NEW x \in BarInput, TrendInv(e), e.mode = "opening_drive"
    PROVE  TrendStep(e, ph, mode_drive(e, ph, x))
<1> DEFINE d == Decide(e, x)
<1>1. TrendInv(d) /\ Like(e, d) /\ d.trades = e.trades
  <2>1. e.mode \notin Aging
    BY DEF Aging
  <2> QED
    BY <2>1, DecideState
<1>2. e.pos \in BOOLEAN /\ x.want \in Dirs
  BY TrendFields, InputFields DEF TrendInv
<1>3. mode_drive(e, ph, x) = IF ~e.inRth \/ x.want # d.arm THEN Stay(d)
                             ELSE EnterOr(d, ph, x, d)
  BY DEF mode_drive, Try
<1> HIDE DEF d
<1>4. Latched(e, d, ph, x.want)
  BY DEF Latched, OncePerSession, OncePerSide
<1> QED
  BY <1>1, <1>2, <1>3, <1>4, EnterStep, StayStep

LEMMA RecogniseStep ==
    ASSUME NEW e, NEW ph, NEW x \in BarInput, TrendInv(e), e.mode = "trend_day"
    PROVE  TrendStep(e, ph, recognise_trend_day(e, x))
<1>1. e.mode \notin Aging
  BY DEF Aging
<1> QED
  BY <1>1, DecideState, StayStep DEF recognise_trend_day

\* A set-up that ages: the sides used, the side armed and the age change together.
WithSetup(e, u, a, n) == [e EXCEPT !.used = u, !.arm = a, !.age = n]

LEMMA SetupState ==
    ASSUME NEW e, TrendInv(e), NEW u, u \subseteq Sides, e.used \subseteq u,
           NEW a \in Dirs, NEW n \in 0 .. MaxAge + 1, e.mode \in Aging,
           e.mode # "book_imbalance" /\ a # 0 => n <= MaxAge,
           e.mode = "orb_retest" => a \notin u,
           NEW f, f = WithSetup(e, u, a, n)
    PROVE  /\ TrendInv(f) /\ Like(e, f) /\ f.trades = e.trades
           /\ f.used = u /\ f.arm = a /\ f.age = n
<1>0. f = [e EXCEPT !.used = u, !.arm = a, !.age = n]
  BY DEF WithSetup
<1>1. e \in TrendState
  BY DEF TrendInv
<1>2. f \in TrendState
  BY <1>0, <1>1 DEF TrendState
<1>3. /\ f.mode = e.mode /\ f.halt = e.halt /\ f.inRth = e.inRth /\ f.pos = e.pos
      /\ f.done = e.done /\ f.used = u /\ f.trades = e.trades /\ f.age = n
      /\ f.arm = a
  BY <1>0, <1>1 DEF TrendState
<1> QED
  BY <1>2, <1>3 DEF TrendInv, Like

LEMMA OrbRetestStep ==
    ASSUME NEW e, NEW ph, NEW x \in BarInput, TrendInv(e), e.mode = "orb_retest"
    PROVE  TrendStep(e, ph, mode_orb_retest(e, ph, x))
<1> DEFINE n == e.age + 1
           u == e.used \union {e.arm}
           arm == WithSetup(e, e.used, x.want, 0)
           aged == WithSetup(e, e.used, e.arm, n)
           off == WithSetup(e, e.used, 0, n)
           spent == WithSetup(e, u, 0, n)
<1>1. /\ e \in TrendState /\ x.want \in Dirs /\ x.exit \in BOOLEAN /\ e.pos \in BOOLEAN
      /\ e.used \subseteq Sides /\ e.arm \in Dirs /\ e.age \in 0 .. MaxAge + 1
      /\ e.mode \in Aging /\ e.arm \notin e.used
  BY TrendFields, InputFields DEF TrendInv, Aging
<1>2. /\ [e EXCEPT !.arm = x.want, !.age = 0] = arm
      /\ [e EXCEPT !.age = @ + 1] = aged
      /\ [[e EXCEPT !.age = @ + 1] EXCEPT !.arm = 0] = off
      /\ [[[e EXCEPT !.age = @ + 1] EXCEPT !.arm = 0] EXCEPT !.used = @ \union {e.arm}] = spent
      /\ [e EXCEPT !.age = @ + 1].age = n
  BY <1>1 DEF WithSetup, TrendState
<1> HIDE DEF arm, aged, off, spent
<1>3. mode_orb_retest(e, ph, x) =
        IF ~e.inRth \/ ~x.ripe THEN Stay(e)
        ELSE IF e.arm = 0
        THEN Stay(IF x.want \in e.used \union {0} THEN e ELSE arm)
        ELSE IF x.exit \/ n > MaxAge THEN Stay(off)
        ELSE IF x.want = e.arm THEN EnterOr(aged, ph, x, spent)
        ELSE Stay(aged)
  BY <1>2 DEF mode_orb_retest
<1>4. e.arm # 0 => n \in 0 .. MaxAge + 1 /\ 0 \in Dirs /\ 0 \notin e.used
                   /\ u \subseteq Sides /\ 0 \notin u /\ e.used \subseteq u
  BY <1>1, TrendAssumption DEF TrendInv, Sides, Dirs
<1> HIDE DEF n, u
<1>5. x.want \notin e.used \union {0} => TrendStep(e, ph, Stay(arm))
  <2>1. ASSUME x.want \notin e.used \union {0}
        PROVE  TrendInv(arm) /\ Like(e, arm)
    <3>1. 0 \in 0 .. MaxAge + 1 /\ 0 <= MaxAge /\ x.want \notin e.used
      BY <2>1, TrendAssumption
    <3> QED
      BY <1>1, <3>1, SetupState DEF arm
  <2> QED
    BY <2>1, StayStep
<1>6. e.arm # 0 => TrendInv(off) /\ Like(e, off)
  BY <1>1, <1>4, SetupState DEF off
<1>7. ASSUME e.arm # 0, ~(n > MaxAge)
      PROVE  TrendInv(aged) /\ Like(e, aged) /\ aged.trades = e.trades
  <2>1. n <= MaxAge
    BY <1>4, <1>7, TrendAssumption
  <2> QED
    BY <1>1, <1>4, <1>7, <2>1, SetupState DEF aged
<1>8. e.arm # 0 => TrendInv(spent) /\ Like(e, spent) /\ spent.trades = e.trades /\ spent.used = u
  BY <1>1, <1>4, SetupState DEF spent
<1>9. ASSUME e.arm # 0, ~(n > MaxAge), x.want = e.arm
      PROVE  TrendStep(e, ph, EnterOr(aged, ph, x, spent))
  <2>1. Latched(e, spent, ph, x.want)
    BY <1>1, <1>8, <1>9 DEF Latched, OncePerSession, u
  <2> QED
    BY <1>1, <1>7, <1>8, <1>9, <2>1, EnterStep
<1> QED
  BY <1>3, <1>5, <1>6, <1>7, <1>9, StayStep, LikeItself

\* The two modes that arm on one side and enter on the other.
LEMMA ReversalStates ==
    ASSUME NEW e, NEW x \in BarInput, TrendInv(e),
           e.mode \in {"failed_breakout", "absorption_reversal"}
    PROVE  LET Set(a, k) == WithSetup(e, e.used, a, k)
           IN  /\ TrendInv(Set(x.want, 0)) /\ Like(e, Set(x.want, 0))
               /\ TrendInv(Set(0, 0)) /\ Like(e, Set(0, 0))
               /\ e.arm # 0 =>
                    /\ TrendInv(Set(0, e.age + 1)) /\ Like(e, Set(0, e.age + 1))
                    /\ Set(0, e.age + 1).trades = e.trades
               /\ e.arm # 0 /\ ~(e.age + 1 > MaxAge) =>
                    /\ TrendInv(Set(e.arm, e.age + 1)) /\ Like(e, Set(e.arm, e.age + 1))
                    /\ Set(e.arm, e.age + 1).trades = e.trades
<1> DEFINE n == e.age + 1
<1>1. /\ e \in TrendState /\ x.want \in Dirs /\ 0 \in Dirs
      /\ e.used \subseteq Sides /\ e.arm \in Dirs /\ e.age \in 0 .. MaxAge + 1
      /\ e.mode \in Aging /\ e.mode # "orb_retest" /\ e.mode # "book_imbalance"
  BY TrendFields, InputFields DEF TrendInv, Aging, Dirs
<1>2. /\ 0 \in 0 .. MaxAge + 1 /\ 0 <= MaxAge
      /\ e.arm # 0 => n \in 0 .. MaxAge + 1
      /\ e.arm # 0 /\ ~(n > MaxAge) => n <= MaxAge
  BY <1>1, TrendAssumption DEF TrendInv
<1> HIDE DEF n
<1> DEFINE Set(a, k) == WithSetup(e, e.used, a, k)
<1>3. TrendInv(Set(x.want, 0)) /\ Like(e, Set(x.want, 0))
  BY <1>1, <1>2, SetupState
<1>4. TrendInv(Set(0, 0)) /\ Like(e, Set(0, 0))
  BY <1>1, <1>2, SetupState
<1>5. e.arm # 0 => TrendInv(Set(0, n)) /\ Like(e, Set(0, n)) /\ Set(0, n).trades = e.trades
  BY <1>1, <1>2, SetupState
<1>6. e.arm # 0 /\ ~(n > MaxAge) =>
        /\ TrendInv(Set(e.arm, n)) /\ Like(e, Set(e.arm, n))
        /\ Set(e.arm, n).trades = e.trades
  BY <1>1, <1>2, SetupState
<1> QED
  BY <1>3, <1>4, <1>5, <1>6 DEF n

LEMMA FailedBreakoutStep ==
    ASSUME NEW e, NEW ph, NEW x \in BarInput, TrendInv(e), e.mode = "failed_breakout"
    PROVE  TrendStep(e, ph, mode_failed_breakout(e, ph, x))
<1> DEFINE n == e.age + 1
           arm == WithSetup(e, e.used, x.want, 0)
           none == WithSetup(e, e.used, 0, 0)
           aged == WithSetup(e, e.used, e.arm, n)
           off == WithSetup(e, e.used, 0, n)
           y == [x EXCEPT !.want = -e.arm]
<1>1. /\ e \in TrendState /\ x.want \in Dirs /\ e.pos \in BOOLEAN /\ e.arm \in Dirs
      /\ y.want \in Dirs
  BY TrendFields, InputFields DEF TrendInv, Dirs, BarInput
<1>2. /\ [e EXCEPT !.arm = x.want, !.age = 0] = arm
      /\ [e EXCEPT !.age = @ + 1] = aged
      /\ [e EXCEPT !.arm = 0, !.age = 0] = none
      /\ [[e EXCEPT !.age = @ + 1] EXCEPT !.arm = 0] = off
      /\ [none EXCEPT !.arm = x.want, !.age = 0] = arm
      /\ [e EXCEPT !.age = @ + 1].age = n /\ none.arm = 0
  BY <1>1 DEF WithSetup, TrendState
<1>3. /\ TrendInv(arm) /\ Like(e, arm) /\ TrendInv(none) /\ Like(e, none)
      /\ e.arm # 0 => TrendInv(off) /\ Like(e, off) /\ off.trades = e.trades
      /\ e.arm # 0 /\ ~(n > MaxAge) =>
            TrendInv(aged) /\ Like(e, aged) /\ aged.trades = e.trades
  BY ReversalStates
<1> HIDE DEF n, arm, none, aged, off, y
<1>4. mode_failed_breakout(e, ph, x) =
        IF e.arm = 0 THEN Stay(IF x.want # 0 THEN arm ELSE e)
        ELSE IF n > MaxAge THEN Stay(IF x.want # 0 THEN arm ELSE none)
        ELSE IF x.exit THEN EnterOr(off, ph, y, off)
        ELSE Stay(aged)
  BY <1>2 DEF mode_failed_breakout, Try, y
<1>5. \A w : Latched(e, off, ph, w)
  BY DEF Latched, OncePerSession, OncePerSide
<1>6. e.arm # 0 => TrendStep(e, ph, EnterOr(off, ph, y, off))
  BY <1>1, <1>3, <1>5, EnterStep
<1> QED
  BY <1>3, <1>4, <1>6, StayStep, LikeItself

LEMMA AbsorptionStep ==
    ASSUME NEW e, NEW ph, NEW x \in BarInput, TrendInv(e),
           e.mode = "absorption_reversal"
    PROVE  TrendStep(e, ph, mode_absorption(e, ph, x))
<1> DEFINE n == e.age + 1
           arm == WithSetup(e, e.used, x.want, 0)
           aged == WithSetup(e, e.used, e.arm, n)
           off == WithSetup(e, e.used, 0, n)
           y == [x EXCEPT !.want = -e.arm]
<1>1. /\ e \in TrendState /\ x.want \in Dirs /\ e.pos \in BOOLEAN /\ e.arm \in Dirs
      /\ y.want \in Dirs
  BY TrendFields, InputFields DEF TrendInv, Dirs, BarInput
<1>2. /\ [e EXCEPT !.arm = x.want, !.age = 0] = arm
      /\ [e EXCEPT !.age = @ + 1] = aged
      /\ [[e EXCEPT !.age = @ + 1] EXCEPT !.arm = 0] = off
      /\ [off EXCEPT !.arm = x.want, !.age = 0] = arm
      /\ [e EXCEPT !.age = @ + 1].age = n
  BY <1>1 DEF WithSetup, TrendState
<1>3. /\ TrendInv(arm) /\ Like(e, arm)
      /\ e.arm # 0 => TrendInv(off) /\ Like(e, off) /\ off.trades = e.trades
      /\ e.arm # 0 /\ ~(n > MaxAge) =>
            TrendInv(aged) /\ Like(e, aged) /\ aged.trades = e.trades
  BY ReversalStates
<1> HIDE DEF n, arm, aged, off, y
<1>4. mode_absorption(e, ph, x) =
        IF e.arm = 0 THEN Stay(IF x.want # 0 THEN arm ELSE e)
        ELSE IF n > MaxAge THEN Stay(IF x.want # 0 THEN arm ELSE off)
        ELSE IF x.exit THEN EnterOr(aged, ph, y, off)
        ELSE Stay(aged)
  BY <1>2 DEF mode_absorption, y
<1>5. \A w : Latched(e, off, ph, w)
  BY DEF Latched, OncePerSession, OncePerSide
<1>6. e.arm # 0 /\ ~(n > MaxAge) => TrendStep(e, ph, EnterOr(aged, ph, y, off))
  BY <1>1, <1>3, <1>5, EnterStep
<1> QED
  BY <1>3, <1>4, <1>6, StayStep, LikeItself

LEMMA SupertrendStep ==
    ASSUME NEW e, NEW ph, NEW x \in BarInput, TrendInv(e), e.mode = "supertrend"
    PROVE  TrendStep(e, ph, mode_supertrend(e, ph, x))
<1> DEFINE d == IF x.want # 0 THEN x.want ELSE e.arm
           f == [e EXCEPT !.arm = d]
           g(k) == [f EXCEPT !.reenter = k]
           y == [x EXCEPT !.want = d]
<1>1. /\ e \in TrendState /\ x.want \in Dirs /\ e.pos \in BOOLEAN /\ e.arm \in Dirs
      /\ d \in Dirs /\ y.want = d /\ e.mode \notin Aging
  BY TrendFields, InputFields DEF TrendInv, Dirs, BarInput, Aging
<1> HIDE DEF d
<1>2. TrendInv(f) /\ Like(e, f) /\ f.trades = e.trades
  BY <1>1, ArmState
<1> HIDE DEF f
<1>3. ASSUME NEW k \in Dirs
      PROVE  TrendInv(g(k)) /\ Like(e, g(k)) /\ g(k).trades = e.trades
  <2>1. f \in TrendState
    BY <1>2 DEF TrendInv
  <2>2. g(k) \in TrendState
    BY <2>1 DEF TrendState
  <2>3. /\ g(k).mode = f.mode /\ g(k).halt = f.halt /\ g(k).inRth = f.inRth
        /\ g(k).pos = f.pos /\ g(k).done = f.done /\ g(k).used = f.used
        /\ g(k).trades = f.trades /\ g(k).age = f.age /\ g(k).arm = f.arm
    BY <2>1 DEF TrendState
  <2> HIDE DEF g
  <2> QED
    BY <1>2, <2>2, <2>3 DEF TrendInv, Like
<1>4. \A w, h : Latched(e, h, ph, w)
  BY DEF Latched, OncePerSession, OncePerSide
<1> DEFINE flipped == e.arm # 0 /\ d # e.arm
<1>5. mode_supertrend(e, ph, x) =
        IF flipped /\ e.pos /\ e.dir # d THEN Flatten(g(d))
        ELSE IF d = 0 \/ ~(flipped \/ e.reenter = d) THEN Stay(f)
        ELSE EnterOr(f, ph, y, g(0))
  BY DEF mode_supertrend, d, f
<1> HIDE DEF flipped, g, y
<1>6. TrendStep(e, ph, EnterOr(f, ph, y, g(0)))
  <2>1. TrendInv(g(0)) /\ Like(e, g(0)) /\ g(0).trades = f.trades
    BY <1>2, <1>3 DEF Dirs
  <2> QED
    BY <1>1, <1>2, <1>4, <2>1, EnterStep
<1>7. e.pos => TrendStep(e, ph, Flatten(g(d)))
  BY <1>1, <1>3, FlattenStep
<1> QED
  BY <1>2, <1>5, <1>6, <1>7, StayStep

-----------------------------------------------------------------------------
(* A completed bar, a minute, a tick. *)

LEMMA TfCloseStep ==
    ASSUME NEW e, NEW ph, NEW x \in BarInput, NEW stops, TrendInv(e)
    PROVE  /\ TrendStep(e, ph, on_tf_close(e, ph, x, stops))
           /\ e.mode \in MinuteModes =>
                 on_tf_close(e, ph, x, stops).sig \in {"none", "flatten"}
<1> DEFINE r == on_tf_close(e, ph, x, stops)
<1>0. e.mode \in TrendModes /\ x.want \in Dirs
  BY TrendFields, InputFields DEF TrendInv
<1>1. CASE e.pos /\ "chandelier" \in stops
  <2>1. r = Flatten(e)
    BY <1>1 DEF on_tf_close
  <2> QED
    BY <1>1, <2>1, FlattenStep, LikeItself DEF Flatten
<1>2. CASE ~(e.pos /\ "chandelier" \in stops)
  <2>1. CASE e.mode \in MinuteModes \union {"book_imbalance"}
    <3>1. r = Stay(e)
      BY <1>2, <2>1 DEF on_tf_close, MinuteModes
    <3> QED
      BY <3>1, StayStep, LikeItself DEF Stay
  <2>2. CASE e.mode \in {"donchian", "pdhl_breakout", "squeeze", "nr7", "roc_momentum",
                         "fib_pullback", "delta_divergence", "volume_burst"}
    <3>1. r = Try(e, ph, x)
      BY <1>2, <2>2 DEF on_tf_close, mode_donchian, mode_pdhl, mode_squeeze, mode_nr7,
         mode_roc, mode_fib, mode_delta_div, mode_volume_burst
    <3>2. e.mode \notin OncePerSession \union OncePerSide /\ e.mode \notin MinuteModes
      BY <2>2 DEF OncePerSession, OncePerSide, MinuteModes
    <3> QED
      BY <1>0, <3>1, <3>2, TryStep
  <2>3. CASE e.mode \in {"vwap_trend", "delta_trend"}
    <3>1. r = IF e.inRth THEN Try(e, ph, x) ELSE Stay(e)
      BY <1>2, <2>3 DEF on_tf_close, mode_vwap, mode_delta
    <3>2. e.mode \notin OncePerSession \union OncePerSide /\ e.mode \notin MinuteModes
      BY <2>3 DEF OncePerSession, OncePerSide, MinuteModes
    <3> QED
      BY <1>0, <3>1, <3>2, TryStep, StayStep, LikeItself
  <2>4. CASE e.mode = "vwap_fade"
    <3>1. r = IF e.inRth THEN ExitOrTry(e, ph, x) ELSE Stay(e)
      BY <1>2, <2>4 DEF on_tf_close, mode_vwap_fade
    <3>2. e.mode \notin OncePerSession \union OncePerSide /\ e.mode \notin MinuteModes
      BY <2>4 DEF OncePerSession, OncePerSide, MinuteModes
    <3> QED
      BY <1>0, <3>1, <3>2, ExitOrTryStep, StayStep, LikeItself
  <2>5. CASE e.mode \in {"ema_pullback", "keltner_ride", "ichimoku", "band_fade",
                         "rsi2_pullback", "ema_ribbon", "thrust_fade"}
    <3>1. r = ExitOrTry(e, ph, x)
      BY <1>2, <2>5 DEF on_tf_close, mode_ema_pullback, mode_keltner, mode_ichimoku,
         mode_band_fade, mode_rsi2, mode_ema_ribbon, mode_thrust_fade
    <3>2. e.mode \notin OncePerSession \union OncePerSide /\ e.mode \notin MinuteModes
      BY <2>5 DEF OncePerSession, OncePerSide, MinuteModes
    <3> QED
      BY <1>0, <3>1, <3>2, ExitOrTryStep
  <2>6. CASE e.mode = "trend_day"
    <3>1. r = IF e.arm = 0 \/ ~e.inRth \/ x.want # e.arm THEN Stay(e) ELSE Try(e, ph, x)
      BY <1>2, <2>6 DEF on_tf_close, mode_trend_day
    <3>2. e.mode \notin OncePerSession \union OncePerSide /\ e.mode \notin MinuteModes
      BY <2>6 DEF OncePerSession, OncePerSide, MinuteModes
    <3> QED
      BY <1>0, <3>1, <3>2, TryStep, StayStep, LikeItself
  <2>7. CASE e.mode \in {"opening_drive", "failed_breakout", "supertrend",
                         "absorption_reversal", "orb_retest", "gap_fade"}
    <3>1. /\ e.mode = "opening_drive" => r = mode_drive(e, ph, x)
          /\ e.mode = "failed_breakout" => r = mode_failed_breakout(e, ph, x)
          /\ e.mode = "supertrend" => r = mode_supertrend(e, ph, x)
          /\ e.mode = "absorption_reversal" => r = mode_absorption(e, ph, x)
          /\ e.mode = "orb_retest" => r = mode_orb_retest(e, ph, x)
          /\ e.mode = "gap_fade" => r = mode_gap_fade(e, ph, x)
      BY <1>2, <2>7 DEF on_tf_close
    <3>2. e.mode \notin MinuteModes
      BY <2>7 DEF MinuteModes
    <3> HIDE DEF r
    <3> QED
      BY <2>7, <3>1, <3>2, DriveStep, FailedBreakoutStep, SupertrendStep, AbsorptionStep,
         OrbRetestStep, GapFadeStep DEF r
  <2>8. CASE e.mode \in {"news_break", "ib_break", "hold", "atr_break", "vprofile_fade",
                         "vprofile_break"}
    <3>1. /\ e.mode = "news_break" => r = mode_news_break(e, ph, x)
          /\ e.mode = "ib_break" => r = mode_ib_break(e, ph, x)
          /\ e.mode = "hold" => r = mode_hold(e, ph, x)
          /\ e.mode = "atr_break" => r = mode_atr_break(e, ph, x)
          /\ e.mode \in {"vprofile_fade", "vprofile_break"} => r = mode_vprofile(e, ph, x)
      BY <1>2, <2>8 DEF on_tf_close
    <3>2. e.mode \notin MinuteModes
      BY <2>8 DEF MinuteModes
    <3> HIDE DEF r
    <3> QED
      BY <2>8, <3>1, <3>2, NewsBreakStep, IbBreakStep, HoldStep, AtrBreakStep, VprofileStep DEF r
  <2> QED
    BY <1>0, <2>1, <2>2, <2>3, <2>4, <2>5, <2>6, <2>7, <2>8 DEF TrendModes, BarModes
<1> QED
  BY <1>1, <1>2

LEMMA BothStep ==
    ASSUME NEW e, NEW ph, NEW r, NEW m, NEW stopped \in BOOLEAN, TrendInv(e),
           TrendStep(e, ph, r), TrendStep(r.e, ph, m), stopped => e.pos,
           m.sig # "flatten", r.sig \in {"buy", "sell"} => m.sig = "none"
    PROVE  TrendStep(e, ph, BothSignals(stopped, r, m))
<1> DEFINE b == BothSignals(stopped, r, m)
<1>1. /\ b.e = m.e
      /\ b.sig = IF stopped \/ r.sig = "flatten" THEN "flatten"
                 ELSE IF m.sig = "none" THEN r.sig ELSE m.sig
  BY DEF BothSignals
<1> SUFFICES TrendStep(e, ph, b)
  OBVIOUS
<1> HIDE DEF b
<1>2. e.pos \in BOOLEAN /\ r.e.pos \in BOOLEAN /\ m.e.pos \in BOOLEAN
      /\ e.done \in BOOLEAN /\ r.e.done \in BOOLEAN /\ m.e.done \in BOOLEAN
  BY TrendFields DEF TrendStep, TrendInv
<1>3. e.pos => r.e.pos
  BY <1>2 DEF TrendStep
<1>4. r.e.pos => m.e.pos /\ m.sig = "none"
  BY <1>2 DEF TrendStep
<1>5. /\ m.e.mode = e.mode /\ m.e.halt = e.halt /\ m.e.inRth = e.inRth
      /\ r.e.mode = e.mode /\ r.e.halt = e.halt /\ TrendInv(m.e)
  BY DEF TrendStep
<1>6. e.mode \in OncePerSession => (e.done => r.e.done) /\ (r.e.done => m.e.done)
  BY <1>5 DEF TrendStep
<1>7. e.mode \in OncePerSide => e.used \subseteq r.e.used /\ r.e.used \subseteq m.e.used
  BY <1>5 DEF TrendStep
<1>8. CASE stopped \/ r.sig = "flatten"
  <2>1. b.sig = "flatten"
    BY <1>1, <1>8
  <2>2. e.pos /\ m.e.pos
    BY <1>2, <1>3, <1>4, <1>8 DEF TrendStep
  <2> QED
    BY <1>1, <1>5, <1>6, <1>7, <2>1, <2>2 DEF TrendStep
<1>9. CASE ~(stopped \/ r.sig = "flatten") /\ m.sig = "none"
  <2>1. b.sig = r.sig
    BY <1>1, <1>9
  <2>2. m.e.pos = r.e.pos /\ r.sig \in {"none", "buy", "sell"}
    BY <1>9 DEF TrendStep
  <2> QED
    BY <1>1, <1>2, <1>5, <1>6, <1>7, <2>1, <2>2 DEF TrendStep
<1>10. CASE ~(stopped \/ r.sig = "flatten") /\ m.sig # "none"
  <2>1. b.sig = m.sig /\ m.sig \in {"buy", "sell"}
    BY <1>1, <1>10 DEF TrendStep
  <2>2. r.sig = "none"
    BY <1>10 DEF TrendStep
  <2>3. r.e.pos = e.pos
    BY <2>2 DEF TrendStep
  <2> QED
    BY <1>1, <1>2, <1>5, <1>6, <1>7, <2>1, <2>3 DEF TrendStep
<1> QED
  BY <1>8, <1>9, <1>10

LEMMA JudgeStep ==
    ASSUME NEW e, NEW ph, NEW x \in BarInput, NEW r, NEW stopped \in BOOLEAN,
           TrendInv(e), TrendStep(e, ph, r), stopped => e.pos,
           e.mode \in MinuteModes => r.sig \in {"none", "flatten"}
    PROVE  TrendStep(e, ph, JudgeMinute(stopped, ph, x, r))
<1> DEFINE m == MinuteMode(ph, x, r)
<1>1. TrendInv(r.e) /\ r.e.mode = e.mode
  BY DEF TrendStep
<1>2. CASE e.mode \in MinuteModes
  <2>1. /\ e.mode = "gap_go" => m = mode_gap(r.e, ph, x)
        /\ e.mode = "tod_momentum" => m = mode_tod(r.e, ph, x)
        /\ e.mode = "rs_continuation" => m = Try(r.e, ph, x)
    BY <1>1 DEF MinuteMode, mode_rs
  <2>2. \A g, y : Try(g, ph, y).sig # "flatten" /\ Stay(g).sig # "flatten"
    BY DEF Try, EnterOr, Stay, trend_emit
  <2>3. m.sig # "flatten"
    BY <1>2, <2>1, <2>2 DEF mode_gap, mode_tod, MinuteModes
  <2>4. TrendStep(r.e, ph, m)
    <3>1. e.mode = "rs_continuation" => TrendStep(r.e, ph, Try(r.e, ph, x))
      BY <1>1, TryStep, InputFields DEF OncePerSession, OncePerSide
    <3> QED
      BY <1>1, <1>2, <2>1, <3>1, GapStep, TodStep DEF MinuteModes
  <2> HIDE DEF m
  <2>5. TrendStep(e, ph, BothSignals(stopped, r, m))
    BY <1>2, <2>3, <2>4, BothStep
  <2> QED
    BY <2>5 DEF JudgeMinute, m
<1>3. CASE e.mode = "trend_day"
  <2>1. m = recognise_trend_day(r.e, x)
    BY <1>1, <1>3 DEF MinuteMode
  <2>2. m.sig = "none"
    BY <2>1 DEF recognise_trend_day, Stay
  <2>3. TrendStep(r.e, ph, m)
    BY <1>1, <1>3, <2>1, RecogniseStep
  <2> HIDE DEF m
  <2>4. TrendStep(e, ph, BothSignals(stopped, r, m))
    BY <2>2, <2>3, BothStep
  <2> QED
    BY <2>4 DEF JudgeMinute, m
<1>4. CASE e.mode \notin MinuteModes \union {"trend_day"}
  <2>1. m = r
    BY <1>1, <1>4 DEF MinuteMode, MinuteModes
  <2> DEFINE b == BothSignals(stopped, r, r)
  <2>2. b.e = r.e /\ b.sig = IF stopped \/ r.sig = "flatten" THEN "flatten" ELSE r.sig
    BY DEF BothSignals
  <2>3. JudgeMinute(stopped, ph, x, r) = b
    BY <2>1 DEF JudgeMinute
  <2> HIDE DEF b
  <2>4. e.pos \in BOOLEAN /\ r.e.pos \in BOOLEAN
    BY TrendFields DEF TrendStep, TrendInv
  <2> QED
    BY <2>2, <2>3, <2>4 DEF TrendStep
<1> QED
  BY <1>2, <1>3, <1>4

LEMMA MinuteStep ==
    ASSUME NEW e, NEW ph, NEW x \in BarInput, NEW tf \in BOOLEAN, NEW stops, TrendInv(e)
    PROVE  TrendStep(e, ph, on_m1_close(e, ph, x, tf, stops))
<1> DEFINE r == IF tf THEN on_tf_close(e, ph, x, stops) ELSE Stay(e)
           stopped == e.pos /\ "time" \in stops
<1>1. TrendStep(e, ph, r)
  BY TfCloseStep, StayStep, LikeItself
<1>2. e.mode \in MinuteModes => r.sig \in {"none", "flatten"}
  BY TfCloseStep DEF Stay
<1>3. stopped \in BOOLEAN /\ (stopped => e.pos)
  BY TrendFields DEF TrendInv
<1> HIDE DEF r, stopped
<1>4. TrendStep(e, ph, JudgeMinute(stopped, ph, x, r))
  BY <1>1, <1>2, <1>3, JudgeStep
<1> QED
  BY <1>4 DEF on_m1_close, r, stopped

LEMMA ClearSetupState ==
    ASSUME NEW e, TrendInv(e)
    PROVE  LET f == ClearSetup(e)
           IN  /\ TrendInv(f) /\ f.mode = e.mode /\ f.halt = e.halt /\ f.pos = e.pos
               /\ f.inRth = e.inRth /\ f.inWin = e.inWin /\ f.eod = e.eod
               /\ f.trades = e.trades /\ f.used = {} /\ f.done = FALSE
<1> DEFINE a == IF e.mode = "supertrend" THEN e.arm ELSE 0
           f == [e EXCEPT !.done = FALSE, !.age = 0, !.used = {}, !.arm = a]
<1>1. e \in TrendState
  BY DEF TrendInv
<1>2. ClearSetup(e) = f
  BY <1>1 DEF ClearSetup, TrendState
<1>3. a \in Dirs /\ 0 \in 0 .. MaxAge + 1 /\ 0 <= MaxAge
  BY <1>1, TrendFields, TrendAssumption DEF Dirs
<1> HIDE DEF a
<1>4. f \in TrendState
  BY <1>1, <1>3 DEF TrendState
<1>5. /\ f.mode = e.mode /\ f.halt = e.halt /\ f.pos = e.pos /\ f.inRth = e.inRth
      /\ f.inWin = e.inWin /\ f.eod = e.eod /\ f.trades = e.trades /\ f.used = {}
      /\ f.done = FALSE /\ f.age = 0
  BY <1>1 DEF TrendState
<1> HIDE DEF f
<1>6. TrendInv(f)
  BY <1>3, <1>4, <1>5 DEF TrendInv
<1> QED
  BY <1>2, <1>5, <1>6

\* The clock fields of an engine do not enter its invariant.
ClockField(e, rth, win, eod) == [e EXCEPT !.inRth = rth, !.inWin = win, !.eod = eod]

\* The latches a session start clears; a session's end clears the profile's sides.
Cleared(e, ph) == ph = "session" /\ ~e.inRth /\ e.mode \in Modes2809 \union {"trend_day"}
Finalized(e, ph) == /\ ph # "session" /\ e.inRth
                    /\ e.mode \in {"vprofile_fade", "vprofile_break"}

LEMMA MoveSessionState ==
    ASSUME NEW e, NEW ph, TrendInv(e)
    PROVE  LET s == move_session(e, ph)
           IN  /\ TrendInv(s) /\ s.mode = e.mode /\ s.halt = e.halt /\ s.pos = e.pos
               /\ (s.inRth <=> ph = "session") /\ s.trades = e.trades
               /\ ~Cleared(e, ph) => s.done = e.done
               /\ ~Cleared(e, ph) /\ ~Finalized(e, ph) => s.used = e.used
               /\ Cleared(e, ph) => s.used = {} /\ s.done = FALSE
<1> DEFINE s == move_session(e, ph)
           win == in_window(e.mode, ph)
           b == IF Cleared(e, ph) THEN ClearSetup(e)
                ELSE IF Finalized(e, ph) THEN WithSide(e, {}, 0)
                ELSE e
           d == IF win /\ ~e.inWin THEN FALSE ELSE b.eod
<1>1. /\ e \in TrendState /\ e.inRth \in BOOLEAN /\ win \in BOOLEAN /\ e.eod \in BOOLEAN
      /\ e.inWin \in BOOLEAN
  BY TrendFields DEF TrendInv, in_window
<1>2. /\ TrendInv(b) /\ b.mode = e.mode /\ b.halt = e.halt /\ b.pos = e.pos
      /\ b.trades = e.trades /\ b.eod = e.eod
      /\ ~Cleared(e, ph) => b.done = e.done
      /\ ~Cleared(e, ph) /\ ~Finalized(e, ph) => b.used = e.used
      /\ Cleared(e, ph) => b.used = {} /\ b.done = FALSE
  <2>1. CASE Cleared(e, ph)
    BY <2>1, ClearSetupState
  <2>2. CASE ~Cleared(e, ph) /\ Finalized(e, ph)
    <3> DEFINE f == WithSide(e, {}, 0)
    <3>0. f = [e EXCEPT !.used = {}, !.arm = 0]
      BY DEF WithSide
    <3>1. f \in TrendState
      BY <1>1, <3>0 DEF TrendState, Dirs
    <3>2. /\ f.mode = e.mode /\ f.halt = e.halt /\ f.pos = e.pos /\ f.trades = e.trades
          /\ f.done = e.done /\ f.arm = 0 /\ f.age = e.age /\ f.eod = e.eod
      BY <1>1, <3>0 DEF TrendState
    <3> HIDE DEF f
    <3>3. TrendInv(f)
      BY <2>2, <3>1, <3>2 DEF TrendInv, Finalized
    <3> QED
      BY <2>2, <3>2, <3>3 DEF f
  <2>3. CASE ~Cleared(e, ph) /\ ~Finalized(e, ph)
    BY <2>3
  <2> QED
    BY <2>1, <2>2, <2>3
<1>3. d \in BOOLEAN
  BY <1>1, <1>2
<1>4. s = ClockField(b, ph = "session", win, d)
  <2>1. CASE Cleared(e, ph)
    <3> DEFINE c == ClearSetup(e)
    <3>1. b = c
      BY <2>1
    <3>2. c \in TrendState
      BY <1>2, <3>1 DEF TrendInv
    <3>3. [c EXCEPT !.inRth = TRUE].eod = c.eod
      BY <3>2 DEF TrendState
    <3>4. CASE e.mode # "trend_day"
      <4>1. reset_2809_modes(e) = c
        BY <2>1, <3>4 DEF Cleared, reset_2809_modes
      <4>2. s = [c EXCEPT !.inRth = TRUE, !.inWin = win,
                          !.eod = IF win /\ ~e.inWin THEN FALSE ELSE c.eod]
        BY <2>1, <3>2, <3>4, <4>1 DEF move_session, Cleared, TrendState
      <4> QED
        BY <2>1, <3>1, <4>2 DEF ClockField, Cleared
    <3>5. CASE e.mode = "trend_day"
      <4>1. reset_2809_modes(e) = e
        BY <3>5 DEF reset_2809_modes, Modes2809
      <4>2. ClearSetup([e EXCEPT !.inRth = TRUE]) = [c EXCEPT !.inRth = TRUE]
        BY <1>1, <3>5 DEF ClearSetup, TrendState
      <4>3. s = [c EXCEPT !.inRth = TRUE, !.inWin = win,
                          !.eod = IF win /\ ~e.inWin THEN FALSE ELSE c.eod]
        BY <2>1, <3>2, <3>5, <4>1, <4>2 DEF move_session, Cleared, TrendState
      <4> QED
        BY <2>1, <3>1, <4>3 DEF ClockField, Cleared
    <3> QED
      BY <3>4, <3>5
  <2>2. CASE ~Cleared(e, ph) /\ Finalized(e, ph)
    BY <1>1, <2>2 DEF move_session, Finalized, ClockField, WithSide, TrendState
  <2>3. CASE ~Cleared(e, ph) /\ ~Finalized(e, ph)
    <3>1. ph = "session" /\ ~e.inRth => reset_2809_modes(e) = e /\ e.mode # "trend_day"
      BY <2>3 DEF Cleared, reset_2809_modes
    <3> QED
      BY <1>1, <2>3, <3>1 DEF move_session, Finalized, ClockField, TrendState
  <2> QED
    BY <2>1, <2>2, <2>3
<1> HIDE DEF s, b, d, win
<1>5. b \in TrendState
  BY <1>2 DEF TrendInv
<1>6. s \in TrendState
  BY ZenonT(60), <1>1, <1>3, <1>4, <1>5 DEF TrendState, ClockField
<1>7. /\ s.mode = b.mode /\ s.halt = b.halt /\ s.pos = b.pos /\ s.age = b.age
      /\ s.used = b.used /\ s.done = b.done /\ s.trades = b.trades /\ s.arm = b.arm
  BY <1>4, <1>5 DEF TrendState, ClockField
<1>8. s.inRth <=> ph = "session"
  BY <1>4, <1>5 DEF TrendState, ClockField
<1>9. TrendInv(s)
  BY <1>2, <1>6, <1>7 DEF TrendInv
<1> QED
  BY <1>2, <1>7, <1>8, <1>9 DEF s

\* A signal and the position flag: an engine that was e gave the result r.
SignalStep(e, r) ==
    /\ r.sig \in {"none", "flatten", "buy", "sell"}
    /\ r.sig = "none" => in_position(r.e) = in_position(e)
    /\ r.sig = "flatten" => in_position(e) /\ in_position(r.e)
    /\ r.sig \in {"buy", "sell"} => ~in_position(e) /\ in_position(r.e) /\ e.halt = NoHalt

\* The latches of the modes that trade an event once.
OnceStep(e, ph, r) ==
    e.mode \in OncePerSession \union OncePerSide =>
    /\ (r.e.inRth <=> ph = "session")
    /\ r.sig \in {"buy", "sell"} => in_window(e.mode, ph)
    /\ e.mode \in OncePerSession =>
          /\ e.done /\ ~Cleared(e, ph) => r.e.done
          /\ r.sig \in {"buy", "sell"} => r.e.done /\ (Cleared(e, ph) \/ ~e.done)
          /\ r.sig \in {"buy", "sell"} /\ e.mode = "hold" => ph = "late"
    /\ e.mode \in OncePerSide =>
          /\ ph = "session" /\ ~Cleared(e, ph) => e.used \subseteq r.e.used
          /\ r.sig = "buy" => 1 \in r.e.used /\ (Cleared(e, ph) \/ 1 \notin e.used)
          /\ r.sig = "sell" => -1 \in r.e.used /\ (Cleared(e, ph) \/ -1 \notin e.used)

TrendTick(e, ph, r) ==
    /\ TrendInv(r.e) /\ r.e.mode = e.mode /\ r.e.halt = e.halt
    /\ SignalStep(e, r) /\ OnceStep(e, ph, r)

LEMMA TrendOnTick ==
    ASSUME NEW e, NEW ph, NEW x \in BarInput, NEW tf \in BOOLEAN, NEW stops, TrendInv(e)
    PROVE  TrendTick(e, ph, trend_on_tick(e, ph, x, tf, stops))
<1> DEFINE s == move_session(e, ph)
           r == trend_on_tick(e, ph, x, tf, stops)
<1>1. /\ TrendInv(s) /\ s.mode = e.mode /\ s.halt = e.halt /\ s.pos = e.pos
      /\ (s.inRth <=> ph = "session")
      /\ ~Cleared(e, ph) => s.done = e.done
      /\ ~Cleared(e, ph) /\ ~Finalized(e, ph) => s.used = e.used
  BY MoveSessionState
<1>2. TrendStep(s, ph, r)
  BY <1>1, MinuteStep DEF trend_on_tick
<1> SUFFICES TrendTick(e, ph, r)
  OBVIOUS
<1> HIDE DEF s, r
<1>3. TrendInv(r.e) /\ r.e.mode = e.mode /\ r.e.halt = e.halt
  BY <1>1, <1>2 DEF TrendStep
<1>4. /\ e.kind = "trend" /\ r.e.kind = "trend" /\ e.pos \in BOOLEAN
      /\ r.e.pos \in BOOLEAN
  BY <1>3, TrendFields DEF TrendInv
<1>5. SignalStep(e, r)
  BY <1>1, <1>2, <1>4 DEF TrendStep, SignalStep, in_position
<1>6. OnceStep(e, ph, r)
  <2>1. SUFFICES ASSUME e.mode \in OncePerSession \union OncePerSide
                 PROVE  OnceStep(e, ph, r)
    BY DEF OnceStep
  <2>2. /\ (r.e.inRth <=> ph = "session")
        /\ r.sig \in {"buy", "sell"} => in_window(e.mode, ph)
    BY <1>1, <1>2 DEF TrendStep
  <2>3. e.mode \in OncePerSession =>
          /\ e.done /\ ~Cleared(e, ph) => r.e.done
          /\ r.sig \in {"buy", "sell"} => r.e.done /\ (Cleared(e, ph) \/ ~e.done)
          /\ r.sig \in {"buy", "sell"} /\ e.mode = "hold" => ph = "late"
    BY <1>1, <1>2 DEF TrendStep
  <2>4. ASSUME e.mode \in OncePerSide
        PROVE  /\ ph = "session" /\ ~Cleared(e, ph) => e.used \subseteq r.e.used
               /\ r.sig = "buy" => 1 \in r.e.used /\ (Cleared(e, ph) \/ 1 \notin e.used)
               /\ r.sig = "sell" => -1 \in r.e.used /\ (Cleared(e, ph) \/ -1 \notin e.used)
    <3>1. e.mode # "hold"
      BY <2>4 DEF OncePerSide
    <3>2. r.sig \in {"buy", "sell"} => ph = "session"
      BY <2>2, <3>1 DEF in_window
    <3>3. ph = "session" /\ ~Cleared(e, ph) => s.used = e.used
      BY <1>1 DEF Finalized
    <3>4. /\ s.used \subseteq r.e.used
          /\ r.sig = "buy" => 1 \in r.e.used /\ 1 \notin s.used
          /\ r.sig = "sell" => -1 \in r.e.used /\ -1 \notin s.used
      BY <1>1, <1>2, <2>4 DEF TrendStep
    <3> QED
      BY <3>2, <3>3, <3>4
  <2> QED
    BY <2>2, <2>3, <2>4 DEF OnceStep
<1> QED
  BY <1>3, <1>5, <1>6 DEF TrendTick

LEMMA TrendOnQuote ==
    ASSUME NEW e, NEW ph, NEW x \in BarInput, TrendInv(e), e.mode = "book_imbalance"
    PROVE  TrendTick(e, ph, trend_on_quote(e, ph, x))
<1> DEFINE n == IF e.age > MaxAge THEN e.age ELSE e.age + 1
           q == IF x.want # e.arm THEN WithSetup(e, e.used, x.want, 0)
                                  ELSE WithSetup(e, e.used, e.arm, n)
           r == trend_on_quote(e, ph, x)
<1>1. /\ e \in TrendState /\ x.want \in Dirs /\ e.pos \in BOOLEAN /\ e.used \subseteq Sides
      /\ e.arm \in Dirs /\ e.age \in 0 .. MaxAge + 1 /\ e.mode \in Aging
      /\ e.kind = "trend" /\ e.mode # "orb_retest"
  BY TrendFields, InputFields DEF TrendInv, Aging
<1>2. n \in 0 .. MaxAge + 1 /\ 0 \in 0 .. MaxAge + 1
  BY <1>1, TrendAssumption
<1>3. [e EXCEPT !.arm = x.want, !.age = 0] = WithSetup(e, e.used, x.want, 0)
  BY <1>1 DEF WithSetup, TrendState
<1>4. [e EXCEPT !.age = IF @ > MaxAge THEN @ ELSE @ + 1] = WithSetup(e, e.used, e.arm, n)
  BY <1>1 DEF WithSetup, TrendState
<1> HIDE DEF n
<1>5. TrendInv(q) /\ Like(e, q)
  <2>1. TrendInv(WithSetup(e, e.used, x.want, 0)) /\ Like(e, WithSetup(e, e.used, x.want, 0))
    BY <1>1, <1>2, SetupState
  <2>2. TrendInv(WithSetup(e, e.used, e.arm, n)) /\ Like(e, WithSetup(e, e.used, e.arm, n))
    BY <1>1, <1>2, SetupState
  <2> QED
    BY <2>1, <2>2
<1>6. r = IF e.pos THEN (IF x.exit THEN Flatten(q) ELSE Stay(q))
          ELSE IF q.age < MaxAge \/ ~x.ripe THEN Stay(q) ELSE EnterOr(q, ph, x, q)
  BY <1>3, <1>4 DEF trend_on_quote, Try
<1> SUFFICES TrendTick(e, ph, r)
  OBVIOUS
<1> HIDE DEF q, r
<1>7. Latched(e, q, ph, x.want)
  BY DEF Latched, OncePerSession, OncePerSide
<1>8. TrendStep(e, ph, r)
  BY <1>1, <1>5, <1>6, <1>7, FlattenStep, StayStep, EnterStep
<1>9. r.e.kind = "trend" /\ r.e.pos \in BOOLEAN
  BY <1>8, TrendFields DEF TrendStep, TrendInv
<1>10. SignalStep(e, r)
  BY <1>1, <1>8, <1>9 DEF TrendStep, SignalStep, in_position
<1>11. OnceStep(e, ph, r)
  BY DEF OnceStep, OncePerSession, OncePerSide
<1> QED
  BY <1>8, <1>10, <1>11 DEF TrendTick, TrendStep

LEMMA TrendTicksStep ==
    ASSUME NEW e, NEW ph, NEW r \in TrendTicks(e, ph), TrendInv(e)
    PROVE  TrendTick(e, ph, r)
<1>1. BarsSeen(e) \subseteq BarInput /\ (CHOOSE x \in BarInput : TRUE) \in BarInput
  <2>1. [want |-> 0, exit |-> TRUE, ok |-> TRUE, ripe |-> TRUE] \in BarInput
    BY DEF BarInput, Dirs
  <2> QED
    BY <2>1 DEF BarsSeen
<1>2. \A i \in MinuteInput(e) : i.x \in BarInput /\ i.tf \in BOOLEAN
  BY <1>1 DEF MinuteInput
<1>3. CASE \E i \in MinuteInput(e) : r = trend_on_tick(e, ph, i.x, i.tf, i.stops)
  BY <1>2, <1>3, TrendOnTick
<1>4. CASE e.mode = "book_imbalance" /\ \E x \in BarsSeen(e) : r = trend_on_quote(e, ph, x)
  BY <1>1, <1>4, TrendOnQuote
<1> QED
  BY <1>3, <1>4 DEF TrendTicks

-----------------------------------------------------------------------------
(* The opening-range engine. *)

\* A range is known only with a price before it, or by the seed of a restart.
OrbInv(e) ==
    /\ e \in OrbState
    /\ e.set => e.last # NoPrice \/ e.seeded

LEMMA OrbFields ==
    ASSUME NEW e \in OrbState
    PROVE  /\ e.kind = "orb" /\ e.mode = "orb" /\ e.pos \in BOOLEAN
           /\ e.trades \in 0 .. MaxTrades /\ e.halt \in Halts /\ e.eod \in BOOLEAN
           /\ e.set \in BOOLEAN /\ e.last \in Dirs \union {NoPrice}
           /\ e.cool \in BOOLEAN /\ e.seeded \in BOOLEAN
BY DEF OrbState

OrbTick(e, px, r) ==
    /\ OrbInv(r.e) /\ r.e.halt = e.halt
    /\ SignalStep(e, r)
    /\ e.halt # NoHalt => r.e = e
    /\ e.halt = NoHalt => r.e.last = px
    /\ r.sig # "none" => px # 0 /\ px # e.last /\ e.last # NoPrice

LEMMA OrbOnTick ==
    ASSUME NEW e, NEW ph, NEW px \in Dirs, NEW ripe \in BOOLEAN, NEW open \in BOOLEAN,
           NEW rested \in BOOLEAN, OrbInv(e)
    PROVE  OrbTick(e, px, orb_on_tick(e, ph, px, ripe, open, rested))
<1> DEFINE set == e.set \/ (ph \in {"session", "late"} /\ ripe /\ e.last # NoPrice)
           b == [e EXCEPT !.set = set, !.last = px]
           s == [b EXCEPT !.seeded = FALSE]
           t == [b EXCEPT !.pos = TRUE, !.trades = @ + 1]
           r == orb_on_tick(e, ph, px, ripe, open, rested)
<1>1. /\ e \in OrbState /\ e.pos \in BOOLEAN /\ e.set \in BOOLEAN /\ e.trades \in 0 .. MaxTrades
      /\ set \in BOOLEAN /\ px # NoPrice /\ e.kind = "orb" /\ e.seeded \in BOOLEAN
  BY OrbFields DEF OrbInv, Dirs, NoPrice
<1>2. [handle_completed_bar_orb(e, ph, ripe) EXCEPT !.last = px] = b
  BY <1>1 DEF handle_completed_bar_orb, OrbState
<1> HIDE DEF set
<1>3. b \in OrbState
  BY <1>1 DEF OrbState
<1>4. /\ b.set = set /\ b.last = px /\ b.halt = e.halt /\ b.pos = e.pos /\ b.kind = "orb"
      /\ b.trades = e.trades /\ b.seeded = e.seeded
  BY <1>1 DEF OrbState
<1>5. OrbInv(b)
  BY <1>1, <1>3, <1>4 DEF OrbInv
<1> HIDE DEF b
<1>6. s \in OrbState /\ s.last = px /\ s.halt = e.halt /\ s.pos = e.pos /\ s.kind = "orb"
  BY <1>3, <1>4 DEF OrbState
<1>7. b.trades < MaxTrades =>
        t \in OrbState /\ t.last = px /\ t.halt = e.halt /\ t.pos = TRUE /\ t.kind = "orb"
  <2>1. b.trades < MaxTrades => b.trades + 1 \in 0 .. MaxTrades
    BY <1>1, <1>4, TrendAssumption
  <2> QED
    BY <1>3, <1>4, <2>1 DEF OrbState
<1>8. /\ r = IF e.halt # NoHalt THEN Stay(e)
             ELSE IF e.seeded THEN Stay(s)
             ELSE IF ~b.set \/ b.trades >= MaxTrades \/ ~open \/ ph # "session" THEN Stay(b)
             ELSE IF ~b.pos /\ (~b.cool \/ rested) /\ px # 0 /\ px # e.last
             THEN [e |-> t, sig |-> IF px = 1 THEN "buy" ELSE "sell"] ELSE Stay(b)
  BY <1>2 DEF orb_on_tick, check_breakout
<1> SUFFICES OrbTick(e, px, r)
  OBVIOUS
<1> HIDE DEF r, s, t
<1>9. CASE e.halt # NoHalt
  BY <1>1, <1>8, <1>9 DEF OrbTick, SignalStep, in_position, Stay
<1>10. CASE e.halt = NoHalt /\ e.seeded
  <2>1. r = Stay(s)
    BY <1>8, <1>10
  <2>2. OrbInv(s)
    BY <1>1, <1>6 DEF OrbInv
  <2> QED
    BY <1>1, <1>6, <1>10, <2>1, <2>2 DEF OrbTick, SignalStep, in_position, Stay
<1>11. CASE e.halt = NoHalt /\ ~e.seeded /\ r = Stay(b)
  BY <1>1, <1>4, <1>5, <1>11 DEF OrbTick, SignalStep, in_position, Stay
<1>12. CASE e.halt = NoHalt /\ ~e.seeded /\ r # Stay(b)
  <2>1. /\ r = [e |-> t, sig |-> IF px = 1 THEN "buy" ELSE "sell"]
        /\ b.set /\ ~(b.trades >= MaxTrades) /\ ~b.pos /\ px # 0 /\ px # e.last
    BY <1>8, <1>12
  <2>2. b.trades < MaxTrades
    BY <1>1, <1>4, <2>1, TrendAssumption
  <2>3. e.last # NoPrice
    BY <1>1, <1>4, <1>12, <2>1 DEF OrbInv, set
  <2>4. OrbInv(t)
    BY <1>1, <1>7, <2>2 DEF OrbInv
  <2>5. r.e = t /\ r.sig \in {"buy", "sell"}
    BY <2>1
  <2> QED
    BY <1>1, <1>4, <1>7, <1>12, <2>1, <2>2, <2>3, <2>4, <2>5 DEF OrbTick, SignalStep, in_position
<1> QED
  BY <1>9, <1>10, <1>11, <1>12

LEMMA OrbTicksStep ==
    ASSUME NEW e, NEW ph, NEW px \in Dirs, NEW r \in OrbTicks(e, ph, px), OrbInv(e)
    PROVE  OrbTick(e, px, r)
BY OrbOnTick DEF OrbTicks

-----------------------------------------------------------------------------
(* The scalper. *)

\* A target exists only with a leg.
MtfInv(e) ==
    /\ e \in MtfState
    /\ e.tp => e.pos # 0

LEMMA MtfFields ==
    ASSUME NEW e \in MtfState
    PROVE  /\ e.kind = "mtf" /\ e.mode \in MtfModes /\ e.conf \in BOOLEAN
           /\ e.flips \in BOOLEAN /\ e.pos \in Dirs /\ e.ent \in -1 .. 1
           /\ e.stop \in -(RUnit + 1) .. TrailAt /\ e.tp \in BOOLEAN /\ e.be \in BOOLEAN
           /\ e.trail \in BOOLEAN /\ e.exitP \in BOOLEAN /\ e.eod \in BOOLEAN
           /\ e.trades \in 0 .. TradesCap /\ e.streak \in 0 .. CoolAfter
           /\ e.cool \in 0 .. CoolBars /\ e.halt \in Halts /\ e.inSess \in BOOLEAN
           /\ e.day \in BOOLEAN /\ e.regime \in 0 .. RegimeBars
           /\ e.setup \in SetupAges
           /\ e.used \in SUBSET Uses
           /\ e.done \in 0 .. HtfKeep /\ e.pend \in SetupAges
BY DEF MtfState

\* What a bar can bring.
MtfInput == [trend : Dirs, arm : Dirs, evt : {"none", "hit", "drop"}, raw : BOOLEAN,
    gate : BOOLEAN, px : {0, BeAt, TrailAt + 1}, dst : {1, RUnit}, exit : BOOLEAN,
    strong : Dirs, roll : BOOLEAN]

LEMMA MtfInputFields ==
    ASSUME NEW x \in MtfInput
    PROVE  /\ x.trend \in Dirs /\ x.arm \in Dirs /\ x.evt \in {"none", "hit", "drop"}
           /\ x.raw \in BOOLEAN /\ x.gate \in BOOLEAN /\ x.px \in {0, BeAt, TrailAt + 1}
           /\ x.dst \in {1, RUnit} /\ x.exit \in BOOLEAN /\ x.strong \in Dirs
           /\ x.roll \in BOOLEAN
BY DEF MtfInput

LEMMA InputsAreInput ==
    ASSUME NEW e, NEW x, x \in FlatInput(e) \/ x \in LegInput(e)
    PROVE  x \in MtfInput
<1>1. CASE x \in FlatInput(e)
  BY <1>1 DEF FlatInput, MtfInput, Arms, Events, Rolls, Dirs
<1>2. CASE x \in LegInput(e)
  BY <1>2 DEF LegInput, MtfInput, Arms, Events, Rolls, Dirs, Sides
<1> QED
  BY <1>1, <1>2

LEMMA MtfConstants ==
    /\ RUnit \in Nat \ {0} /\ BeAt \in Nat \ {0} /\ TrailAt \in Nat \ {0}
    /\ CoolAfter \in Nat \ {0} /\ CoolBars \in Nat \ {0} /\ RegimeBars \in Nat \ {0}
    /\ HtfKeep \in Nat \ {0} /\ BeAt <= TrailAt /\ TradesCap \in Nat
    /\ MaxTrades \in Nat \ {0} /\ MaxAge \in Nat \ {0} /\ TradesCap = MaxTrades + 1
BY MtfAssumption, TrendAssumption DEF TradesCap

\* f keeps the leg of e, and what the host gave it.
SameLeg(e, f) ==
    /\ f.mode = e.mode /\ f.conf = e.conf /\ f.flips = e.flips /\ f.pos = e.pos
    /\ f.ent = e.ent /\ f.stop = e.stop /\ f.tp = e.tp /\ f.exitP = e.exitP
    /\ f.streak = e.streak /\ f.halt = e.halt

LEMMA SameLegTrans ==
    ASSUME NEW e, NEW f, NEW g, SameLeg(e, f), SameLeg(f, g)
    PROVE  SameLeg(e, g)
BY DEF SameLeg

\* The fields of a set-up machine: a change of these leaves the leg alone.
WithMachine(e, s, u, n) == [e EXCEPT !.setup = s, !.used = u, !.done = n]

LEMMA MachineState ==
    ASSUME NEW e, MtfInv(e), NEW s \in SetupAges,
           NEW u, u \subseteq Uses, NEW n \in 0 .. HtfKeep,
           NEW f, f = WithMachine(e, s, u, n)
    PROVE  MtfInv(f) /\ SameLeg(e, f)
<1>1. e \in MtfState /\ f = [e EXCEPT !.setup = s, !.used = u, !.done = n]
  BY DEF MtfInv, WithMachine
<1>2. f \in MtfState
  BY ZenonT(60), <1>1 DEF MtfState
<1>3. SameLeg(e, f)
  BY <1>1 DEF MtfState, SameLeg
<1> QED
  BY <1>2, <1>3 DEF MtfInv, SameLeg

LEMMA MinOfNat ==
    ASSUME NEW n \in Nat, NEW i \in 0 .. n
    PROVE  MinOf(i + 1, n) \in 0 .. n
BY DEF MinOf

LEMMA AgedState ==
    ASSUME NEW s \in SetupAges
    PROVE  Aged(s) \in SetupAges
<1>1. \A i \in -1 .. MaxAge + 1 :
         (IF i < 0 THEN -1 ELSE MinOf(i + 1, MaxAge + 1)) \in -1 .. MaxAge + 1
  BY MtfConstants DEF MinOf
<1> QED
  BY <1>1 DEF Aged, SetupAges

LEMMA ArmedState ==
    ASSUME NEW s \in SetupAges, NEW e, NEW x
    PROVE  Armed(s, e, x) \in SetupAges
<1>1. 0 \in -1 .. MaxAge + 1
  BY MtfConstants
<1> QED
  BY <1>1 DEF Armed, SetupAges

\* What a set-up machine returns: the engine with its leg untouched, and sides.
MachineStep(e, r) == MtfInv(r.e) /\ SameLeg(e, r.e) /\ r.t \subseteq Sides

LEMMA SetupStep ==
    ASSUME NEW e, MtfInv(e), NEW s \in SetupAges, NEW t, t \subseteq Sides,
           NEW r, r = [e |-> [e EXCEPT !.setup = s], t |-> t]
    PROVE  MachineStep(e, r)
<1>1. /\ e \in MtfState /\ e.used \subseteq Uses /\ e.done \in 0 .. HtfKeep
  BY MtfFields DEF MtfInv
<1>2. [e EXCEPT !.setup = s] = WithMachine(e, s, e.used, e.done)
  BY <1>1 DEF WithMachine, MtfState
<1>3. r.e = WithMachine(e, s, e.used, e.done) /\ r.t = t
  BY <1>2
<1>4. MtfInv(r.e) /\ SameLeg(e, r.e)
  BY <1>1, <1>3, MachineState
<1> QED
  BY <1>3, <1>4 DEF MachineStep

LEMMA OnsetStep ==
    ASSUME NEW e, NEW x \in MtfInput, MtfInv(e)
    PROVE  MachineStep(e, OnsetEngine(e, x))
<1> DEFINE y == [x EXCEPT !.arm = IF @ = x.trend THEN @ ELSE 0]
           s == Armed(Aged(e.setup), e, y)
           t == {d \in Sides : s[d] \in 0 .. MaxAge /\ x.trend = d /\ x.evt = "hit"}
           n == [d \in Sides |-> IF d \in t \/ x.trend # d THEN -1 ELSE s[d]]
<1>1. s \in SetupAges
  BY MtfFields, AgedState, ArmedState DEF MtfInv
<1>2. t \subseteq Sides
  OBVIOUS
<1>3. OnsetEngine(e, x) = [e |-> [e EXCEPT !.setup = n], t |-> t]
  BY DEF OnsetEngine
<1> HIDE DEF s, t
<1>4. n \in SetupAges
  BY <1>1, MtfConstants DEF SetupAges
<1> HIDE DEF n
<1> QED
  BY <1>2, <1>3, <1>4, SetupStep

LEMMA RetestStep ==
    ASSUME NEW e, NEW x \in MtfInput, MtfInv(e)
    PROVE  MachineStep(e, RetestMachine(e, x))
<1> DEFINE s == Armed(Aged(e.setup), e, x)
           watch == {d \in Sides : s[d] > 0}
           t == {d \in watch : x.evt = "hit"}
           n == [d \in Sides |->
                    IF /\ d \in watch
                       /\ x.evt = "drop" \/ s[d] > MaxAge \/ x.trend # d
                    THEN -1 ELSE s[d]]
<1>1. s \in SetupAges
  BY MtfFields, AgedState, ArmedState DEF MtfInv
<1>2. t \subseteq Sides
  OBVIOUS
<1>3. RetestMachine(e, x) = [e |-> [e EXCEPT !.setup = n], t |-> t]
  BY DEF RetestMachine
<1> HIDE DEF s, t, watch
<1>4. n \in SetupAges
  BY <1>1, MtfConstants DEF SetupAges
<1> HIDE DEF n
<1> QED
  BY <1>2, <1>3, <1>4, SetupStep

LEMMA SweepStep ==
    ASSUME NEW e, NEW x \in MtfInput, MtfInv(e)
    PROVE  MachineStep(e, SweepEngine(e, x))
<1> DEFINE lv == IF x.evt = "hit" THEN "day" ELSE "session"
           ok == x.arm # 0 /\ <<x.arm, lv>> \notin e.used
           u == e.used \union {<<x.arm, lv>>}
           f == [e EXCEPT !.used = u]
           r == SweepEngine(e, x)
<1>1. /\ e \in MtfState /\ e.used \subseteq Uses /\ e.done \in 0 .. HtfKeep
      /\ e.setup \in SetupAges /\ x.arm \in Dirs
  BY MtfFields, MtfInputFields DEF MtfInv
<1>2. ok => x.arm \in Sides /\ u \subseteq Uses
  BY <1>1 DEF Sides, Dirs, Uses, Levels
<1>3. r.e = (IF ok THEN f ELSE e) /\ r.t = IF ok THEN {x.arm} ELSE {}
  BY DEF SweepEngine
<1> HIDE DEF u
<1>4. f = WithMachine(e, e.setup, u, e.done)
  BY <1>1 DEF WithMachine, MtfState
<1>5. ok => MtfInv(f) /\ SameLeg(e, f)
  BY <1>1, <1>2, <1>4, MachineState
<1>6. SameLeg(e, e)
  BY DEF SameLeg
<1> HIDE DEF f, r, ok
<1>7. MachineStep(e, r)
  BY <1>2, <1>3, <1>5, <1>6 DEF MachineStep
<1> QED
  BY <1>7 DEF r

LEMMA FvgStep ==
    ASSUME NEW e, NEW x \in MtfInput, MtfInv(e)
    PROVE  MachineStep(e, FvgEngine(e, x))
<1> DEFINE m == update_htf(e, x).done
           k == IF e.mode = "fvg_struct" THEN m ELSE e.done
           g == fvg_maintain(e, x)
           new == {d \in Sides : x.arm = d /\ struct_rolled(e, x)}
           s == [d \in Sides |-> IF d \in new THEN 0 ELSE g.age[d]]
           u == {v \in e.used : v[1] \notin new \union g.gone}
                  \union {<<d, "gap">> : d \in g.t \ new}
           r == FvgEngine(e, x)
<1>1. /\ e \in MtfState /\ e.used \subseteq Uses /\ e.done \in 0 .. HtfKeep
      /\ e.setup \in SetupAges
  BY MtfFields DEF MtfInv
<1>2. m \in 0 .. HtfKeep /\ update_htf(e, x) = [e EXCEPT !.done = m]
  <2>1. MinOf(e.done + 1, HtfKeep) \in 0 .. HtfKeep
    BY <1>1, MinOfNat, MtfConstants
  <2> QED
    BY <1>1, <2>1 DEF update_htf, MtfState
<1>3. g.age \in SetupAges /\ g.t \subseteq Sides
  <2> DEFINE a == Aged(e.setup)
             gone == {d \in Sides : a[d] >= 0 /\ (x.evt = "drop" \/ a[d] > MaxAge)}
  <2>1. a \in SetupAges
    BY <1>1, AgedState
  <2>2. g.age = [d \in Sides |-> IF d \in gone THEN -1 ELSE a[d]] /\ g.t \subseteq Sides
    BY DEF fvg_maintain
  <2> HIDE DEF a, gone
  <2> QED
    BY <2>1, <2>2, MtfConstants DEF SetupAges
<1>4. r.t = g.t
  BY DEF FvgEngine
<1> HIDE DEF m
<1>5. r.e = WithMachine(e, s, u, k)
  <2>1. CASE e.mode = "fvg_struct"
    BY <1>1, <1>2, <2>1 DEF FvgEngine, WithMachine, MtfState
  <2>2. CASE e.mode # "fvg_struct"
    BY <1>1, <2>2 DEF FvgEngine, WithMachine, MtfState
  <2> QED
    BY <2>1, <2>2
<1> HIDE DEF g, r
<1>6. u \subseteq Uses
  BY <1>1, <1>3 DEF Uses
<1> HIDE DEF u, new
<1>7. s \in SetupAges
  BY <1>3, MtfConstants DEF SetupAges
<1> HIDE DEF s
<1>8. k \in 0 .. HtfKeep
  BY <1>1, <1>2
<1> HIDE DEF k
<1>9. MtfInv(r.e) /\ SameLeg(e, r.e)
  BY <1>1, <1>5, <1>6, <1>7, <1>8, MachineState
<1>10. MachineStep(e, r)
  BY <1>3, <1>4, <1>9 DEF MachineStep
<1> QED
  BY <1>10 DEF r

LEMMA TriggersStep ==
    ASSUME NEW e, NEW x \in MtfInput, MtfInv(e)
    PROVE  MachineStep(e, Triggers(e, x))
<1> DEFINE r == Triggers(e, x)
<1>1. e.mode \in MtfModes /\ x.arm \in Dirs
  BY MtfFields, MtfInputFields DEF MtfInv
<1>2. {x.arm} \ {0} \subseteq Sides
  BY <1>1 DEF Dirs, Sides
<1>3. /\ e.mode = "onset" => r = OnsetEngine(e, x)
      /\ e.mode = "flag_retest" => r = RetestMachine(e, x)
      /\ e.mode \in {"fvg", "fvg_struct"} => r = FvgEngine(e, x)
      /\ e.mode = "sweep" => r = SweepEngine(e, x)
      /\ e.mode = "plain" => r = [e |-> e, t |-> {x.arm} \ {0}]
      /\ e.mode = "auto" =>
            r = [RetestMachine(e, x) EXCEPT !.t = @ \union ({x.arm} \ {0})]
  BY DEF Triggers
<1>4. CASE e.mode = "plain"
  <2>1. r.e = e /\ r.t \subseteq Sides
    BY <1>2, <1>3, <1>4
  <2> HIDE DEF r
  <2> QED
    BY <2>1 DEF MachineStep, SameLeg, r
<1>5. CASE e.mode = "auto"
  <2> DEFINE q == RetestMachine(e, x)
  <2>1. MachineStep(e, q)
    BY RetestStep
  <2>2. r.e = q.e /\ r.t = q.t \union ({x.arm} \ {0})
    BY <1>3, <1>5 DEF RetestMachine
  <2> HIDE DEF r, q
  <2>3. MachineStep(e, r)
    BY <1>2, <2>1, <2>2 DEF MachineStep
  <2> QED
    BY <2>3 DEF r
<1>6. CASE e.mode \notin {"plain", "auto"}
  <2> HIDE DEF r
  <2>1. MachineStep(e, r)
    BY <1>1, <1>3, <1>6, OnsetStep, RetestStep, FvgStep, SweepStep DEF MtfModes
  <2> QED
    BY <2>1 DEF r
<1> QED
  BY <1>4, <1>5, <1>6

LEMMA RolloverState ==
    ASSUME NEW e, NEW ph, MtfInv(e)
    PROVE  LET f == Rollover(e, ph) IN MtfInv(f) /\ SameLeg(e, f)
<1> DEFINE old == (IF ~e.day THEN {"day"} ELSE {})
                  \union (IF ph = "session" /\ ~e.inSess THEN {"session"} ELSE {})
           tr == IF ~e.day THEN 0 ELSE e.trades
           eo == IF ~e.day THEN FALSE ELSE e.eod
           us == {u \in e.used : u[2] \notin old}
           co == IF e.cool > 0 THEN e.cool - 1 ELSE 0
           f == Rollover(e, ph)
<1>1. /\ e \in MtfState /\ e.trades \in 0 .. TradesCap /\ e.eod \in BOOLEAN
      /\ e.used \in SUBSET Uses /\ e.cool \in 0 .. CoolBars /\ e.day \in BOOLEAN
  BY MtfFields DEF MtfInv
<1>2. /\ tr \in 0 .. TradesCap /\ eo \in BOOLEAN /\ us \in SUBSET Uses
      /\ co \in 0 .. CoolBars
  <2>1. tr \in 0 .. TradesCap
    BY <1>1, MtfConstants
  <2>2. eo \in BOOLEAN
    BY <1>1
  <2>3. us \in SUBSET Uses
    BY <1>1
  <2>4. co \in 0 .. CoolBars
    BY <1>1, MtfConstants
  <2> QED
    BY <2>1, <2>2, <2>3, <2>4
<1>3. f = [e EXCEPT !.day = TRUE, !.trades = tr, !.eod = eo, !.used = us, !.cool = co]
  BY <1>1 DEF Rollover
<1> HIDE DEF old, tr, eo, us, co, f
<1>4. f \in MtfState
  BY <1>1, <1>2, <1>3 DEF MtfState
<1>5. SameLeg(e, f)
  BY <1>1, <1>3 DEF SameLeg, MtfState
<1> QED
  BY <1>4, <1>5 DEF MtfInv, SameLeg, f

LEMMA RegimeState ==
    ASSUME NEW e, NEW x \in MtfInput, MtfInv(e)
    PROVE  LET f == RegimeFilter(e, x) IN MtfInv(f) /\ SameLeg(e, f)
<1> DEFINE n == IF x.raw THEN MinOf(e.regime + 1, RegimeBars) ELSE 0
           f == RegimeFilter(e, x)
<1>1. e \in MtfState /\ e.regime \in 0 .. RegimeBars
  BY MtfFields DEF MtfInv
<1>2. n \in 0 .. RegimeBars
  BY <1>1, MinOfNat, MtfConstants
<1>3. f = [e EXCEPT !.regime = n]
  BY <1>1 DEF RegimeFilter, MtfState
<1> HIDE DEF n, f
<1>4. f \in MtfState
  BY <1>1, <1>2, <1>3 DEF MtfState
<1>5. SameLeg(e, f)
  BY <1>1, <1>3 DEF SameLeg, MtfState
<1> QED
  BY <1>4, <1>5 DEF MtfInv, SameLeg, f

\* What the guards and the confirmation return: sides, and only in the session.
GoStep(e, ph, c) ==
    /\ MtfInv(c.e) /\ SameLeg(e, c.e)
    /\ c.go \subseteq Sides /\ (c.go # {} => ph = "session")

LEMMA ConfirmTfStep ==
    ASSUME NEW e, NEW ph, NEW x \in MtfInput, NEW s, MtfInv(e)
    PROVE  GoStep(e, ph, ConfirmTf(e, ph, x, s))
<1> DEFINE a == Aged(e.pend)
           p == [d \in Sides |-> IF s = d /\ e.pos # d /\ e.pend[d] < 0 THEN 0 ELSE a[d]]
           q == [d \in Sides |-> IF x.roll \/ x.trend # d \/ p[d] > MaxAge \/ e.pos = d
                                 THEN -1 ELSE p[d]]
           c == ConfirmTf(e, ph, x, s)
<1>1. e \in MtfState /\ e.pend \in SetupAges
  BY MtfFields DEF MtfInv
<1>2. a \in SetupAges
  BY <1>1, AgedState
<1>3. c.e = [e EXCEPT !.pend = q]
  BY DEF ConfirmTf
<1>4. c.go \subseteq Sides /\ (c.go # {} => ph = "session")
  BY DEF ConfirmTf
<1> HIDE DEF a
<1>5. p \in SetupAges
  BY <1>2, MtfConstants DEF SetupAges
<1> HIDE DEF p
<1>6. q \in SetupAges
  BY <1>5, MtfConstants DEF SetupAges
<1> HIDE DEF q, c
<1>7. c.e \in MtfState
  BY <1>1, <1>3, <1>6 DEF MtfState
<1>8. SameLeg(e, c.e)
  BY <1>1, <1>3 DEF SameLeg, MtfState
<1>9. GoStep(e, ph, c)
  BY <1>4, <1>7, <1>8 DEF GoStep, MtfInv, SameLeg
<1> QED
  BY <1>9 DEF c

LEMMA ConfirmStep ==
    ASSUME NEW ph, NEW x \in MtfInput, NEW r, NEW t, NEW cooling, MtfInv(r.e)
    PROVE  GoStep(r.e, ph, Confirm(ph, x, r, SignalSide(r.e, ph, x, t, cooling)))
<1> DEFINE s == SignalSide(r.e, ph, x, t, cooling)
           c == Confirm(ph, x, r, s)
<1>1. CASE r.e.conf
  <2>1. c = ConfirmTf(r.e, ph, x, s)
    BY <1>1 DEF Confirm
  <2> HIDE DEF s
  <2> QED
    BY <2>1, ConfirmTfStep DEF s
<1>2. CASE ~r.e.conf
  <2>1. c.e = r.e /\ c.go = {s} \ {0}
    BY <1>2 DEF Confirm
  <2>2. s \in Dirs /\ (s # 0 => ph = "session")
    BY MtfInputFields DEF SignalSide, Dirs
  <2> HIDE DEF s
  <2>3. c.go \subseteq Sides /\ (c.go # {} => ph = "session")
    BY <2>1, <2>2 DEF Dirs, Sides
  <2> QED
    BY <2>1, <2>3 DEF GoStep, SameLeg, s
<1> QED
  BY <1>1, <1>2

LEMMA EntrySideCases ==
    ASSUME NEW e, NEW go, go \subseteq Sides, EntrySide(e, go) # 0
    PROVE  LET d == EntrySide(e, go)
           IN  /\ d \in go /\ ~e.exitP
               /\ e.pos # 0 => e.flips /\ (d = 1 => e.pos = -1) /\ (d = -1 => e.pos = 1)
BY DEF EntrySide

\* What a bar of the scalper may do.
MtfTick(e, r) ==
    /\ MtfInv(r.e)
    /\ r.e.mode = e.mode /\ r.e.conf = e.conf /\ r.e.flips = e.flips
    /\ r.e.streak = e.streak /\ r.e.halt = e.halt
    /\ r.sig \in {"none", "flatten", "buy", "sell"}
    /\ r.sig = "none" => r.e.pos = e.pos
    /\ r.sig = "flatten" => e.pos # 0 /\ r.e.pos = e.pos
    /\ r.sig = "buy" => r.e.pos = 1 /\ (e.pos = 0 \/ (e.flips /\ e.pos = -1))
    /\ r.sig = "sell" => r.e.pos = -1 /\ (e.pos = 0 \/ (e.flips /\ e.pos = 1))
    /\ r.sig \in {"buy", "sell"} => e.halt = NoHalt
    /\ e.pos # 0 /\ r.e.pos = e.pos => r.e.stop >= e.stop

LEMMA EnterMtf ==
    ASSUME NEW e, NEW x, NEW t, NEW d \in Sides, MtfInv(e), ~e.exitP, e.halt = NoHalt,
           e.pos # 0 => e.flips /\ (d = 1 => e.pos = -1) /\ (d = -1 => e.pos = 1)
    PROVE  MtfTick(e, Enter(e, x, t, d))
<1> DEFINE n == MinOf(e.trades + 1, TradesCap)
           o == [e EXCEPT !.pos = d, !.ent = 0, !.stop = -RUnit, !.tp = TRUE, !.be = FALSE,
                          !.trail = FALSE, !.exitP = FALSE, !.trades = n]
           s == IF e.mode \in {"flag_retest", "auto"} /\ d \in t
                   /\ x.evt = "hit" /\ e.setup[d] > 0
                THEN [e.setup EXCEPT ![d] = -1] ELSE e.setup
           r == Enter(e, x, t, d)
<1>1. e \in MtfState /\ e.trades \in 0 .. TradesCap /\ e.setup \in SetupAges
  BY MtfFields DEF MtfInv
<1>2. n \in 0 .. TradesCap
  BY <1>1, MinOfNat, MtfConstants
<1>3. s \in SetupAges
  <2>1. -1 \in -1 .. MaxAge + 1
    BY MtfConstants
  <2>2. [e.setup EXCEPT ![d] = -1] \in SetupAges
    BY <1>1, <2>1 DEF SetupAges
  <2> QED
    BY <1>1, <2>2
<1>4. open_position(e, d) = o
  BY <1>1 DEF open_position, MtfState
<1>5. o.setup = e.setup
  BY <1>1 DEF MtfState
<1>6. r.e = [o EXCEPT !.setup = s] /\ r.sig = IF d = 1 THEN "buy" ELSE "sell"
  BY <1>1, <1>4, <1>5 DEF Enter, MtfState
<1> HIDE DEF n, s, r
<1>7. d \in Dirs /\ d # 0 /\ 0 \in -1 .. 1 /\ -RUnit \in -(RUnit + 1) .. TrailAt
  <2>1. -RUnit \in -(RUnit + 1) .. TrailAt
    BY MtfConstants
  <2> QED
    BY <2>1 DEF Sides, Dirs
<1>8. o \in MtfState
  BY <1>1, <1>2, <1>7 DEF MtfState
<1>9. /\ o.mode = e.mode /\ o.conf = e.conf /\ o.flips = e.flips /\ o.pos = d
      /\ o.streak = e.streak /\ o.halt = e.halt
  BY <1>1 DEF MtfState
<1> HIDE DEF o
<1>10. r.e \in MtfState
  BY <1>3, <1>6, <1>8 DEF MtfState
<1>11. /\ r.e.mode = e.mode /\ r.e.conf = e.conf /\ r.e.flips = e.flips /\ r.e.pos = d
       /\ r.e.streak = e.streak /\ r.e.halt = e.halt
  BY <1>6, <1>8, <1>9 DEF MtfState
<1>12. CASE d = 1
  <2>1. r.sig = "buy" /\ r.e.pos = 1 /\ (e.pos = 0 \/ (e.flips /\ e.pos = -1))
    BY <1>6, <1>11, <1>12
  <2> QED
    BY <1>10, <1>11, <2>1 DEF MtfTick, MtfInv, r
<1>13. CASE d = -1
  <2>1. r.sig = "sell" /\ r.e.pos = -1 /\ (e.pos = 0 \/ (e.flips /\ e.pos = 1))
    BY <1>6, <1>11, <1>13
  <2> QED
    BY <1>10, <1>11, <2>1 DEF MtfTick, MtfInv, r
<1> QED
  BY <1>12, <1>13 DEF Sides

LEMMA StayMtf ==
    ASSUME NEW e, MtfInv(e)
    PROVE  MtfTick(e, Stay(e))
<1>1. e.stop \in Int
  BY MtfFields, MtfConstants DEF MtfInv
<1> QED
  BY <1>1 DEF MtfTick, Stay

LEMMA UpdateExitsStep ==
    ASSUME NEW e, NEW x \in MtfInput, MtfInv(e), e.pos # 0
    PROVE  MtfTick(e, update_exits(e, x))
<1> DEFINE past == x.px >= e.ent + BeAt
           far == x.px > e.ent + TrailAt
           be == e.be \/ past
           tr == e.trail \/ far
           ns == MaxOf(MaxOf(e.ent - RUnit, IF be THEN e.ent ELSE e.stop),
                       IF tr THEN x.px - x.dst ELSE e.stop)
           st == MaxOf(e.stop, ns)
           f == [e EXCEPT !.be = be, !.trail = tr, !.tp = ~tr, !.stop = st]
           g == [f EXCEPT !.exitP = TRUE]
           r == update_exits(e, x)
<1>1. /\ e \in MtfState /\ e.stop \in -(RUnit + 1) .. TrailAt /\ e.ent \in -1 .. 1
      /\ x.px \in {0, BeAt, TrailAt + 1} /\ x.dst \in {1, RUnit}
      /\ e.be \in BOOLEAN /\ e.trail \in BOOLEAN
  BY MtfFields, MtfInputFields DEF MtfInv
<1>2. be \in BOOLEAN /\ tr \in BOOLEAN /\ (~tr) \in BOOLEAN
  <2>1. be \in BOOLEAN
    BY Zenon
  <2>2. tr \in BOOLEAN
    BY Zenon
  <2>3. (~tr) \in BOOLEAN
    BY Zenon
  <2> QED
    BY <2>1, <2>2, <2>3, Zenon
<1>3. st \in -(RUnit + 1) .. TrailAt /\ st >= e.stop
  <2>1. \A ent \in -1 .. 1, stop \in -(RUnit + 1) .. TrailAt, px \in {0, BeAt, TrailAt + 1},
           dst \in {1, RUnit}, b \in Int, t \in Int :
           (b = ent \/ b = stop) /\ (t = px - dst \/ t = stop) =>
           LET m == MaxOf(stop, MaxOf(MaxOf(ent - RUnit, b), t))
           IN  m \in -(RUnit + 1) .. TrailAt /\ m >= stop
    BY MtfConstants DEF MaxOf
  <2> DEFINE b == IF be THEN e.ent ELSE e.stop
             t == IF tr THEN x.px - x.dst ELSE e.stop
  <2>2. /\ b \in Int /\ t \in Int
        /\ b = e.ent \/ b = e.stop
        /\ t = x.px - x.dst \/ t = e.stop
    BY <1>1, MtfConstants
  <2>3. st = MaxOf(e.stop, MaxOf(MaxOf(e.ent - RUnit, b), t))
    OBVIOUS
  <2> HIDE DEF b, t, st
  <2> QED
    BY ZenonT(60), <1>1, <2>1, <2>2, <2>3
<1>4. r = IF x.exit THEN Flatten(g) ELSE Stay(f)
  BY <1>1 DEF update_exits, MtfState
<1> HIDE DEF be, tr, ns, st, r
<1>5. f \in MtfState
  BY ZenonT(60), <1>1, <1>2, <1>3 DEF MtfState
<1>6. /\ f.mode = e.mode /\ f.conf = e.conf /\ f.flips = e.flips /\ f.pos = e.pos
      /\ f.streak = e.streak /\ f.halt = e.halt /\ f.stop = st
  BY <1>1 DEF MtfState
<1> HIDE DEF f
<1>7. /\ g \in MtfState
      /\ g.mode = e.mode /\ g.conf = e.conf /\ g.flips = e.flips /\ g.pos = e.pos
      /\ g.streak = e.streak /\ g.halt = e.halt /\ g.stop = st
  BY <1>5, <1>6 DEF MtfState
<1> HIDE DEF g
<1>8. MtfTick(e, Flatten(g))
  BY <1>3, <1>7 DEF MtfTick, MtfInv, Flatten
<1>9. MtfTick(e, Stay(f))
  BY <1>3, <1>5, <1>6 DEF MtfTick, MtfInv, Stay
<1> QED
  BY <1>4, <1>8, <1>9 DEF r

LEMMA TickAfterMachine ==
    ASSUME NEW e, NEW f, NEW r, SameLeg(e, f), MtfTick(f, r)
    PROVE  MtfTick(e, r)
BY DEF SameLeg, MtfTick

LEMMA EnterOrManageStep ==
    ASSUME NEW x \in MtfInput, NEW t, NEW ph, NEW e, NEW c, GoStep(e, ph, c),
           c.e.halt = NoHalt
    PROVE  LET r == EnterOrManage(x, t, c)
           IN  MtfTick(c.e, r) /\ (r.sig \in {"buy", "sell"} => ph = "session")
<1> DEFINE d == EntrySide(c.e, c.go)
           r == EnterOrManage(x, t, c)
<1>1. /\ MtfInv(c.e) /\ c.go \subseteq Sides /\ (c.go # {} => ph = "session")
  BY DEF GoStep
<1>2. CASE d # 0
  <2>1. /\ d \in Sides /\ ~c.e.exitP /\ ph = "session"
        /\ c.e.pos # 0 => c.e.flips /\ (d = 1 => c.e.pos = -1) /\ (d = -1 => c.e.pos = 1)
    BY <1>1, <1>2, EntrySideCases
  <2>2. r = Enter(c.e, x, t, d)
    BY <1>2 DEF EnterOrManage
  <2> HIDE DEF d
  <2>3. MtfTick(c.e, Enter(c.e, x, t, d))
    BY <1>1, <2>1, EnterMtf
  <2> QED
    BY <2>1, <2>2, <2>3
<1>3. CASE d = 0 /\ c.e.pos # 0 /\ ~c.e.exitP
  <2>1. r = update_exits(c.e, x)
    BY <1>3 DEF EnterOrManage
  <2>2. MtfTick(c.e, update_exits(c.e, x))
    BY <1>1, <1>3, UpdateExitsStep
  <2>3. r.sig \notin {"buy", "sell"}
    BY <2>1 DEF update_exits, Flatten, Stay
  <2> HIDE DEF r
  <2> QED
    BY <2>1, <2>2, <2>3 DEF r
<1>4. CASE d = 0 /\ ~(c.e.pos # 0 /\ ~c.e.exitP)
  <2>1. r = Stay(c.e)
    BY <1>4 DEF EnterOrManage
  <2>2. MtfTick(c.e, Stay(c.e)) /\ Stay(c.e).sig = "none"
    BY <1>1, StayMtf DEF Stay
  <2> HIDE DEF r
  <2> QED
    BY <2>1, <2>2 DEF r
<1> QED
  BY <1>2, <1>3, <1>4

\* The end of the session is no step of its own: after an entry, which the
\* session alone lets happen, it changes no signal.
LEMMA SessionEndStep ==
    ASSUME NEW e, NEW ph, NEW o, MtfTick(e, o), o = [e |-> o.e, sig |-> o.sig],
           o.sig \in {"buy", "sell"} => ph = "session"
    PROVE  MtfTick(e, SessionEnd(ph, o))
<1> DEFINE f == [o.e EXCEPT !.inSess = ph = "session"]
           g == [f EXCEPT !.exitP = TRUE]
           ends == o.e.inSess /\ ph # "session" /\ o.e.pos # 0 /\ ~o.e.exitP
           p == [o EXCEPT !.e = f]
           r == SessionEnd(ph, o)
<1>1. o.e \in MtfState /\ (o.e.tp => o.e.pos # 0)
  BY DEF MtfTick, MtfInv
<1>2. r = IF ends THEN Flatten(g) ELSE p
  BY DEF SessionEnd
<1>3. p.e = f /\ p.sig = o.sig
  <2>1. \A a, b, c : LET v == [e |-> a, sig |-> b]
                         w == [v EXCEPT !.e = c]
                     IN  w.e = c /\ w.sig = b
    OBVIOUS
  <2> HIDE DEF f
  <2> QED
    BY <2>1
<1>4. (ph = "session") \in BOOLEAN
  OBVIOUS
<1>5. /\ f \in MtfState /\ f.mode = o.e.mode /\ f.conf = o.e.conf /\ f.flips = o.e.flips
      /\ f.pos = o.e.pos /\ f.streak = o.e.streak /\ f.halt = o.e.halt /\ f.tp = o.e.tp
      /\ f.stop = o.e.stop
  BY <1>1, <1>4 DEF MtfState
<1> HIDE DEF f
<1>6. /\ g \in MtfState /\ g.mode = o.e.mode /\ g.conf = o.e.conf /\ g.flips = o.e.flips
      /\ g.pos = o.e.pos /\ g.streak = o.e.streak /\ g.halt = o.e.halt /\ g.tp = o.e.tp
      /\ g.stop = o.e.stop
  BY <1>5 DEF MtfState
<1> HIDE DEF g, p, r
<1>7. CASE ends
  <2>1. r.e = g /\ r.sig = "flatten" /\ o.sig \notin {"buy", "sell"}
    BY <1>2, <1>7 DEF Flatten
  <2>2. o.e.pos = e.pos /\ e.pos # 0
    BY <1>7, <2>1 DEF MtfTick
  <2>3. MtfTick(e, r)
    BY <1>1, <1>6, <2>1, <2>2 DEF MtfTick, MtfInv
  <2> QED
    BY <2>3 DEF r
<1>8. CASE ~ends
  <2>1. r.e = f /\ r.sig = o.sig
    BY <1>2, <1>3, <1>8
  <2>2. MtfTick(e, r)
    BY <1>1, <1>5, <2>1 DEF MtfTick, MtfInv
  <2> QED
    BY <2>2 DEF r
<1> QED
  BY <1>7, <1>8

LEMMA OutcomeIsRecord ==
    ASSUME NEW x, NEW t, NEW c
    PROVE  LET o == EnterOrManage(x, t, c) IN o = [e |-> o.e, sig |-> o.sig]
BY DEF EnterOrManage, Enter, update_exits, Flatten, Stay

LEMMA PipelineStep ==
    ASSUME NEW ph, NEW x \in MtfInput, NEW cooling, NEW r, MtfInv(r.e), r.e.halt = NoHalt
    PROVE  MtfTick(r.e, Pipeline(ph, x, cooling, r))
<1> DEFINE c == Confirm(ph, x, r, SignalSide(r.e, ph, x, r.t, cooling))
           o == EnterOrManage(x, r.t, c)
<1>1. GoStep(r.e, ph, c)
  BY ConfirmStep
<1>2. Pipeline(ph, x, cooling, r) = SessionEnd(ph, o)
  BY DEF Pipeline
<1> HIDE DEF c
<1>3. SameLeg(r.e, c.e) /\ c.e.halt = NoHalt
  BY <1>1 DEF GoStep, SameLeg
<1>4. MtfTick(c.e, o) /\ (o.sig \in {"buy", "sell"} => ph = "session")
  BY <1>1, <1>3, EnterOrManageStep
<1>5. o = [e |-> o.e, sig |-> o.sig]
  BY OutcomeIsRecord
<1> HIDE DEF o
<1>6. MtfTick(r.e, o)
  BY <1>3, <1>4, TickAfterMachine
<1> QED
  BY <1>2, <1>4, <1>5, <1>6, SessionEndStep

\* Whatever the bar brings, the scalper keeps its bracket and enters only from
\* a state that lets it.
LEMMA MtfOnTick ==
    ASSUME NEW e, NEW ph, NEW x \in MtfInput, MtfInv(e)
    PROVE  MtfTick(e, mtf_on_tick(e, ph, x))
<1> DEFINE f == Rollover(e, ph)
           g == RegimeFilter(f, x)
           r == Triggers(g, x)
           cooling == e.cool > 0
<1>1. CASE e.halt # NoHalt
  BY <1>1, StayMtf DEF mtf_on_tick
<1>2. CASE e.halt = NoHalt
  <2>1. MtfInv(f) /\ SameLeg(e, f)
    BY RolloverState
  <2>2. mtf_on_tick(e, ph, x) = Pipeline(ph, x, cooling, r)
    BY <1>2 DEF mtf_on_tick, handle_completed_bar
  <2> HIDE DEF f, cooling
  <2>3. MtfInv(g) /\ SameLeg(f, g)
    BY <2>1, RegimeState
  <2> HIDE DEF g
  <2>4. MachineStep(g, r)
    BY <2>3, TriggersStep
  <2> HIDE DEF r
  <2>5. MtfInv(r.e) /\ SameLeg(e, r.e)
    BY <2>1, <2>3, <2>4, SameLegTrans DEF MachineStep
  <2>6. MtfTick(r.e, Pipeline(ph, x, cooling, r))
    BY <1>2, <2>5, PipelineStep DEF SameLeg
  <2> QED
    BY <2>2, <2>5, <2>6, TickAfterMachine
<1> QED
  BY <1>1, <1>2

LEMMA MtfTicksStep ==
    ASSUME NEW e, NEW ph, NEW r \in MtfTicks(e, ph), MtfInv(e)
    PROVE  MtfTick(e, r)
<1>1. PICK x \in IF e.pos = 0 THEN FlatInput(e) ELSE LegInput(e) : r = mtf_on_tick(e, ph, x)
  BY DEF MtfTicks
<1>2. x \in MtfInput
  BY <1>1, InputsAreInput
<1> QED
  BY <1>1, <1>2, MtfOnTick

-----------------------------------------------------------------------------
(* The host contract: what the hosts may rely on, whatever the engine. *)

EngineInv(e) == TrendInv(e) \/ OrbInv(e) \/ MtfInv(e)

\* f is the same engine as e, configured alike.
Alike(e, f) ==
    /\ f.kind = e.kind /\ f.mode = e.mode
    /\ e.kind = "mtf" => f.conf = e.conf /\ f.flips = e.flips

\* An operation of the host left the latches, the last price and the loss streak
\* alone, and took no position: the leg is as it was, its stop not lower, or gone.
Kept(e, f) ==
    /\ EngineInv(f) /\ Alike(e, f)
    /\ e.kind = "trend" => f.done = e.done /\ f.used = e.used /\ f.inRth = e.inRth
    /\ e.kind = "orb" => f.last = e.last
    /\ e.kind = "mtf" => /\ f.streak = e.streak
                         /\ f.pos = 0 \/ (f.pos = e.pos /\ f.stop >= e.stop)

\* The same, and the position and the halt untouched.
Untouched(e, f) ==
    /\ Kept(e, f) /\ in_position(f) = in_position(e) /\ f.halt = e.halt
    /\ e.kind = "mtf" => f.pos = e.pos

LEMMA KindCases ==
    ASSUME NEW e, EngineInv(e)
    PROVE  /\ e.kind \in {"trend", "orb", "mtf"} /\ e.halt \in Halts
           /\ in_position(e) \in BOOLEAN
           /\ e.kind = "trend" => TrendInv(e)
           /\ e.kind = "orb" => OrbInv(e)
           /\ e.kind = "mtf" => MtfInv(e) /\ e.stop \in Int
<1>1. CASE TrendInv(e)
  BY <1>1, TrendFields DEF TrendInv, in_position
<1>2. CASE OrbInv(e)
  BY <1>2, OrbFields DEF OrbInv, in_position
<1>3. CASE MtfInv(e)
  <2>1. e.stop \in Int /\ e.kind = "mtf" /\ e.halt \in Halts
    BY <1>3, MtfFields, MtfConstants DEF MtfInv
  <2> QED
    BY <1>3, <2>1 DEF in_position
<1> QED
  BY <1>1, <1>2, <1>3 DEF EngineInv

LEMMA EngineStateType ==
    ASSUME NEW e, EngineInv(e)
    PROVE  e \in EngineStates
BY DEF EngineInv, TrendInv, OrbInv, MtfInv, EngineStates

LEMMA UntouchedItself ==
    ASSUME NEW e, EngineInv(e)
    PROVE  Untouched(e, e)
<1>1. e.kind = "mtf" => e.stop >= e.stop
  BY KindCases
<1> QED
  BY <1>1 DEF Untouched, Kept, Alike

LEMMA KeptTrans ==
    ASSUME NEW e, NEW f, NEW g, EngineInv(e), Kept(e, f), Kept(f, g)
    PROVE  Kept(e, g)
<1>1. e.kind = "mtf" => e.stop \in Int /\ f.stop \in Int /\ g.stop \in Int
  BY KindCases DEF Kept, Alike
<1> QED
  BY <1>1 DEF Kept, Alike

LEMMA UntouchedTrans ==
    ASSUME NEW e, NEW f, NEW g, EngineInv(e), Untouched(e, f), Untouched(f, g)
    PROVE  Untouched(e, g)
<1>1. Kept(e, g)
  BY KeptTrans DEF Untouched
<1> QED
  BY <1>1 DEF Untouched, Kept, Alike

\* Only the halt changes.
LEMMA HaltKept ==
    ASSUME NEW e, NEW h \in Halts, EngineInv(e)
    PROVE  LET f == [e EXCEPT !.halt = h]
           IN  /\ Kept(e, f) /\ in_position(f) = in_position(e) /\ f.halt = h
               /\ e.kind = "mtf" => f.pos = e.pos
<1> DEFINE f == [e EXCEPT !.halt = h]
<1>1. CASE TrendInv(e)
  <2>1. e \in TrendState /\ e.kind = "trend"
    BY <1>1, TrendFields DEF TrendInv
  <2>2. f \in TrendState
    BY <2>1 DEF TrendState
  <2>3. /\ f.kind = "trend" /\ f.mode = e.mode /\ f.pos = e.pos /\ f.age = e.age
        /\ f.arm = e.arm /\ f.used = e.used /\ f.done = e.done /\ f.inRth = e.inRth
        /\ f.halt = h
    BY <2>1 DEF TrendState
  <2>4. TrendInv(f)
    BY <1>1, <2>2, <2>3 DEF TrendInv
  <2> HIDE DEF f
  <2> QED
    BY <2>1, <2>3, <2>4 DEF Kept, Alike, EngineInv, in_position, f
<1>2. CASE OrbInv(e)
  <2>1. e \in OrbState /\ e.kind = "orb"
    BY <1>2, OrbFields DEF OrbInv
  <2>2. f \in OrbState
    BY <2>1 DEF OrbState
  <2>3. /\ f.kind = "orb" /\ f.mode = e.mode /\ f.pos = e.pos /\ f.last = e.last
        /\ f.set = e.set /\ f.seeded = e.seeded /\ f.halt = h
    BY <2>1 DEF OrbState
  <2>4. OrbInv(f)
    BY <1>2, <2>2, <2>3 DEF OrbInv
  <2> HIDE DEF f
  <2> QED
    BY <2>1, <2>3, <2>4 DEF Kept, Alike, EngineInv, in_position, f
<1>3. CASE MtfInv(e)
  <2>1. e \in MtfState /\ e.kind = "mtf" /\ e.stop \in Int
    BY <1>3, MtfFields, MtfConstants DEF MtfInv
  <2>2. f \in MtfState
    BY <2>1 DEF MtfState
  <2>3. /\ f.kind = "mtf" /\ f.mode = e.mode /\ f.pos = e.pos /\ f.conf = e.conf
        /\ f.flips = e.flips /\ f.streak = e.streak /\ f.stop = e.stop /\ f.tp = e.tp
        /\ f.halt = h
    BY <2>1 DEF MtfState
  <2>4. MtfInv(f)
    BY <1>3, <2>2, <2>3 DEF MtfInv
  <2> HIDE DEF f
  <2> QED
    BY <2>1, <2>3, <2>4 DEF Kept, Alike, EngineInv, in_position, f
<1> QED
  BY <1>1, <1>2, <1>3 DEF EngineInv

LEMMA NoHaltIsReason ==
    NoHalt \in Halts
BY DEF Halts

\* Only the number of trades changes.
LEMMA SeedTradesKept ==
    ASSUME NEW e, NEW n \in 0 .. MaxTrades, EngineInv(e)
    PROVE  Untouched(e, seed_trades_today(e, n))
<1> DEFINE f == seed_trades_today(e, n)
<1>0. n \in 0 .. TradesCap
  BY MtfConstants
<1>1. CASE TrendInv(e)
  <2>1. e \in TrendState /\ e.kind = "trend" /\ f = [e EXCEPT !.trades = n]
    BY <1>1, TrendFields DEF TrendInv, seed_trades_today
  <2>2. f \in TrendState
    BY <2>1 DEF TrendState
  <2>3. /\ f.kind = "trend" /\ f.mode = e.mode /\ f.pos = e.pos /\ f.age = e.age
        /\ f.arm = e.arm /\ f.used = e.used /\ f.done = e.done /\ f.inRth = e.inRth
        /\ f.halt = e.halt
    BY <2>1 DEF TrendState
  <2> HIDE DEF f
  <2>4. TrendInv(f)
    BY <1>1, <2>2, <2>3 DEF TrendInv
  <2> QED
    BY <2>1, <2>3, <2>4 DEF Untouched, Kept, Alike, EngineInv, in_position, f
<1>2. CASE OrbInv(e)
  <2>1. e \in OrbState /\ e.kind = "orb" /\ f = [e EXCEPT !.trades = n]
    BY <1>2, OrbFields DEF OrbInv, seed_trades_today
  <2>2. f \in OrbState
    BY <2>1 DEF OrbState
  <2>3. /\ f.kind = "orb" /\ f.mode = e.mode /\ f.pos = e.pos /\ f.last = e.last
        /\ f.set = e.set /\ f.seeded = e.seeded /\ f.halt = e.halt
    BY <2>1 DEF OrbState
  <2> HIDE DEF f
  <2>4. OrbInv(f)
    BY <1>2, <2>2, <2>3 DEF OrbInv
  <2> QED
    BY <2>1, <2>3, <2>4 DEF Untouched, Kept, Alike, EngineInv, in_position, f
<1>3. CASE MtfInv(e)
  <2>1. e \in MtfState /\ e.kind = "mtf" /\ e.stop \in Int /\ f = [e EXCEPT !.trades = n]
    BY <1>3, MtfFields, MtfConstants DEF MtfInv, seed_trades_today
  <2>2. f \in MtfState
    BY <1>0, <2>1 DEF MtfState
  <2>3. /\ f.kind = "mtf" /\ f.mode = e.mode /\ f.pos = e.pos /\ f.conf = e.conf
        /\ f.flips = e.flips /\ f.streak = e.streak /\ f.stop = e.stop /\ f.tp = e.tp
        /\ f.halt = e.halt
    BY <2>1 DEF MtfState
  <2> HIDE DEF f
  <2>4. MtfInv(f)
    BY <1>3, <2>2, <2>3 DEF MtfInv
  <2> QED
    BY <2>1, <2>3, <2>4 DEF Untouched, Kept, Alike, EngineInv, in_position, f
<1> QED
  BY <1>1, <1>2, <1>3 DEF EngineInv

LEMMA ClearPositionState ==
    ASSUME NEW e, e \in MtfState, NEW f, f = clear_position(e)
    PROVE  /\ MtfInv(f) /\ f.kind = "mtf" /\ f.mode = e.mode /\ f.conf = e.conf
           /\ f.flips = e.flips /\ f.streak = e.streak /\ f.halt = e.halt /\ f.pos = 0
<1>1. 0 \in -(RUnit + 1) .. TrailAt /\ 0 \in -1 .. 1 /\ 0 \in Dirs
  BY MtfConstants DEF Dirs
<1>2. f \in MtfState
  BY ZenonT(60), <1>1 DEF MtfState, clear_position
<1>3. /\ f.kind = "mtf" /\ f.mode = e.mode /\ f.conf = e.conf /\ f.tp = FALSE
      /\ f.flips = e.flips /\ f.streak = e.streak /\ f.halt = e.halt /\ f.pos = 0
  BY DEF MtfState, clear_position
<1> QED
  BY <1>2, <1>3 DEF MtfInv

\* The streak after one more close.
NextStreak(e, loss) == IF loss THEN MinOf(e.streak + 1, CoolAfter) ELSE 0

\* The close of a trade frees the engine, unless the scalper holds the other side.
ClosedStep(e, d, loss, f) ==
    /\ EngineInv(f) /\ Alike(e, f) /\ f.halt = e.halt
    /\ e.kind = "trend" => f.done = e.done /\ f.used = e.used /\ f.inRth = e.inRth
    /\ e.kind = "orb" => f.last = e.last
    /\ e.kind = "mtf" =>
          /\ f.streak = NextStreak(e, loss)
          /\ f.pos = 0 \/ (e.pos # 0 /\ e.pos # d /\ f.pos = e.pos /\ f.stop = e.stop)
          /\ e.pos # d => f.pos = e.pos
    /\ e.kind # "mtf" => ~in_position(f)

LEMMA TrendFilled ==
    ASSUME NEW e, TrendInv(e), NEW f, f = trend_notify_trade_filled(e)
    PROVE  /\ TrendInv(f) /\ f.kind = "trend" /\ f.mode = e.mode /\ f.halt = e.halt
           /\ f.done = e.done /\ f.used = e.used /\ f.inRth = e.inRth /\ f.pos = FALSE
<1>1. e \in TrendState /\ f = [e EXCEPT !.pos = FALSE, !.dir = 0]
  BY DEF TrendInv, trend_notify_trade_filled
<1>2. f \in TrendState
  BY <1>1 DEF TrendState, Dirs
<1>3. /\ f.kind = "trend" /\ f.mode = e.mode /\ f.halt = e.halt /\ f.done = e.done
      /\ f.used = e.used /\ f.inRth = e.inRth /\ f.pos = FALSE /\ f.age = e.age
      /\ f.arm = e.arm
  BY <1>1 DEF TrendState
<1> QED
  BY <1>2, <1>3 DEF TrendInv

LEMMA OrbFilled ==
    ASSUME NEW e, OrbInv(e), NEW f, f = orb_notify_trade_filled(e)
    PROVE  /\ OrbInv(f) /\ f.kind = "orb" /\ f.mode = e.mode /\ f.halt = e.halt
           /\ f.last = e.last /\ f.pos = FALSE
<1>1. e \in OrbState /\ f = [e EXCEPT !.pos = FALSE, !.cool = TRUE]
  BY DEF OrbInv, orb_notify_trade_filled
<1>2. f \in OrbState
  BY <1>1 DEF OrbState
<1>3. /\ f.kind = "orb" /\ f.mode = e.mode /\ f.halt = e.halt /\ f.last = e.last
      /\ f.pos = FALSE /\ f.set = e.set /\ f.seeded = e.seeded
  BY <1>1 DEF OrbState
<1> QED
  BY <1>2, <1>3 DEF OrbInv

LEMMA MtfFilled ==
    ASSUME NEW e, MtfInv(e), NEW d \in Sides, NEW loss \in BOOLEAN,
           NEW f, f = mtf_notify_trade_filled(e, d, loss)
    PROVE  /\ MtfInv(f) /\ f.kind = "mtf" /\ f.mode = e.mode /\ f.conf = e.conf
           /\ f.flips = e.flips /\ f.halt = e.halt /\ f.streak = NextStreak(e, loss)
           /\ f.pos = 0 \/ (e.pos # 0 /\ e.pos # d /\ f.pos = e.pos /\ f.stop = e.stop)
           /\ e.pos # d => f.pos = e.pos
<1> DEFINE n == NextStreak(e, loss)
           c == IF loss /\ n >= CoolAfter THEN CoolBars ELSE e.cool
           g == [e EXCEPT !.streak = n, !.cool = c]
<1>1. /\ e \in MtfState /\ e.streak \in 0 .. CoolAfter /\ e.cool \in 0 .. CoolBars /\ d # 0
  BY MtfFields DEF MtfInv, Sides
<1>2. n \in 0 .. CoolAfter /\ CoolBars \in 0 .. CoolBars
  BY <1>1, MinOfNat, MtfConstants DEF NextStreak
<1>3. f = IF e.pos \in {0, d} THEN clear_position(g) ELSE g
  BY <1>1 DEF mtf_notify_trade_filled, NextStreak, MtfState
<1> HIDE DEF n
<1>4. c \in 0 .. CoolBars
  BY <1>1, <1>2
<1> HIDE DEF c
<1>5. g \in MtfState
  BY <1>1, <1>2, <1>4 DEF MtfState
<1>6. /\ g.kind = "mtf" /\ g.mode = e.mode /\ g.conf = e.conf /\ g.flips = e.flips
      /\ g.halt = e.halt /\ g.streak = n /\ g.pos = e.pos /\ g.stop = e.stop /\ g.tp = e.tp
  BY <1>1 DEF MtfState
<1> HIDE DEF g
<1>7. CASE e.pos \in {0, d}
  <2>1. f = clear_position(g)
    BY <1>3, <1>7
  <2>2. /\ MtfInv(f) /\ f.kind = "mtf" /\ f.mode = e.mode /\ f.conf = e.conf
        /\ f.flips = e.flips /\ f.streak = n /\ f.halt = e.halt /\ f.pos = 0
    BY <1>5, <1>6, <2>1, ClearPositionState
  <2>3. e.pos # d => f.pos = e.pos
    BY <1>7, <2>2
  <2> QED
    BY <2>2, <2>3 DEF n
<1>8. CASE e.pos \notin {0, d}
  BY <1>3, <1>5, <1>6, <1>8 DEF MtfInv, n
<1> QED
  BY <1>7, <1>8

LEMMA FilledStep ==
    ASSUME NEW e, EngineInv(e), NEW d \in Sides, NEW loss \in BOOLEAN
    PROVE  ClosedStep(e, d, loss, notify_trade_filled(e, d, loss))
<1> DEFINE f == notify_trade_filled(e, d, loss)
<1>1. CASE e.kind = "trend"
  <2>1. f = trend_notify_trade_filled(e) /\ TrendInv(e)
    BY <1>1, KindCases DEF notify_trade_filled
  <2> HIDE DEF f
  <2> QED
    BY <1>1, <2>1, TrendFilled DEF ClosedStep, Alike, EngineInv, in_position, f
<1>2. CASE e.kind = "orb"
  <2>1. f = orb_notify_trade_filled(e) /\ OrbInv(e)
    BY <1>2, KindCases DEF notify_trade_filled
  <2> HIDE DEF f
  <2> QED
    BY <1>2, <2>1, OrbFilled DEF ClosedStep, Alike, EngineInv, in_position, f
<1>3. CASE e.kind = "mtf"
  <2>1. f = mtf_notify_trade_filled(e, d, loss) /\ MtfInv(e)
    BY <1>3, KindCases DEF notify_trade_filled
  <2> HIDE DEF f
  <2> QED
    BY <1>3, <2>1, MtfFilled DEF ClosedStep, Alike, EngineInv, in_position, f
<1> QED
  BY <1>1, <1>2, <1>3, KindCases

\* A release frees the engine and accounts nothing.
LEMMA ReleaseStep ==
    ASSUME NEW e, EngineInv(e)
    PROVE  Kept(e, Release(e)) /\ ~in_position(Release(e)) /\ Release(e).halt = e.halt
<1> DEFINE f == Release(e)
<1>1. CASE e.kind = "trend"
  <2>1. f = trend_notify_trade_filled(e) /\ TrendInv(e)
    BY <1>1, KindCases DEF notify_trade_filled, Release
  <2> HIDE DEF f
  <2> QED
    BY <1>1, <2>1, TrendFilled DEF Kept, Alike, EngineInv, in_position, f
<1>2. CASE e.kind = "orb"
  <2>1. f = orb_notify_trade_filled(e) /\ OrbInv(e)
    BY <1>2, KindCases DEF notify_trade_filled, Release
  <2> HIDE DEF f
  <2> QED
    BY <1>2, <2>1, OrbFilled DEF Kept, Alike, EngineInv, in_position, f
<1>3. CASE e.kind = "mtf"
  <2>1. f = clear_position(e) /\ e \in MtfState
    BY <1>3, KindCases DEF notify_trade_filled, mtf_notify_trade_filled, Release, MtfInv
  <2> HIDE DEF f
  <2> QED
    BY <1>3, <2>1, ClearPositionState DEF Kept, Alike, EngineInv, in_position, f
<1> QED
  BY <1>1, <1>2, <1>3, KindCases

\* A new session: no halt, no latch; only an overnight hold keeps its position.
ResetStep(e, f) ==
    /\ EngineInv(f) /\ Alike(e, f) /\ f.halt = NoHalt
    /\ e.kind = "trend" => f.done = FALSE /\ f.used = {} /\ f.inRth = FALSE
    /\ e.kind = "orb" => f.last = e.last
    /\ e.kind = "mtf" => f.streak = e.streak /\ f.pos = 0
    /\ in_position(f) => in_position(e)

LEMMA ResetSessionStep ==
    ASSUME NEW e, EngineInv(e)
    PROVE  ResetStep(e, reset_session(e))
<1> DEFINE f == reset_session(e)
<1>1. CASE e.kind = "trend"
  <2> DEFINE c == ClearSetup(e)
             keep == e.mode = "hold" /\ e.pos
             d == IF keep THEN c.dir ELSE 0
  <2>1. TrendInv(e) /\ e \in TrendState /\ e.pos \in BOOLEAN
    BY <1>1, KindCases, TrendFields DEF TrendInv
  <2>2. TrendInv(c) /\ c.mode = e.mode
    BY <2>1, ClearSetupState
  <2>3. c.done = FALSE /\ c.used = {} /\ c.age = 0
    BY <2>1 DEF ClearSetup, TrendState
  <2>4. f = [c EXCEPT !.inRth = FALSE, !.eod = FALSE, !.reenter = 0,
             !.trades = 0, !.halt = NoHalt, !.pos = keep, !.dir = d]
    BY <1>1 DEF reset_session, trend_reset_session
  <2> HIDE DEF c
  <2>5. c \in TrendState /\ c.dir \in Dirs
    BY <2>2, TrendFields DEF TrendInv
  <2>6. keep \in BOOLEAN /\ d \in Dirs /\ 0 \in 0 .. MaxTrades /\ NoHalt \in Halts
        /\ 0 \in Dirs
    <3>1. keep \in BOOLEAN
      BY Zenon
    <3>2. 0 \in 0 .. MaxTrades
      BY TrendAssumption
    <3> QED
      BY <2>5, <3>1, <3>2, NoHaltIsReason DEF Dirs
  <2>7. keep => e.pos
    OBVIOUS
  <2> HIDE DEF keep, d, f
  <2>8. f \in TrendState
    BY <2>4, <2>5, <2>6 DEF TrendState
  <2>9. /\ f.kind = "trend" /\ f.mode = e.mode /\ f.halt = NoHalt /\ f.done = FALSE
        /\ f.used = {} /\ f.inRth = FALSE /\ f.age = 0 /\ f.pos = keep
    BY <2>2, <2>3, <2>4, <2>5 DEF TrendState
  <2>10. TrendInv(f)
    BY <2>8, <2>9, TrendAssumption DEF TrendInv
  <2> QED
    BY <1>1, <2>7, <2>9, <2>10 DEF ResetStep, Alike, EngineInv, in_position, f
<1>2. CASE e.kind = "orb"
  <2>1. OrbInv(e) /\ e \in OrbState /\ e.last \in Dirs \union {NoPrice}
    BY <1>2, KindCases, OrbFields DEF OrbInv
  <2>2. f = [kind |-> "orb", mode |-> "orb", pos |-> FALSE, trades |-> 0,
             halt |-> NoHalt, eod |-> FALSE, set |-> FALSE, last |-> e.last,
             cool |-> FALSE, seeded |-> FALSE]
    BY <1>2 DEF reset_session, orb_reset_session, OrbNew
  <2>3. 0 \in 0 .. MaxTrades /\ e.mode = "orb"
    BY <2>1, TrendAssumption, OrbFields
  <2> HIDE DEF f
  <2>4. OrbInv(f)
    BY <2>1, <2>2, <2>3, NoHaltIsReason DEF OrbInv, OrbState
  <2> QED
    BY <1>2, <2>2, <2>3, <2>4 DEF ResetStep, Alike, EngineInv, in_position, f
<1>3. CASE e.kind = "mtf"
  <2> DEFINE c == clear_position(e)
  <2>1. e \in MtfState
    BY <1>3, KindCases DEF MtfInv
  <2>2. f = [c EXCEPT !.trades = 0, !.eod = FALSE, !.halt = NoHalt]
    BY <1>3 DEF reset_session, mtf_reset_session
  <2>3. /\ MtfInv(c) /\ c.kind = "mtf" /\ c.mode = e.mode /\ c.conf = e.conf
        /\ c.flips = e.flips /\ c.streak = e.streak /\ c.pos = 0
    BY <2>1, ClearPositionState
  <2> HIDE DEF c, f
  <2>4. c \in MtfState /\ 0 \in 0 .. TradesCap /\ NoHalt \in Halts
    BY <2>3, MtfConstants, NoHaltIsReason DEF MtfInv
  <2>5. f \in MtfState
    BY <2>2, <2>4 DEF MtfState
  <2>6. /\ f.kind = "mtf" /\ f.mode = e.mode /\ f.conf = e.conf /\ f.flips = e.flips
        /\ f.streak = e.streak /\ f.pos = 0 /\ f.halt = NoHalt /\ f.tp = c.tp
    BY <2>2, <2>3, <2>4 DEF MtfState
  <2>7. MtfInv(f)
    BY <2>3, <2>5, <2>6 DEF MtfInv
  <2> QED
    BY <1>3, <2>6, <2>7 DEF ResetStep, Alike, EngineInv, in_position, f
<1> QED
  BY <1>1, <1>2, <1>3, KindCases

\* An end of day changes nothing but what the engine remembers of it, and a
\* flatten comes from an engine in position; the opening-range engine asks whatever
\* it holds.
EodStep(e, r) ==
    /\ Untouched(e, r.e) /\ r.sig \in {"none", "flatten"}
    /\ r.sig = "flatten" => e.kind = "orb" \/ in_position(e)

LEMMA CheckEodStep ==
    ASSUME NEW e, NEW ph, EngineInv(e)
    PROVE  EodStep(e, check_eod(e, ph))
<1> DEFINE r == check_eod(e, ph)
<1>1. EodStep(e, Stay(e))
  BY UntouchedItself DEF EodStep, Stay
<1>2. CASE e.kind = "trend"
  <2> DEFINE f == [e EXCEPT !.eod = TRUE]
  <2>1. TrendInv(e) /\ e \in TrendState
    BY <1>2, KindCases DEF TrendInv
  <2>2. r = Stay(e) \/ (r = Flatten(f) /\ e.pos)
    BY <1>2 DEF check_eod, trend_check_eod
  <2>3. f \in TrendState
    BY <2>1 DEF TrendState
  <2>4. /\ f.kind = "trend" /\ f.mode = e.mode /\ f.pos = e.pos /\ f.age = e.age
        /\ f.arm = e.arm /\ f.used = e.used /\ f.done = e.done /\ f.inRth = e.inRth
        /\ f.halt = e.halt
    BY <2>1 DEF TrendState
  <2> HIDE DEF f
  <2>5. TrendInv(f)
    BY <2>1, <2>3, <2>4 DEF TrendInv
  <2>6. Untouched(e, f)
    BY <1>2, <2>4, <2>5 DEF Untouched, Kept, Alike, EngineInv, in_position
  <2>7. e.pos => EodStep(e, Flatten(f))
    BY <1>2, <2>6 DEF EodStep, Flatten, in_position
  <2> HIDE DEF r
  <2> QED
    BY <1>1, <2>2, <2>7 DEF r
<1>3. CASE e.kind = "orb"
  <2> DEFINE f == [e EXCEPT !.eod = TRUE]
  <2>1. OrbInv(e) /\ e \in OrbState
    BY <1>3, KindCases DEF OrbInv
  <2>2. r = Stay(e) \/ r = Flatten(f)
    BY <1>3 DEF check_eod, orb_check_eod
  <2>3. f \in OrbState
    BY <2>1 DEF OrbState
  <2>4. /\ f.kind = "orb" /\ f.mode = e.mode /\ f.pos = e.pos /\ f.last = e.last
        /\ f.set = e.set /\ f.seeded = e.seeded /\ f.halt = e.halt
    BY <2>1 DEF OrbState
  <2> HIDE DEF f
  <2>5. OrbInv(f)
    BY <2>1, <2>3, <2>4 DEF OrbInv
  <2>6. Untouched(e, f)
    BY <1>3, <2>4, <2>5 DEF Untouched, Kept, Alike, EngineInv, in_position
  <2>7. EodStep(e, Flatten(f))
    BY <1>3, <2>6 DEF EodStep, Flatten
  <2> HIDE DEF r
  <2> QED
    BY <1>1, <2>2, <2>7 DEF r
<1>4. CASE e.kind = "mtf"
  <2> DEFINE f == [e EXCEPT !.eod = TRUE, !.exitP = TRUE]
  <2>1. MtfInv(e) /\ e \in MtfState /\ e.stop \in Int
    BY <1>4, KindCases DEF MtfInv
  <2>2. r = Stay(e) \/ (r = Flatten(f) /\ e.pos # 0)
    BY <1>4 DEF check_eod, check_time_flatten
  <2>3. f \in MtfState
    BY <2>1 DEF MtfState
  <2>4. /\ f.kind = "mtf" /\ f.mode = e.mode /\ f.pos = e.pos /\ f.conf = e.conf
        /\ f.flips = e.flips /\ f.streak = e.streak /\ f.stop = e.stop /\ f.tp = e.tp
        /\ f.halt = e.halt
    BY <2>1 DEF MtfState
  <2> HIDE DEF f
  <2>5. MtfInv(f)
    BY <2>1, <2>3, <2>4 DEF MtfInv
  <2>6. Untouched(e, f)
    BY <1>4, <2>1, <2>4, <2>5 DEF Untouched, Kept, Alike, EngineInv, in_position
  <2>7. e.pos # 0 => EodStep(e, Flatten(f))
    BY <1>4, <2>6 DEF EodStep, Flatten, in_position
  <2> HIDE DEF r
  <2> QED
    BY <1>1, <2>2, <2>7 DEF r
<1> QED
  BY <1>2, <1>3, <1>4, KindCases

\* The first engine of a process.
Newborn(f) ==
    /\ EngineInv(f) /\ ~in_position(f) /\ f.halt = NoHalt
    /\ f.kind = "orb" => f.last = NoPrice
    /\ f.kind = "mtf" => f.streak = 0 /\ f.pos = 0

LEMMA TrendNewborn ==
    ASSUME NEW m \in TrendModes
    PROVE  Newborn(TrendNew(m)) /\ TrendNew(m).kind = "trend" /\ TrendNew(m).mode = m
<1> DEFINE f == TrendNew(m)
<1>1. /\ f.kind = "trend" /\ f.mode = m /\ f.pos = FALSE /\ f.halt = NoHalt /\ f.age = 0
      /\ f.arm = 0 /\ f.used = {}
  BY DEF TrendNew
<1>2. 0 \in 0 .. MaxTrades /\ 0 \in 0 .. MaxAge + 1 /\ 0 \in Dirs
  BY TrendAssumption DEF Dirs
<1>3. f \in TrendState
  BY <1>2, NoHaltIsReason DEF TrendNew, TrendState
<1> HIDE DEF f
<1>4. TrendInv(f)
  BY <1>1, <1>3, TrendAssumption DEF TrendInv
<1> QED
  BY <1>1, <1>4 DEF Newborn, EngineInv, in_position, f

LEMMA OrbNewborn ==
    Newborn(OrbNew) /\ OrbNew.kind = "orb" /\ OrbNew.mode = "orb"
<1>1. 0 \in 0 .. MaxTrades
  BY TrendAssumption
<1>2. OrbNew \in OrbState
  BY <1>1, NoHaltIsReason DEF OrbNew, OrbState
<1>3. /\ OrbNew.kind = "orb" /\ OrbNew.mode = "orb" /\ OrbNew.pos = FALSE
      /\ OrbNew.halt = NoHalt /\ OrbNew.set = FALSE /\ OrbNew.last = NoPrice
  BY DEF OrbNew
<1>4. OrbInv(OrbNew)
  BY <1>2, <1>3 DEF OrbInv
<1> QED
  BY <1>3, <1>4 DEF Newborn, EngineInv, in_position

LEMMA MtfNewborn ==
    ASSUME NEW m \in MtfModes, NEW c \in BOOLEAN, NEW fl \in BOOLEAN
    PROVE  LET f == MtfNew(m, c, fl)
           IN  Newborn(f) /\ f.kind = "mtf" /\ f.mode = m /\ f.conf = c /\ f.flips = fl
<1> DEFINE f == MtfNew(m, c, fl)
<1>1. /\ f.kind = "mtf" /\ f.mode = m /\ f.conf = c /\ f.flips = fl /\ f.pos = 0
      /\ f.halt = NoHalt /\ f.streak = 0 /\ f.tp = FALSE
  BY DEF MtfNew
<1>2. /\ 0 \in -(RUnit + 1) .. TrailAt /\ 0 \in -1 .. 1 /\ 0 \in Dirs
      /\ 0 \in 0 .. TradesCap /\ 0 \in 0 .. CoolAfter /\ 0 \in 0 .. CoolBars
      /\ 0 \in 0 .. RegimeBars /\ 0 \in 0 .. HtfKeep /\ -1 \in -1 .. MaxAge + 1
  BY MtfConstants DEF Dirs
<1>3. NoSetup \in SetupAges
  BY <1>2 DEF NoSetup, SetupAges
<1>4. f \in MtfState
  BY <1>2, <1>3, NoHaltIsReason DEF MtfNew, MtfState
<1> HIDE DEF f
<1>5. MtfInv(f)
  BY <1>1, <1>4 DEF MtfInv
<1> QED
  BY <1>1, <1>5 DEF Newborn, EngineInv, in_position, f

LEMMA FreshStep ==
    ASSUME NEW e, EngineInv(e)
    PROVE  Newborn(Fresh(e)) /\ Alike(e, Fresh(e))
<1>1. CASE e.kind = "trend"
  <2>1. e.mode \in TrendModes /\ Fresh(e) = TrendNew(e.mode)
    BY <1>1, KindCases, TrendFields DEF Fresh, TrendInv
  <2> QED
    BY <1>1, <2>1, TrendNewborn DEF Alike
<1>2. CASE e.kind = "orb"
  <2>1. e.mode = "orb" /\ Fresh(e) = OrbNew
    BY <1>2, KindCases, OrbFields DEF Fresh, OrbInv
  <2> QED
    BY <1>2, <2>1, OrbNewborn DEF Alike
<1>3. CASE e.kind = "mtf"
  <2>1. /\ e.mode \in MtfModes /\ e.conf \in BOOLEAN /\ e.flips \in BOOLEAN
        /\ Fresh(e) = MtfNew(e.mode, e.conf, e.flips)
    BY <1>3, KindCases, MtfFields DEF Fresh, MtfInv
  <2> QED
    BY <1>3, <2>1, MtfNewborn DEF Alike
<1> QED
  BY <1>1, <1>2, <1>3, KindCases

LEMMA NewDateStep ==
    ASSUME NEW e, EngineInv(e)
    PROVE  Untouched(e, NewDate(e))
<1>1. CASE e.kind # "mtf"
  BY <1>1, UntouchedItself DEF NewDate
<1>2. CASE e.kind = "mtf"
  <2> DEFINE f == [e EXCEPT !.day = FALSE]
  <2>1. MtfInv(e) /\ e \in MtfState /\ e.stop \in Int /\ NewDate(e) = f
    BY <1>2, KindCases DEF MtfInv, NewDate
  <2>2. f \in MtfState
    BY <2>1 DEF MtfState
  <2>3. /\ f.kind = "mtf" /\ f.mode = e.mode /\ f.pos = e.pos /\ f.conf = e.conf
        /\ f.flips = e.flips /\ f.streak = e.streak /\ f.stop = e.stop /\ f.tp = e.tp
        /\ f.halt = e.halt
    BY <2>1 DEF MtfState
  <2> HIDE DEF f
  <2>4. MtfInv(f)
    BY <2>1, <2>2, <2>3 DEF MtfInv
  <2> QED
    BY <1>2, <2>1, <2>3, <2>4 DEF Untouched, Kept, Alike, EngineInv, in_position
<1> QED
  BY <1>1, <1>2

LEMMA SeedRangeStep ==
    ASSUME NEW e, OrbInv(e)
    PROVE  Untouched(e, seed_orb_range(e))
<1> DEFINE f == [e EXCEPT !.set = TRUE, !.seeded = TRUE]
<1>1. e \in OrbState /\ e.kind = "orb"
  BY OrbFields DEF OrbInv
<1>2. f \in OrbState
  BY <1>1 DEF OrbState
<1>3. /\ f.kind = "orb" /\ f.mode = e.mode /\ f.pos = e.pos /\ f.last = e.last
      /\ f.seeded = TRUE /\ f.halt = e.halt
  BY <1>1 DEF OrbState
<1>4. seed_orb_range(e) = f
  BY DEF seed_orb_range
<1> HIDE DEF f
<1>5. OrbInv(f)
  BY <1>2, <1>3 DEF OrbInv
<1> QED
  BY <1>1, <1>3, <1>4, <1>5 DEF Untouched, Kept, Alike, EngineInv, in_position

LEMMA CooldownStep ==
    ASSUME NEW e, OrbInv(e)
    PROVE  Untouched(e, [e EXCEPT !.cool = TRUE])
<1> DEFINE f == [e EXCEPT !.cool = TRUE]
<1>1. e \in OrbState /\ e.kind = "orb"
  BY OrbFields DEF OrbInv
<1>2. f \in OrbState
  BY <1>1 DEF OrbState
<1>3. /\ f.kind = "orb" /\ f.mode = e.mode /\ f.pos = e.pos /\ f.last = e.last
      /\ f.set = e.set /\ f.seeded = e.seeded /\ f.halt = e.halt
  BY <1>1 DEF OrbState
<1>5. OrbInv(f)
  BY <1>2, <1>3 DEF OrbInv
<1> HIDE DEF f
<1> QED
  BY <1>1, <1>3, <1>5 DEF Untouched, Kept, Alike, EngineInv, in_position, f

\* A fill price moves the leg's base and never its stop back.
LEMMA EntryFilledStep ==
    ASSUME NEW e, NEW d \in Sides, NEW fill \in Sides, MtfInv(e)
    PROVE  Untouched(e, notify_entry_filled(e, d, fill))
<1> DEFINE g == [e EXCEPT !.ent = fill]
           st == MaxOf(e.stop, fill - RUnit)
           f == [g EXCEPT !.stop = st, !.tp = TRUE]
<1>1. /\ e \in MtfState /\ e.kind = "mtf" /\ e.stop \in -(RUnit + 1) .. TrailAt
      /\ e.stop \in Int
  BY MtfFields, MtfConstants DEF MtfInv
<1>2. CASE d # e.pos
  BY <1>2, UntouchedItself DEF notify_entry_filled, EngineInv
<1>3. CASE d = e.pos
  <2>1. fill \in -1 .. 1
    BY DEF Sides
  <2>2. g \in MtfState
    BY <1>1, <2>1 DEF MtfState
  <2>3. /\ g.kind = "mtf" /\ g.mode = e.mode /\ g.pos = e.pos /\ g.conf = e.conf
        /\ g.flips = e.flips /\ g.streak = e.streak /\ g.stop = e.stop /\ g.halt = e.halt
        /\ g.ent = fill
    BY <1>1 DEF MtfState
  <2>4. notify_entry_filled(e, d, fill) = f
    BY <1>3, <2>3 DEF notify_entry_filled, init_bracket
  <2>5. st \in -(RUnit + 1) .. TrailAt /\ st >= e.stop
    BY <1>1, <2>1, MtfConstants DEF MaxOf
  <2> HIDE DEF g, st
  <2>6. f \in MtfState
    BY <2>2, <2>5 DEF MtfState
  <2>7. /\ f.kind = "mtf" /\ f.mode = e.mode /\ f.pos = e.pos /\ f.conf = e.conf
        /\ f.flips = e.flips /\ f.streak = e.streak /\ f.stop = st /\ f.halt = e.halt
    BY <2>2, <2>3 DEF MtfState
  <2> HIDE DEF f
  <2>8. e.pos # 0
    BY <1>3 DEF Sides
  <2>9. MtfInv(f)
    BY <2>6, <2>7, <2>8 DEF MtfInv
  <2> QED
    BY <1>1, <2>4, <2>5, <2>7, <2>9 DEF Untouched, Kept, Alike, EngineInv, in_position
<1> QED
  BY <1>2, <1>3

\* A tick of any engine.  An engine that does not reverse enters only when flat.
TickStep(e, ph, px, r) ==
    /\ EngineInv(r.e) /\ Alike(e, r.e) /\ r.e.halt = e.halt /\ SignalStep(e, r)
    /\ e.kind = "trend" => OnceStep(e, ph, r)
    /\ e.kind = "orb" =>
          /\ e.halt # NoHalt => r.e = e
          /\ e.halt = NoHalt => r.e.last = px
          /\ r.sig # "none" => px # 0 /\ px # e.last /\ e.last # NoPrice
    /\ e.kind = "mtf" =>
          /\ r.e.streak = e.streak
          /\ e.pos # 0 => r.e.pos = e.pos /\ r.e.stop >= e.stop
          /\ r.sig = "none" => r.e.pos = e.pos
          /\ r.sig = "buy" => r.e.pos = 1
          /\ r.sig = "sell" => r.e.pos = -1

LEMMA TicksStep ==
    ASSUME NEW e, NEW ph, NEW px \in Dirs, EngineInv(e), e.kind = "mtf" => ~e.flips,
           NEW r \in Ticks(e, ph, px)
    PROVE  TickStep(e, ph, px, r)
<1>1. CASE e.kind = "trend"
  <2>1. r \in TrendTicks(e, ph) /\ TrendInv(e)
    BY <1>1, KindCases DEF Ticks
  <2>2. TrendTick(e, ph, r)
    BY <2>1, TrendTicksStep
  <2>3. r.e.kind = "trend"
    BY <2>2, TrendFields DEF TrendTick, TrendInv
  <2> QED
    BY <1>1, <2>2, <2>3 DEF TickStep, TrendTick, EngineInv, Alike
<1>2. CASE e.kind = "orb"
  <2>1. r \in OrbTicks(e, ph, px) /\ OrbInv(e)
    BY <1>2, KindCases DEF Ticks
  <2>2. OrbTick(e, px, r)
    BY <2>1, OrbTicksStep
  <2>3. r.e.kind = "orb" /\ r.e.mode = e.mode
    BY <2>1, <2>2, OrbFields DEF OrbTick, OrbInv
  <2> QED
    BY <1>2, <2>2, <2>3 DEF TickStep, OrbTick, EngineInv, Alike
<1>3. CASE e.kind = "mtf"
  <2>1. r \in MtfTicks(e, ph) /\ MtfInv(e)
    BY <1>3, KindCases DEF Ticks
  <2>2. MtfTick(e, r)
    BY <2>1, MtfTicksStep
  <2>3. r.e.kind = "mtf"
    BY <2>2, MtfFields DEF MtfTick, MtfInv
  <2>4. e.pos # 0 => r.sig \notin {"buy", "sell"}
    BY <1>3, <2>2 DEF MtfTick
  <2>5. SignalStep(e, r)
    BY <1>3, <2>2, <2>3, <2>4 DEF MtfTick, SignalStep, in_position
  <2> QED
    BY <1>3, <2>2, <2>3, <2>4, <2>5 DEF TickStep, MtfTick, EngineInv, Alike
<1> QED
  BY <1>1, <1>2, <1>3, KindCases

=============================================================================
