------------------------ MODULE NetReconcileProofs ------------------------
(***************************************************************************)
(* The reconciler for every quantity, every number of trades, fills of     *)
(* others and unwinds, and every grace, retry and delivery time: its type, *)
(* the unwind that never passes zero, and, when two delivery times fit in  *)
(* the grace window, the absence of false alarms.                          *)
(*                                                                         *)
(* The last needs an invariant of its own (Calm): while nothing but the    *)
(* executor's own orders moves the net position, each state of the order   *)
(* manager bounds the age of the mismatch by the age of what is still on   *)
(* its way.                                                                *)
(***************************************************************************)
EXTENDS NetReconcile, TLAPS

Report == [net : Int, age : 0 .. Lag]
Notice == [kind : {"none", "entry", "stop", "exit"}, age : 0 .. Lag]
Reasons == {"none", "startup", "unwind_failed", "mismatch"}

ExState == [pos : [state : PosState, dir : -1 .. 1], since : Age(Grace), acted : Age(Retry),
            heard : BOOLEAN, lastNet : Int, lastUnwind : Nat, netHalt : BOOLEAN,
            halt : Reasons, mapped : SUBSET Nat]
MkState == [net : Int, own : [kind : {"none", "entry", "stop", "exit"}, side : -1 .. 1, left : Nat],
            unwinds : [Ids -> Int], sent : Nat, reports : Seq(Report), notices : Seq(Notice),
            disturbed : BOOLEAN]

\* The executor and the exchange, with what relates them.  A handler may come to
\* one unwind more than the bound; such a step is not taken.
Good(e, m) ==
    /\ e \in ExState /\ m \in MkState
    /\ e.pos.state = "FLAT" <=> e.pos.dir = 0
    /\ e.since = Never => e.acted = Never
    /\ e.lastUnwind <= m.sent
    /\ \A i \in e.mapped : i \in 1 .. m.sent
    /\ \A i \in Ids : i > m.sent => m.unwinds[i] = 0

-----------------------------------------------------------------------------
(* Times and queues. *)

LEMMA Times ==
    /\ Grace \in Nat \ {0} /\ Retry \in Nat \ {0} /\ Lag \in Nat /\ Qty \in Nat \ {0}
    /\ MaxUnwinds \in Nat /\ Never = -1
    /\ Never \in Age(Grace) /\ Never \in Age(Retry) /\ 0 \in Age(Grace) /\ 0 \in Age(Retry)
    /\ 0 \in 0 .. Lag
BY TimesAssumption, QtyAssumption DEF Never, Age

LEMMA AgedType ==
    ASSUME NEW limit \in Nat, NEW a \in Age(limit)
    PROVE  /\ Aged(a, limit) \in Age(limit)
           /\ a = Never => Aged(a, limit) = Never
           /\ a # Never => Aged(a, limit) # Never
           /\ a # Never => Aged(a, limit) <= a + 1
BY DEF Aged, Age, Never

LEMMA AppendFacts ==
    ASSUME NEW S, NEW q \in Seq(S), NEW x \in S
    PROVE  /\ Append(q, x) \in Seq(S) /\ Append(q, x) # << >>
           /\ Len(Append(q, x)) = Len(q) + 1 /\ Append(q, x)[Len(q) + 1] = x
           /\ \A k \in 1 .. Len(q) : Append(q, x)[k] = q[k]
           /\ DOMAIN Append(q, x) = 1 .. Len(q) + 1 /\ DOMAIN q = 1 .. Len(q) /\ Len(q) \in Nat
OBVIOUS

LEMMA TailFacts ==
    ASSUME NEW S, NEW q \in Seq(S), q # << >>
    PROVE  /\ Tail(q) \in Seq(S) /\ Len(Tail(q)) = Len(q) - 1 /\ Len(q) \in Nat \ {0}
           /\ Head(q) = q[1] /\ Head(q) \in S
           /\ DOMAIN Tail(q) = 1 .. Len(q) - 1 /\ DOMAIN q = 1 .. Len(q)
           /\ \A k \in 1 .. Len(q) - 1 : Tail(q)[k] = q[k + 1]
           /\ Tail(q) # << >> => Len(q) > 1
OBVIOUS

LEMMA OlderReports ==
    ASSUME NEW q \in Seq(Report), \A k \in DOMAIN q : q[k].age < Lag
    PROVE  /\ Older(q) \in Seq(Report) /\ Len(Older(q)) = Len(q) /\ DOMAIN Older(q) = DOMAIN q
           /\ DOMAIN q = 1 .. Len(q) /\ Len(q) \in Nat /\ (Older(q) = << >> <=> q = << >>)
           /\ \A k \in DOMAIN q : Older(q)[k].net = q[k].net /\ Older(q)[k].age = q[k].age + 1
<1>1. DOMAIN q = 1 .. Len(q) /\ Len(q) \in Nat /\ DOMAIN Older(q) = 1 .. Len(q)
  BY DEF Older
<1>2. ASSUME NEW k \in DOMAIN q
      PROVE  /\ Older(q)[k] \in Report
             /\ Older(q)[k].net = q[k].net /\ Older(q)[k].age = q[k].age + 1
  <2>0. q[k] \in Report
    BY <1>1, <1>2
  <2>1. q[k] \in Report /\ q[k].age < Lag /\ q[k].age \in 0 .. Lag
    BY <1>2, <2>0 DEF Report
  <2>2. Older(q)[k] = [q[k] EXCEPT !.age = @ + 1]
    BY <1>2 DEF Older
  <2>3. q[k].age + 1 \in 0 .. Lag
    BY <2>1, Times
  <2> QED
    BY <2>1, <2>2, <2>3 DEF Report
<1>3. Older(q) \in [1 .. Len(q) -> Report]
  BY <1>1, <1>2 DEF Older
<1>4. Older(q) \in Seq(Report) /\ Len(Older(q)) = Len(q)
  BY <1>1, <1>3
<1>5. Older(q) = << >> <=> q = << >>
  BY <1>1, <1>4
<1> QED
  BY <1>1, <1>2, <1>4, <1>5

LEMMA OlderNotices ==
    ASSUME NEW q \in Seq(Notice), \A k \in DOMAIN q : q[k].age < Lag
    PROVE  /\ Older(q) \in Seq(Notice) /\ Len(Older(q)) = Len(q) /\ DOMAIN Older(q) = DOMAIN q
           /\ DOMAIN q = 1 .. Len(q) /\ Len(q) \in Nat /\ (Older(q) = << >> <=> q = << >>)
           /\ \A k \in DOMAIN q : Older(q)[k].kind = q[k].kind /\ Older(q)[k].age = q[k].age + 1
<1>1. DOMAIN q = 1 .. Len(q) /\ Len(q) \in Nat /\ DOMAIN Older(q) = 1 .. Len(q)
  BY DEF Older
<1>2. ASSUME NEW k \in DOMAIN q
      PROVE  /\ Older(q)[k] \in Notice
             /\ Older(q)[k].kind = q[k].kind /\ Older(q)[k].age = q[k].age + 1
  <2>0. q[k] \in Notice
    BY <1>1, <1>2
  <2>1. q[k] \in Notice /\ q[k].age < Lag /\ q[k].age \in 0 .. Lag
    BY <1>2, <2>0 DEF Notice
  <2>2. Older(q)[k] = [q[k] EXCEPT !.age = @ + 1]
    BY <1>2 DEF Older
  <2>3. q[k].age + 1 \in 0 .. Lag
    BY <2>1, Times
  <2> QED
    BY <2>1, <2>2, <2>3 DEF Notice
<1>3. Older(q) \in [1 .. Len(q) -> Notice]
  BY <1>1, <1>2 DEF Older
<1>4. Older(q) \in Seq(Notice) /\ Len(Older(q)) = Len(q)
  BY <1>1, <1>3
<1>5. Older(q) = << >> <=> q = << >>
  BY <1>1, <1>4
<1> QED
  BY <1>1, <1>2, <1>4, <1>5


-----------------------------------------------------------------------------
(* The handlers. *)

LEMMA Fields ==
    ASSUME NEW e \in ExState, NEW m \in MkState
    PROVE  /\ e.pos \in [state : PosState, dir : -1 .. 1]
           /\ e.pos.state \in PosState /\ e.pos.dir \in -1 .. 1
           /\ e.since \in Age(Grace) /\ e.acted \in Age(Retry) /\ e.heard \in BOOLEAN
           /\ e.lastNet \in Int /\ e.lastUnwind \in Nat /\ e.netHalt \in BOOLEAN
           /\ e.halt \in Reasons /\ e.mapped \in SUBSET Nat
           /\ m.net \in Int /\ m.unwinds \in [Ids -> Int] /\ m.sent \in Nat
           /\ m.own \in [kind : {"none", "entry", "stop", "exit"}, side : -1 .. 1, left : Nat]
           /\ m.own.kind \in {"none", "entry", "stop", "exit"} /\ m.own.side \in -1 .. 1
           /\ m.own.left \in Nat
           /\ m.reports \in Seq(Report) /\ m.notices \in Seq(Notice) /\ m.disturbed \in BOOLEAN
BY DEF ExState, MkState

\* What a handler leaves alone of the executor, and of the exchange.
Kept(e, f) == f.pos = e.pos /\ f.heard = e.heard /\ f.lastNet = e.lastNet
Left(m, n) == /\ n.net = m.net /\ n.reports = m.reports /\ n.notices = m.notices
              /\ n.disturbed = m.disturbed

\* observe comes to f with verdict v.
Observed(e, c, f, v) ==
    /\ f \in ExState /\ Kept(e, f)
    /\ f.lastUnwind = e.lastUnwind /\ f.netHalt = e.netHalt /\ f.halt = e.halt
    /\ f.mapped = e.mapped
    /\ f.since = Never => f.acted = Never
    /\ c => v = "OK" /\ f.since = Never /\ f.acted = Never
    /\ ~c => /\ v \in {"WAIT", "ACT"}
             /\ f.since = IF e.since = Never THEN 0 ELSE e.since
             /\ v = "WAIT" => f.acted = e.acted
             /\ e.acted = Never /\ f.since < Grace => v = "WAIT"
             /\ e.acted = 0 => v = "WAIT"

LEMMA ObserveStep ==
    ASSUME NEW e \in ExState, NEW c \in BOOLEAN, NEW r, r = observe(e, c)
    PROVE  Observed(e, c, r.e, r.verdict)
<1> DEFINE since == IF e.since = Never THEN 0 ELSE e.since
<1>1. since \in Age(Grace) /\ since # Never /\ since \in Int /\ e.acted \in Int
  BY Times DEF ExState, Age
<1>2. CASE c
  <2>1. r = [e |-> [e EXCEPT !.since = Never, !.acted = Never], verdict |-> "OK"]
    BY <1>2 DEF observe
  <2> DEFINE f == [e EXCEPT !.since = Never, !.acted = Never]
  <2>2. r.e = f /\ r.verdict = "OK"
    BY <2>1
  <2>3. /\ f \in ExState /\ f.since = Never /\ f.acted = Never /\ f.pos = e.pos
        /\ f.heard = e.heard /\ f.lastNet = e.lastNet /\ f.lastUnwind = e.lastUnwind
        /\ f.netHalt = e.netHalt /\ f.halt = e.halt /\ f.mapped = e.mapped
    BY Times DEF ExState
  <2> HIDE DEF f
  <2> QED
    BY <1>2, <2>2, <2>3 DEF Observed, Kept
<1>3. CASE ~c
  <2>1. \/ /\ r = [e |-> [e EXCEPT !.since = since], verdict |-> "WAIT"]
           /\ (e.acted = Never /\ since < Grace) \/ (e.acted # Never /\ e.acted < Retry)
        \/ /\ r = [e |-> [e EXCEPT !.since = since, !.acted = 0], verdict |-> "ACT"]
           /\ IF e.acted = Never THEN since >= Grace ELSE e.acted >= Retry
    <3>1. CASE e.acted = Never /\ since < Grace
      BY <1>3, <3>1 DEF observe
    <3>2. CASE e.acted # Never /\ e.acted < Retry
      BY <1>3, <3>2, Times DEF observe
    <3>3. CASE IF e.acted = Never THEN since >= Grace ELSE e.acted >= Retry
      <4>1. ~(e.acted = Never /\ since < Grace) /\ ~(e.acted # Never /\ e.acted < Retry)
        BY <1>1, <3>3, Times
      <4> QED
        BY <1>3, <3>3, <4>1 DEF observe
    <3> QED
      BY <1>1, <3>1, <3>2, <3>3, Times
  <2> HIDE DEF since
  <2>2. CASE r = [e |-> [e EXCEPT !.since = since], verdict |-> "WAIT"]
    BY <1>1, <1>3, <2>2 DEF Observed, Kept, ExState, since
  <2>3. CASE /\ r = [e |-> [e EXCEPT !.since = since, !.acted = 0], verdict |-> "ACT"]
             /\ IF e.acted = Never THEN since >= Grace ELSE e.acted >= Retry
    <3> DEFINE f == [e EXCEPT !.since = since, !.acted = 0]
    <3>1. r.e = f /\ r.verdict = "ACT"
      BY <2>3
    <3>2. /\ f \in ExState /\ f.since = since /\ f.acted = 0 /\ f.pos = e.pos
          /\ f.heard = e.heard /\ f.lastNet = e.lastNet /\ f.lastUnwind = e.lastUnwind
          /\ f.netHalt = e.netHalt /\ f.halt = e.halt /\ f.mapped = e.mapped
      BY <1>1, Times DEF ExState
    <3>3. ~(e.acted = Never /\ since < Grace) /\ e.acted # 0
      BY <1>1, <2>3, Times
    <3> HIDE DEF f
    <3> QED
      BY <1>1, <1>3, <3>1, <3>2, <3>3 DEF Observed, Kept, since
  <2> QED
    BY <2>1, <2>2, <2>3
<1> QED
  BY <1>2, <1>3

\* A handler went from e and m to f and n; an unwind, if it sent one, closes what
\* plan says of the reported position x.
Closes(x, y) == Abs(y) < Abs(x) /\ (x > 0 => y >= 0) /\ (x < 0 => y <= 0)

Sends(m, n, x) ==
    \/ n.sent = m.sent
    \/ n.sent = m.sent + 1 /\ (n.sent \in Ids => Closes(x, x + n.unwinds[n.sent]))

LEMMA SendUnwindStep ==
    ASSUME NEW e, NEW m, Good(e, m), NEW diff \in Int, NEW ok \in BOOLEAN, NEW x \in Int,
           Closes(x, x - diff),
           NEW r, r = send_unwind([e |-> e, m |-> m], diff, ok)
    PROVE  /\ r = [e |-> r.e, m |-> r.m] /\ Good(r.e, r.m) /\ Sends(m, r.m, x)
           /\ Kept(e, r.e) /\ Left(m, r.m)
           /\ r.e.since = e.since /\ r.e.acted = e.acted
           /\ ~ok => r.e = e /\ r.m = m
<1>1. e \in ExState /\ m \in MkState
  BY DEF Good
<1>2. CASE ~ok
  BY <1>2 DEF send_unwind, Kept, Left, Sends
<1>3. CASE ok
  <2> DEFINE i == m.sent + 1
             f == [e EXCEPT !.lastUnwind = i]
             n == [m EXCEPT !.sent = i, !.unwinds[i] = -diff]
  <2>1. r = [e |-> f, m |-> n]
    BY <1>3 DEF send_unwind
  <2>2. i \in Nat /\ i > m.sent /\ m.sent \in Nat /\ m.unwinds \in [Ids -> Int]
    BY <1>1, Fields
  <2>3. /\ f \in ExState /\ f.lastUnwind = i /\ f.pos = e.pos /\ f.heard = e.heard
        /\ f.lastNet = e.lastNet /\ f.since = e.since /\ f.acted = e.acted
        /\ f.mapped = e.mapped
    BY <1>1, <2>2 DEF ExState
  <2>4. [m.unwinds EXCEPT ![i] = -diff] \in [Ids -> Int]
    <3>1. -diff \in Int
      OBVIOUS
    <3>2. \A g \in [Ids -> Int], v \in Int : \A j : [g EXCEPT ![j] = v] \in [Ids -> Int]
      BY Zenon
    <3> QED
      BY <2>2, <3>1, <3>2
  <2>5. /\ n \in MkState /\ n.sent = i /\ n.unwinds = [m.unwinds EXCEPT ![i] = -diff]
        /\ n.net = m.net /\ n.reports = m.reports /\ n.notices = m.notices
        /\ n.disturbed = m.disturbed
    BY <1>1, <2>2, <2>4 DEF MkState
  <2>6. i \in Ids => n.unwinds[i] = -diff
    BY <2>2, <2>5
  <2>7. \A j \in Ids : j # i => n.unwinds[j] = m.unwinds[j]
    BY <2>2, <2>5
  <2> HIDE DEF i, f, n
  <2>8. \A j \in Ids : j > n.sent => n.unwinds[j] = 0
    <3> SUFFICES ASSUME NEW j \in Ids, j > n.sent
                 PROVE  n.unwinds[j] = 0
      OBVIOUS
    <3>1. j \in Int /\ j > m.sent /\ j # i
      BY SMTT(30), <2>2, <2>5, Times DEF Ids
    <3> QED
      BY <2>7, <3>1 DEF Good
  <2>9. Good(f, n)
    <3>1. \A k \in f.mapped : k \in 1 .. n.sent
      BY <1>1, <2>2, <2>3, <2>5, Fields DEF Good
    <3>2. f.lastUnwind <= n.sent
      BY <2>2, <2>3, <2>5
    <3> QED
      BY <2>3, <2>5, <2>8, <3>1, <3>2 DEF Good
  <2>10. Sends(m, n, x)
    <3>1. x + -diff = x - diff
      OBVIOUS
    <3> QED
      BY <2>5, <2>6, <3>1 DEF Sends, i
  <2> QED
    <3>1. r.e = f /\ r.m = n
      BY <2>1
    <3> QED
      BY <1>3, <2>1, <2>3, <2>5, <2>9, <2>10, <3>1 DEF Kept, Left
<1> QED
  BY <1>2, <1>3

\* An unwind leaves the part of the reported position that is ours, or nothing.
LEMMA PlanStep ==
    ASSUME NEW e \in ExState, NEW x \in Int, NEW plan, plan = plan_unwind(x, e.pos)
    PROVE  plan.diff \in Int /\ (plan.diff # 0 => Closes(x, x - plan.diff))
<1> DEFINE expected == IF e.pos.state \in {"LONG", "SHORT"} THEN e.pos.dir * Qty ELSE 0
           extra == (x > 0 <=> expected > 0) /\ Abs(x) >= Abs(expected)
           target == IF expected # 0 /\ extra THEN expected ELSE 0
<1>1. plan.diff = x - target
  BY DEF plan_unwind
<1>2. expected \in Int
  BY Times DEF ExState
<1> HIDE DEF expected
<1>3. target \in Int /\ (target = 0 \/ (target = expected /\ extra))
  BY <1>2
<1>4. CASE target = 0
  BY <1>1, <1>4 DEF Closes, Abs
<1>5. CASE target # 0 /\ target = expected /\ extra
  BY <1>1, <1>2, <1>5 DEF Closes, Abs
<1> QED
  BY <1>1, <1>3, <1>4, <1>5

\* What every handler keeps to, with the reported position x.
Step(e, m, f, n, x) ==
    /\ Good(f, n) /\ Left(m, n) /\ Sends(m, n, x)
    /\ f.heard = e.heard /\ f.lastNet = e.lastNet

LEMMA HaltStep ==
    ASSUME NEW e, NEW m, Good(e, m), NEW h \in Reasons,
           NEW f, f = [e EXCEPT !.halt = h, !.netHalt = TRUE]
    PROVE  /\ Good(f, m) /\ Kept(e, f) /\ f.since = e.since /\ f.acted = e.acted
           /\ f.halt = h /\ f.netHalt /\ f.lastUnwind = e.lastUnwind /\ f.mapped = e.mapped
<1>1. e \in ExState
  BY DEF Good
<1>2. /\ f \in ExState /\ f.since = e.since /\ f.acted = e.acted /\ f.pos = e.pos
      /\ f.heard = e.heard /\ f.lastNet = e.lastNet /\ f.lastUnwind = e.lastUnwind
      /\ f.netHalt /\ f.halt = h /\ f.mapped = e.mapped
  BY <1>1 DEF ExState
<1> QED
  BY <1>2 DEF Good, Kept

LEMMA AdoptStep ==
    ASSUME NEW e, NEW m, Good(e, m), NEW r, r = adopt_external_close([e |-> e, m |-> m])
    PROVE  /\ r = [e |-> r.e, m |-> r.m] /\ Good(r.e, r.m) /\ Left(m, r.m) /\ r.m.sent = m.sent
           /\ r.e.heard = e.heard /\ r.e.lastNet = e.lastNet
<1> DEFINE f == [e EXCEPT !.pos = [state |-> "FLAT", dir |-> 0], !.mapped = {}]
           n == [m EXCEPT !.own = NoOrder]
<1>1. e \in ExState /\ m \in MkState
  BY DEF Good
<1>2. r.e = f /\ r.m = n /\ r = [e |-> f, m |-> n]
  BY DEF adopt_external_close
<1>3. /\ f \in ExState /\ f.since = e.since /\ f.acted = e.acted
      /\ f.pos = [state |-> "FLAT", dir |-> 0]
      /\ f.heard = e.heard /\ f.lastNet = e.lastNet /\ f.lastUnwind = e.lastUnwind
      /\ f.mapped = {}
  <2>1. [state |-> "FLAT", dir |-> 0] \in [state : PosState, dir : -1 .. 1] /\ {} \in SUBSET Nat
    BY DEF PosState
  <2> DEFINE flat == [state |-> "FLAT", dir |-> 0]
  <2> HIDE DEF flat
  <2>2. f = [e EXCEPT !.pos = flat, !.mapped = {}] /\ flat \in [state : PosState, dir : -1 .. 1]
    BY <2>1 DEF flat
  <2>3. /\ f \in ExState /\ f.since = e.since /\ f.acted = e.acted /\ f.pos = flat
        /\ f.heard = e.heard /\ f.lastNet = e.lastNet /\ f.lastUnwind = e.lastUnwind
        /\ f.mapped = {}
    BY <1>1, <2>1, <2>2 DEF ExState
  <2> QED
    BY <2>3 DEF flat
<1>4. /\ n \in MkState /\ n.net = m.net /\ n.reports = m.reports /\ n.notices = m.notices
      /\ n.disturbed = m.disturbed /\ n.sent = m.sent /\ n.unwinds = m.unwinds
  <2>1. NoOrder \in [kind : {"none", "entry", "stop", "exit"}, side : -1 .. 1, left : Nat]
    BY DEF NoOrder
  <2> QED
    BY <1>1, <2>1 DEF MkState
<1>5. f.pos.state = "FLAT" <=> f.pos.dir = 0
  BY <1>3
<1> HIDE DEF f, n
<1>6. Good(f, n)
  BY <1>3, <1>4, <1>5 DEF Good
<1> QED
  BY <1>2, <1>3, <1>4, <1>6 DEF Left

LEMMA CancelPreviousStep ==
    ASSUME NEW e, NEW m, Good(e, m), NEW r, r = cancel_previous([e |-> e, m |-> m])
    PROVE  /\ r = [e |-> r.e, m |-> r.m] /\ Good(r.e, r.m) /\ Left(m, r.m) /\ r.m.sent = m.sent
           /\ r.e.heard = e.heard /\ r.e.lastNet = e.lastNet /\ r.e.pos = e.pos
<1> DEFINE i == e.lastUnwind
           f == [e EXCEPT !.lastUnwind = 0]
           n == cancel_unwind(m, i, i \in e.mapped)
<1>1. e \in ExState /\ m \in MkState
  BY DEF Good
<1>2. CASE i = 0
  <2>1. r = [e |-> e, m |-> m]
    BY <1>2 DEF cancel_previous
  <2>2. r.e = e /\ r.m = m
    BY <2>1
  <2> QED
    BY <2>1, <2>2 DEF Left
<1>3. CASE i # 0
  <2>1. r.e = f /\ r.m = n /\ r = [e |-> f, m |-> n]
    BY <1>3 DEF cancel_previous
  <2>2. /\ f \in ExState /\ f.since = e.since /\ f.acted = e.acted /\ f.pos = e.pos
        /\ f.heard = e.heard /\ f.lastNet = e.lastNet /\ f.lastUnwind = 0
        /\ f.mapped = e.mapped
    BY <1>1 DEF ExState
  <2>3. \/ n = m
        \/ n = [m EXCEPT !.unwinds[i] = 0]
    BY DEF cancel_unwind
  <2>4. m.unwinds \in [Ids -> Int] /\ m.sent \in Nat
    BY <1>1, Fields
  <2> HIDE DEF f, n, i
  <2>5. /\ n \in MkState /\ n.net = m.net /\ n.reports = m.reports /\ n.notices = m.notices
        /\ n.disturbed = m.disturbed /\ n.sent = m.sent
        /\ \A j \in Ids : n.unwinds[j] = m.unwinds[j] \/ n.unwinds[j] = 0
    <3>1. CASE n = m
      BY <1>1, <3>1
    <3>2. CASE n = [m EXCEPT !.unwinds[i] = 0]
      <4>1. [m.unwinds EXCEPT ![i] = 0] \in [Ids -> Int]
        <5>1. \A g \in [Ids -> Int], y \in Int : \A j : [g EXCEPT ![j] = y] \in [Ids -> Int]
          BY Zenon
        <5> QED
          BY <2>4, <5>1
      <4>2. /\ n \in MkState /\ n.net = m.net /\ n.reports = m.reports /\ n.notices = m.notices
            /\ n.disturbed = m.disturbed /\ n.sent = m.sent
            /\ n.unwinds = [m.unwinds EXCEPT ![i] = 0]
        BY <1>1, <3>2, <4>1 DEF MkState
      <4> QED
        BY <2>4, <4>2
    <3> QED
      BY <2>3, <3>1, <3>2
  <2>6. \A j \in Ids : j > n.sent => n.unwinds[j] = 0
    BY <2>5 DEF Good
  <2>7. f.lastUnwind <= n.sent
    BY <2>2, <2>4, <2>5
  <2>8. \A j \in f.mapped : j \in 1 .. n.sent
    BY <2>2, <2>5 DEF Good
  <2>9. Good(f, n)
    BY <2>2, <2>5, <2>6, <2>7, <2>8 DEF Good
  <2> QED
    BY <2>1, <2>2, <2>5, <2>9 DEF Left
<1> QED
  BY <1>2, <1>3

LEMMA ActStep ==
    ASSUME NEW e, NEW m, Good(e, m), NEW x \in Int, NEW ok \in BOOLEAN,
           NEW r, r = act([e |-> e, m |-> m], x, ok)
    PROVE  r = [e |-> r.e, m |-> r.m] /\ Step(e, m, r.e, r.m, x) /\ (~ok => r.m.sent = m.sent)
<1> DEFINE s == [e |-> e, m |-> m]
           plan == plan_unwind(x, e.pos)
           f == [e EXCEPT !.halt = "mismatch", !.netHalt = TRUE]
           h == [e |-> f, m |-> m]
           a == IF plan.adopt THEN adopt_external_close(h) ELSE h
           c == cancel_previous(a)
<1>1. r = IF plan.diff # 0 THEN send_unwind(c, plan.diff, ok) ELSE c
  BY DEF act
<1>2. h = [e |-> f, m |-> m]
  OBVIOUS
<1>3. Good(f, m) /\ Kept(e, f)
  <2>1. "mismatch" \in Reasons
    BY DEF Reasons
  <2> QED
    BY <2>1, HaltStep, Zenon
<1>4. e \in ExState
  BY DEF Good
<1>5. plan.diff \in Int /\ (plan.diff # 0 => Closes(x, x - plan.diff))
  BY <1>4, PlanStep
<1> HIDE DEF f, h, plan
<1>6. /\ a = [e |-> a.e, m |-> a.m] /\ Good(a.e, a.m) /\ Left(m, a.m) /\ a.m.sent = m.sent
      /\ a.e.heard = e.heard /\ a.e.lastNet = e.lastNet
  <2>1. CASE plan.adopt
    BY <1>2, <1>3, <2>1, AdoptStep DEF Kept
  <2>2. CASE ~plan.adopt
    <3>1. a = [e |-> f, m |-> m]
      BY <1>2, <2>2
    <3>2. a.e = f /\ a.m = m
      BY <3>1
    <3> QED
      BY <1>3, <3>1, <3>2 DEF Kept, Left
  <2> QED
    BY <2>1, <2>2
<1> HIDE DEF a
<1>7. /\ c = [e |-> c.e, m |-> c.m] /\ Good(c.e, c.m) /\ Left(m, c.m) /\ c.m.sent = m.sent
      /\ c.e.heard = e.heard /\ c.e.lastNet = e.lastNet
  BY <1>6, CancelPreviousStep DEF Left
<1> HIDE DEF c
<1>8. CASE plan.diff = 0
  BY <1>1, <1>7, <1>8 DEF Step, Sends
<1>9. CASE plan.diff # 0
  <2>1. /\ r = [e |-> r.e, m |-> r.m] /\ Good(r.e, r.m) /\ Sends(c.m, r.m, x)
        /\ Kept(c.e, r.e) /\ Left(c.m, r.m) /\ (~ok => r.m = c.m)
    BY <1>1, <1>5, <1>7, <1>9, SendUnwindStep
  <2> QED
    BY <1>7, <2>1 DEF Step, Sends, Left, Kept
<1> QED
  BY <1>8, <1>9

LEMMA ReconcileStep ==
    ASSUME NEW e, NEW m, Good(e, m), NEW x \in Int, NEW c \in BOOLEAN, NEW ok \in BOOLEAN,
           NEW r, r = reconcile_net([e |-> e, m |-> m], x, c, ok)
    PROVE  /\ r = [e |-> r.e, m |-> r.m] /\ Step(e, m, r.e, r.m, x)
           /\ ~ok => r.m.sent = m.sent
           /\ c \/ e.acted = 0 \/ (e.acted = Never /\ e.since < Grace) =>
                /\ r.m = m /\ r.e.pos = e.pos
                /\ r.e.acted = IF c THEN Never ELSE e.acted
                /\ r.e.since = IF c THEN Never ELSE IF e.since = Never THEN 0 ELSE e.since
                /\ ~e.netHalt => r.e.halt = e.halt /\ ~r.e.netHalt
                /\ e.lastUnwind = 0 => r.e.lastUnwind = 0
<1> DEFINE s == [e |-> e, m |-> m]
           v == observe(e, c)
           f == v.e
           o == [s EXCEPT !.e = v.e]
<1>1. e \in ExState
  BY DEF Good
<1>2. Observed(e, c, f, v.verdict)
  BY <1>1, ObserveStep
<1>3. o = [e |-> f, m |-> m] /\ s.e = e
  OBVIOUS
<1>4. r = CASE v.verdict = "ACT" -> act(o, x, ok)
            [] v.verdict = "OK" ->
                 [o EXCEPT !.e.lastUnwind = 0, !.e.netHalt = FALSE,
                           !.e.halt = IF s.e.netHalt /\ @ = "mismatch" THEN "none" ELSE @]
            [] v.verdict = "WAIT" -> o
  BY Zenon DEF reconcile_net
<1> DEFINE w == v.verdict
<1> HIDE DEF v, o, s
<1>5. Good(f, m)
  BY <1>2, Zenon DEF Observed, Good, Kept
<1>6. Kept(e, f) /\ f \in ExState
  BY <1>2 DEF Observed
<1> HIDE DEF f, w
<1>7. CASE w = "ACT"
  <2>1. r = act([e |-> f, m |-> m], x, ok)
    BY <1>3, <1>4, <1>7 DEF w
  <2>2. r = [e |-> r.e, m |-> r.m] /\ Step(f, m, r.e, r.m, x) /\ (~ok => r.m.sent = m.sent)
    BY <1>5, <2>1, ActStep
  <2>3. ~(c \/ e.acted = 0 \/ (e.acted = Never /\ e.since < Grace))
    BY <1>2, <1>7, Times DEF Observed, w
  <2> QED
    BY <1>6, <2>2, <2>3 DEF Step, Kept
<1>8. CASE w = "WAIT"
  <2>1. r = [e |-> f, m |-> m]
    BY <1>3, <1>4, <1>8 DEF w
  <2>2. r.e = f /\ r.m = m
    BY <2>1
  <2>3. /\ ~c /\ f.since = IF e.since = Never THEN 0 ELSE e.since
        /\ f.acted = e.acted /\ f.netHalt = e.netHalt /\ f.halt = e.halt
        /\ f.lastUnwind = e.lastUnwind
    BY <1>2, <1>8 DEF Observed, w
  <2> QED
    BY <1>5, <1>6, <2>1, <2>2, <2>3 DEF Step, Kept, Left, Sends
<1>9. CASE w = "OK"
  <2> DEFINE g == [f EXCEPT !.lastUnwind = 0, !.netHalt = FALSE,
                           !.halt = IF e.netHalt /\ f.halt = "mismatch" THEN "none" ELSE f.halt]
  <2>1. r = [e |-> g, m |-> m]
    <3>1. r = [o EXCEPT !.e.lastUnwind = 0, !.e.netHalt = FALSE,
                        !.e.halt = IF e.netHalt /\ @ = "mismatch" THEN "none" ELSE @]
      BY <1>3, <1>4, <1>9 DEF w
    <3> QED
      BY <1>3, <1>6, <3>1 DEF ExState
  <2>2. /\ c /\ f.since = Never /\ f.acted = Never /\ f.netHalt = e.netHalt /\ f.halt = e.halt
        /\ f.lastUnwind = e.lastUnwind
    BY <1>2, <1>9 DEF Observed, w
  <2>3. /\ g \in ExState /\ g.since = Never /\ g.acted = Never /\ g.pos = f.pos
        /\ g.heard = f.heard /\ g.lastNet = f.lastNet /\ g.lastUnwind = 0
        /\ g.netHalt = FALSE /\ g.mapped = f.mapped
        /\ g.halt = IF e.netHalt /\ f.halt = "mismatch" THEN "none" ELSE f.halt
    BY <1>6, <2>2 DEF ExState, Reasons
  <2>4. r.e = g /\ r.m = m
    BY <2>1
  <2>5. m.sent \in Nat
    BY DEF Good, MkState
  <2> HIDE DEF g
  <2>6. Good(g, m)
    BY <1>5, <2>3, <2>5 DEF Good
  <2> QED
    BY <1>6, <2>1, <2>2, <2>3, <2>4, <2>6 DEF Step, Kept, Left, Sends
<1> QED
  BY <1>2, <1>7, <1>8, <1>9 DEF Observed, w

LEMMA Consistent ==
    ASSUME NEW e \in ExState, NEW x \in Int, NEW c, c = net_qty_consistent(e.pos, x)
    PROVE  /\ c \in BOOLEAN
           /\ e.pos.state = "FLAT" => (c <=> x = 0)
           /\ e.pos.state \in {"LONG", "SHORT"} => (c <=> x = e.pos.dir * Qty)
           /\ e.pos.state \in {"PENDING_ENTRY", "PENDING_EXIT"} =>
                (c <=> IF e.pos.dir * Qty >= 0 THEN 0 <= x /\ x <= e.pos.dir * Qty
                                               ELSE e.pos.dir * Qty <= x /\ x <= 0)
<1>1. e.pos.state \in PosState
  BY DEF ExState
<1>2. CASE e.pos.state = "FLAT"
  <2>1. c = (x = 0)
    BY <1>2 DEF net_qty_consistent
  <2> QED
    BY <1>2, <2>1
<1>3. CASE e.pos.state \in {"LONG", "SHORT"}
  <2>1. c = (x = e.pos.dir * Qty)
    BY <1>3 DEF net_qty_consistent
  <2> QED
    BY <1>3, <2>1
<1>4. CASE e.pos.state \in {"PENDING_ENTRY", "PENDING_EXIT"}
  <2> DEFINE b == IF e.pos.dir * Qty >= 0 THEN 0 <= x /\ x <= e.pos.dir * Qty
                                          ELSE e.pos.dir * Qty <= x /\ x <= 0
  <2>1. c = b
    BY <1>4 DEF net_qty_consistent
  <2>2. b \in BOOLEAN
    BY Zenon
  <2>3. c \in BOOLEAN /\ (c <=> b)
    BY <2>1, <2>2, Zenon
  <2> QED
    BY <1>4, <2>3
<1> QED
  BY <1>1, <1>2, <1>3, <1>4 DEF PosState

\* The snapshot sends at most one unwind, and then the reconciler waits.
LEMMA SnapshotStep ==
    ASSUME NEW e, NEW m, Good(e, m), NEW x \in Int, NEW c \in BOOLEAN, NEW ok \in BOOLEAN,
           NEW r, r = snapshot([e |-> e, m |-> m], x, c, ok)
    PROVE  /\ r = [e |-> r.e, m |-> r.m] /\ Step(e, m, r.e, r.m, x) /\ r.e.pos = e.pos
           /\ ~ok => r.m.sent = m.sent
           /\ r.m # m => ~c /\ r.e.acted = 0
           /\ x = 0 => /\ r.m = m /\ r.e.since = e.since /\ r.e.acted = e.acted
                       /\ r.e.lastUnwind = e.lastUnwind /\ r.e.netHalt = e.netHalt
                       /\ r.e.halt \in {e.halt, "none"}
<1>1. e \in ExState /\ m \in MkState /\ (e.since = Never => e.acted = Never)
  BY DEF Good
<1>2. CASE x # 0 /\ ~c /\ e.acted = Never
  <2> DEFINE u == send_unwind([e |-> e, m |-> m], x, ok)
             h == IF ok THEN "none" ELSE "unwind_failed"
             f == [u.e EXCEPT !.since = 0, !.acted = 0, !.netHalt = TRUE, !.halt = h]
  <2>1. r = [e |-> f, m |-> u.m]
    BY <1>2 DEF snapshot
  <2>2. Closes(x, x - x)
    <3>1. x - x = 0
      OBVIOUS
    <3> QED
      BY <1>2, <3>1 DEF Closes, Abs
  <2>3. /\ Good(u.e, u.m) /\ Sends(m, u.m, x) /\ Kept(e, u.e) /\ Left(m, u.m)
        /\ ~ok => u.m = m
    BY <2>2, SendUnwindStep
  <2>4. h \in Reasons
    BY DEF Reasons
  <2> HIDE DEF u, h
  <2>5. u.e \in ExState
    BY <2>3 DEF Good
  <2>6. /\ f \in ExState /\ f.since = 0 /\ f.acted = 0 /\ f.pos = u.e.pos
        /\ f.heard = u.e.heard /\ f.lastNet = u.e.lastNet /\ f.lastUnwind = u.e.lastUnwind
        /\ f.mapped = u.e.mapped
    BY <2>4, <2>5, Times DEF ExState
  <2> HIDE DEF f
  <2>7. Good(f, u.m)
    BY <2>3, <2>6, Times DEF Good
  <2>8. r.e = f /\ r.m = u.m
    BY <2>1
  <2> QED
    BY <1>2, <2>1, <2>3, <2>6, <2>7, <2>8 DEF Step, Kept
<1>3. CASE ~(x # 0 /\ ~c /\ e.acted = Never) /\ (x = 0 \/ c)
  <2> DEFINE h == IF e.halt = "startup" THEN "none" ELSE e.halt
             f == [e EXCEPT !.halt = h]
  <2>1. r = [e |-> f, m |-> m]
    <3>1. r = [e |-> [e EXCEPT !.halt = IF @ = "startup" THEN "none" ELSE @], m |-> m]
      BY <1>3 DEF snapshot
    <3> QED
      BY <1>1, <3>1 DEF ExState
  <2>2. h \in Reasons /\ h \in {e.halt, "none"}
    BY <1>1 DEF Reasons, ExState
  <2> HIDE DEF h
  <2>3. /\ f \in ExState /\ f.since = e.since /\ f.acted = e.acted /\ f.pos = e.pos
        /\ f.heard = e.heard /\ f.lastNet = e.lastNet /\ f.lastUnwind = e.lastUnwind
        /\ f.mapped = e.mapped /\ f.netHalt = e.netHalt /\ f.halt = h
    BY <1>1, <2>2 DEF ExState
  <2> HIDE DEF f
  <2>4. Good(f, m)
    BY <1>1, <2>3 DEF Good
  <2>5. r.e = f /\ r.m = m
    BY <2>1
  <2> QED
    BY <2>1, <2>2, <2>3, <2>4, <2>5 DEF Step, Sends, Left
<1>4. CASE ~(x # 0 /\ ~c /\ e.acted = Never) /\ ~(x = 0 \/ c)
  <2>1. r = [e |-> e, m |-> m]
    BY <1>4 DEF snapshot
  <2>2. r.e = e /\ r.m = m
    BY <2>1
  <2> QED
    BY <1>4, <2>1, <2>2 DEF Step, Sends, Left
<1> QED
  BY <1>2, <1>3, <1>4

\* An account update sends at most one unwind.  With the reconciler armed and inside
\* the window, one that is not a first report of a foreign position changes no order.
LEMMA UpdateStep ==
    ASSUME NEW e, NEW m, Good(e, m), NEW x \in Int, NEW ok \in BOOLEAN,
           NEW r, r = handle_pos_update([e |-> e, m |-> m], x, ok)
    PROVE  /\ r = [e |-> r.e, m |-> r.m] /\ Good(r.e, r.m) /\ Left(m, r.m) /\ Sends(m, r.m, x)
           /\ r.e.heard /\ r.e.lastNet = x
           /\ ~ok => r.m.sent = m.sent
           /\ (e.heard \/ x = 0) /\ e.acted = Never /\ e.since < Grace /\ ~e.netHalt =>
                LET c == net_qty_consistent(e.pos, x) IN
                /\ r.m = m /\ r.e.pos = e.pos /\ r.e.acted = Never
                /\ r.e.since = IF c THEN Never ELSE IF e.since = Never THEN 0 ELSE e.since
                /\ r.e.halt \in {e.halt, "none"} /\ ~r.e.netHalt
                /\ e.lastUnwind = 0 => r.e.lastUnwind = 0
<1> DEFINE c == net_qty_consistent(e.pos, x)
           t == IF ~e.heard THEN snapshot([e |-> e, m |-> m], x, c, ok) ELSE [e |-> e, m |-> m]
           f == [t.e EXCEPT !.lastNet = x, !.heard = TRUE]
<1>1. e \in ExState /\ m \in MkState
  BY DEF Good
<1>2. c \in BOOLEAN
  BY <1>1, Consistent
<1>3. r = reconcile_net([e |-> f, m |-> t.m], x, c, ok)
  BY DEF handle_pos_update
<1> HIDE DEF c
<1>4. /\ Good(t.e, t.m) /\ Left(m, t.m) /\ Sends(m, t.m, x) /\ t.e.pos = e.pos
      /\ ~ok => t.m.sent = m.sent
      /\ t.m # m => ~c /\ t.e.acted = 0
      /\ e.heard \/ x = 0 =>
           /\ t.m = m /\ t.e.since = e.since /\ t.e.acted = e.acted
           /\ t.e.lastUnwind = e.lastUnwind /\ t.e.netHalt = e.netHalt
           /\ t.e.halt \in {e.halt, "none"}
  <2>1. CASE ~e.heard
    BY <1>2, <2>1, SnapshotStep DEF Step
  <2>2. CASE e.heard
    <3>1. t.e = e /\ t.m = m
      BY <2>2
    <3> QED
      BY <2>2, <3>1 DEF Left, Sends
  <2> QED
    BY <2>1, <2>2
<1> HIDE DEF t
<1>5. t.e \in ExState
  BY <1>4 DEF Good
<1>6. /\ f \in ExState /\ f.since = t.e.since /\ f.acted = t.e.acted /\ f.pos = t.e.pos
      /\ f.heard /\ f.lastNet = x /\ f.lastUnwind = t.e.lastUnwind
      /\ f.mapped = t.e.mapped /\ f.netHalt = t.e.netHalt /\ f.halt = t.e.halt
  BY <1>5 DEF ExState
<1> HIDE DEF f
<1>7. Good(f, t.m)
  BY <1>4, <1>6 DEF Good
<1>8. /\ r = [e |-> r.e, m |-> r.m] /\ Step(f, t.m, r.e, r.m, x)
      /\ ~ok => r.m.sent = t.m.sent
      /\ c \/ f.acted = 0 \/ (f.acted = Never /\ f.since < Grace) =>
           /\ r.m = t.m /\ r.e.pos = f.pos
           /\ r.e.acted = IF c THEN Never ELSE f.acted
           /\ r.e.since = IF c THEN Never ELSE IF f.since = Never THEN 0 ELSE f.since
           /\ ~f.netHalt => r.e.halt = f.halt /\ ~r.e.netHalt
           /\ f.lastUnwind = 0 => r.e.lastUnwind = 0
  BY <1>2, <1>3, <1>7, ReconcileStep
<1>9. Left(m, r.m) /\ Sends(m, r.m, x)
  <2>1. CASE t.m = m
    BY <1>8, <2>1 DEF Step
  <2>2. CASE t.m # m
    BY <1>4, <1>6, <1>8, <2>2
  <2> QED
    BY <2>1, <2>2
<1>10. ASSUME (e.heard \/ x = 0) /\ e.acted = Never /\ e.since < Grace /\ ~e.netHalt
       PROVE  /\ r.m = m /\ r.e.pos = e.pos /\ r.e.acted = Never
              /\ r.e.since = IF c THEN Never ELSE IF e.since = Never THEN 0 ELSE e.since
              /\ r.e.halt \in {e.halt, "none"} /\ ~r.e.netHalt
              /\ e.lastUnwind = 0 => r.e.lastUnwind = 0
  BY <1>4, <1>6, <1>8, <1>10
<1> QED
  BY <1>4, <1>6, <1>8, <1>9, <1>10 DEF Step, c

-----------------------------------------------------------------------------
(* The steps, field by field. *)

Base == Good(ex, mk) /\ mk.sent <= MaxUnwinds /\ left \in Scenario

\* All of the executor but the position and the server ids, all of the exchange but
\* the own order, the notices and whether it was disturbed.
SameEx(e, f) == /\ f.since = e.since /\ f.acted = e.acted /\ f.heard = e.heard
                /\ f.lastNet = e.lastNet /\ f.lastUnwind = e.lastUnwind
                /\ f.netHalt = e.netHalt /\ f.halt = e.halt
SameMk(m, n) == /\ n.net = m.net /\ n.unwinds = m.unwinds /\ n.sent = m.sent
                /\ n.reports = m.reports

Position == [state : PosState, dir : -1 .. 1]
Order == [kind : {"none", "entry", "stop", "exit"}, side : -1 .. 1, left : Nat]

LEMMA PosStep ==
    ASSUME NEW e \in ExState, NEW p \in Position,
           NEW f, f = [e EXCEPT !.pos = p] \/ f = [e EXCEPT !.pos = p, !.mapped = {}]
    PROVE  f \in ExState /\ SameEx(e, f) /\ f.pos = p /\ (f.mapped = e.mapped \/ f.mapped = {})
<1>1. {} \in SUBSET Nat
  OBVIOUS
<1>2. CASE f = [e EXCEPT !.pos = p]
  BY <1>2 DEF ExState, SameEx, Position
<1>3. CASE f = [e EXCEPT !.pos = p, !.mapped = {}]
  BY <1>1, <1>3 DEF ExState, SameEx, Position
<1> QED
  BY <1>2, <1>3

\* Nothing that Good relates has changed but the position.
LEMMA GoodStep ==
    ASSUME NEW e, NEW m, Good(e, m), NEW f \in ExState, NEW n \in MkState, SameEx(e, f),
           f.mapped = e.mapped \/ f.mapped = {}, n.sent = m.sent, n.unwinds = m.unwinds,
           f.pos.state = "FLAT" <=> f.pos.dir = 0
    PROVE  Good(f, n)
BY DEF Good, SameEx

LEMMA MovedStep ==
    ASSUME NEW m \in MkState, NEW d \in Int, NEW n, n = Moved(m, d)
    PROVE  /\ n \in MkState /\ n.net = m.net + d
           /\ n.reports = Append(m.reports, [net |-> m.net + d, age |-> 0])
           /\ [net |-> m.net + d, age |-> 0] \in Report
           /\ n.own = m.own /\ n.unwinds = m.unwinds /\ n.sent = m.sent
           /\ n.notices = m.notices /\ n.disturbed = m.disturbed
<1>1. m.net \in Int /\ m.reports \in Seq(Report)
  BY DEF MkState
<1> DEFINE rep == [net |-> m.net + d, age |-> 0]
<1>2. rep \in Report
  BY <1>1, Times DEF Report
<1> HIDE DEF rep
<1>3. Append(m.reports, rep) \in Seq(Report)
  BY <1>1, <1>2, AppendFacts
<1> DEFINE q == Append(m.reports, rep)
<1>4. n = [m EXCEPT !.net = m.net + d, !.reports = q]
  BY DEF Moved, rep, MkState
<1> HIDE DEF q
<1>5. /\ n \in MkState /\ n.net = m.net + d /\ n.reports = q
      /\ n.own = m.own /\ n.unwinds = m.unwinds /\ n.sent = m.sent
      /\ n.notices = m.notices /\ n.disturbed = m.disturbed
  <2>1. q \in Seq(Report) /\ m.net + d \in Int
    BY <1>1, <1>3 DEF q
  <2> QED
    BY <1>4, <2>1 DEF MkState
<1> QED
  BY <1>2, <1>5 DEF q, rep

LEMMA OnSignalStep ==
    ASSUME Base, OnSignal
    PROVE  /\ Base' /\ SameEx(ex, ex') /\ SameMk(mk, mk') /\ mk'.notices = mk.notices
           /\ ex.pos.state = "FLAT" /\ ex'.pos = [state |-> "PENDING_ENTRY", dir |-> left.dir]
           /\ mk'.own = [kind |-> "entry", side |-> left.dir, left |-> Qty]
           /\ ~mk'.disturbed => ~mk.disturbed /\ ex.since = Never
           /\ left'.dir = left.dir
<1>1. /\ Good(ex, mk) /\ ex \in ExState /\ mk \in MkState /\ left \in Scenario
      /\ mk.notices \in Seq(Notice) /\ mk.disturbed \in BOOLEAN
  BY DEF Base, Good, MkState
<1>2. left.dir \in {-1, 1} /\ left.trades \in Nat /\ left.trades > 0
  BY <1>1 DEF Scenario, OnSignal
<1> DEFINE p == [state |-> "PENDING_ENTRY", dir |-> left.dir]
           o == [kind |-> "entry", side |-> left.dir, left |-> Qty]
           b == mk.disturbed \/ ex.since # Never
<1>3. p \in Position /\ p.state # "FLAT" /\ p.dir # 0
  BY <1>2 DEF Position, PosState
<1>4. o \in Order
  BY <1>2, Times DEF Order
<1>5. b \in BOOLEAN
  BY Zenon
<1>6. ex' = [ex EXCEPT !.pos = p]
  BY DEF OnSignal
<1>7. mk' = [mk EXCEPT !.own = o, !.notices = mk.notices, !.disturbed = b]
  BY <1>1 DEF OnSignal, OwnOrder, MkState
<1>8. left' \in Scenario /\ left'.dir = left.dir
  BY <1>1, <1>2 DEF Scenario, OnSignal
<1> HIDE DEF p, o, b
<1>9. ex' \in ExState /\ SameEx(ex, ex') /\ ex'.pos = p /\ (ex'.mapped = ex.mapped \/ ex'.mapped = {})
  BY <1>1, <1>3, <1>6 DEF ExState, SameEx, Position
<1>10. /\ mk' \in MkState /\ SameMk(mk, mk') /\ mk'.own = o /\ mk'.notices = mk.notices
       /\ mk'.disturbed = b
  BY <1>1, <1>4, <1>5, <1>7 DEF MkState, SameMk, Order
<1>11. mk'.sent = mk.sent /\ mk'.unwinds = mk.unwinds
  BY <1>10 DEF SameMk
<1>12. Good(ex', mk')
  BY <1>1, <1>3, <1>9, <1>10, <1>11, GoodStep
<1>13. Base'
  BY <1>8, <1>11, <1>12 DEF Base
<1>14. ~mk'.disturbed => ~mk.disturbed /\ ex.since = Never
  BY <1>10, Zenon DEF b
<1> QED
  BY <1>8, <1>9, <1>10, <1>13, <1>14 DEF OnSignal, p, o

LEMMA InitiateExitStep ==
    ASSUME Base, InitiateExit
    PROVE  /\ Base' /\ SameEx(ex, ex') /\ SameMk(mk, mk') /\ mk'.notices = mk.notices
           /\ ex.pos.state \in {"LONG", "SHORT"} /\ ex'.pos.state = "PENDING_EXIT"
           /\ ex'.pos.dir = ex.pos.dir
           /\ mk'.own = [kind |-> "exit", side |-> -ex.pos.dir, left |-> Qty]
           /\ ~mk'.disturbed => ~mk.disturbed /\ mk.own.left = Qty
           /\ left' = left
<1>1. /\ Good(ex, mk) /\ ex \in ExState /\ mk \in MkState /\ left \in Scenario
      /\ mk.notices \in Seq(Notice) /\ mk.disturbed \in BOOLEAN
      /\ ex.pos.state = "FLAT" <=> ex.pos.dir = 0
  BY DEF Base, Good, MkState
<1>2. ex.pos \in Position /\ ex.pos.dir \in -1 .. 1 /\ ex.pos.dir # 0
  BY <1>1, Fields DEF Position, InitiateExit
<1> DEFINE p == [state |-> "PENDING_EXIT", dir |-> ex.pos.dir]
           o == [kind |-> "exit", side |-> -ex.pos.dir, left |-> Qty]
           b == mk.disturbed \/ mk.own.left # Qty
<1>3. p \in Position /\ p.state # "FLAT" /\ p.dir # 0
  BY <1>2 DEF Position, PosState
<1>4. o \in Order
  BY <1>2, Times DEF Order
<1>5. b \in BOOLEAN
  BY Zenon
<1>6. ex' = [ex EXCEPT !.pos = p]
  <2>1. p = [ex.pos EXCEPT !.state = "PENDING_EXIT"]
    BY <1>2 DEF Position
  <2>2. ex' = [ex EXCEPT !.pos = [ex.pos EXCEPT !.state = "PENDING_EXIT"]]
    BY <1>1 DEF InitiateExit, ExState
  <2> QED
    BY <2>1, <2>2
<1>7. mk' = [mk EXCEPT !.own = o, !.notices = mk.notices, !.disturbed = b]
  BY <1>1 DEF InitiateExit, OwnOrder, MkState
<1> HIDE DEF p, o, b
<1>9. ex' \in ExState /\ SameEx(ex, ex') /\ ex'.pos = p /\ (ex'.mapped = ex.mapped \/ ex'.mapped = {})
  BY <1>1, <1>3, <1>6, PosStep, Zenon
<1>10. /\ mk' \in MkState /\ SameMk(mk, mk') /\ mk'.own = o /\ mk'.notices = mk.notices
       /\ mk'.disturbed = b
  BY <1>1, <1>4, <1>5, <1>7 DEF MkState, SameMk, Order
<1>11. mk'.sent = mk.sent /\ mk'.unwinds = mk.unwinds /\ left' = left
  BY <1>10 DEF SameMk, InitiateExit
<1>12. Good(ex', mk')
  BY <1>1, <1>3, <1>9, <1>10, <1>11, GoodStep
<1>13. Base'
  BY <1>11, <1>12 DEF Base
<1>14. ~mk'.disturbed => ~mk.disturbed /\ mk.own.left = Qty
  BY <1>10, Zenon DEF b
<1>15. ex'.pos.state = "PENDING_EXIT" /\ ex'.pos.dir = ex.pos.dir
  BY <1>9 DEF p
<1> QED
  BY <1>9, <1>10, <1>11, <1>13, <1>14, <1>15 DEF InitiateExit, o


LEMMA FillOwnStep ==
    ASSUME Base, FillOwn
    PROVE  /\ Base' /\ ex' = ex /\ left' = left /\ mk.own.left > 0
           /\ mk'.own.kind = mk.own.kind /\ mk'.own.side = mk.own.side
           /\ mk'.own.left = mk.own.left - 1
           /\ mk'.net = mk.net + mk.own.side /\ mk'.sent = mk.sent /\ mk'.unwinds = mk.unwinds
           /\ mk'.reports = Append(mk.reports, [net |-> mk.net + mk.own.side, age |-> 0])
           /\ [net |-> mk.net + mk.own.side, age |-> 0] \in Report
           /\ mk'.disturbed = mk.disturbed
           /\ mk'.notices = IF mk.own.left = 1
                            THEN Append(mk.notices, [kind |-> mk.own.kind, age |-> 0])
                            ELSE mk.notices
           /\ [kind |-> mk.own.kind, age |-> 0] \in Notice
<1>1. /\ Good(ex, mk) /\ ex \in ExState /\ mk \in MkState /\ left \in Scenario
      /\ mk.notices \in Seq(Notice) /\ mk.disturbed \in BOOLEAN
      /\ ex.pos.state = "FLAT" <=> ex.pos.dir = 0
  BY DEF Base, Good, MkState
<1>2. mk.own \in Order /\ mk.own.kind \in {"none", "entry", "stop", "exit"}
      /\ mk.own.side \in -1 .. 1 /\ mk.own.left \in Nat /\ mk.own.left > 0
  BY <1>1, Fields DEF Order, FillOwn
<1> DEFINE m == Moved(mk, mk.own.side)
           new == [kind |-> mk.own.kind, age |-> 0]
           o == [mk.own EXCEPT !.left = mk.own.left - 1]
           q == IF mk.own.left = 1 THEN Append(mk.notices, new) ELSE mk.notices
<1>3. /\ m \in MkState /\ m.net = mk.net + mk.own.side
      /\ m.reports = Append(mk.reports, [net |-> mk.net + mk.own.side, age |-> 0])
      /\ [net |-> mk.net + mk.own.side, age |-> 0] \in Report
      /\ m.own = mk.own /\ m.unwinds = mk.unwinds /\ m.sent = mk.sent
      /\ m.notices = mk.notices /\ m.disturbed = mk.disturbed
  <2>1. mk.own.side \in Int
    BY <1>2
  <2> QED
    BY <1>1, <2>1, MovedStep
<1>4. new \in Notice
  BY <1>2, Times DEF Notice
<1>5. /\ o \in Order /\ o.kind = mk.own.kind /\ o.side = mk.own.side
      /\ o.left = mk.own.left - 1
  BY <1>2 DEF Order
<1> HIDE DEF new
<1>6. q \in Seq(Notice)
  BY <1>1, <1>4, AppendFacts
<1>7. mk' = [m EXCEPT !.own = o, !.notices = q, !.disturbed = mk.disturbed]
  <2>1. mk' = [m EXCEPT !.own.left = @ - 1,
                        !.notices = IF mk.own.left = 1
                                    THEN Append(@, [kind |-> mk.own.kind, age |-> 0]) ELSE @]
    BY DEF FillOwn
  <2> HIDE DEF m
  <2>2. mk' = [m EXCEPT !.own = [mk.own EXCEPT !.left = mk.own.left - 1],
                        !.notices = IF mk.own.left = 1
                                    THEN Append(mk.notices, [kind |-> mk.own.kind, age |-> 0])
                                    ELSE mk.notices]
    BY <1>3, <2>1 DEF MkState
  <2>3. mk' = [m EXCEPT !.own = o, !.notices = q]
    BY <2>2 DEF new
  <2> HIDE DEF o, q
  <2> QED
    BY <1>3, <2>3 DEF MkState
<1> HIDE DEF m, o, q
<1>8. /\ mk' \in MkState /\ SameMk(m, mk') /\ mk'.own = o /\ mk'.notices = q
      /\ mk'.disturbed = mk.disturbed
  BY <1>1, <1>3, <1>5, <1>6, <1>7 DEF MkState, SameMk, Order
<1>9. ex' = ex /\ left' = left
  BY DEF FillOwn
<1>10. mk'.sent = mk.sent /\ mk'.unwinds = mk.unwinds
  BY <1>3, <1>8 DEF SameMk
<1>11. SameEx(ex, ex)
  BY DEF SameEx
<1>12. Good(ex, mk')
  BY <1>1, <1>8, <1>10, <1>11, GoodStep
<1>13. Base'
  BY <1>9, <1>10, <1>12 DEF Base
<1> QED
  BY <1>2, <1>3, <1>4, <1>5, <1>8, <1>9, <1>10, <1>13 DEF SameMk, q, new

LEMMA DeliverNoticeStep ==
    ASSUME Base, DeliverNotice
    PROVE  /\ Base' /\ SameEx(ex, ex') /\ SameMk(mk, mk') /\ left' = left
           /\ mk.notices # << >> /\ mk'.notices = Tail(mk.notices)
           /\ mk'.disturbed = mk.disturbed
           /\ LET kind == Head(mk.notices).kind
                  opens == kind = "entry" /\ ex.pos.state = "PENDING_ENTRY"
                  closes == \/ kind = "exit" /\ ex.pos.state = "PENDING_EXIT"
                            \/ kind = "stop" /\ ex.pos.state \in {"LONG", "SHORT"} IN
              /\ opens => /\ ex'.pos = [state |-> Held(ex.pos.dir), dir |-> ex.pos.dir]
                          /\ mk'.own = [kind |-> "stop", side |-> -ex.pos.dir, left |-> Qty]
              /\ closes => ex'.pos = [state |-> "FLAT", dir |-> 0] /\ mk'.own = NoOrder
<1> DEFINE kind == Head(mk.notices).kind
           opens == kind = "entry" /\ ex.pos.state = "PENDING_ENTRY"
           closes == \/ kind = "exit" /\ ex.pos.state = "PENDING_EXIT"
                     \/ kind = "stop" /\ ex.pos.state \in {"LONG", "SHORT"}
           q == Tail(mk.notices)
<1>1. /\ Good(ex, mk) /\ ex \in ExState /\ mk \in MkState /\ left \in Scenario
      /\ mk.notices \in Seq(Notice) /\ mk.disturbed \in BOOLEAN
      /\ ex.pos.state = "FLAT" <=> ex.pos.dir = 0
  BY DEF Base, Good, MkState
<1>2. q \in Seq(Notice) /\ mk.notices # << >>
  BY <1>1, TailFacts DEF DeliverNotice
<1>3. ex.pos \in Position /\ ex.pos.dir \in -1 .. 1 /\ mk.own \in Order
  BY <1>1, Fields DEF Position, Order
<1>4. left' = left
  BY DEF DeliverNotice
<1>5. ~(opens /\ closes)
  OBVIOUS
<1>6. \/ opens /\ /\ ex' = [ex EXCEPT !.pos = [state |-> Held(ex.pos.dir), dir |-> ex.pos.dir]]
                  /\ mk' = [mk EXCEPT !.own = OwnOrder("stop", -ex.pos.dir), !.notices = q,
                                      !.disturbed = mk.disturbed]
      \/ closes /\ /\ ex' = [ex EXCEPT !.pos = [state |-> "FLAT", dir |-> 0], !.mapped = {}]
                   /\ mk' = [mk EXCEPT !.own = NoOrder, !.notices = q,
                                       !.disturbed = mk.disturbed]
      \/ ~opens /\ ~closes /\ /\ ex' = [ex EXCEPT !.pos = ex.pos]
                              /\ mk' = [mk EXCEPT !.own = mk.own, !.notices = q,
                                                  !.disturbed = mk.disturbed]
  <2> DEFINE rest == [mk EXCEPT !.notices = Tail(@)]
             oo == OwnOrder("stop", -ex.pos.dir)
  <2>1. \/ opens /\ ex' = [ex EXCEPT !.pos.state = Held(ex.pos.dir)]
                 /\ mk' = [rest EXCEPT !.own = oo]
        \/ closes /\ ex' = [ex EXCEPT !.pos = [state |-> "FLAT", dir |-> 0], !.mapped = {}]
                  /\ mk' = [rest EXCEPT !.own = NoOrder]
        \/ ~closes /\ ~opens /\ mk' = rest /\ ex' = ex
    BY Zenon DEF DeliverNotice
  <2> HIDE DEF opens, closes, oo
  <2>2. \A o : [rest EXCEPT !.own = o] = [mk EXCEPT !.own = o, !.notices = q,
                                                    !.disturbed = mk.disturbed]
    BY <1>1 DEF MkState
  <2>3. rest = [mk EXCEPT !.own = mk.own, !.notices = q, !.disturbed = mk.disturbed]
    BY <1>1 DEF MkState
  <2>4. ex = [ex EXCEPT !.pos = ex.pos]
    BY <1>1 DEF ExState
  <2>5. [ex EXCEPT !.pos.state = Held(ex.pos.dir)]
          = [ex EXCEPT !.pos = [state |-> Held(ex.pos.dir), dir |-> ex.pos.dir]]
    BY <1>1, <1>3 DEF ExState, Position
  <2> HIDE DEF rest, q
  <2> QED
    BY <2>1, <2>2, <2>3, <2>4, <2>5, Zenon DEF oo
<1> HIDE DEF q
<1>7. CASE opens /\ /\ ex' = [ex EXCEPT !.pos = [state |-> Held(ex.pos.dir), dir |-> ex.pos.dir]]
                    /\ mk' = [mk EXCEPT !.own = OwnOrder("stop", -ex.pos.dir), !.notices = q,
                                        !.disturbed = mk.disturbed]
  <2> DEFINE p == [state |-> Held(ex.pos.dir), dir |-> ex.pos.dir]
             o == OwnOrder("stop", -ex.pos.dir)
  <2>1. p \in Position /\ p.state # "FLAT" /\ p.dir # 0
    BY <1>1, <1>3, <1>7 DEF Position, PosState, Held
  <2>2. o \in Order /\ o = [kind |-> "stop", side |-> -ex.pos.dir, left |-> Qty]
    BY <1>3, Times DEF Order, OwnOrder
  <2> HIDE DEF p, o
  <2>3. ex' = [ex EXCEPT !.pos = p] /\ mk' = [mk EXCEPT !.own = o, !.notices = q,
                                                       !.disturbed = mk.disturbed]
    BY <1>7, Zenon DEF p, o
  <2>4. ex' \in ExState /\ SameEx(ex, ex') /\ ex'.pos = p
        /\ (ex'.mapped = ex.mapped \/ ex'.mapped = {})
    BY <1>1, <2>1, <2>3, PosStep, Zenon
  <2>5. mk' \in MkState /\ SameMk(mk, mk') /\ mk'.own = o /\ mk'.notices = q
        /\ mk'.disturbed = mk.disturbed
    BY <1>1, <1>2, <2>2, <2>3 DEF MkState, SameMk, Order
  <2>6. mk'.sent = mk.sent /\ mk'.unwinds = mk.unwinds
    BY <2>5 DEF SameMk
  <2>7. Good(ex', mk')
    BY <1>1, <2>1, <2>4, <2>5, <2>6, GoodStep
  <2>8. Base'
    BY <1>4, <2>6, <2>7 DEF Base
  <2>9. ~closes
    BY <1>5, <1>7
  <2> QED
    BY <1>2, <1>4, <2>2, <2>4, <2>5, <2>8, <2>9, Zenon DEF p, q
<1>8. CASE closes /\ /\ ex' = [ex EXCEPT !.pos = [state |-> "FLAT", dir |-> 0], !.mapped = {}]
                     /\ mk' = [mk EXCEPT !.own = NoOrder, !.notices = q,
                                         !.disturbed = mk.disturbed]
  <2> DEFINE p == [state |-> "FLAT", dir |-> 0]
  <2>1. p \in Position /\ p.state = "FLAT" /\ p.dir = 0
    BY DEF Position, PosState
  <2>2. NoOrder \in Order
    BY DEF Order, NoOrder
  <2> HIDE DEF p
  <2>3. ex' = [ex EXCEPT !.pos = p, !.mapped = {}]
    BY <1>8, Zenon DEF p
  <2>4. ex' \in ExState /\ SameEx(ex, ex') /\ ex'.pos = p
        /\ (ex'.mapped = ex.mapped \/ ex'.mapped = {})
    BY <1>1, <2>1, <2>3, PosStep, Zenon
  <2>5. mk' \in MkState /\ SameMk(mk, mk') /\ mk'.own = NoOrder /\ mk'.notices = q
        /\ mk'.disturbed = mk.disturbed
    BY <1>1, <1>2, <1>8, <2>2 DEF MkState, SameMk, Order
  <2>6. mk'.sent = mk.sent /\ mk'.unwinds = mk.unwinds
    BY <2>5 DEF SameMk
  <2>7. Good(ex', mk')
    BY <1>1, <2>1, <2>4, <2>5, <2>6, GoodStep
  <2>8. Base'
    BY <1>4, <2>6, <2>7 DEF Base
  <2>9. ~opens
    BY <1>5, <1>8
  <2> QED
    BY <1>2, <1>4, <2>4, <2>5, <2>8, <2>9, Zenon DEF p, q
<1>9. CASE ~opens /\ ~closes /\ /\ ex' = [ex EXCEPT !.pos = ex.pos]
                                /\ mk' = [mk EXCEPT !.own = mk.own, !.notices = q,
                                                    !.disturbed = mk.disturbed]
  <2>4. ex' \in ExState /\ SameEx(ex, ex') /\ ex'.pos = ex.pos
        /\ (ex'.mapped = ex.mapped \/ ex'.mapped = {})
    BY <1>1, <1>3, <1>9, PosStep, Zenon
  <2>5. mk' \in MkState /\ SameMk(mk, mk') /\ mk'.own = mk.own /\ mk'.notices = q
        /\ mk'.disturbed = mk.disturbed
    BY <1>1, <1>2, <1>3, <1>9 DEF MkState, SameMk, Order
  <2>6. mk'.sent = mk.sent /\ mk'.unwinds = mk.unwinds
    BY <2>5 DEF SameMk
  <2>7. Good(ex', mk')
    BY <1>1, <2>4, <2>5, <2>6, GoodStep
  <2>8. Base'
    BY <1>4, <2>6, <2>7 DEF Base
  <2> QED
    BY <1>2, <1>4, <1>9, <2>4, <2>5, <2>8, Zenon DEF q
<1> QED
  BY <1>6, <1>7, <1>8, <1>9

\* What the unwinds do of themselves: they fill, are rejected, or become known.
LEMMA UnwindSteps ==
    ASSUME Base, FillUnwind \/ RejectUnwind \/ MapUnwind
    PROVE  /\ Base' /\ SameEx(ex, ex') /\ ex'.pos = ex.pos /\ left'.dir = left.dir
           /\ mk'.sent = mk.sent
           /\ (\A i \in Ids : mk.unwinds[i] = 0) =>
                MapUnwind /\ mk' = mk /\ left' = left /\ \E i \in Working(mk) : TRUE
<1>1. /\ Good(ex, mk) /\ ex \in ExState /\ mk \in MkState /\ left \in Scenario
      /\ (ex.pos.state = "FLAT" <=> ex.pos.dir = 0)
      /\ \A i \in Ids : i > mk.sent => mk.unwinds[i] = 0
  BY DEF Base, Good
<1>2. mk.unwinds \in [Ids -> Int] /\ mk.sent \in Nat /\ mk.sent <= MaxUnwinds
  BY <1>1, Fields DEF Base
<1>3. SameEx(ex, ex)
  BY DEF SameEx
<1>4. \A g \in [Ids -> Int], v \in Int : \A j : [g EXCEPT ![j] = v] \in [Ids -> Int]
  BY Zenon
<1>5. \A i \in Working(mk) : i \in Ids /\ mk.unwinds[i] # 0 /\ i <= mk.sent /\ i \in Nat /\ i > 0
  BY <1>1, <1>2, Times DEF Working, Ids
<1>6. CASE FillUnwind
  <2> DEFINE D(i) == IF mk.unwinds[i] > 0 THEN 1 ELSE -1
  <2>1. PICK i \in Working(mk) : mk' = [Moved(mk, D(i)) EXCEPT !.unwinds[i] = @ - D(i)]
    BY <1>6 DEF FillUnwind
  <2> DEFINE m == Moved(mk, D(i))
             u == [mk.unwinds EXCEPT ![i] = mk.unwinds[i] - D(i)]
  <2>2. D(i) \in Int /\ mk.unwinds[i] - D(i) \in Int
    BY <1>2, <1>5
  <2>3. /\ m \in MkState /\ m.unwinds = mk.unwinds /\ m.sent = mk.sent
    <3>1. \A d \in Int : /\ Moved(mk, d) \in MkState /\ Moved(mk, d).unwinds = mk.unwinds
                         /\ Moved(mk, d).sent = mk.sent
      BY <1>1, MovedStep, Zenon
    <3> HIDE DEF D
    <3> QED
      BY <2>2, <3>1
  <2>4. u \in [Ids -> Int]
    BY <1>2, <1>4, <2>2
  <2>5. \A j \in Ids : j > mk.sent => u[j] = 0
    <3> SUFFICES ASSUME NEW j \in Ids, j > mk.sent
                 PROVE  u[j] = 0
      OBVIOUS
    <3>1. j # i
      BY <1>2, <1>5, Times DEF Ids
    <3> QED
      BY <1>1, <1>2, <3>1
  <2>6. mk' = [m EXCEPT !.unwinds = u]
    <3> HIDE DEF m
    <3>1. mk' = [m EXCEPT !.unwinds[i] = @ - D(i)]
      BY <2>1 DEF m
    <3> HIDE DEF D
    <3> QED
      BY <2>3, <3>1 DEF MkState
  <2> HIDE DEF m, u
  <2>7. mk' \in MkState /\ mk'.unwinds = u /\ mk'.sent = mk.sent
    BY <2>3, <2>4, <2>6 DEF MkState
  <2>8. ex' = ex /\ left' = left
    BY <1>6 DEF FillUnwind
  <2>9. Good(ex', mk')
    BY <1>1, <2>5, <2>7, <2>8 DEF Good
  <2>10. ~\A j \in Ids : mk.unwinds[j] = 0
    BY <1>5
  <2> QED
    BY <1>2, <1>3, <2>7, <2>8, <2>9, <2>10, <1>1 DEF Base
<1>7. CASE RejectUnwind
  <2>1. PICK i \in Working(mk) : mk' = [mk EXCEPT !.unwinds[i] = 0]
    BY <1>7 DEF RejectUnwind
  <2> DEFINE u == [mk.unwinds EXCEPT ![i] = 0]
  <2>4. u \in [Ids -> Int]
    BY <1>2, <1>4
  <2>5. \A j \in Ids : j > mk.sent => u[j] = 0
    BY <1>1, <1>2
  <2>6. mk' = [mk EXCEPT !.unwinds = u]
    BY <1>1, <2>1 DEF MkState
  <2> HIDE DEF u
  <2>7. mk' \in MkState /\ mk'.unwinds = u /\ mk'.sent = mk.sent
    BY <1>1, <2>4, <2>6 DEF MkState
  <2>8. ex' = ex /\ left' \in Scenario /\ left'.dir = left.dir
    BY <1>1, <1>7 DEF RejectUnwind, Scenario
  <2>9. Good(ex', mk')
    BY <1>1, <2>5, <2>7, <2>8 DEF Good
  <2>10. ~\A j \in Ids : mk.unwinds[j] = 0
    BY <1>5
  <2> QED
    BY <1>2, <1>3, <2>7, <2>8, <2>9, <2>10 DEF Base
<1>8. CASE MapUnwind
  <2>1. PICK i \in Working(mk) : ex' = [ex EXCEPT !.mapped = ex.mapped \cup {i}]
    BY <1>1, <1>8 DEF MapUnwind, ExState
  <2>2. ex.mapped \cup {i} \in SUBSET Nat
    BY <1>1, <1>5, Fields
  <2> DEFINE s == ex.mapped \cup {i}
  <2> HIDE DEF s
  <2>3. ex' \in ExState /\ SameEx(ex, ex') /\ ex'.mapped = s /\ ex'.pos = ex.pos
    BY <1>1, <2>1, <2>2 DEF ExState, SameEx, s
  <2>4. \A j \in s : j \in 1 .. mk.sent
    BY <1>1, <1>2, <1>5 DEF Good, s
  <2>5. mk' = mk /\ left' = left
    BY <1>8 DEF MapUnwind
  <2>6. Good(ex', mk')
    BY <1>1, <2>3, <2>4, <2>5 DEF Good, SameEx
  <2> QED
    BY <1>1, <1>2, <1>8, <2>1, <2>3, <2>5, <2>6 DEF Base
<1> QED
  BY <1>6, <1>7, <1>8

LEMMA StrayStep ==
    ASSUME Base, Stray
    PROVE  Base' /\ mk'.disturbed /\ mk'.sent = mk.sent
<1>1. /\ Good(ex, mk) /\ ex \in ExState /\ mk \in MkState /\ left \in Scenario
      /\ (ex.pos.state = "FLAT" <=> ex.pos.dir = 0)
  BY DEF Base, Good
<1>2. PICK d \in Strays : mk' = [Moved(mk, d) EXCEPT !.disturbed = TRUE]
  BY DEF Stray
<1>3. d \in Int
  BY StraysAssumption
<1> DEFINE m == Moved(mk, d)
<1>4. m \in MkState /\ m.unwinds = mk.unwinds /\ m.sent = mk.sent
  BY <1>1, <1>3, MovedStep
<1> HIDE DEF m
<1>5. /\ mk' \in MkState /\ mk'.unwinds = mk.unwinds /\ mk'.sent = mk.sent /\ mk'.disturbed
  BY <1>2, <1>4 DEF MkState, m
<1>6. ex' = ex /\ left' \in Scenario
  BY <1>1 DEF Stray, Scenario
<1>7. SameEx(ex, ex)
  BY DEF SameEx
<1>8. Good(ex', mk')
  BY <1>1, <1>5, <1>6, <1>7, GoodStep
<1> QED
  BY <1>5, <1>6, <1>8 DEF Base

-----------------------------------------------------------------------------
(* The two handlers of account updates. *)

\* A second passes for the executor and for what is on its way to it.
AgedEx == [ex EXCEPT !.since = Aged(@, Grace), !.acted = Aged(@, Retry)]
AgedMk == [mk EXCEPT !.reports = Older(@), !.notices = Older(@),
                     !.disturbed = @ \/ PartlyStopped]
Rest == [mk EXCEPT !.reports = Tail(@)]

LEMMA AgedStep ==
    ASSUME Base, InTime, NEW e, e = AgedEx, NEW m, m = AgedMk
    PROVE  /\ Good(e, m) /\ e.since = Aged(ex.since, Grace) /\ e.acted = Aged(ex.acted, Retry)
           /\ Kept(ex, e) /\ e.lastUnwind = ex.lastUnwind /\ e.netHalt = ex.netHalt
           /\ e.halt = ex.halt
           /\ m.net = mk.net /\ m.own = mk.own /\ m.unwinds = mk.unwinds /\ m.sent = mk.sent
           /\ m.reports = Older(mk.reports) /\ m.notices = Older(mk.notices)
           /\ ~m.disturbed => ~mk.disturbed /\ ~PartlyStopped
<1>1. /\ ex \in ExState /\ mk \in MkState
      /\ (ex.since = Never => ex.acted = Never)
  BY DEF Base, Good
<1>2. /\ ex.since \in Age(Grace) /\ ex.acted \in Age(Retry)
      /\ mk.reports \in Seq(Report) /\ mk.notices \in Seq(Notice)
  BY <1>1, Fields
<1>3. Aged(ex.since, Grace) \in Age(Grace) /\ Aged(ex.acted, Retry) \in Age(Retry)
      /\ (Aged(ex.since, Grace) = Never => Aged(ex.acted, Retry) = Never)
  <2>1. Grace \in Nat /\ Retry \in Nat
    BY Times
  <2> QED
    BY <1>1, <1>2, <2>1, AgedType
<1>4. Older(mk.reports) \in Seq(Report) /\ Older(mk.notices) \in Seq(Notice)
  BY <1>2, OlderReports, OlderNotices DEF InTime
<1> DEFINE b == mk.disturbed \/ PartlyStopped
           qr == Older(mk.reports)
           qn == Older(mk.notices)
           a == Aged(ex.since, Grace)
           c == Aged(ex.acted, Retry)
<1>5. b \in BOOLEAN
  BY Zenon
<1>6. e = [ex EXCEPT !.since = a, !.acted = c]
  BY <1>1 DEF AgedEx, ExState
<1>7. m = [mk EXCEPT !.reports = qr, !.notices = qn, !.disturbed = b]
  BY <1>1 DEF AgedMk, MkState
<1> HIDE DEF b, qr, qn, a, c
<1>8. /\ e \in ExState /\ e.since = a /\ e.acted = c
      /\ Kept(ex, e) /\ e.lastUnwind = ex.lastUnwind /\ e.netHalt = ex.netHalt
      /\ e.halt = ex.halt /\ e.mapped = ex.mapped
  BY <1>1, <1>3, <1>6 DEF ExState, Kept, a, c
<1>9. /\ m.net = mk.net /\ m.own = mk.own /\ m.unwinds = mk.unwinds /\ m.sent = mk.sent
      /\ m.reports = qr /\ m.notices = qn /\ m.disturbed = b /\ m \in MkState
  BY <1>1, <1>4, <1>5, <1>7 DEF MkState, qr, qn
<1>10. Good(e, m)
  BY <1>3, <1>8, <1>9 DEF Base, Good, Kept, a, c
<1>11. ~m.disturbed => ~mk.disturbed /\ ~PartlyStopped
  BY <1>9, Zenon DEF b
<1> QED
  BY <1>8, <1>9, <1>10, <1>11 DEF qr, qn, a, c

LEMMA RestStep ==
    ASSUME Base, mk.reports # << >>, NEW m, m = Rest
    PROVE  /\ Good(ex, m) /\ m.reports = Tail(mk.reports)
           /\ m.net = mk.net /\ m.own = mk.own /\ m.unwinds = mk.unwinds /\ m.sent = mk.sent
           /\ m.notices = mk.notices /\ m.disturbed = mk.disturbed
           /\ Head(mk.reports).net \in Int
<1>1. /\ Good(ex, mk) /\ ex \in ExState /\ mk \in MkState
      /\ (ex.pos.state = "FLAT" <=> ex.pos.dir = 0)
  BY DEF Base, Good
<1>2. mk.reports \in Seq(Report)
  BY <1>1, Fields
<1>3. Tail(mk.reports) \in Seq(Report) /\ Head(mk.reports) \in Report
  BY <1>2, TailFacts
<1>4. Head(mk.reports).net \in Int
  BY <1>3 DEF Report
<1> DEFINE q == Tail(mk.reports)
<1>5. m = [mk EXCEPT !.reports = q]
  BY <1>1 DEF Rest, MkState
<1> HIDE DEF q
<1>6. /\ m \in MkState /\ m.reports = q
      /\ m.net = mk.net /\ m.own = mk.own /\ m.unwinds = mk.unwinds /\ m.sent = mk.sent
      /\ m.notices = mk.notices /\ m.disturbed = mk.disturbed
  BY <1>1, <1>3, <1>5 DEF MkState, q
<1>7. SameEx(ex, ex)
  BY DEF SameEx
<1>8. Good(ex, m)
  BY <1>1, <1>6, <1>7, GoodStep
<1> QED
  BY <1>4, <1>6, <1>8 DEF q

\* Whichever way the send goes, an unwind that was sent closes what was reported.
Closing(x) == mk'.sent > mk.sent => Closes(x, x + mk'.unwinds[mk'.sent])

LEMMA HandleStep ==
    ASSUME Base, NEW x \in Int, NEW s, NEW f, NEW slow \in BOOLEAN, Handle(s, f, slow),
           Good(s.e, s.m), Good(f.e, f.m), Sends(mk, s.m, x), f.m.sent = mk.sent
    PROVE  /\ Base' /\ Closing(x) /\ left'.dir = left.dir
           /\ (ex' = s.e /\ mk' = s.m) \/ (ex' = f.e /\ mk' = f.m /\ s.m.sent > mk.sent)
<1>1. mk.sent \in Nat /\ mk.sent <= MaxUnwinds /\ left \in Scenario /\ s.m.sent \in Nat
  BY DEF Base, Good, MkState
<1>2. CASE /\ s.m.sent <= MaxUnwinds
           /\ slow => left.slow > 0
           /\ left' = IF slow THEN [left EXCEPT !.slow = @ - 1] ELSE left
           /\ ex' = s.e /\ mk' = s.m
  <2>1. left' \in Scenario /\ left'.dir = left.dir
    BY <1>1, <1>2 DEF Scenario
  <2>2. Base'
    BY <1>2, <2>1 DEF Base
  <2>3. s.m.sent > mk.sent => s.m.sent \in Ids
    BY <1>1, <1>2, Times DEF Ids
  <2>4. Closing(x)
    BY <1>1, <1>2, <2>3 DEF Sends, Closing
  <2> QED
    BY <1>2, <2>1, <2>2, <2>4
<1>3. CASE /\ s.m.sent > mk.sent /\ left.slow > 0
           /\ left' = [left EXCEPT !.slow = @ - 1]
           /\ ex' = f.e /\ mk' = f.m
  <2>1. left' \in Scenario /\ left'.dir = left.dir
    BY <1>1, <1>3 DEF Scenario
  <2>2. Base'
    BY <1>1, <1>3, <2>1 DEF Base
  <2>3. Closing(x)
    BY <1>1, <1>3 DEF Closing
  <2> QED
    BY <1>3, <2>1, <2>2, <2>3
<1> QED
  BY <1>2, <1>3, Zenon DEF Handle

\* Nothing on the exchange changes but the report that was read.
LEMMA PosUpdateStep ==
    ASSUME Base, HandlePosUpdate, NEW x, x = Head(mk.reports).net
    PROVE  /\ Base' /\ Closing(ex'.lastNet) /\ left'.dir = left.dir
           /\ mk.reports # << >> /\ mk'.reports = Tail(mk.reports) /\ x \in Int
           /\ mk'.net = mk.net /\ mk'.notices = mk.notices /\ mk'.disturbed = mk.disturbed
           /\ ex'.heard /\ ex'.lastNet = x
           /\ (ex.heard \/ x = 0) /\ ex.acted = Never /\ ex.since < Grace /\ ~ex.netHalt =>
                LET c == net_qty_consistent(ex.pos, x) IN
                /\ mk'.own = mk.own /\ mk'.sent = mk.sent /\ mk'.unwinds = mk.unwinds
                /\ ex'.pos = ex.pos /\ ex'.acted = Never
                /\ ex'.since = IF c THEN Never ELSE IF ex.since = Never THEN 0 ELSE ex.since
                /\ ex'.halt \in {ex.halt, "none"} /\ ~ex'.netHalt
                /\ ex.lastUnwind = 0 => ex'.lastUnwind = 0
<1> DEFINE m == Rest
           a == handle_pos_update([e |-> ex, m |-> m], x, TRUE)
           b == handle_pos_update([e |-> ex, m |-> m], x, FALSE)
           c == net_qty_consistent(ex.pos, x)
           calm == (ex.heard \/ x = 0) /\ ex.acted = Never /\ ex.since < Grace /\ ~ex.netHalt
           Quiet(r) == /\ r.m = m /\ r.e.pos = ex.pos /\ r.e.acted = Never
                       /\ r.e.since = IF c THEN Never ELSE IF ex.since = Never THEN 0 ELSE ex.since
                       /\ r.e.halt \in {ex.halt, "none"} /\ ~r.e.netHalt
                       /\ ex.lastUnwind = 0 => r.e.lastUnwind = 0
<1>1. mk.reports # << >> /\ Handle(a, b, FALSE)
  BY Zenon DEF HandlePosUpdate, Rest
<1> HIDE DEF m
<1>2. /\ Good(ex, m) /\ m.reports = Tail(mk.reports)
      /\ m.net = mk.net /\ m.own = mk.own /\ m.unwinds = mk.unwinds /\ m.sent = mk.sent
      /\ m.notices = mk.notices /\ m.disturbed = mk.disturbed /\ x \in Int
  BY <1>1, RestStep DEF m
<1>3. ASSUME NEW ok \in BOOLEAN, NEW r, r = handle_pos_update([e |-> ex, m |-> m], x, ok)
      PROVE  /\ Good(r.e, r.m) /\ Left(m, r.m) /\ Sends(m, r.m, x)
             /\ r.e.heard /\ r.e.lastNet = x /\ (~ok => r.m.sent = m.sent)
             /\ calm => Quiet(r)
  BY <1>2, <1>3, UpdateStep
<1> HIDE DEF calm, Quiet
<1>4. TRUE \in BOOLEAN /\ FALSE \in BOOLEAN
  BY Zenon
<1>5. /\ Good(a.e, a.m) /\ Left(m, a.m) /\ Sends(m, a.m, x)
      /\ a.e.heard /\ a.e.lastNet = x /\ (calm => Quiet(a))
  BY <1>3, <1>4, Zenon
<1>6. /\ Good(b.e, b.m) /\ Left(m, b.m) /\ b.m.sent = m.sent
      /\ b.e.heard /\ b.e.lastNet = x /\ (calm => Quiet(b))
  BY <1>3, <1>4, Zenon
<1> HIDE DEF a, b, c
<1>7. Sends(mk, a.m, x) /\ b.m.sent = mk.sent
  BY <1>2, <1>5, <1>6 DEF Sends
<1>8. /\ Base' /\ Closing(x) /\ left'.dir = left.dir
      /\ (ex' = a.e /\ mk' = a.m) \/ (ex' = b.e /\ mk' = b.m)
  <2>1. Base /\ x \in Int
    BY <1>2
  <2> QED
    BY <1>1, <1>4, <1>5, <1>6, <1>7, <2>1, HandleStep, Zenon
<1>9. /\ ex'.heard /\ ex'.lastNet = x /\ Left(m, mk')
      /\ calm => Quiet([e |-> ex', m |-> mk'])
  <2>1. \A r : Quiet(r) => Quiet([e |-> r.e, m |-> r.m])
    BY DEF Quiet
  <2>2. calm => Quiet([e |-> a.e, m |-> a.m]) /\ Quiet([e |-> b.e, m |-> b.m])
    BY <1>5, <1>6, <2>1
  <2> QED
    BY <1>5, <1>6, <1>8, <2>2
<1>10. calm => /\ mk' = m /\ ex'.pos = ex.pos /\ ex'.acted = Never
               /\ ex'.since = IF c THEN Never ELSE IF ex.since = Never THEN 0 ELSE ex.since
               /\ ex'.halt \in {ex.halt, "none"} /\ ~ex'.netHalt
               /\ ex.lastUnwind = 0 => ex'.lastUnwind = 0
  BY <1>9 DEF Quiet
<1> QED
  BY <1>1, <1>2, <1>8, <1>9, <1>10 DEF Left, calm, c

\* Nothing on the exchange changes but the age of what is on its way.
LEMMA EodStep ==
    ASSUME Base, EodTick
    PROVE  /\ Base' /\ Closing(ex'.lastNet) /\ left'.dir = left.dir /\ InTime
           /\ mk'.reports = Older(mk.reports) /\ mk'.notices = Older(mk.notices)
           /\ mk'.net = mk.net /\ (~mk'.disturbed => ~mk.disturbed /\ ~PartlyStopped)
           /\ ex'.heard = ex.heard /\ ex'.lastNet = ex.lastNet
           /\ LET c == net_qty_consistent(ex.pos, ex.lastNet)
                  a == Aged(ex.since, Grace) IN
              ex.acted = Never /\ ~ex.netHalt /\ (~ex.heard \/ c \/ a < Grace) =>
                /\ mk'.own = mk.own /\ mk'.sent = mk.sent /\ mk'.unwinds = mk.unwinds
                /\ ex'.pos = ex.pos /\ ex'.acted = Never
                /\ ex'.since = IF ex.heard /\ ~c /\ a = Never THEN 0 ELSE a
                /\ ex'.halt = ex.halt /\ ~ex'.netHalt
                /\ ex.lastUnwind = 0 => ex'.lastUnwind = 0
<1> DEFINE e == AgedEx
           m == AgedMk
           x == ex.lastNet
           c == net_qty_consistent(ex.pos, x)
           a == Aged(ex.since, Grace)
           s == [e |-> e, m |-> m]
           yes == reconcile_net(s, x, FALSE, TRUE)
           no == reconcile_net(s, x, FALSE, FALSE)
           calm == ex.acted = Never /\ ~ex.netHalt /\ (~ex.heard \/ c \/ a < Grace)
           Quiet(r) == /\ r.m = m /\ r.e.pos = ex.pos /\ r.e.acted = Never
                       /\ r.e.since = IF ex.heard /\ ~c /\ a = Never THEN 0 ELSE a
                       /\ r.e.halt = ex.halt /\ ~r.e.netHalt
                       /\ ex.lastUnwind = 0 => r.e.lastUnwind = 0
           Fine(r) == /\ Good(r.e, r.m) /\ Left(m, r.m) /\ Sends(m, r.m, x)
                      /\ r.e.heard = ex.heard /\ r.e.lastNet = ex.lastNet
                      /\ calm => Quiet(r)
<1>1. InTime /\ IF ex.heard /\ ~c THEN Handle(yes, no, RestsUntilRetry)
                                  ELSE Handle(s, s, RestsUntilRetry)
  BY Zenon DEF EodTick, AgedEx, AgedMk
<1>2. ex \in ExState /\ mk \in MkState /\ x \in Int /\ ex.since \in Age(Grace)
      /\ ex.acted \in Age(Retry)
  BY Fields DEF Base, Good
<1>3. c \in BOOLEAN
  BY <1>2, Consistent
<1> HIDE DEF e, m, c
<1>4. /\ Good(e, m) /\ e.since = a /\ e.acted = Aged(ex.acted, Retry)
      /\ Kept(ex, e) /\ e.lastUnwind = ex.lastUnwind /\ e.netHalt = ex.netHalt
      /\ e.halt = ex.halt
      /\ m.net = mk.net /\ m.own = mk.own /\ m.unwinds = mk.unwinds /\ m.sent = mk.sent
      /\ m.reports = Older(mk.reports) /\ m.notices = Older(mk.notices)
      /\ ~m.disturbed => ~mk.disturbed /\ ~PartlyStopped
  BY <1>1, AgedStep DEF e, m
<1>5. ex.acted = Never => e.acted = Never
  BY <1>2, <1>4, AgedType, Times
<1>6. a \in Age(Grace)
  BY <1>2, AgedType, Times
<1> HIDE DEF a, x
<1>7. ASSUME NEW k \in BOOLEAN, NEW ok \in BOOLEAN, NEW r,
             r = reconcile_net([e |-> e, m |-> m], x, k, ok), ~k, ex.heard, ~c
      PROVE  Fine(r) /\ (~ok => r.m.sent = m.sent)
  <2>1. /\ Step(e, m, r.e, r.m, x) /\ (~ok => r.m.sent = m.sent)
        /\ k \/ e.acted = 0 \/ (e.acted = Never /\ e.since < Grace) =>
             /\ r.m = m /\ r.e.pos = e.pos
             /\ r.e.acted = IF k THEN Never ELSE e.acted
             /\ r.e.since = IF k THEN Never ELSE IF e.since = Never THEN 0 ELSE e.since
             /\ ~e.netHalt => r.e.halt = e.halt /\ ~r.e.netHalt
             /\ e.lastUnwind = 0 => r.e.lastUnwind = 0
    BY <1>2, <1>4, <1>7, ReconcileStep
  <2>2. ASSUME calm PROVE Quiet(r)
    <3>1. e.acted = Never /\ e.since < Grace /\ ~e.netHalt
      BY <1>4, <1>5, <1>7, <2>2
    <3> QED
      BY <1>4, <1>7, <2>1, <3>1 DEF Kept
  <2> HIDE DEF calm, Quiet
  <2> QED
    BY <1>4, <2>1, <2>2 DEF Step, Kept
<1>8. ~(ex.heard /\ ~c) => Fine(s) /\ s.m.sent = m.sent
  <2>1. s.e = e /\ s.m = m
    OBVIOUS
  <2>2. ASSUME calm, ~(ex.heard /\ ~c) PROVE Quiet(s)
    BY <1>4, <1>5, <2>1, <2>2 DEF Kept
  <2> HIDE DEF calm, Quiet
  <2> QED
    BY <1>4, <2>1, <2>2 DEF Kept, Left, Sends
<1>9. TRUE \in BOOLEAN /\ FALSE \in BOOLEAN /\ ~FALSE /\ RestsUntilRetry \in BOOLEAN
  BY Zenon DEF RestsUntilRetry
<1> HIDE DEF Fine
<1>10. ex.heard /\ ~c => Fine(yes) /\ Fine(no) /\ no.m.sent = m.sent
  BY <1>7, <1>9, Zenon
<1> HIDE DEF yes, no, s, calm, Quiet
<1>11. \A r : Fine(r) => Good(r.e, r.m) /\ Sends(mk, r.m, x)
  BY <1>4 DEF Fine, Sends
<1>12. PICK r : /\ Fine(r) /\ ex' = r.e /\ mk' = r.m /\ Base' /\ Closing(x)
                /\ left'.dir = left.dir
  <2>1. CASE ex.heard /\ ~c
    <3>1. Handle(yes, no, RestsUntilRetry)
      BY <1>1, <2>1
    <3>2. /\ Good(yes.e, yes.m) /\ Good(no.e, no.m) /\ Sends(mk, yes.m, x)
          /\ no.m.sent = mk.sent /\ Fine(yes) /\ Fine(no)
      BY <1>4, <1>10, <1>11, <2>1
    <3>3. /\ Base' /\ Closing(x) /\ left'.dir = left.dir
          /\ (ex' = yes.e /\ mk' = yes.m) \/ (ex' = no.e /\ mk' = no.m)
      BY <1>2, <1>9, <3>1, <3>2, HandleStep, Zenon
    <3> QED
      BY <3>2, <3>3, Zenon
  <2>2. CASE ~(ex.heard /\ ~c)
    <3>1. Handle(s, s, RestsUntilRetry)
      BY <1>1, <2>2
    <3>2. Good(s.e, s.m) /\ Sends(mk, s.m, x) /\ s.m.sent = mk.sent /\ Fine(s)
      BY <1>4, <1>8, <1>11, <2>2
    <3>3. Base' /\ Closing(x) /\ left'.dir = left.dir /\ ex' = s.e /\ mk' = s.m
      BY <1>2, <1>9, <3>1, <3>2, HandleStep, Zenon
    <3> QED
      BY <3>2, <3>3, Zenon
  <2> QED
    BY <2>1, <2>2
<1>13. /\ Left(m, mk') /\ ex'.heard = ex.heard /\ ex'.lastNet = ex.lastNet
       /\ calm => Quiet(r)
  BY <1>12 DEF Fine
<1>14. calm => /\ mk' = m /\ ex'.pos = ex.pos /\ ex'.acted = Never
               /\ ex'.since = IF ex.heard /\ ~c /\ a = Never THEN 0 ELSE a
               /\ ex'.halt = ex.halt /\ ~ex'.netHalt
               /\ ex.lastUnwind = 0 => ex'.lastUnwind = 0
  BY <1>12, <1>13 DEF Quiet
<1>15. Closing(ex'.lastNet)
  BY <1>12, <1>13, Zenon DEF x
<1> QED
  BY <1>1, <1>4, <1>12, <1>13, <1>14, <1>15 DEF Left, calm, c, a, x

-----------------------------------------------------------------------------
(* The type, and the unwind that never passes zero. *)

LEMMA BaseInit == Init => Base
<1> SUFFICES ASSUME Init PROVE Base
  OBVIOUS
<1>1. left \in Scenario /\ left.ghost \in Int
  BY ScenariosAssumption DEF Init, Scenario
<1> DEFINE rep == [net |-> left.ghost, age |-> 0]
           q == <<rep>>
           u == [i \in Ids |-> 0]
           b == left.ghost # 0
           p == [state |-> "FLAT", dir |-> 0]
<1>2. rep \in Report
  BY <1>1, Times DEF Report
<1>3. u \in [Ids -> Int] /\ \A i \in Ids : u[i] = 0
  OBVIOUS
<1>4. p \in Position /\ p.state = "FLAT" /\ p.dir = 0 /\ NoOrder \in Order
  BY DEF Position, PosState, NoOrder, Order
<1>5. b \in BOOLEAN
  BY Zenon
<1> HIDE DEF rep
<1>6. q \in Seq(Report) /\ << >> \in Seq(Notice)
  BY <1>2
<1>7. mk = [net |-> left.ghost, own |-> NoOrder, unwinds |-> u, sent |-> 0,
            reports |-> q, notices |-> << >>, disturbed |-> b]
  BY DEF Init, rep
<1>8. PICK h \in {"none", "startup"} :
        ex = [pos |-> p, since |-> Never, acted |-> Never, heard |-> FALSE, lastNet |-> 0,
              lastUnwind |-> 0, netHalt |-> FALSE, halt |-> h, mapped |-> {}]
  BY DEF Init
<1>9. {} \in SUBSET Nat /\ h \in Reasons
  BY DEF Reasons
<1> HIDE DEF q, u, b, p
<1>10. mk \in MkState /\ mk.sent = 0 /\ mk.unwinds = u
  BY <1>1, <1>3, <1>4, <1>5, <1>6, <1>7 DEF MkState, Order
<1>11. ex \in ExState /\ ex.pos = p /\ ex.acted = Never /\ ex.lastUnwind = 0 /\ ex.mapped = {}
  BY <1>4, <1>8, <1>9, Times DEF ExState, Position
<1>12. Good(ex, mk)
  BY <1>3, <1>4, <1>10, <1>11 DEF Good
<1> QED
  BY <1>1, <1>10, <1>12, Times DEF Base

LEMMA BaseNext ==
    ASSUME Base, Next
    PROVE  Base' /\ Closing(ex'.lastNet)
<1>0. mk.sent \in Nat
  BY DEF Base, Good, MkState
<1>1. CASE OnSignal
  BY <1>0, <1>1, OnSignalStep DEF Closing, SameMk
<1>2. CASE InitiateExit
  BY <1>0, <1>2, InitiateExitStep DEF Closing, SameMk
<1>3. CASE FillOwn
  BY <1>0, <1>3, FillOwnStep DEF Closing
<1>4. CASE DeliverNotice
  BY <1>0, <1>4, DeliverNoticeStep DEF Closing, SameMk
<1>5. CASE Stray
  BY <1>0, <1>5, StrayStep DEF Closing
<1>6. CASE FillUnwind \/ RejectUnwind \/ MapUnwind
  BY <1>0, <1>6, UnwindSteps DEF Closing
<1>7. CASE HandlePosUpdate
  BY <1>7, PosUpdateStep
<1>8. CASE EodTick
  BY <1>8, EodStep
<1> QED
  BY <1>1, <1>2, <1>3, <1>4, <1>5, <1>6, <1>7, <1>8 DEF Next

LEMMA BaseStutter == Base /\ UNCHANGED vars => Base'
BY DEF Base, vars

\* The state of the reconciler, of the unwinds and of their server ids is what
\* TypeOK says, however often it acts, fails to send, retries and forgets.
THEOREM ReconcilerTypes == Spec => []TypeOK
<1>1. Base => TypeOK
  <2> SUFFICES ASSUME Base PROVE TypeOK
    OBVIOUS
  <2>1. /\ ex \in ExState /\ mk \in MkState
        /\ (ex.pos.state = "FLAT" <=> ex.pos.dir = 0)
        /\ (ex.since = Never => ex.acted = Never)
        /\ ex.lastUnwind <= mk.sent
        /\ (\A i \in ex.mapped : i \in 1 .. mk.sent)
        /\ (\A i \in Ids : i > mk.sent => mk.unwinds[i] = 0)
        /\ mk.sent <= MaxUnwinds
    BY DEF Base, Good
  <2>2. /\ ex.pos.state \in PosState /\ ex.pos.dir \in -1 .. 1
        /\ ex.since \in Age(Grace) /\ ex.acted \in Age(Retry)
        /\ ex.lastUnwind \in Nat /\ ex.halt \in Reasons /\ mk.sent \in Nat
    BY <2>1, Fields
  <2>3. ex.lastUnwind \in 0 .. mk.sent /\ mk.sent \in 0 .. MaxUnwinds
    BY <2>1, <2>2, Times
  <2>4. ex.mapped \subseteq 1 .. mk.sent
    BY <2>1
  <2> QED
    BY <2>1, <2>2, <2>3, <2>4 DEF TypeOK, Reasons
<1>2. Base /\ [Next]_vars => Base'
  BY BaseNext, BaseStutter
<1> QED
  BY BaseInit, <1>1, <1>2, PTL DEF Spec

\* "close whatever is left and ADOPT flat - never re-enter to match our book"
\* (notification_router.hpp:74-76): whatever net position is reported, and whatever
\* the order manager holds, an unwind reconcile_net or the snapshot sends moves the
\* reported position towards zero and never past it.
THEOREM UnwindsOnlyClose == Spec => UnwindsCloseWhatWasReported
<1>1. Base /\ [Next]_vars => Base'
  BY BaseNext, BaseStutter
<1>2. Base /\ [Next]_vars =>
        [mk'.sent > mk.sent =>
           LET x == ex'.lastNet
               y == x + mk'.unwinds[mk'.sent] IN
           Abs(y) < Abs(x) /\ (x > 0 => y >= 0) /\ (x < 0 => y <= 0)]_vars
  <2> SUFFICES ASSUME Base, Next
               PROVE  Closing(ex'.lastNet)
    BY DEF Closing, Closes
  <2> QED
    BY BaseNext
<1> QED
  BY BaseInit, <1>1, <1>2, PTL DEF Spec, UnwindsCloseWhatWasReported

-----------------------------------------------------------------------------
(* No false alarm.  While nobody else trades, the net position walks between flat *)
(* and the whole trade, and what the reconciler last heard is a place it has been. *)

At(d, n) == IF d > 0 THEN n ELSE 0 - n
Within(d, x) == IF d > 0 THEN 0 <= x /\ x <= Qty ELSE -Qty <= x /\ x <= 0
Newest(q) == q[Len(q)]

Quiet(e, m) == /\ m.sent = 0 /\ e.acted = Never /\ ~e.netHalt /\ e.lastUnwind = 0
               /\ e.halt \in {"none", "startup"}

Walk(e, m, d) ==
    /\ Within(d, e.lastNet)
    /\ \A k \in DOMAIN m.reports : Within(d, m.reports[k].net)
    /\ m.reports = << >> => e.lastNet = m.net
    /\ m.reports # << >> => Newest(m.reports).net = m.net
    /\ ~e.heard => m.reports # << >> /\ Head(m.reports).net = 0

\* The notice of an order is on its way exactly when all of it has filled.
Working1(m, kind, side) ==
    /\ m.own.kind = kind /\ m.own.side = side /\ m.own.left <= Qty
    /\ m.own.left # 0 => m.notices = << >>
    /\ m.own.left = 0 => Len(m.notices) = 1 /\ m.notices[1].kind = kind

\* The mismatch of a position that has closed began before its last fill, and not
\* longer than a delivery before.
Ending(e, m) == /\ e.since <= m.notices[1].age + Lag
                /\ m.reports # << >> => Newest(m.reports).age = m.notices[1].age

\* A mismatch of a flat executor ends with the newest report.
Idle(e, m) == /\ m.own.left = 0 /\ m.net = 0 /\ m.notices = << >>
              /\ m.reports # << >> => e.since <= Newest(m.reports).age + Lag

Entering(e, m, d) == /\ Working1(m, "entry", d) /\ m.net = At(d, Qty - m.own.left)
                     /\ e.since = Never

\* A mismatch of a whole position ends with the newest report, of an exit with any.
Holding(e, m, d) ==
    /\ Working1(m, "stop", -d) /\ m.net = At(d, m.own.left)
    /\ m.own.left = Qty /\ m.reports = << >> => e.since = Never
    /\ m.own.left = Qty /\ m.reports # << >> => e.since <= Newest(m.reports).age
    /\ m.own.left \in 1 .. Qty - 1 => e.since <= Lag
    /\ m.own.left = 0 => Ending(e, m)

Leaving(e, m, d) ==
    /\ Working1(m, "exit", -d) /\ m.net = At(d, m.own.left)
    /\ m.own.left # 0 => e.since = Never \/ \E k \in DOMAIN m.reports : e.since <= m.reports[k].age
    /\ m.own.left = 0 => Ending(e, m)

Phase(e, m, d) ==
    /\ e.pos.state # "FLAT" => e.pos.dir = d
    /\ e.pos.state = "FLAT" => Idle(e, m)
    /\ e.pos.state = "PENDING_ENTRY" => Entering(e, m, d)
    /\ e.pos.state \in {"LONG", "SHORT"} => Holding(e, m, d)
    /\ e.pos.state = "PENDING_EXIT" => Leaving(e, m, d)

CalmAt(e, m, d) == Quiet(e, m) /\ Walk(e, m, d) /\ Phase(e, m, d)

Calm == ~mk.disturbed => CalmAt(ex, mk, left.dir)

LEMMA AtFacts ==
    ASSUME NEW d \in {-1, 1}, NEW n \in Int
    PROVE  /\ At(d, n) \in Int /\ At(d, n + 1) = At(d, n) + d /\ At(d, 0) = 0
           /\ 0 <= n /\ n <= Qty => Within(d, At(d, n))
<1>1. CASE d = 1
  BY <1>1, Times DEF At, Within
<1>2. CASE d = -1
  <2>1. ~(d > 0) /\ Qty \in Nat
    BY <1>2, Times
  <2>2. At(d, n) = 0 - n /\ At(d, n + 1) = 0 - (n + 1) /\ At(d, 0) = 0 - 0
    BY <2>1 DEF At
  <2>3. 0 <= n /\ n <= Qty => Within(d, 0 - n)
    BY <2>1 DEF Within
  <2>4. 0 - 0 = 0 /\ 0 - (n + 1) = (0 - n) + d
    BY <1>2
  <2> QED
    BY <2>2, <2>3, <2>4
<1> QED
  BY <1>1, <1>2

LEMMA NewestAppend ==
    ASSUME NEW q \in Seq(Report), NEW r \in Report
    PROVE  /\ Append(q, r) # << >> /\ Newest(Append(q, r)) = r
           /\ \A k \in DOMAIN Append(q, r) : Append(q, r)[k] = r \/ \E j \in DOMAIN q : Append(q, r)[k] = q[j]
           /\ q # << >> => Head(Append(q, r)) = Head(q)
<1>1. /\ Append(q, r) \in Seq(Report) /\ Append(q, r) # << >>
      /\ Len(Append(q, r)) = Len(q) + 1 /\ Append(q, r)[Len(q) + 1] = r
      /\ \A k \in 1 .. Len(q) : Append(q, r)[k] = q[k]
      /\ DOMAIN Append(q, r) = 1 .. Len(q) + 1 /\ DOMAIN q = 1 .. Len(q) /\ Len(q) \in Nat
  BY AppendFacts
<1>2. \A k \in DOMAIN Append(q, r) : k = Len(q) + 1 \/ k \in 1 .. Len(q)
  BY <1>1
<1>3. q # << >> => Head(Append(q, r)) = Head(q)
  OBVIOUS
<1> QED
  BY <1>1, <1>2, <1>3 DEF Newest

LEMMA NewestTail ==
    ASSUME NEW q \in Seq(Report), q # << >>
    PROVE  /\ Tail(q) # << >> => Newest(Tail(q)) = Newest(q)
           /\ Tail(q) = << >> => Head(q) = Newest(q)
           /\ \A k \in DOMAIN Tail(q) : \E j \in DOMAIN q : Tail(q)[k] = q[j]
           /\ \E j \in DOMAIN q : Head(q) = q[j]
<1>1. /\ Tail(q) \in Seq(Report) /\ Len(Tail(q)) = Len(q) - 1 /\ Len(q) \in Nat \ {0}
      /\ Head(q) = q[1] /\ Head(q) \in Report
      /\ DOMAIN Tail(q) = 1 .. Len(q) - 1 /\ DOMAIN q = 1 .. Len(q)
      /\ \A k \in 1 .. Len(q) - 1 : Tail(q)[k] = q[k + 1]
      /\ Tail(q) # << >> => Len(q) > 1
  BY TailFacts
<1>2. ASSUME Tail(q) # << >> PROVE Newest(Tail(q)) = Newest(q)
  <2>1. Len(q) - 1 \in 1 .. Len(q) - 1 /\ (Len(q) - 1) + 1 = Len(q)
    BY <1>1, <1>2
  <2> QED
    BY <1>1, <2>1 DEF Newest
<1>3. ASSUME Tail(q) = << >> PROVE Head(q) = Newest(q)
  <2>1. Len(q) = 1
    BY <1>1, <1>3
  <2> QED
    BY <1>1, <2>1 DEF Newest
<1>4. \A k \in DOMAIN Tail(q) : k + 1 \in DOMAIN q /\ Tail(q)[k] = q[k + 1]
  BY <1>1
<1>5. 1 \in DOMAIN q
  BY <1>1
<1> QED
  BY <1>1, <1>2, <1>3, <1>4, <1>5

LEMMA NewestOlder ==
    ASSUME NEW q \in Seq(Report), q # << >>, \A k \in DOMAIN q : q[k].age < Lag
    PROVE  /\ Newest(Older(q)).age = Newest(q).age + 1 /\ Newest(Older(q)).net = Newest(q).net
           /\ Newest(q).age < Lag /\ Head(Older(q)).net = Head(q).net
<1>1. /\ Older(q) \in Seq(Report) /\ Len(Older(q)) = Len(q) /\ DOMAIN Older(q) = DOMAIN q
      /\ DOMAIN q = 1 .. Len(q) /\ Len(q) \in Nat /\ (Older(q) = << >> <=> q = << >>)
      /\ \A k \in DOMAIN q : Older(q)[k].net = q[k].net /\ Older(q)[k].age = q[k].age + 1
  BY OlderReports
<1>2. Len(q) \in DOMAIN q /\ 1 \in DOMAIN q
  BY <1>1
<1>3. Head(Older(q)) = Older(q)[1] /\ Head(q) = q[1]
  BY <1>1, TailFacts
<1> QED
  BY <1>1, <1>2, <1>3 DEF Newest

\* What the queues hold.
LEMMA QueueFacts ==
    ASSUME NEW m \in MkState
    PROVE  /\ \A k \in DOMAIN m.reports : m.reports[k].net \in Int /\ m.reports[k].age \in 0 .. Lag
           /\ m.reports # << >> => Newest(m.reports).net \in Int /\ Newest(m.reports).age \in 0 .. Lag
           /\ Len(m.notices) = 1 => m.notices[1].age \in 0 .. Lag
<1>1. m.reports \in Seq(Report) /\ m.notices \in Seq(Notice)
  BY Fields DEF MkState
<1>2. \A r \in Report : r.net \in Int /\ r.age \in 0 .. Lag
  BY DEF Report
<1>3. \A k \in DOMAIN m.reports : m.reports[k] \in Report
  BY <1>1
<1>4. m.reports # << >> => Len(m.reports) \in DOMAIN m.reports
  BY <1>1
<1>5. Len(m.notices) = 1 => m.notices[1] \in Notice
  BY <1>1
<1>6. \A r \in Notice : r.age \in 0 .. Lag
  BY DEF Notice
<1> QED
  BY <1>2, <1>3, <1>4, <1>5, <1>6 DEF Newest

LEMMA CalmConsistent ==
    ASSUME NEW e \in ExState, NEW d \in {-1, 1}, NEW x \in Int
    PROVE  LET c == net_qty_consistent(e.pos, x) IN
           /\ c \in BOOLEAN
           /\ e.pos.state = "FLAT" => (c <=> x = 0)
           /\ e.pos.dir = d /\ e.pos.state \in {"LONG", "SHORT"} => (c <=> x = At(d, Qty))
           /\ e.pos.dir = d /\ e.pos.state \in {"PENDING_ENTRY", "PENDING_EXIT"} =>
                (c <=> Within(d, x))
<1> DEFINE c == net_qty_consistent(e.pos, x)
<1>1. /\ c \in BOOLEAN
      /\ e.pos.state = "FLAT" => (c <=> x = 0)
      /\ e.pos.state \in {"LONG", "SHORT"} => (c <=> x = e.pos.dir * Qty)
      /\ e.pos.state \in {"PENDING_ENTRY", "PENDING_EXIT"} =>
           (c <=> IF e.pos.dir * Qty >= 0 THEN 0 <= x /\ x <= e.pos.dir * Qty
                                          ELSE e.pos.dir * Qty <= x /\ x <= 0)
  BY Consistent
<1>2. d * Qty = At(d, Qty)
  <2>1. CASE d = 1
    BY <2>1, Times DEF At
  <2>2. CASE d = -1
    BY <2>2, Times DEF At
  <2> QED
    BY <2>1, <2>2
<1>3. Within(d, x) <=> IF At(d, Qty) >= 0 THEN 0 <= x /\ x <= At(d, Qty)
                                          ELSE At(d, Qty) <= x /\ x <= 0
  BY Times DEF Within, At
<1> HIDE DEF c
<1> QED
  BY <1>1, <1>2, <1>3 DEF c

\* The types a calm state needs, in one place.
LEMMA CalmTypes ==
    ASSUME Base
    PROVE  /\ ex \in ExState /\ mk \in MkState /\ left.dir \in {-1, 1}
           /\ ex.pos.state \in PosState /\ ex.pos.dir \in -1 .. 1
           /\ ex.since \in Int /\ ex.since >= Never /\ ex.since <= Grace
           /\ ex.since \in Age(Grace) /\ ex.lastNet \in Int
           /\ mk.net \in Int /\ mk.own.left \in Nat /\ mk.own.side \in -1 .. 1
           /\ mk.own.kind \in {"none", "entry", "stop", "exit"}
           /\ mk.reports \in Seq(Report) /\ mk.notices \in Seq(Notice)
<1>1. ex \in ExState /\ mk \in MkState /\ left.dir \in {-1, 1}
  BY DEF Base, Good, Scenario
<1>2. ex.since \in Age(Grace)
  BY <1>1, Fields
<1>3. ex.since \in Int /\ ex.since >= Never /\ ex.since <= Grace
  BY <1>2, Times DEF Age
<1> QED
  BY <1>1, <1>2, <1>3, Fields

LEMMA CalmInit == Init => Calm
<1> SUFFICES ASSUME Init, ~mk.disturbed PROVE CalmAt(ex, mk, left.dir)
  BY DEF Calm
<1>1. left \in Scenario /\ left.ghost \in Int /\ left.dir \in {-1, 1}
  BY ScenariosAssumption DEF Init, Scenario
<1> DEFINE rep == [net |-> left.ghost, age |-> 0]
<1>2. /\ mk.net = left.ghost /\ mk.own = NoOrder /\ mk.sent = 0 /\ mk.reports = <<rep>>
      /\ mk.notices = << >> /\ mk.disturbed = (left.ghost # 0)
  BY DEF Init
<1>3. left.ghost = 0
  BY <1>2
<1>4. /\ ex.pos = [state |-> "FLAT", dir |-> 0] /\ ex.since = Never /\ ex.acted = Never
      /\ ~ex.heard /\ ex.lastNet = 0 /\ ex.lastUnwind = 0 /\ ~ex.netHalt
      /\ ex.halt \in {"none", "startup"}
  BY DEF Init
<1>5. rep.net = 0 /\ rep.age = 0 /\ rep \in Report
  BY <1>3, Times DEF Report
<1> HIDE DEF rep
<1>6. /\ mk.reports # << >> /\ Newest(mk.reports) = rep /\ Head(mk.reports) = rep
      /\ \A k \in DOMAIN mk.reports : mk.reports[k] = rep
  BY <1>2, <1>5 DEF Newest
<1>7. Quiet(ex, mk)
  BY <1>2, <1>4 DEF Quiet
<1>8. Walk(ex, mk, left.dir)
  <2>1. Within(left.dir, 0)
    BY <1>1, Times DEF Within
  <2> QED
    BY <1>2, <1>3, <1>4, <1>5, <1>6, <2>1 DEF Walk
<1>9. Idle(ex, mk)
  <2>1. mk.own.left = 0
    BY <1>2 DEF NoOrder
  <2> QED
    BY <1>2, <1>3, <1>4, <1>5, <1>6, <2>1, Times DEF Idle
<1>10. ex.pos.state = "FLAT"
  BY <1>4
<1> QED
  BY <1>7, <1>8, <1>9, <1>10 DEF CalmAt, Phase

\* Walk only reads what SameEx and SameMk keep.
LEMMA WalkKept ==
    ASSUME NEW e, NEW f, NEW m, NEW n, NEW d, SameEx(e, f), SameMk(m, n)
    PROVE  (Walk(e, m, d) => Walk(f, n, d)) /\ (Quiet(e, m) => Quiet(f, n))
BY DEF SameEx, SameMk, Walk, Quiet

LEMMA CalmOnSignal ==
    ASSUME Base, Calm, OnSignal
    PROVE  Calm'
<1> SUFFICES ASSUME ~mk'.disturbed PROVE CalmAt(ex', mk', left'.dir)
  BY DEF Calm
<1>1. /\ Base' /\ SameEx(ex, ex') /\ SameMk(mk, mk') /\ mk'.notices = mk.notices
      /\ ex.pos.state = "FLAT" /\ ex'.pos = [state |-> "PENDING_ENTRY", dir |-> left.dir]
      /\ mk'.own = [kind |-> "entry", side |-> left.dir, left |-> Qty]
      /\ ~mk.disturbed /\ ex.since = Never /\ left'.dir = left.dir
  BY OnSignalStep
<1>2. CalmAt(ex, mk, left.dir) /\ Idle(ex, mk)
  BY <1>1 DEF Calm, CalmAt, Phase
<1>3. Quiet(ex', mk') /\ Walk(ex', mk', left.dir)
  BY <1>1, <1>2, WalkKept DEF CalmAt
<1>4. /\ mk'.own.kind = "entry" /\ mk'.own.side = left.dir /\ mk'.own.left = Qty
      /\ ex'.pos.state = "PENDING_ENTRY" /\ ex'.pos.dir = left.dir
  BY <1>1
<1>5. Entering(ex', mk', left.dir)
  <2>1. Working1(mk', "entry", left.dir)
    BY <1>1, <1>2, <1>4, Times DEF Working1, Idle
  <2>2. mk'.net = At(left.dir, Qty - mk'.own.left)
    BY <1>1, <1>2, <1>4, Times DEF SameMk, Idle, At
  <2> QED
    BY <1>1, <2>1, <2>2 DEF Entering, SameEx
<1>6. Phase(ex', mk', left.dir)
  BY <1>4, <1>5 DEF Phase
<1> QED
  BY <1>1, <1>3, <1>6 DEF CalmAt

LEMMA CalmInitiateExit ==
    ASSUME Base, Calm, InitiateExit
    PROVE  Calm'
<1> SUFFICES ASSUME ~mk'.disturbed PROVE CalmAt(ex', mk', left'.dir)
  BY DEF Calm
<1> DEFINE d == left.dir
<1>1. /\ Base' /\ SameEx(ex, ex') /\ SameMk(mk, mk') /\ mk'.notices = mk.notices
      /\ ex.pos.state \in {"LONG", "SHORT"} /\ ex'.pos.state = "PENDING_EXIT"
      /\ ex'.pos.dir = ex.pos.dir
      /\ mk'.own = [kind |-> "exit", side |-> -ex.pos.dir, left |-> Qty]
      /\ ~mk.disturbed /\ mk.own.left = Qty /\ left' = left
  BY InitiateExitStep
<1>2. CalmAt(ex, mk, d) /\ Holding(ex, mk, d) /\ ex.pos.dir = d
  BY <1>1 DEF Calm, CalmAt, Phase
<1>3. Quiet(ex', mk') /\ Walk(ex', mk', d)
  BY <1>1, <1>2, WalkKept DEF CalmAt
<1>4. mk'.own.kind = "exit" /\ mk'.own.side = -d /\ mk'.own.left = Qty /\ Qty # 0 /\ Qty \in Nat
  BY <1>1, <1>2, Times
<1>5. Leaving(ex', mk', d)
  <2>1. Working1(mk', "exit", -d)
    BY <1>1, <1>2, <1>4 DEF Working1, Holding
  <2>2. mk'.net = At(d, mk'.own.left)
    BY <1>1, <1>2, <1>4 DEF SameMk, Holding
  <2>3. ex'.since = ex.since /\ mk'.reports = mk.reports
    BY <1>1 DEF SameEx, SameMk
  <2>4. ex.since = Never \/ \E k \in DOMAIN mk.reports : ex.since <= mk.reports[k].age
    <3>1. CASE mk.reports = << >>
      BY <1>1, <1>2, <3>1 DEF Holding
    <3>2. CASE mk.reports # << >>
      <4>1. Len(mk.reports) \in DOMAIN mk.reports
        BY <3>2, CalmTypes
      <4> QED
        BY <1>1, <1>2, <3>2, <4>1 DEF Holding, Newest
    <3> QED
      BY <3>1, <3>2
  <2> QED
    BY <1>4, <2>1, <2>2, <2>3, <2>4 DEF Leaving
<1>6. Phase(ex', mk', d)
  BY <1>1, <1>2, <1>5 DEF Phase
<1> QED
  BY <1>1, <1>3, <1>6 DEF CalmAt

LEMMA CalmFillOwn ==
    ASSUME Base, Calm, FillOwn
    PROVE  Calm'
<1> SUFFICES ASSUME ~mk'.disturbed PROVE CalmAt(ex', mk', left'.dir)
  BY DEF Calm
<1> DEFINE d == left.dir
           rep == [net |-> mk.net + mk.own.side, age |-> 0]
           new == [kind |-> mk.own.kind, age |-> 0]
<1>1. /\ Base' /\ ex' = ex /\ left' = left /\ mk.own.left > 0
      /\ mk'.own.kind = mk.own.kind /\ mk'.own.side = mk.own.side
      /\ mk'.own.left = mk.own.left - 1
      /\ mk'.net = mk.net + mk.own.side /\ mk'.sent = mk.sent
      /\ mk'.reports = Append(mk.reports, rep) /\ rep \in Report
      /\ ~mk.disturbed
      /\ mk'.notices = IF mk.own.left = 1 THEN Append(mk.notices, new) ELSE mk.notices
      /\ new \in Notice
  BY FillOwnStep
<1>2. CalmAt(ex, mk, d)
  BY <1>1 DEF Calm
<1>3. /\ ex \in ExState /\ mk \in MkState /\ d \in {-1, 1} /\ ex.pos.state \in PosState
      /\ ex.since \in Int /\ ex.since >= Never /\ ex.since <= Grace
      /\ mk.net \in Int /\ mk.own.left \in Nat /\ mk.own.side \in -1 .. 1
      /\ mk.reports \in Seq(Report) /\ mk.notices \in Seq(Notice)
  BY CalmTypes
<1>4. rep.net = mk.net + mk.own.side /\ rep.age = 0 /\ new.kind = mk.own.kind /\ new.age = 0
  OBVIOUS
<1> HIDE DEF rep, new, d
<1>5. /\ mk'.reports # << >> /\ Newest(mk'.reports) = rep
      /\ \A k \in DOMAIN mk'.reports : mk'.reports[k] = rep \/ \E j \in DOMAIN mk.reports : mk'.reports[k] = mk.reports[j]
      /\ mk.reports # << >> => Head(mk'.reports) = Head(mk.reports)
  BY <1>1, <1>3, NewestAppend
<1>6. ex.pos.state # "FLAT" /\ ex.pos.dir = d
  BY <1>1, <1>2, <1>3 DEF CalmAt, Phase, Idle
<1>7. Quiet(ex', mk')
  BY <1>1, <1>2 DEF CalmAt, Quiet
<1>8. ASSUME Within(d, mk'.net) PROVE Walk(ex', mk', d)
  <2>1. Within(d, ex.lastNet) /\ (\A k \in DOMAIN mk.reports : Within(d, mk.reports[k].net))
        /\ (~ex.heard => mk.reports # << >> /\ Head(mk.reports).net = 0)
    BY <1>2 DEF CalmAt, Walk
  <2>2. Within(d, rep.net)
    BY <1>1, <1>4, <1>8
  <2>3. \A k \in DOMAIN mk'.reports : Within(d, mk'.reports[k].net)
    BY <1>5, <2>1, <2>2
  <2> QED
    BY <1>1, <1>4, <1>5, <2>1, <2>3 DEF Walk
<1>9. ASSUME NEW kind, NEW side, Working1(mk, kind, side)
      PROVE  /\ Working1(mk', kind, side)
             /\ mk'.own.left = 0 => mk'.notices[1].age = 0
  <2>1. mk.own.left # 0 /\ mk.notices = << >> /\ mk.own.kind = kind /\ mk.own.side = side
        /\ mk.own.left <= Qty
    BY <1>1, <1>3, <1>9 DEF Working1
  <2>2. CASE mk.own.left = 1
    <3>1. mk'.notices = Append(mk.notices, new) /\ Len(mk.notices) = 0
      BY <1>1, <2>1, <2>2
    <3>2. Len(mk'.notices) = 1 /\ mk'.notices[1] = new
      BY <1>1, <1>3, <3>1, AppendFacts
    <3> QED
      BY <1>1, <1>4, <2>1, <2>2, <3>2, Times DEF Working1
  <2>3. CASE mk.own.left # 1
    <3>1. mk'.own.left # 0 /\ mk'.own.left <= Qty /\ mk'.notices = << >>
      BY <1>1, <1>3, <2>1, <2>3, Times
    <3> QED
      BY <1>1, <2>1, <3>1 DEF Working1
  <2> QED
    BY <2>2, <2>3
<1>10. ASSUME ex.since <= Lag, mk'.own.left = 0, mk'.notices[1].age = 0
       PROVE  Ending(ex', mk')
  <2>1. ex'.since <= mk'.notices[1].age + Lag
    BY <1>1, <1>3, <1>10, Times
  <2> QED
    BY <1>4, <1>5, <1>10, <2>1 DEF Ending
<1>11. \A k \in DOMAIN mk.reports : mk.reports[k].age \in 0 .. Lag
  BY <1>3, QueueFacts
<1>12. mk.reports # << >> => Newest(mk.reports).age \in 0 .. Lag
  BY <1>3, QueueFacts
<1>13. CASE ex.pos.state = "PENDING_ENTRY"
  <2>1. Entering(ex, mk, d)
    BY <1>2, <1>13 DEF CalmAt, Phase
  <2>2. Working1(mk, "entry", d) /\ mk.net = At(d, Qty - mk.own.left) /\ ex.since = Never
        /\ mk.own.side = d /\ mk.own.left <= Qty
    BY <2>1 DEF Entering, Working1
  <2>3. mk'.net = At(d, Qty - mk'.own.left) /\ Within(d, mk'.net)
    <3> DEFINE n == Qty - mk.own.left
    <3>1. n \in Int /\ 0 <= n + 1 /\ n + 1 <= Qty /\ n + 1 \in Int /\ Qty - mk'.own.left = n + 1
      <4>1. /\ mk.own.left \in Nat /\ mk.own.left > 0 /\ mk.own.left <= Qty /\ Qty \in Nat
            /\ mk'.own.left = mk.own.left - 1
        BY <1>1, <1>3, <2>2, Times
      <4> QED
        BY <4>1
    <3> HIDE DEF n
    <3>2. At(d, n + 1) = At(d, n) + d /\ Within(d, At(d, n + 1))
      BY <1>3, <3>1, AtFacts
    <3>3. mk.net = At(d, n)
      BY <2>2 DEF n
    <3> QED
      BY <1>1, <2>2, <3>1, <3>2, <3>3
  <2>4. Entering(ex', mk', d)
    BY <1>1, <1>9, <2>2, <2>3 DEF Entering
  <2>5. Phase(ex', mk', d)
    BY <1>1, <1>6, <1>13, <2>4 DEF Phase
  <2> QED
    BY <1>1, <1>7, <1>8, <2>3, <2>5 DEF CalmAt, d
<1>14. CASE ex.pos.state \in {"LONG", "SHORT"}
  <2>1. Holding(ex, mk, d)
    BY <1>2, <1>14 DEF CalmAt, Phase
  <2>2. Working1(mk, "stop", -d) /\ mk.net = At(d, mk.own.left)
        /\ mk.own.side = -d /\ mk.own.left <= Qty
    BY <2>1 DEF Holding, Working1
  <2>3. mk'.net = At(d, mk'.own.left) /\ Within(d, mk'.net)
    BY <1>1, <1>3, <2>2, Times DEF At, Within
  <2>4. ex.since <= Lag
    <3>1. CASE mk.own.left = Qty /\ mk.reports = << >>
      BY <2>1, <3>1, Times DEF Holding
    <3>2. CASE mk.own.left = Qty /\ mk.reports # << >>
      <4>1. ex.since <= Newest(mk.reports).age
        BY <2>1, <3>2 DEF Holding
      <4> QED
        BY <1>3, <1>12, <3>2, <4>1, Times
    <3>3. CASE mk.own.left # Qty
      <4>1. mk.own.left \in 1 .. Qty - 1
        BY SMTT(30), <1>1, <1>3, <2>2, <3>3, Times
      <4> QED
        BY <2>1, <4>1 DEF Holding
    <3> QED
      BY <3>1, <3>2, <3>3
  <2>5. Working1(mk', "stop", -d) /\ (mk'.own.left = 0 => Ending(ex', mk'))
    BY <1>9, <1>10, <2>2, <2>4
  <2>6. mk'.own.left # Qty
    BY <1>1, <1>3, <2>2, Times
  <2>7. Holding(ex', mk', d)
    BY <1>1, <2>3, <2>4, <2>5, <2>6 DEF Holding
  <2>8. Phase(ex', mk', d)
    BY <1>1, <1>6, <1>14, <2>7 DEF Phase
  <2> QED
    BY <1>1, <1>7, <1>8, <2>3, <2>8 DEF CalmAt, d
<1>15. CASE ex.pos.state = "PENDING_EXIT"
  <2>1. Leaving(ex, mk, d)
    BY <1>2, <1>15 DEF CalmAt, Phase
  <2>2. Working1(mk, "exit", -d) /\ mk.net = At(d, mk.own.left)
        /\ mk.own.side = -d /\ mk.own.left <= Qty
    BY <2>1 DEF Leaving, Working1
  <2>3. mk'.net = At(d, mk'.own.left) /\ Within(d, mk'.net)
    BY <1>1, <1>3, <2>2, Times DEF At, Within
  <2>4. ex.since = Never \/ \E k \in DOMAIN mk.reports : ex.since <= mk.reports[k].age
    BY <1>1, <1>3, <2>1 DEF Leaving
  <2>5. ex.since <= Lag
    <3>1. CASE ex.since = Never
      BY <3>1, Times
    <3>2. CASE \E k \in DOMAIN mk.reports : ex.since <= mk.reports[k].age
      <4>1. PICK k \in DOMAIN mk.reports : ex.since <= mk.reports[k].age
        BY <3>2
      <4>2. mk.reports[k].age \in 0 .. Lag
        BY <1>11
      <4> QED
        BY <1>3, <4>1, <4>2, Times
    <3> QED
      BY <2>4, <3>1, <3>2
  <2>6. Working1(mk', "exit", -d) /\ (mk'.own.left = 0 => Ending(ex', mk'))
    BY <1>9, <1>10, <2>2, <2>5
  <2>7. ex'.since = Never \/ \E k \in DOMAIN mk'.reports : ex'.since <= mk'.reports[k].age
    <3>1. CASE ex.since = Never
      BY <1>1, <3>1
    <3>2. CASE \E k \in DOMAIN mk.reports : ex.since <= mk.reports[k].age
      <4>1. PICK k \in DOMAIN mk.reports : ex.since <= mk.reports[k].age
        BY <3>2
      <4>2. k \in DOMAIN mk'.reports /\ mk'.reports[k] = mk.reports[k]
        <5>1. /\ \A j \in 1 .. Len(mk.reports) : Append(mk.reports, rep)[j] = mk.reports[j]
              /\ DOMAIN Append(mk.reports, rep) = 1 .. Len(mk.reports) + 1
              /\ DOMAIN mk.reports = 1 .. Len(mk.reports) /\ Len(mk.reports) \in Nat
          BY <1>1, <1>3, AppendFacts
        <5> QED
          BY <1>1, <5>1
      <4> QED
        BY <1>1, <4>1, <4>2
    <3> QED
      BY <2>4, <3>1, <3>2
  <2>8. Leaving(ex', mk', d)
    BY <2>3, <2>6, <2>7 DEF Leaving
  <2>9. Phase(ex', mk', d)
    BY <1>1, <1>6, <1>15, <2>8 DEF Phase
  <2> QED
    BY <1>1, <1>7, <1>8, <2>3, <2>9 DEF CalmAt, d
<1> QED
  BY <1>3, <1>6, <1>13, <1>14, <1>15 DEF PosState

LEMMA CalmDeliverNotice ==
    ASSUME Base, Calm, DeliverNotice
    PROVE  Calm'
<1> SUFFICES ASSUME ~mk'.disturbed PROVE CalmAt(ex', mk', left'.dir)
  BY DEF Calm
<1> DEFINE d == left.dir
           kind == Head(mk.notices).kind
           opens == kind = "entry" /\ ex.pos.state = "PENDING_ENTRY"
           closes == \/ kind = "exit" /\ ex.pos.state = "PENDING_EXIT"
                     \/ kind = "stop" /\ ex.pos.state \in {"LONG", "SHORT"}
<1>1. /\ Base' /\ SameEx(ex, ex') /\ SameMk(mk, mk') /\ left' = left
      /\ mk.notices # << >> /\ mk'.notices = Tail(mk.notices)
      /\ ~mk.disturbed
      /\ opens => /\ ex'.pos = [state |-> Held(ex.pos.dir), dir |-> ex.pos.dir]
                  /\ mk'.own = [kind |-> "stop", side |-> -ex.pos.dir, left |-> Qty]
      /\ closes => ex'.pos = [state |-> "FLAT", dir |-> 0] /\ mk'.own = NoOrder
  BY DeliverNoticeStep, Zenon
<1>2. CalmAt(ex, mk, d)
  BY <1>1 DEF Calm
<1>3. /\ d \in {-1, 1} /\ ex.pos.state \in PosState /\ mk.own.left \in Nat
      /\ mk.notices \in Seq(Notice) /\ mk.net \in Int /\ mk.reports \in Seq(Report)
  BY CalmTypes
<1>4. Quiet(ex', mk') /\ Walk(ex', mk', d)
  BY <1>1, <1>2, WalkKept DEF CalmAt
<1>5. ex'.since = ex.since /\ mk'.net = mk.net /\ mk'.reports = mk.reports
  BY <1>1 DEF SameEx, SameMk
<1>6. ASSUME NEW k, NEW side, Working1(mk, k, side)
      PROVE  mk.own.left = 0 /\ kind = k /\ mk'.notices = << >> /\ Head(mk.notices) = mk.notices[1]
  <2>1. mk.own.left = 0 /\ Len(mk.notices) = 1 /\ mk.notices[1].kind = k
    BY <1>1, <1>6 DEF Working1
  <2>2. Head(mk.notices) = mk.notices[1] /\ Tail(mk.notices) = << >>
    <3>1. Head(mk.notices) = mk.notices[1] /\ Tail(mk.notices) \in Seq(Notice)
          /\ (Tail(mk.notices) # << >> => Len(mk.notices) > 1)
      BY <1>1, <1>3, <2>1, TailFacts
    <3> QED
      BY <2>1, <3>1
  <2> QED
    BY <1>1, <2>1, <2>2
<1> HIDE DEF d, kind
<1>7. ex.pos.state # "FLAT" /\ ex.pos.dir = d
  BY <1>1, <1>2 DEF CalmAt, Phase, Idle
<1>8. CASE ex.pos.state = "PENDING_ENTRY"
  <2>1. Entering(ex, mk, d) /\ Working1(mk, "entry", d)
    BY <1>2, <1>8 DEF CalmAt, Phase, Entering
  <2>2. mk.own.left = 0 /\ kind = "entry" /\ mk'.notices = << >>
    BY <1>6, <2>1
  <2>3. /\ ex'.pos = [state |-> Held(d), dir |-> d]
        /\ mk'.own = [kind |-> "stop", side |-> -d, left |-> Qty]
    BY <1>1, <1>7, <1>8, <2>2
  <2>4. ex'.pos.state \in {"LONG", "SHORT"} /\ ex'.pos.dir = d
        /\ mk'.own.kind = "stop" /\ mk'.own.side = -d /\ mk'.own.left = Qty
    BY <2>3 DEF Held
  <2>5. Working1(mk', "stop", -d)
    BY <2>2, <2>4, Times DEF Working1
  <2>6. mk'.net = At(d, Qty) /\ ex'.since = Never
    BY <1>5, <2>1, <2>2, Times DEF Entering
  <2>7. mk'.reports # << >> => ex'.since <= Newest(mk'.reports).age
    <3>1. mk \in MkState
      BY CalmTypes
    <3> QED
      BY <1>5, <2>6, <3>1, QueueFacts, Times
  <2>8. Holding(ex', mk', d)
    BY <2>4, <2>5, <2>6, <2>7, Times DEF Holding
  <2>9. Phase(ex', mk', d)
    BY <2>4, <2>8 DEF Phase
  <2> QED
    BY <1>1, <1>4, <2>9 DEF CalmAt, d
<1>9. CASE ex.pos.state \in {"LONG", "SHORT", "PENDING_EXIT"}
  <2>1. /\ closes /\ mk'.notices = << >> /\ mk.net = At(d, 0) /\ Ending(ex, mk)
    <3>1. CASE ex.pos.state \in {"LONG", "SHORT"}
      <4>1. Holding(ex, mk, d) /\ Working1(mk, "stop", -d)
        BY <1>2, <3>1 DEF CalmAt, Phase, Holding
      <4>2. mk.own.left = 0 /\ kind = "stop" /\ mk'.notices = << >>
        BY <1>6, <4>1
      <4> QED
        BY <3>1, <4>1, <4>2 DEF Holding
    <3>2. CASE ex.pos.state = "PENDING_EXIT"
      <4>1. Leaving(ex, mk, d) /\ Working1(mk, "exit", -d)
        BY <1>2, <3>2 DEF CalmAt, Phase, Leaving
      <4>2. mk.own.left = 0 /\ kind = "exit" /\ mk'.notices = << >>
        BY <1>6, <4>1
      <4> QED
        BY <3>2, <4>1, <4>2 DEF Leaving
    <3> QED
      BY <1>9, <3>1, <3>2
  <2>2. ex'.pos = [state |-> "FLAT", dir |-> 0] /\ mk'.own = NoOrder
    BY <1>1, <2>1
  <2>3. ex'.pos.state = "FLAT" /\ mk'.own.left = 0
    BY <2>2 DEF NoOrder
  <2>4. mk'.net = 0
    <3>1. At(d, 0) = 0
      BY <1>3, AtFacts
    <3> QED
      BY <1>5, <2>1, <3>1
  <2>5. mk'.reports # << >> => ex'.since <= Newest(mk'.reports).age + Lag
    BY <1>5, <2>1 DEF Ending
  <2>6. Phase(ex', mk', d)
    BY <2>1, <2>3, <2>4, <2>5 DEF Phase, Idle
  <2> QED
    BY <1>1, <1>4, <2>6 DEF CalmAt, d
<1> QED
  BY <1>3, <1>7, <1>8, <1>9 DEF PosState

LEMMA CalmUnwinds ==
    ASSUME Base, Calm, FillUnwind \/ RejectUnwind \/ MapUnwind
    PROVE  Calm'
<1>1. CASE mk.disturbed
  <2>1. mk \in MkState
    BY CalmTypes
  <2>2. CASE FillUnwind
    <3> DEFINE D(i) == IF mk.unwinds[i] > 0 THEN 1 ELSE -1
    <3>1. PICK i \in Working(mk) : mk' = [Moved(mk, D(i)) EXCEPT !.unwinds[i] = @ - D(i)]
      BY <2>2 DEF FillUnwind
    <3>2. D(i) \in Int
      OBVIOUS
    <3> HIDE DEF D
    <3>3. \A d \in Int : Moved(mk, d) \in MkState /\ Moved(mk, d).disturbed = mk.disturbed
      BY <2>1, MovedStep, Zenon
    <3> DEFINE m == Moved(mk, D(i))
    <3>4. m \in MkState /\ m.disturbed = mk.disturbed
      BY <3>2, <3>3
    <3> HIDE DEF m
    <3>5. mk'.disturbed = m.disturbed
      BY <3>1, <3>4 DEF m, MkState
    <3> QED
      BY <1>1, <3>4, <3>5 DEF Calm
  <2>3. CASE RejectUnwind
    <3>1. mk'.disturbed = mk.disturbed
      BY <2>1, <2>3 DEF RejectUnwind, MkState
    <3> QED
      BY <1>1, <3>1 DEF Calm
  <2>4. CASE MapUnwind
    BY <1>1, <2>4 DEF MapUnwind, Calm
  <2> QED
    BY <2>2, <2>3, <2>4
<1>2. CASE ~mk.disturbed
  <2>1. mk.sent = 0
    BY <1>2 DEF Calm, CalmAt, Quiet
  <2>2. \A i \in Ids : mk.unwinds[i] = 0
    BY <2>1, Times DEF Base, Good, Ids
  <2>3. \E i \in Working(mk) : TRUE
    BY <2>2, UnwindSteps
  <2> QED
    BY <2>2, <2>3 DEF Working
<1> QED
  BY <1>1, <1>2

\* Reading a report of our own doing: the age of the mismatch is kept, forgotten or
\* starts again, and forgotten it is once the report is the newest one.
LEMMA CalmPosUpdate ==
    ASSUME 2 * Lag < Grace, Base, Calm, HandlePosUpdate
    PROVE  Calm'
<1> SUFFICES ASSUME ~mk'.disturbed PROVE CalmAt(ex', mk', left'.dir)
  BY DEF Calm
<1> DEFINE d == left.dir
           x == Head(mk.reports).net
           c == net_qty_consistent(ex.pos, x)
           q == mk.reports
<1>1. /\ Base' /\ left'.dir = d /\ q # << >> /\ mk'.reports = Tail(q) /\ x \in Int
      /\ mk'.net = mk.net /\ mk'.notices = mk.notices /\ ~mk.disturbed
      /\ ex'.heard /\ ex'.lastNet = x
      /\ (ex.heard \/ x = 0) /\ ex.acted = Never /\ ex.since < Grace /\ ~ex.netHalt =>
           /\ mk'.own = mk.own /\ mk'.sent = mk.sent
           /\ ex'.pos = ex.pos /\ ex'.acted = Never
           /\ ex'.since = IF c THEN Never ELSE IF ex.since = Never THEN 0 ELSE ex.since
           /\ ex'.halt \in {ex.halt, "none"} /\ ~ex'.netHalt
           /\ ex.lastUnwind = 0 => ex'.lastUnwind = 0
  BY PosUpdateStep
<1>2. CalmAt(ex, mk, d)
  BY <1>1 DEF Calm
<1>3. /\ ex \in ExState /\ mk \in MkState /\ d \in {-1, 1} /\ ex.pos.state \in PosState
      /\ ex.since \in Int /\ ex.since >= Never /\ ex.since <= Grace
      /\ mk.net \in Int /\ mk.own.left \in Nat /\ q \in Seq(Report)
  BY CalmTypes
<1>4. /\ c \in BOOLEAN
      /\ ex.pos.state = "FLAT" => (c <=> x = 0)
      /\ ex.pos.dir = d /\ ex.pos.state \in {"LONG", "SHORT"} => (c <=> x = At(d, Qty))
      /\ ex.pos.dir = d /\ ex.pos.state \in {"PENDING_ENTRY", "PENDING_EXIT"} =>
           (c <=> Within(d, x))
  BY <1>1, <1>3, CalmConsistent
<1>5. /\ Tail(q) # << >> => Newest(Tail(q)) = Newest(q)
      /\ Tail(q) = << >> => Head(q) = Newest(q)
      /\ \A k \in DOMAIN Tail(q) : \E j \in DOMAIN q : Tail(q)[k] = q[j]
      /\ \E j \in DOMAIN q : Head(q) = q[j]
  BY <1>1, <1>3, NewestTail
<1>6. Newest(q).age \in 0 .. Lag /\ \A k \in DOMAIN q : q[k].age \in 0 .. Lag
  BY <1>1, <1>3, QueueFacts
<1>7. Len(mk.notices) = 1 => mk.notices[1].age \in 0 .. Lag
  BY <1>3, QueueFacts
<1>8. /\ Within(d, ex.lastNet) /\ \A k \in DOMAIN q : Within(d, q[k].net)
      /\ Newest(q).net = mk.net /\ (~ex.heard => x = 0)
  BY <1>1, <1>2 DEF CalmAt, Walk
<1>9. Within(d, x) /\ (Tail(q) = << >> => x = mk.net)
  BY <1>5, <1>8
<1>10. Lag \in Nat /\ Lag + Lag < Grace /\ Grace \in Nat /\ Qty \in Nat \ {0} /\ Never = -1
  BY Times
<1> HIDE DEF c, x, q, d
<1>11. ex.pos.state # "FLAT" => ex.pos.dir = d
  BY <1>2 DEF CalmAt, Phase
<1>12. ex.since < Grace
  <2>1. CASE ex.pos.state = "FLAT"
    <3>1. ex.since <= Newest(q).age + Lag
      BY <1>1, <1>2, <2>1 DEF CalmAt, Phase, Idle, q
    <3> QED
      BY <1>3, <1>6, <1>10, <3>1
  <2>2. CASE ex.pos.state = "PENDING_ENTRY"
    <3>1. ex.since = Never
      BY <1>2, <2>2 DEF CalmAt, Phase, Entering
    <3> QED
      BY <1>10, <3>1
  <2>3. ASSUME Ending(ex, mk), NEW kind, NEW side, Working1(mk, kind, side), mk.own.left = 0
        PROVE  ex.since < Grace
    <3>1. ex.since <= mk.notices[1].age + Lag /\ mk.notices[1].age \in 0 .. Lag
      BY <1>7, <2>3 DEF Ending, Working1
    <3> QED
      BY <1>3, <1>10, <3>1
  <2>4. CASE ex.pos.state \in {"LONG", "SHORT"}
    <3>1. Holding(ex, mk, d) /\ Working1(mk, "stop", -d) /\ mk.own.left <= Qty
      BY <1>2, <2>4 DEF CalmAt, Phase, Holding, Working1
    <3>2. CASE mk.own.left = 0
      BY <2>3, <3>1, <3>2 DEF Holding
    <3>3. CASE mk.own.left = Qty
      <4>1. ex.since <= Newest(q).age
        BY <1>1, <3>1, <3>3 DEF Holding, q
      <4> QED
        BY <1>3, <1>6, <1>10, <4>1
    <3>4. CASE mk.own.left # 0 /\ mk.own.left # Qty
      <4>1. mk.own.left \in 1 .. Qty - 1
        BY <1>3, <1>10, <3>1, <3>4
      <4>2. ex.since <= Lag
        BY <3>1, <4>1 DEF Holding
      <4> QED
        BY <1>3, <1>10, <4>2
    <3> QED
      BY <3>2, <3>3, <3>4
  <2>5. CASE ex.pos.state = "PENDING_EXIT"
    <3>1. Leaving(ex, mk, d) /\ Working1(mk, "exit", -d)
      BY <1>2, <2>5 DEF CalmAt, Phase, Leaving
    <3>2. CASE mk.own.left = 0
      BY <2>3, <3>1, <3>2 DEF Leaving
    <3>3. CASE mk.own.left # 0 /\ ex.since = Never
      BY <1>10, <3>3
    <3>4. CASE mk.own.left # 0 /\ ex.since # Never
      <4>1. PICK k \in DOMAIN q : ex.since <= q[k].age
        BY <3>1, <3>4 DEF Leaving, q
      <4> QED
        BY <1>3, <1>6, <1>10, <4>1
    <3> QED
      BY <3>2, <3>3, <3>4
  <2> QED
    BY <1>3, <2>1, <2>2, <2>4, <2>5 DEF PosState
<1>13. /\ mk'.own = mk.own /\ mk'.sent = mk.sent /\ ex'.pos = ex.pos /\ ex'.acted = Never
       /\ ex'.since = IF c THEN Never ELSE IF ex.since = Never THEN 0 ELSE ex.since
       /\ ex'.halt \in {ex.halt, "none"} /\ ~ex'.netHalt /\ ex'.lastUnwind = 0
  BY <1>1, <1>2, <1>8, <1>12 DEF CalmAt, Quiet
<1>14. Quiet(ex', mk')
  BY <1>2, <1>13 DEF CalmAt, Quiet
<1>15. Walk(ex', mk', d)
  <2>1. \A k \in DOMAIN Tail(q) : Within(d, Tail(q)[k].net)
    BY <1>5, <1>8
  <2> QED
    BY <1>1, <1>5, <1>8, <1>9, <2>1 DEF Walk
<1>16. \A b \in Nat : ex.since <= b => ex'.since <= b
  BY <1>3, <1>10, <1>13
<1>17. c => ex'.since = Never
  BY <1>13
<1>18. \A kind, side : Working1(mk, kind, side) => Working1(mk', kind, side)
  BY <1>1, <1>13 DEF Working1
<1>19. ASSUME NEW kind, NEW side, Working1(mk, kind, side), mk.own.left = 0, Ending(ex, mk)
       PROVE  Ending(ex', mk')
  <2>1. mk.notices[1].age + Lag \in Nat
    BY <1>7, <1>10, <1>19 DEF Working1
  <2>2. ex'.since <= mk.notices[1].age + Lag
    BY <1>16, <1>19, <2>1 DEF Ending
  <2>3. mk'.reports # << >> => Newest(mk'.reports).age = mk.notices[1].age
    BY <1>1, <1>5, <1>19 DEF Ending, q
  <2> QED
    BY <1>1, <2>2, <2>3 DEF Ending
<1>20. CASE ex.pos.state = "FLAT"
  <2>1. Idle(ex, mk)
    BY <1>2, <1>20 DEF CalmAt, Phase
  <2>2. Tail(q) # << >> => ex'.since <= Newest(Tail(q)).age + Lag
    <3>1. Newest(q).age + Lag \in Nat
      BY <1>6, <1>10
    <3> QED
      BY <1>1, <1>5, <1>16, <2>1, <3>1 DEF Idle, q
  <2>3. Idle(ex', mk')
    BY <1>1, <1>13, <2>1, <2>2 DEF Idle
  <2> QED
    BY <1>1, <1>13, <1>14, <1>15, <1>20, <2>3 DEF CalmAt, Phase, d
<1>21. CASE ex.pos.state = "PENDING_ENTRY"
  <2>1. Entering(ex, mk, d)
    BY <1>2, <1>21 DEF CalmAt, Phase
  <2>2. ex'.since = Never
    BY <1>4, <1>9, <1>11, <1>17, <1>21
  <2>3. Entering(ex', mk', d)
    BY <1>1, <1>13, <1>18, <2>1, <2>2 DEF Entering
  <2> QED
    BY <1>1, <1>11, <1>13, <1>14, <1>15, <1>21, <2>3 DEF CalmAt, Phase, d
<1>22. CASE ex.pos.state \in {"LONG", "SHORT"}
  <2>1. Holding(ex, mk, d) /\ Working1(mk, "stop", -d)
    BY <1>2, <1>22 DEF CalmAt, Phase, Holding
  <2>2. mk'.own.left = Qty /\ mk'.reports = << >> => ex'.since = Never
    BY <1>1, <1>4, <1>9, <1>11, <1>13, <1>17, <1>22, <2>1 DEF Holding
  <2>3. mk'.own.left = Qty /\ mk'.reports # << >> => ex'.since <= Newest(mk'.reports).age
    <3>1. Newest(q).age \in Nat
      BY <1>6, <1>10
    <3> QED
      BY <1>1, <1>5, <1>13, <1>16, <2>1, <3>1 DEF Holding, q
  <2>4. mk'.own.left \in 1 .. Qty - 1 => ex'.since <= Lag
    BY <1>10, <1>13, <1>16, <2>1 DEF Holding
  <2>5. mk'.own.left = 0 => Ending(ex', mk')
    BY <1>13, <1>19, <2>1 DEF Holding
  <2>6. Holding(ex', mk', d)
    BY <1>1, <1>13, <1>18, <2>1, <2>2, <2>3, <2>4, <2>5 DEF Holding
  <2> QED
    BY <1>1, <1>11, <1>13, <1>14, <1>15, <1>22, <2>6 DEF CalmAt, Phase, d
<1>23. CASE ex.pos.state = "PENDING_EXIT"
  <2>1. Leaving(ex, mk, d) /\ Working1(mk, "exit", -d)
    BY <1>2, <1>23 DEF CalmAt, Phase, Leaving
  <2>2. ex'.since = Never
    BY <1>4, <1>9, <1>11, <1>17, <1>23
  <2>3. mk'.own.left = 0 => Ending(ex', mk')
    BY <1>13, <1>19, <2>1 DEF Leaving
  <2>4. Leaving(ex', mk', d)
    BY <1>1, <1>13, <1>18, <2>1, <2>2, <2>3 DEF Leaving
  <2> QED
    BY <1>1, <1>11, <1>13, <1>14, <1>15, <1>23, <2>4 DEF CalmAt, Phase, d
<1> QED
  BY <1>3, <1>20, <1>21, <1>22, <1>23 DEF PosState

\* A second: the mismatch and what will end it grow old together.
LEMMA CalmEod ==
    ASSUME 2 * Lag < Grace, Base, Calm, EodTick
    PROVE  Calm'
<1> SUFFICES ASSUME ~mk'.disturbed PROVE CalmAt(ex', mk', left'.dir)
  BY DEF Calm
<1> DEFINE d == left.dir
           x == ex.lastNet
           c == net_qty_consistent(ex.pos, x)
           a == Aged(ex.since, Grace)
           q == mk.reports
<1>1. /\ Base' /\ left'.dir = d /\ InTime
      /\ mk'.reports = Older(q) /\ mk'.notices = Older(mk.notices)
      /\ mk'.net = mk.net /\ ~mk.disturbed /\ ~PartlyStopped
      /\ ex'.heard = ex.heard /\ ex'.lastNet = x
      /\ ex.acted = Never /\ ~ex.netHalt /\ (~ex.heard \/ c \/ a < Grace) =>
           /\ mk'.own = mk.own /\ mk'.sent = mk.sent
           /\ ex'.pos = ex.pos /\ ex'.acted = Never
           /\ ex'.since = IF ex.heard /\ ~c /\ a = Never THEN 0 ELSE a
           /\ ex'.halt = ex.halt /\ ~ex'.netHalt
           /\ ex.lastUnwind = 0 => ex'.lastUnwind = 0
  BY EodStep
<1>2. CalmAt(ex, mk, d)
  BY <1>1 DEF Calm
<1>3. /\ ex \in ExState /\ mk \in MkState /\ d \in {-1, 1} /\ ex.pos.state \in PosState
      /\ ex.since \in Int /\ ex.since >= Never /\ ex.since <= Grace /\ ex.since \in Age(Grace)
      /\ mk.net \in Int /\ mk.own.left \in Nat /\ q \in Seq(Report) /\ x \in Int
      /\ mk.notices \in Seq(Notice)
  BY CalmTypes
<1>4. /\ c \in BOOLEAN
      /\ ex.pos.state = "FLAT" => (c <=> x = 0)
      /\ ex.pos.dir = d /\ ex.pos.state \in {"LONG", "SHORT"} => (c <=> x = At(d, Qty))
      /\ ex.pos.dir = d /\ ex.pos.state \in {"PENDING_ENTRY", "PENDING_EXIT"} =>
           (c <=> Within(d, x))
  BY <1>3, CalmConsistent
<1>5. Lag \in Nat /\ Lag + Lag < Grace /\ Grace \in Nat /\ Qty \in Nat \ {0} /\ Never = -1
  BY Times
<1>6. /\ a \in Int /\ a >= Never /\ (ex.since = Never => a = Never) /\ a <= Grace
      /\ ex.since # Never => a <= ex.since + 1
  BY <1>3, <1>5 DEF Aged
<1>7. /\ \A k \in DOMAIN q : q[k].age \in 0 .. Lag /\ q[k].age < Lag
      /\ Len(mk.notices) = 1 => mk.notices[1].age \in 0 .. Lag
      /\ q # << >> => Newest(q).age \in 0 .. Lag
  BY <1>1, <1>3, QueueFacts DEF InTime
<1>8. /\ DOMAIN Older(q) = DOMAIN q /\ (Older(q) = << >> <=> q = << >>)
      /\ \A k \in DOMAIN q : Older(q)[k].net = q[k].net /\ Older(q)[k].age = q[k].age + 1
      /\ q # << >> => /\ Newest(Older(q)).age = Newest(q).age + 1
                      /\ Newest(Older(q)).net = Newest(q).net
                      /\ Newest(q).age < Lag /\ Head(Older(q)).net = Head(q).net
  BY <1>3, <1>7, OlderReports, NewestOlder
<1>9. /\ mk.notices = << >> => mk'.notices = << >>
      /\ Len(mk.notices) = 1 => /\ Len(mk'.notices) = 1
                                /\ mk'.notices[1].kind = mk.notices[1].kind
                                /\ mk'.notices[1].age = mk.notices[1].age + 1
                                /\ mk.notices[1].age < Lag
  <2> DEFINE n == mk.notices
  <2>1. \A k \in DOMAIN n : n[k].age < Lag
    BY <1>1 DEF InTime
  <2>2. /\ Len(Older(n)) = Len(n) /\ DOMAIN n = 1 .. Len(n)
        /\ (Older(n) = << >> <=> n = << >>)
        /\ \A k \in DOMAIN n : Older(n)[k].kind = n[k].kind /\ Older(n)[k].age = n[k].age + 1
    BY <1>3, <2>1, OlderNotices
  <2>3. Len(n) = 1 => 1 \in DOMAIN n
    BY <2>2
  <2> QED
    BY <1>1, <2>1, <2>2, <2>3
<1>10. /\ Within(d, x) /\ \A k \in DOMAIN q : Within(d, q[k].net)
       /\ q = << >> => x = mk.net
       /\ q # << >> => Newest(q).net = mk.net
       /\ ~ex.heard => q # << >> /\ Head(q).net = 0
  BY <1>2 DEF CalmAt, Walk
<1> HIDE DEF c, x, q, d, a
<1>11. ex.pos.state # "FLAT" => ex.pos.dir = d
  BY <1>2 DEF CalmAt, Phase
<1>12. c \/ a < Grace
  <2>1. CASE ex.pos.state = "FLAT"
    <3>1. Idle(ex, mk)
      BY <1>2, <2>1 DEF CalmAt, Phase
    <3>2. CASE q = << >>
      BY <1>4, <1>10, <2>1, <3>1, <3>2 DEF Idle
    <3>3. CASE q # << >>
      <4>1. ex.since <= Newest(q).age + Lag
        BY <3>1, <3>3 DEF Idle, q
      <4> QED
        BY <1>3, <1>5, <1>6, <1>7, <1>8, <3>3, <4>1
    <3> QED
      BY <3>2, <3>3
  <2>2. CASE ex.pos.state \in {"PENDING_ENTRY", "PENDING_EXIT"}
    BY <1>4, <1>10, <1>11, <2>2
  <2>3. CASE ex.pos.state \in {"LONG", "SHORT"}
    <3>1. Holding(ex, mk, d) /\ Working1(mk, "stop", -d) /\ mk.own.left <= Qty
          /\ mk.own.kind = "stop"
      BY <1>2, <2>3 DEF CalmAt, Phase, Holding, Working1
    <3>2. mk.own.left = 0 \/ mk.own.left = Qty
      BY <1>1, <1>3, <1>5, <3>1 DEF PartlyStopped
    <3>3. CASE mk.own.left = 0
      <4>1. ex.since <= mk.notices[1].age + Lag /\ Len(mk.notices) = 1
        BY <3>1, <3>3 DEF Holding, Ending, Working1
      <4> QED
        BY SMTT(30), <1>3, <1>5, <1>6, <1>7, <1>9, <4>1
    <3>4. CASE mk.own.left = Qty /\ q = << >>
      BY <1>4, <1>10, <1>11, <2>3, <3>1, <3>4 DEF Holding
    <3>5. CASE mk.own.left = Qty /\ q # << >>
      <4>1. ex.since <= Newest(q).age
        BY <3>1, <3>5 DEF Holding, q
      <4> QED
        BY <1>3, <1>5, <1>6, <1>7, <1>8, <3>5, <4>1
    <3> QED
      BY <3>2, <3>3, <3>4, <3>5
  <2> QED
    BY <1>3, <2>1, <2>2, <2>3 DEF PosState
<1>13. /\ mk'.own = mk.own /\ mk'.sent = mk.sent /\ ex'.pos = ex.pos /\ ex'.acted = Never
       /\ ex'.since = IF ex.heard /\ ~c /\ a = Never THEN 0 ELSE a
       /\ ex'.halt = ex.halt /\ ~ex'.netHalt /\ ex'.lastUnwind = 0
  BY <1>1, <1>2, <1>12 DEF CalmAt, Quiet
<1>14. Quiet(ex', mk')
  BY <1>2, <1>13 DEF CalmAt, Quiet
<1>15. Walk(ex', mk', d)
  <2>1. \A k \in DOMAIN Older(q) : Within(d, Older(q)[k].net)
    BY <1>8, <1>10
  <2> QED
    BY <1>1, <1>8, <1>10, <2>1 DEF Walk
<1>16. \A b \in Nat : ex.since <= b => ex'.since <= b + 1
  BY <1>3, <1>5, <1>6, <1>13
<1>17. c /\ ex.since = Never => ex'.since = Never
  BY <1>6, <1>13
<1>18. \A kind, side : Working1(mk, kind, side) => Working1(mk', kind, side)
  BY <1>9, <1>13 DEF Working1
<1>19. ASSUME NEW kind, NEW side, Working1(mk, kind, side), mk.own.left = 0, Ending(ex, mk)
       PROVE  Ending(ex', mk')
  <2>1. Len(mk.notices) = 1 /\ mk.notices[1].age + Lag \in Nat
    BY <1>5, <1>7, <1>19 DEF Working1
  <2>2. ex'.since <= (mk.notices[1].age + Lag) + 1
    BY <1>16, <1>19, <2>1 DEF Ending
  <2>3. ex'.since <= mk'.notices[1].age + Lag
    <3>1. (mk.notices[1].age + Lag) + 1 = mk'.notices[1].age + Lag
      <4>1. mk.notices[1].age \in Int /\ mk'.notices[1].age = mk.notices[1].age + 1
        BY <1>7, <1>9, <2>1
      <4>2. Lag \in Int
        BY <1>5
      <4>3. \A i, j \in Int : (i + j) + 1 = (i + 1) + j
        OBVIOUS
      <4> QED
        BY <4>1, <4>2, <4>3
    <3> QED
      BY <2>2, <3>1
  <2>4. mk'.reports # << >> => Newest(mk'.reports).age = mk'.notices[1].age
    BY <1>1, <1>8, <1>9, <1>19, <2>1 DEF Ending, q
  <2> QED
    BY <2>3, <2>4 DEF Ending
<1>20. CASE ex.pos.state = "FLAT"
  <2>1. Idle(ex, mk)
    BY <1>2, <1>20 DEF CalmAt, Phase
  <2>2. mk'.reports # << >> => ex'.since <= Newest(mk'.reports).age + Lag
    <3> SUFFICES ASSUME q # << >> PROVE ex'.since <= Newest(Older(q)).age + Lag
      BY <1>1, <1>8
    <3>1. Newest(q).age + Lag \in Nat /\ (Newest(q).age + Lag) + 1 = Newest(Older(q)).age + Lag
      <4>1. Newest(q).age \in Nat /\ Newest(Older(q)).age = Newest(q).age + 1
        BY <1>7, <1>8
      <4>2. Lag \in Nat
        BY <1>5
      <4>3. \A i, j \in Nat : i + j \in Nat /\ (i + j) + 1 = (i + 1) + j
        OBVIOUS
      <4> QED
        BY <4>1, <4>2, <4>3
    <3>2. ex.since <= Newest(q).age + Lag
      BY <2>1 DEF Idle, q
    <3> QED
      BY <1>16, <3>1, <3>2
  <2>3. Idle(ex', mk')
    BY <1>1, <1>9, <1>13, <2>1, <2>2 DEF Idle
  <2> QED
    BY <1>1, <1>13, <1>14, <1>15, <1>20, <2>3 DEF CalmAt, Phase, d
<1>21. CASE ex.pos.state = "PENDING_ENTRY"
  <2>1. Entering(ex, mk, d)
    BY <1>2, <1>21 DEF CalmAt, Phase
  <2>2. ex'.since = Never
    BY <1>4, <1>10, <1>11, <1>17, <1>21, <2>1 DEF Entering
  <2>3. Entering(ex', mk', d)
    BY <1>1, <1>13, <1>18, <2>1, <2>2 DEF Entering
  <2> QED
    BY <1>1, <1>11, <1>13, <1>14, <1>15, <1>21, <2>3 DEF CalmAt, Phase, d
<1>22. CASE ex.pos.state \in {"LONG", "SHORT"}
  <2>1. Holding(ex, mk, d) /\ Working1(mk, "stop", -d) /\ mk.own.left <= Qty
        /\ mk.own.kind = "stop"
    BY <1>2, <1>22 DEF CalmAt, Phase, Holding, Working1
  <2>2. mk'.own.left = Qty /\ mk'.reports = << >> => ex'.since = Never
    BY <1>1, <1>4, <1>8, <1>10, <1>11, <1>13, <1>17, <1>22, <2>1 DEF Holding, q
  <2>3. mk'.own.left = Qty /\ mk'.reports # << >> => ex'.since <= Newest(mk'.reports).age
    <3> SUFFICES ASSUME q # << >>, mk.own.left = Qty
                 PROVE  ex'.since <= Newest(Older(q)).age
      BY <1>1, <1>8, <1>13
    <3>1. Newest(q).age \in Nat
      BY <1>5, <1>7
    <3>2. ex.since <= Newest(q).age
      BY <2>1 DEF Holding, q
    <3> QED
      BY <1>8, <1>16, <3>1, <3>2
  <2>4. mk'.own.left \notin 1 .. Qty - 1
    BY <1>1, <1>13, <2>1 DEF PartlyStopped
  <2>5. mk'.own.left = 0 => Ending(ex', mk')
    BY <1>13, <1>19, <2>1 DEF Holding
  <2>6. Holding(ex', mk', d)
    BY <1>1, <1>13, <1>18, <2>1, <2>2, <2>3, <2>4, <2>5 DEF Holding
  <2> QED
    BY <1>1, <1>11, <1>13, <1>14, <1>15, <1>22, <2>6 DEF CalmAt, Phase, d
<1>23. CASE ex.pos.state = "PENDING_EXIT"
  <2>1. Leaving(ex, mk, d) /\ Working1(mk, "exit", -d)
    BY <1>2, <1>23 DEF CalmAt, Phase, Leaving
  <2>2. mk'.own.left # 0 =>
          ex'.since = Never \/ \E k \in DOMAIN mk'.reports : ex'.since <= mk'.reports[k].age
    <3> SUFFICES ASSUME mk.own.left # 0, ex'.since # Never
                 PROVE  \E k \in DOMAIN Older(q) : ex'.since <= Older(q)[k].age
      BY <1>1, <1>13
    <3>1. ex.since # Never
      BY <1>4, <1>10, <1>11, <1>17, <1>23
    <3>2. PICK k \in DOMAIN q : ex.since <= q[k].age
      BY <2>1, <3>1 DEF Leaving, q
    <3>3. q[k].age \in Nat
      BY <1>5, <1>7
    <3>4. ex'.since <= q[k].age + 1
      BY <1>16, <3>2, <3>3
    <3> QED
      BY <1>8, <3>2, <3>4
  <2>3. mk'.own.left = 0 => Ending(ex', mk')
    BY <1>13, <1>19, <2>1 DEF Leaving
  <2>4. Leaving(ex', mk', d)
    BY <1>1, <1>13, <1>18, <2>1, <2>2, <2>3 DEF Leaving
  <2> QED
    BY <1>1, <1>11, <1>13, <1>14, <1>15, <1>23, <2>4 DEF CalmAt, Phase, d
<1> QED
  BY <1>3, <1>20, <1>21, <1>22, <1>23 DEF PosState

\* NetReconciler's promise (order_manager.hpp:1763-1766), for every quantity, number
\* of trades and pair of sockets: with two delivery times inside the grace window, an
\* executor that is left alone never halts itself and never sends an unwind.  (With
\* the window no longer than two delivery times it can.)
THEOREM OwnTradesRaiseNoAlarm ==
    ASSUME 2 * Lag < Grace
    PROVE  Spec => []NoFalseAlarm
<1>1. Init => Base /\ Calm
  BY BaseInit, CalmInit
<1>2. Base /\ Calm /\ [Next]_vars => Base' /\ Calm'
  <2> SUFFICES ASSUME Base, Calm, [Next]_vars PROVE Base' /\ Calm'
    OBVIOUS
  <2>1. CASE UNCHANGED vars
    BY <2>1, BaseStutter DEF vars, Calm
  <2>2. CASE Next
    <3>1. Base'
      BY <2>2, BaseNext
    <3>2. CASE OnSignal
      BY <3>1, <3>2, CalmOnSignal
    <3>3. CASE InitiateExit
      BY <3>1, <3>3, CalmInitiateExit
    <3>4. CASE FillOwn
      BY <3>1, <3>4, CalmFillOwn
    <3>5. CASE DeliverNotice
      BY <3>1, <3>5, CalmDeliverNotice
    <3>6. CASE Stray
      BY <3>1, <3>6, StrayStep DEF Calm
    <3>7. CASE FillUnwind \/ RejectUnwind \/ MapUnwind
      BY <3>1, <3>7, CalmUnwinds
    <3>8. CASE HandlePosUpdate
      BY <3>1, <3>8, CalmPosUpdate
    <3>9. CASE EodTick
      BY <3>1, <3>9, CalmEod
    <3> QED
      BY <2>2, <3>2, <3>3, <3>4, <3>5, <3>6, <3>7, <3>8, <3>9 DEF Next
  <2> QED
    BY <2>1, <2>2
<1>3. Calm => NoFalseAlarm
  BY DEF Calm, CalmAt, Quiet, NoFalseAlarm
<1> QED
  BY <1>1, <1>2, <1>3, PTL DEF Spec
=============================================================================
