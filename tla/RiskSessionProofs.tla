------------------------- MODULE RiskSessionProofs -------------------------
(***************************************************************************)
(* What holds of the risk manager for every account, limit and sequence of *)
(* trades, days, reconnects and restarts.                                  *)
(*                                                                         *)
(* None of the three invariants is inductive as it stands.  The gauge      *)
(* needs the trade log's running maximum to dominate its total and zero    *)
(* (LogShape) and an unset completed trade to count nothing; the loss      *)
(* bound needs that an open trade was entered within the limit; the mark   *)
(* needs that what is saved is what was reported.                          *)
(***************************************************************************)
EXTENDS RiskSession, TLAPS

LogShape == db.maxCum >= db.total /\ db.maxCum >= 0 /\ (~done => donePnl = 0)

OpenWithinLimit == open => ~DailyBreached(rm)

MarkSaved ==
  /\ db.hwm >= Start /\ ghost.maxBal >= Start /\ db.hwm <= ghost.maxBal
  /\ ghost.marksSaved => db.hwm = ghost.maxBal
  /\ broker.hwm <= ghost.maxBal

IInv == /\ TypeOK /\ LogShape /\ OpenWithinLimit /\ MarkSaved
        /\ GaugeMatchesLedger /\ OneTradePastTheLimit /\ MarkNeverForgotten

-----------------------------------------------------------------------------
(* The methods of the risk manager. *)

Members == {"equity", "peak", "total", "daily", "halted", "reason"}

LEMMA MemberNames == DOMAIN Fresh = Members
  BY DEF Fresh, Members

LEMMA LargerFact ==
  ASSUME NEW a \in Int, NEW b \in Int
  PROVE  /\ Larger(a, b) \in Int /\ Larger(a, b) >= a /\ Larger(a, b) >= b
         /\ Larger(a, b) \in {a, b}
  BY DEF Larger

\* A halt records its reason and touches no amount.
LEMMA HaltFact ==
  ASSUME NEW r, IsRiskManager(r), NEW why \in Reason \ {"none"}
  PROVE  /\ IsRiskManager(halt(r, why))
         /\ halt(r, why).equity = r.equity /\ halt(r, why).peak = r.peak
         /\ halt(r, why).total = r.total /\ halt(r, why).daily = r.daily
  BY MemberNames DEF halt, IsRiskManager, Members

\* The daily reset leaves the account's amounts alone.
LEMMA ResetFact ==
  ASSUME NEW r, IsRiskManager(r)
  PROVE  /\ IsRiskManager(reset_daily(r))
         /\ reset_daily(r).equity = r.equity /\ reset_daily(r).peak = r.peak
         /\ reset_daily(r).total = r.total /\ reset_daily(r).daily = 0
<1> DEFINE t == reset_daily(r)
<1>1. DOMAIN t = DOMAIN r BY MemberNames DEF reset_daily, IsRiskManager, Members
<1>2. /\ t.equity = r.equity /\ t.peak = r.peak /\ t.total = r.total /\ t.daily = 0
  BY MemberNames DEF reset_daily, IsRiskManager, Members
<1>3. CASE r.halted /\ r.reason = "daily_loss_limit"
  <2>1. ~t.halted /\ t.halted \in BOOLEAN /\ t.reason = "none"
    BY <1>3, MemberNames DEF reset_daily, IsRiskManager, Members
  <2>2. QED BY <1>1, <1>2, <2>1 DEF IsRiskManager, Reason
<1>4. CASE ~(r.halted /\ r.reason = "daily_loss_limit")
  <2>1. t.halted = r.halted /\ t.reason = r.reason
    BY <1>4, MemberNames DEF reset_daily, IsRiskManager, Members
  <2>2. QED BY <1>1, <1>2, <2>1 DEF IsRiskManager
<1>5. QED BY <1>3, <1>4

\* A trade moves the three amounts and lifts the peak.
LEMMA BookFact ==
  ASSUME NEW r, IsRiskManager(r), NEW pnl \in Int
  PROVE  /\ IsRiskManager(book_pnl(r, pnl))
         /\ book_pnl(r, pnl).equity = r.equity + pnl
         /\ book_pnl(r, pnl).total = r.total + pnl
         /\ book_pnl(r, pnl).daily = r.daily + pnl
         /\ book_pnl(r, pnl).peak = Larger(r.peak, r.equity + pnl)
<1>3. r.peak \in Int /\ r.equity + pnl \in Int BY DEF IsRiskManager
<1>1. Larger(r.peak, r.equity + pnl) \in Int BY <1>3, LargerFact
<1>2. QED BY <1>1, MemberNames DEF book_pnl, IsRiskManager, Members

\* Whatever limit trips, a trade is booked once.
LEMMA TradeFact ==
  ASSUME NEW r, IsRiskManager(r), NEW pnl \in Int
  PROVE  /\ IsRiskManager(on_trade_pnl(r, pnl))
         /\ on_trade_pnl(r, pnl).equity = r.equity + pnl
         /\ on_trade_pnl(r, pnl).total = r.total + pnl
         /\ on_trade_pnl(r, pnl).daily = r.daily + pnl
         /\ on_trade_pnl(r, pnl).peak = Larger(r.peak, r.equity + pnl)
<1> DEFINE t == book_pnl(r, pnl)
<1>1. IsRiskManager(t) BY BookFact
<1>2. on_trade_pnl(r, pnl) \in {t, halt(t, "daily_loss_limit"),
        halt(t, "trailing_drawdown_cap"), halt(t, "consistency_cap")}
  BY DEF on_trade_pnl
<1> HIDE DEF t
<1>3. \A why \in {"daily_loss_limit", "trailing_drawdown_cap", "consistency_cap"} :
        /\ IsRiskManager(halt(t, why)) /\ halt(t, why).equity = t.equity
        /\ halt(t, why).peak = t.peak /\ halt(t, why).total = t.total
        /\ halt(t, why).daily = t.daily
  BY <1>1, HaltFact DEF Reason
<1>4. QED BY <1>1, <1>2, <1>3, BookFact DEF t

\* set_equity raises the peak to the equity, never lowers it.
LEMMA SetEquityFact ==
  ASSUME NEW r, IsRiskManager(r), NEW eq \in Int
  PROVE  /\ IsRiskManager(set_equity(r, eq))
         /\ set_equity(r, eq).equity = eq /\ set_equity(r, eq).total = r.total
         /\ set_equity(r, eq).peak = Larger(r.peak, eq)
<1>1. Larger(r.peak, eq) \in Int BY LargerFact DEF IsRiskManager
<1>2. QED BY <1>1, MemberNames DEF set_equity, IsRiskManager, Members

LEMMA FreshFact == /\ IsRiskManager(Fresh)
                   /\ Fresh.peak = Start /\ Fresh.equity = Start
                   /\ Fresh.total = 0 /\ Fresh.daily = 0
<1>1. /\ Fresh.peak = Start /\ Fresh.equity = Start /\ Fresh.total = 0 /\ Fresh.daily = 0
      /\ ~Fresh.halted /\ Fresh.halted \in BOOLEAN /\ Fresh.reason = "none"
  BY DEF Fresh
<1>2. QED BY <1>1, AmountsAssumption DEF IsRiskManager, Reason

\* Seeding the peak before the equity gives the trade log's gauge.
LEMMA SeedFact ==
  ASSUME NEW d \in [total : Int, today : Int, maxCum : Int, hwm : Int],
         d.maxCum >= d.total, d.maxCum >= 0
  PROVE  /\ IsRiskManager(seed(d))
         /\ seed(d).equity = Start + d.total /\ seed(d).total = d.total
         /\ seed(d).peak = Start + d.maxCum
<1> DEFINE a == seed_total_profit(Fresh, d.total)
           b == set_equity(a, get_peak_equity(d))
           c == set_equity(b, Start + d.total)
<1>1. IsRiskManager(a) /\ a.total = d.total /\ a.peak = Start
  BY FreshFact, MemberNames DEF seed_total_profit, IsRiskManager, Members
<1>2. get_peak_equity(d) = Start + d.maxCum /\ get_peak_equity(d) \in Int
  BY AmountsAssumption DEF get_peak_equity
<1>3. Start + d.total \in Int BY AmountsAssumption
<1> HIDE DEF a
<1>9. IsRiskManager(b) /\ b.total = a.total /\ b.peak = Larger(a.peak, get_peak_equity(d))
  BY <1>1, <1>2, SetEquityFact
<1>4. IsRiskManager(b) /\ b.total = d.total /\ b.peak = Larger(Start, Start + d.maxCum)
  BY <1>1, <1>2, <1>9
<1> HIDE DEF b
<1>5. /\ IsRiskManager(c) /\ c.total = d.total /\ c.equity = Start + d.total
      /\ c.peak = Larger(b.peak, Start + d.total)
  BY <1>3, <1>4, SetEquityFact
<1> HIDE DEF c
<1>6. c.peak = Start + d.maxCum
  BY <1>4, <1>5, AmountsAssumption DEF Larger
<1>7. seed(d) = seed_daily_pnl(c, d.today)
  BY DEF seed, a, b, c
<1>8. QED
  BY <1>5, <1>6, <1>7, MemberNames DEF seed_daily_pnl, IsRiskManager, Members

-----------------------------------------------------------------------------
(* The invariant. *)

Log == [total : Int, today : Int, maxCum : Int, hwm : Int]
Marks == [hwm : Int, lossHalted : BOOLEAN, ddHalted : BOOLEAN]

\* The trade log keeps its shape, and its maximum follows its total.
LEMMA WriteFact ==
  ASSUME NEW d \in Log, NEW pnl \in Int
  PROVE  /\ write_trade(d, pnl) \in Log
         /\ write_trade(d, pnl).total = d.total + pnl
         /\ write_trade(d, pnl).maxCum = Larger(d.maxCum, d.total + pnl)
         /\ write_trade(d, pnl).hwm = d.hwm
<1>1. d.total + pnl \in Int /\ d.today + pnl \in Int /\ d.maxCum \in Int BY DEF Log
<1>2. Larger(d.maxCum, d.total + pnl) \in Int BY <1>1, LargerFact
<1>3. \A t, y, m \in Int : [d EXCEPT !.total = t, !.today = y, !.maxCum = m] \in Log
  BY DEF Log
<1>4. write_trade(d, pnl) = [d EXCEPT !.total = d.total + pnl, !.today = d.today + pnl,
                                      !.maxCum = Larger(d.maxCum, d.total + pnl)]
  BY DEF write_trade, Log
<1>5. QED BY <1>1, <1>2, <1>3, <1>4 DEF Log

LEMMA BrokerFact ==
  ASSUME NEW d \in Log, NEW up \in BOOLEAN, d.hwm >= Start
  PROVE  /\ new_broker(d, up) \in Marks
         /\ up => new_broker(d, up).hwm = d.hwm
         /\ new_broker(d, up).hwm <= d.hwm
<1>1. Start \in Int /\ d.hwm \in Int BY AmountsAssumption DEF Log
<1>2. Larger(d.hwm, Start) = d.hwm BY <1>1 DEF Larger
<1>3. QED BY <1>1, <1>2 DEF new_broker, Marks

LEMMA DayPnlFact ==
  ASSUME IsRiskManager(rm), NEW breached \in BOOLEAN
  PROVE  /\ IsRiskManager(BrokerDayPnl(breached))
         /\ BrokerDayPnl(breached).equity = rm.equity
         /\ BrokerDayPnl(breached).peak = rm.peak
         /\ BrokerDayPnl(breached).total = rm.total
         /\ BrokerDayPnl(breached).daily = rm.daily
  BY HaltFact DEF BrokerDayPnl, Reason

LEMMA InitIInv == Init => IInv
<1> SUFFICES ASSUME Init PROVE IInv
  OBVIOUS
<1>1. IsRiskManager(rm) /\ rm.daily = 0 /\ rm.total = 0 /\ rm.equity = Start /\ rm.peak = Start
  BY FreshFact DEF Init
<1> DEFINE g == [intact |-> TRUE, recorded |-> TRUE, marksSaved |-> TRUE, finite |-> TRUE,
                 today |-> 0, maxBal |-> Start, account |-> FALSE]
<1>2. IsHistory(ghost) /\ ghost.maxBal = Start
  <2>1. ghost = g BY DEF Init
  <2>2. DOMAIN g = {"intact", "recorded", "marksSaved", "finite", "today", "maxBal", "account"}
    OBVIOUS
  <2>3. /\ g.intact \in BOOLEAN /\ g.recorded \in BOOLEAN /\ g.marksSaved \in BOOLEAN
        /\ g.finite \in BOOLEAN /\ g.account \in BOOLEAN /\ g.today = 0 /\ g.maxBal = Start
    OBVIOUS
  <2>4. QED BY <2>1, <2>2, <2>3, AmountsAssumption DEF IsHistory
<1>3. db \in Log /\ db.hwm = Start /\ db.total = 0 /\ db.maxCum = 0
  <2>1. db = [total |-> 0, today |-> 0, maxCum |-> 0, hwm |-> Start] BY DEF Init, NoMark
  <2>2. QED BY <2>1, AmountsAssumption DEF Log
<1>4. broker \in Marks /\ broker.hwm = Start
  <2>1. broker = new_broker(db, TRUE) BY DEF Init
  <2>2. db.hwm >= Start BY <1>3, AmountsAssumption
  <2>3. QED BY <1>3, <2>1, <2>2, BrokerFact
<1>5. TypeOK
  <2>1. open \in BOOLEAN /\ done \in BOOLEAN /\ dbUp \in BOOLEAN BY DEF Init
  <2>4. donePnl \in Int BY DEF Init
  <2>2. count \in [trades : 0 .. MaxTrades, days : 0 .. MaxDays, runs : 0 .. MaxRuns]
    <3>1. count = [trades |-> 0, days |-> 0, runs |-> 0] BY DEF Init
    <3>2. QED BY <3>1, BoundsAssumption
  <2>3. QED BY <1>1, <1>2, <1>3, <1>4, <2>1, <2>2, <2>4 DEF TypeOK, Log, Marks
<1>6. LogShape /\ MarkSaved /\ MarkNeverForgotten
  <2>1. donePnl = 0 BY DEF Init
  <2>2. QED
    BY <1>2, <1>3, <1>4, <2>1, AmountsAssumption DEF LogShape, MarkSaved, MarkNeverForgotten
<1>7. ~DailyBreached(rm)
  BY <1>1, AmountsAssumption DEF DailyBreached
<1>8. GaugeMatchesLedger
  <2>1. donePnl = 0 BY DEF Init
  <2>2. QED
    BY <1>1, <1>3, <2>1, AmountsAssumption
    DEF GaugeMatchesLedger, LedgerTotal, LedgerPeak, Larger
<1>9. QED BY <1>5, <1>6, <1>7, <1>8 DEF IInv, OpenWithinLimit, OneTradePastTheLimit

\* Every step keeps the invariant: one case per action, and in it the conjuncts
\* the action can disturb.
LEMMA NextIInv == IInv /\ [Next]_vars => IInv'
<1> SUFFICES ASSUME IInv, [Next]_vars PROVE IInv'
  OBVIOUS
<1> USE DEF Log, Marks
<1>t. /\ IsRiskManager(rm) /\ IsHistory(ghost) /\ db \in Log /\ broker \in Marks
      /\ open \in BOOLEAN /\ done \in BOOLEAN /\ dbUp \in BOOLEAN /\ donePnl \in Int
      /\ count \in [trades : 0 .. MaxTrades, days : 0 .. MaxDays, runs : 0 .. MaxRuns]
  BY DEF IInv, TypeOK
<1>k. /\ db.total \in Int /\ db.maxCum \in Int /\ db.hwm \in Int /\ broker.hwm \in Int
      /\ ghost.maxBal \in Int /\ ghost.today \in Int
      /\ rm.equity \in Int /\ rm.peak \in Int /\ rm.total \in Int /\ rm.daily \in Int
      /\ Start \in Int /\ DailyLimit \in Int /\ Cap \in Int
  BY <1>t, AmountsAssumption, CapAssumption DEF IsRiskManager, IsHistory
<1>i. /\ LogShape /\ OpenWithinLimit /\ MarkSaved
      /\ GaugeMatchesLedger /\ OneTradePastTheLimit /\ MarkNeverForgotten
  BY DEF IInv
<1>1. CASE OnSignal
  <2>1. count' \in [trades : 0 .. MaxTrades, days : 0 .. MaxDays, runs : 0 .. MaxRuns]
    <3>1. count.trades + 1 \in 0 .. MaxTrades BY <1>1, <1>t, BoundsAssumption DEF OnSignal
    <3>2. count' = [count EXCEPT !.trades = count.trades + 1] BY <1>1 DEF OnSignal
    <3>3. QED BY <1>t, <3>1, <3>2
  <2>2. TypeOK'
    <3>1. UNCHANGED <<rm, done, donePnl, db, dbUp, broker, ghost>> /\ open' = TRUE
      BY <1>1 DEF OnSignal
    <3>2. QED BY <1>t, <2>1, <3>1 DEF TypeOK
  <2>3. OpenWithinLimit' /\ OneTradePastTheLimit'
    BY <1>1, <1>i DEF OnSignal, can_trade, OpenWithinLimit, OneTradePastTheLimit, DailyBreached
  <2>4. LogShape' /\ MarkSaved' /\ MarkNeverForgotten' /\ GaugeMatchesLedger'
    BY <1>1, <1>i DEF OnSignal, LogShape, MarkSaved, MarkNeverForgotten, GaugeMatchesLedger,
      LedgerTotal, LedgerPeak
  <2>5. QED BY <2>2, <2>3, <2>4 DEF IInv
<1>2. CASE CloseTrade
  <2>1. PICK pnl \in Pnls :
          /\ rm' = on_trade_pnl(rm, pnl) /\ donePnl' = pnl
          /\ ghost' = [ghost EXCEPT !.intact = @ /\ ~done, !.recorded = @ /\ ~done,
                         !.today = @ + pnl,
                         !.account = @ \/ (rm'.halted /\ rm'.reason \in AccountLevel)]
    BY <1>2 DEF CloseTrade
  <2>2. pnl \in Int BY InputsAssumption
  <2>3. /\ IsRiskManager(rm') /\ rm'.equity = rm.equity + pnl /\ rm'.total = rm.total + pnl
        /\ rm'.daily = rm.daily + pnl /\ rm'.peak = Larger(rm.peak, rm.equity + pnl)
    BY <1>t, <2>1, <2>2, TradeFact
  <2>4. /\ open /\ open' = FALSE /\ done' = TRUE
        /\ db' = db /\ dbUp' = dbUp /\ broker' = broker /\ count' = count
    BY <1>2 DEF CloseTrade
  <2>5. /\ IsHistory(ghost') /\ ghost'.maxBal = ghost.maxBal
        /\ ghost'.marksSaved = ghost.marksSaved /\ (ghost'.intact => ghost.intact /\ ~done)
    <3> DEFINE i == ghost.intact /\ ~done
               c == ghost.recorded /\ ~done
               a == ghost.account \/ (rm'.halted /\ rm'.reason \in AccountLevel)
    <3>1. i \in BOOLEAN /\ c \in BOOLEAN /\ a \in BOOLEAN OBVIOUS
    <3>2. ghost' = [ghost EXCEPT !.intact = i, !.recorded = c, !.today = ghost.today + pnl,
                                 !.account = a]
      BY <1>t, <2>1 DEF IsHistory
    <3>3. i => ghost.intact /\ ~done OBVIOUS
    <3> HIDE DEF i, c, a
    <3>4. ghost.today + pnl \in Int BY <1>k, <2>2
    <3>5. IsHistory(ghost') BY <1>t, <3>1, <3>2, <3>4 DEF IsHistory
    <3>6. ghost'.intact = i /\ ghost'.maxBal = ghost.maxBal /\ ghost'.marksSaved = ghost.marksSaved
      BY <1>t, <3>2 DEF IsHistory
    <3>7. QED BY <3>3, <3>5, <3>6
  <2>6. TypeOK' BY <1>t, <2>1, <2>2, <2>3, <2>4, <2>5 DEF TypeOK
  <2>7. LogShape' /\ MarkSaved' /\ MarkNeverForgotten'
    BY <1>i, <2>4, <2>5 DEF LogShape, MarkSaved, MarkNeverForgotten
  <2>8. OpenWithinLimit' /\ OneTradePastTheLimit'
    <3>1. ~DailyBreached(rm) BY <1>i, <2>4 DEF OpenWithinLimit
    <3>2. DailyBreached(rm') => rm'.daily - pnl > DailyLimit
      BY <1>k, <2>2, <2>3, <3>1 DEF DailyBreached
    <3>3. QED BY <2>1, <2>4, <3>2 DEF OpenWithinLimit, OneTradePastTheLimit
  <2>9. GaugeMatchesLedger'
    <3> SUFFICES ASSUME ghost'.intact
                 PROVE  /\ rm'.total = db.total + pnl
                        /\ rm'.equity = Start + (db.total + pnl)
                        /\ rm'.peak = Start + Larger(db.maxCum, db.total + pnl)
      BY <2>1, <2>4 DEF GaugeMatchesLedger, LedgerTotal, LedgerPeak
    <3>1. donePnl = 0 /\ ghost.intact BY <1>i, <2>5 DEF LogShape
    <3>2. /\ rm.total = db.total /\ rm.equity = Start + db.total
          /\ rm.peak = Start + db.maxCum
      BY <1>i, <1>k, <3>1 DEF GaugeMatchesLedger, LogShape, LedgerTotal, LedgerPeak, Larger
    <3>3. QED BY <1>k, <2>2, <2>3, <3>2 DEF Larger
  <2>10. QED BY <2>6, <2>7, <2>8, <2>9 DEF IInv
<1>3. CASE CloseTradeNonFinite
  <2>1. /\ rm' = halt(rm, "non_finite_pnl") /\ open' = FALSE /\ done' = TRUE /\ donePnl' = 0
        /\ ghost' = [ghost EXCEPT !.intact = FALSE, !.recorded = FALSE, !.finite = FALSE]
        /\ db' = db /\ dbUp' = dbUp /\ broker' = broker /\ count' = count
    BY <1>3 DEF CloseTradeNonFinite
  <2>2. IsRiskManager(rm') /\ rm'.daily = rm.daily
    BY <1>t, <2>1, HaltFact DEF Reason
  <2>3. /\ IsHistory(ghost') /\ ~ghost'.intact /\ ghost'.maxBal = ghost.maxBal
        /\ ghost'.marksSaved = ghost.marksSaved
    BY <1>t, <2>1 DEF IsHistory
  <2>4. TypeOK'
    <3>1. open' \in BOOLEAN /\ done' \in BOOLEAN BY <2>1
    <3>2. /\ donePnl' \in Int /\ db' = db /\ dbUp' = dbUp /\ broker' = broker
          /\ count' = count
      BY <2>1
    <3>3. QED BY <1>t, <2>2, <2>3, <3>1, <3>2 DEF TypeOK
  <2>5. LogShape' /\ MarkSaved' /\ MarkNeverForgotten' /\ GaugeMatchesLedger'
    BY <1>i, <2>1, <2>3 DEF LogShape, MarkSaved, MarkNeverForgotten, GaugeMatchesLedger
  <2>6. OpenWithinLimit' /\ OneTradePastTheLimit'
    BY <1>i, <2>1, <2>2 DEF OpenWithinLimit, OneTradePastTheLimit, DailyBreached
  <2>7. QED BY <2>4, <2>5, <2>6 DEF IInv
<1>4. CASE EodTick
  <2> DEFINE dd(newDay) == IF newDay THEN [db EXCEPT !.today = 0] ELSE db
  <2>1. PICK newDay \in BOOLEAN, ok \in BOOLEAN :
          /\ newDay => count.days < MaxDays
          /\ rm' = IF newDay THEN reset_daily(rm) ELSE rm
          /\ db' = IF done /\ dbUp /\ ok THEN write_trade(dd(newDay), donePnl) ELSE dd(newDay)
          /\ done' = FALSE /\ donePnl' = 0
          /\ count' = IF newDay THEN [count EXCEPT !.days = @ + 1] ELSE count
          /\ ghost' = [ghost EXCEPT !.intact = @ /\ (done => dbUp /\ ok),
                                    !.recorded = @ /\ (done => dbUp /\ ok),
                                    !.today = IF newDay THEN 0 ELSE @]
          /\ UNCHANGED <<open, dbUp, broker>>
    BY <1>4 DEF EodTick
  <2> DEFINE d == dd(newDay)
  <2>2. d \in Log /\ d.total = db.total /\ d.maxCum = db.maxCum /\ d.hwm = db.hwm
    BY <1>t
  <2>3. db' = IF done /\ dbUp /\ ok THEN write_trade(d, donePnl) ELSE d BY <2>1
  <2> HIDE DEF d, dd
  <2>4. /\ IsRiskManager(rm') /\ rm'.equity = rm.equity /\ rm'.peak = rm.peak
        /\ rm'.total = rm.total /\ (newDay => rm'.daily = 0) /\ (~newDay => rm' = rm)
    BY <1>t, <2>1, ResetFact
  <2>5. /\ IsHistory(ghost') /\ ghost'.maxBal = ghost.maxBal
        /\ ghost'.marksSaved = ghost.marksSaved
        /\ ghost'.intact => ghost.intact /\ (done => dbUp /\ ok)
    <3> DEFINE i == ghost.intact /\ (done => dbUp /\ ok)
               c == ghost.recorded /\ (done => dbUp /\ ok)
               y == IF newDay THEN 0 ELSE ghost.today
    <3>1. i \in BOOLEAN /\ c \in BOOLEAN OBVIOUS
    <3>2. y \in Int BY <1>k
    <3>3. ghost' = [ghost EXCEPT !.intact = i, !.recorded = c, !.today = y]
      BY <1>t, <2>1 DEF IsHistory
    <3>4. i => ghost.intact /\ (done => dbUp /\ ok) OBVIOUS
    <3> HIDE DEF i, c, y
    <3>5. IsHistory(ghost') BY <1>t, <3>1, <3>2, <3>3 DEF IsHistory
    <3>6. ghost'.intact = i /\ ghost'.maxBal = ghost.maxBal /\ ghost'.marksSaved = ghost.marksSaved
      BY <1>t, <3>3 DEF IsHistory
    <3>7. QED BY <3>4, <3>5, <3>6
  <2>6. count' \in [trades : 0 .. MaxTrades, days : 0 .. MaxDays, runs : 0 .. MaxRuns]
    <3>1. CASE newDay
      <4>1. count.days + 1 \in 0 .. MaxDays BY <1>t, <2>1, <3>1, BoundsAssumption
      <4>2. count' = [count EXCEPT !.days = count.days + 1] BY <2>1, <3>1
      <4>3. QED BY <1>t, <4>1, <4>2
    <3>2. CASE ~newDay BY <1>t, <2>1, <3>2
    <3>3. QED BY <3>1, <3>2
  <2>7. /\ db' \in Log /\ db'.hwm = db.hwm
        /\ db'.maxCum >= db'.total /\ db'.maxCum >= 0
        /\ done /\ dbUp /\ ok => /\ db'.total = db.total + donePnl
                                 /\ db'.maxCum = Larger(db.maxCum, db.total + donePnl)
        /\ ~done => db'.total = db.total /\ db'.maxCum = db.maxCum
    <3>1. db.maxCum >= db.total /\ db.maxCum >= 0 BY <1>i DEF LogShape
    <3>2. CASE done /\ dbUp /\ ok
      <4>1. db' = write_trade(d, donePnl) BY <2>3, <3>2
      <4>2. /\ db' \in Log /\ db'.hwm = d.hwm /\ db'.total = d.total + donePnl
            /\ db'.maxCum = Larger(d.maxCum, d.total + donePnl)
        BY <1>t, <2>2, <4>1, WriteFact
      <4>3. QED BY <1>t, <1>k, <2>2, <3>1, <3>2, <4>2 DEF Larger
    <3>3. CASE ~(done /\ dbUp /\ ok)
      <4>1. db' = d BY <2>3, <3>3
      <4>2. QED BY <2>2, <3>1, <3>3, <4>1
    <3>4. QED BY <3>2, <3>3
  <2>8. TypeOK'
    <3>1. open' = open /\ dbUp' = dbUp /\ broker' = broker /\ donePnl' = 0 BY <2>1
    <3>2. done' \in BOOLEAN BY <2>1
    <3>3. QED BY <1>t, <2>4, <2>5, <2>6, <2>7, <3>1, <3>2 DEF TypeOK
  <2>9. LogShape' /\ MarkSaved' /\ MarkNeverForgotten'
    BY <1>i, <2>1, <2>5, <2>7 DEF LogShape, MarkSaved, MarkNeverForgotten
  <2>10. OpenWithinLimit' /\ OneTradePastTheLimit'
    <3>1. CASE newDay
      <4>1. ~DailyBreached(rm') BY <1>k, <2>4, <3>1 DEF DailyBreached
      <4>2. QED BY <4>1 DEF OpenWithinLimit, OneTradePastTheLimit
    <3>2. CASE ~newDay
      BY <1>i, <2>1, <2>4, <3>2 DEF OpenWithinLimit, OneTradePastTheLimit, DailyBreached
    <3>3. QED BY <3>1, <3>2
  <2>11. GaugeMatchesLedger'
    <3> SUFFICES ASSUME ghost'.intact
                 PROVE  /\ rm'.total = db'.total /\ rm'.equity = Start + db'.total
                        /\ rm'.peak = Start + Larger(db'.maxCum, db'.total)
      <4>1. db'.total + 0 = db'.total BY <2>7
      <4>2. QED BY <2>1, <4>1 DEF GaugeMatchesLedger, LedgerTotal, LedgerPeak
    <3>1. Larger(db'.maxCum, db'.total) = db'.maxCum BY <2>7 DEF Larger
    <3>2. /\ rm.total = db.total + donePnl /\ rm.equity = Start + (db.total + donePnl)
          /\ rm.peak = Start + Larger(db.maxCum, db.total + donePnl)
      BY <1>i, <2>5 DEF GaugeMatchesLedger, LedgerTotal, LedgerPeak
    <3>3. CASE done BY <2>4, <2>5, <2>7, <3>1, <3>2, <3>3
    <3>4. CASE ~done
      <4>1. donePnl = 0 /\ db.maxCum >= db.total BY <1>i, <3>4 DEF LogShape
      <4>2. Larger(db.maxCum, db.total + donePnl) = db.maxCum BY <1>k, <4>1 DEF Larger
      <4>3. db.total + donePnl = db.total BY <1>k, <4>1
      <4>4. QED BY <2>4, <2>7, <3>1, <3>2, <3>4, <4>2, <4>3
    <3>5. QED BY <3>3, <3>4
  <2>12. QED BY <2>8, <2>9, <2>10, <2>11 DEF IInv
<1>5. CASE HandlePosUpdateNoBalance
  <2>1. PICK breached \in BOOLEAN :
          /\ rm' = BrokerDayPnl(breached)
          /\ broker' = [broker EXCEPT !.lossHalted = @ \/ breached]
          /\ UNCHANGED <<open, done, donePnl, db, dbUp, ghost, count>>
    BY <1>5 DEF HandlePosUpdateNoBalance
  <2>2. /\ IsRiskManager(rm') /\ rm'.equity = rm.equity /\ rm'.peak = rm.peak
        /\ rm'.total = rm.total /\ rm'.daily = rm.daily
    BY <1>t, <2>1, DayPnlFact
  <2>3. broker' \in Marks /\ broker'.hwm = broker.hwm
    BY <1>t, <2>1
  <2>4. TypeOK' BY <1>t, <2>1, <2>2, <2>3 DEF TypeOK
  <2>5. LogShape' /\ MarkSaved' /\ MarkNeverForgotten' /\ GaugeMatchesLedger'
    BY <1>i, <2>1, <2>2, <2>3
    DEF LogShape, MarkSaved, MarkNeverForgotten, GaugeMatchesLedger, LedgerTotal, LedgerPeak
  <2>6. OpenWithinLimit' /\ OneTradePastTheLimit'
    BY <1>i, <2>1, <2>2 DEF OpenWithinLimit, OneTradePastTheLimit, DailyBreached
  <2>7. QED BY <2>4, <2>5, <2>6 DEF IInv
<1>6. CASE HandlePosUpdate
  <2> DEFINE hw(bal) == Larger(broker.hwm, bal)
             tr(bal) == ~broker.ddHalted /\ broker_drawdown_breached(bal, hw(bal))
  <2>1. PICK breached \in BOOLEAN, saved \in BOOLEAN, bal \in Balances :
          /\ rm' = IF tr(bal) THEN halt(BrokerDayPnl(breached), "broker_trailing_drawdown")
                   ELSE BrokerDayPnl(breached)
          /\ broker' = [hwm |-> hw(bal), lossHalted |-> broker.lossHalted \/ breached,
                        ddHalted |-> broker.ddHalted \/ tr(bal)]
          /\ db' = IF bal > broker.hwm /\ dbUp /\ saved THEN set_account_hwm(db, bal) ELSE db
          /\ ghost' = [ghost EXCEPT !.maxBal = Larger(@, bal),
                                    !.marksSaved = @ /\ (bal > db.hwm => dbUp /\ saved),
                                    !.account = @ \/ tr(bal)]
          /\ UNCHANGED <<open, done, donePnl, dbUp, count>>
    BY <1>6 DEF HandlePosUpdate
  <2> DEFINE hwm == hw(bal)
             trips == tr(bal)
             lost == broker.lossHalted \/ breached
             down == broker.ddHalted \/ trips
             kept == ghost.marksSaved /\ (bal > db.hwm => dbUp /\ saved)
             acct == ghost.account \/ trips
             top == Larger(ghost.maxBal, bal)
  <2>2. bal \in Int BY InputsAssumption
  <2>3. hwm \in Int /\ top \in Int BY <1>k, <2>2, LargerFact
  <2>4. /\ lost \in BOOLEAN /\ down \in BOOLEAN /\ kept \in BOOLEAN /\ acct \in BOOLEAN
    OBVIOUS
  <2>5. /\ broker' = [hwm |-> hwm, lossHalted |-> lost, ddHalted |-> down]
        /\ ghost' = [ghost EXCEPT !.maxBal = top, !.marksSaved = kept, !.account = acct]
    BY <1>t, <2>1 DEF IsHistory
  <2>6. kept => ghost.marksSaved /\ (bal > db.hwm => dbUp /\ saved) OBVIOUS
  <2>7. /\ hwm = Larger(broker.hwm, bal) /\ top = Larger(ghost.maxBal, bal) OBVIOUS
  <2>8. /\ IsRiskManager(rm') /\ rm'.equity = rm.equity /\ rm'.peak = rm.peak
        /\ rm'.total = rm.total /\ rm'.daily = rm.daily
    <3> DEFINE r == BrokerDayPnl(breached)
    <3>1. /\ IsRiskManager(r) /\ r.equity = rm.equity /\ r.peak = rm.peak
          /\ r.total = rm.total /\ r.daily = rm.daily
      BY <1>t, DayPnlFact
    <3>2. rm' \in {r, halt(r, "broker_trailing_drawdown")} BY <2>1
    <3> HIDE DEF r
    <3>3. QED BY <3>1, <3>2, HaltFact DEF Reason
  <2> HIDE DEF hwm, trips, lost, down, kept, acct, top, hw, tr
  <2>9. broker' \in Marks /\ broker'.hwm = hwm BY <2>3, <2>4, <2>5
  <2>10. /\ IsHistory(ghost') /\ ghost'.maxBal = top /\ ghost'.marksSaved = kept
         /\ ghost'.intact = ghost.intact
    BY <1>t, <2>3, <2>4, <2>5 DEF IsHistory
  <2>11. /\ db' \in Log /\ db'.total = db.total /\ db'.maxCum = db.maxCum
         /\ bal > broker.hwm /\ dbUp /\ saved => db'.hwm = Larger(db.hwm, bal)
         /\ ~(bal > broker.hwm /\ dbUp /\ saved) => db'.hwm = db.hwm
    <3>1. Larger(db.hwm, bal) \in Int BY <1>k, <2>2, LargerFact
    <3>2. QED BY <1>t, <2>1, <3>1 DEF set_account_hwm
  <2>12. TypeOK' BY <1>t, <2>1, <2>8, <2>9, <2>10, <2>11 DEF TypeOK
  <2>13. MarkSaved' /\ MarkNeverForgotten'
    <3>1. /\ db.hwm >= Start /\ ghost.maxBal >= Start /\ db.hwm <= ghost.maxBal
          /\ ghost.marksSaved => db.hwm = ghost.maxBal
          /\ broker.hwm <= ghost.maxBal
          /\ ghost.marksSaved /\ dbUp => broker.hwm = ghost.maxBal
      BY <1>i DEF MarkSaved, MarkNeverForgotten
    <3>2. db'.hwm \in {db.hwm, Larger(db.hwm, bal)} BY <2>11
    <3>3. /\ db'.hwm >= Start /\ top >= Start /\ db'.hwm <= top /\ hwm <= top
      BY <1>k, <2>2, <2>7, <3>1, <3>2 DEF Larger
    <3>4. kept => db'.hwm = top
      BY <1>k, <2>2, <2>6, <2>7, <2>11, <3>1 DEF Larger
    <3>5. kept /\ dbUp => hwm = top
      BY <1>k, <2>2, <2>6, <2>7, <3>1 DEF Larger
    <3>6. dbUp' = dbUp BY <2>1
    <3>7. QED BY <2>9, <2>10, <3>3, <3>4, <3>5, <3>6 DEF MarkSaved, MarkNeverForgotten
  <2>14. LogShape' /\ GaugeMatchesLedger'
    BY <1>i, <2>1, <2>8, <2>10, <2>11
    DEF LogShape, GaugeMatchesLedger, LedgerTotal, LedgerPeak
  <2>15. OpenWithinLimit' /\ OneTradePastTheLimit'
    BY <1>i, <2>1, <2>8 DEF OpenWithinLimit, OneTradePastTheLimit, DailyBreached
  <2>16. QED BY <2>12, <2>13, <2>14, <2>15 DEF IInv
<1>7. CASE Reconnect
  <2>1. PICK up \in BOOLEAN : dbUp' = up /\ broker' = new_broker(db, up)
    BY <1>7 DEF Reconnect
  <2>2. /\ rm' = rm /\ db' = db /\ open' = FALSE /\ done' = FALSE /\ donePnl' = 0
        /\ ghost' = [ghost EXCEPT !.intact = @ /\ ~done, !.recorded = @ /\ ~done]
        /\ count' = [count EXCEPT !.runs = @ + 1] /\ count.runs < MaxRuns
    BY <1>7 DEF Reconnect
  <2>3. /\ broker' \in Marks /\ (up => broker'.hwm = db.hwm) /\ broker'.hwm <= db.hwm
    BY <1>t, <1>i, <2>1, BrokerFact DEF MarkSaved
  <2>4. /\ IsHistory(ghost') /\ ghost'.maxBal = ghost.maxBal
        /\ ghost'.marksSaved = ghost.marksSaved /\ (ghost'.intact => ghost.intact /\ ~done)
    <3> DEFINE i == ghost.intact /\ ~done
               c == ghost.recorded /\ ~done
    <3>1. i \in BOOLEAN /\ c \in BOOLEAN OBVIOUS
    <3>2. ghost' = [ghost EXCEPT !.intact = i, !.recorded = c] BY <1>t, <2>2 DEF IsHistory
    <3>3. i => ghost.intact /\ ~done OBVIOUS
    <3> HIDE DEF i, c
    <3>4. IsHistory(ghost') BY <1>t, <3>1, <3>2 DEF IsHistory
    <3>5. ghost'.intact = i /\ ghost'.maxBal = ghost.maxBal /\ ghost'.marksSaved = ghost.marksSaved
      BY <1>t, <3>2 DEF IsHistory
    <3>6. QED BY <3>3, <3>4, <3>5
  <2>5. count' \in [trades : 0 .. MaxTrades, days : 0 .. MaxDays, runs : 0 .. MaxRuns]
    <3>1. count.runs + 1 \in 0 .. MaxRuns BY <1>t, <2>2, BoundsAssumption
    <3>2. QED BY <1>t, <2>2, <3>1
  <2>6. TypeOK'
    <3>1. open' \in BOOLEAN /\ done' \in BOOLEAN /\ dbUp' \in BOOLEAN BY <2>1, <2>2
    <3>2. rm' = rm /\ db' = db /\ donePnl' = 0 BY <2>2
    <3>3. QED BY <1>t, <2>3, <2>4, <2>5, <3>1, <3>2 DEF TypeOK
  <2>7. LogShape' /\ OpenWithinLimit' /\ OneTradePastTheLimit'
    BY <1>i, <2>2 DEF LogShape, OpenWithinLimit, OneTradePastTheLimit, DailyBreached
  <2>8. MarkSaved' /\ MarkNeverForgotten'
    <3>1. broker'.hwm <= ghost.maxBal
      BY <1>k, <1>i, <2>3 DEF MarkSaved
    <3>2. QED BY <1>i, <2>1, <2>2, <2>3, <2>4, <3>1 DEF MarkSaved, MarkNeverForgotten
  <2>9. GaugeMatchesLedger'
    <3> SUFFICES ASSUME ghost'.intact PROVE GaugeMatchesLedger'
      BY DEF GaugeMatchesLedger
    <3>1. donePnl = 0 /\ donePnl' = 0 /\ ghost.intact BY <1>i, <2>2, <2>4 DEF LogShape
    <3>2. QED BY <1>i, <2>2, <3>1 DEF GaugeMatchesLedger, LedgerTotal, LedgerPeak
  <2>10. QED BY <2>6, <2>7, <2>8, <2>9 DEF IInv
<1>8. CASE Restart
  <2> DEFINE dd(newDay) == IF newDay THEN [db EXCEPT !.today = 0] ELSE db
  <2>1. PICK up \in BOOLEAN, newDay \in BOOLEAN :
          /\ newDay => count.days < MaxDays
          /\ rm' = reset_daily(IF up THEN seed(dd(newDay)) ELSE Fresh)
          /\ db' = dd(newDay) /\ dbUp' = up /\ broker' = new_broker(dd(newDay), up)
          /\ ghost' = [ghost EXCEPT !.intact = up, !.recorded = @ /\ up /\ ~done,
                                    !.account = FALSE, !.today = IF newDay THEN 0 ELSE @]
          /\ count' = [count EXCEPT !.runs = @ + 1, !.days = IF newDay THEN @ + 1 ELSE @]
    BY <1>8 DEF Restart
  <2>2. open' = FALSE /\ done' = FALSE /\ donePnl' = 0 /\ count.runs < MaxRuns
    BY <1>8 DEF Restart
  <2> DEFINE d == dd(newDay)
  <2>3. d \in Log /\ d.total = db.total /\ d.maxCum = db.maxCum /\ d.hwm = db.hwm
    BY <1>t
  <2>4. /\ rm' = reset_daily(IF up THEN seed(d) ELSE Fresh)
        /\ db' = d /\ broker' = new_broker(d, up)
    BY <2>1
  <2> HIDE DEF d, dd
  <2>5. d.maxCum >= d.total /\ d.maxCum >= 0 /\ d.hwm >= Start
    BY <1>i, <2>3 DEF LogShape, MarkSaved
  <2>6. /\ IsRiskManager(rm') /\ rm'.daily = 0
        /\ up => /\ rm'.equity = Start + d.total /\ rm'.total = d.total
                 /\ rm'.peak = Start + d.maxCum
    <3>1. CASE up
      <4>1. /\ IsRiskManager(seed(d)) /\ seed(d).equity = Start + d.total
            /\ seed(d).total = d.total /\ seed(d).peak = Start + d.maxCum
        BY <2>3, <2>5, SeedFact
      <4>2. rm' = reset_daily(seed(d)) BY <2>4, <3>1
      <4>3. QED BY <4>1, <4>2, ResetFact
    <3>2. CASE ~up BY <2>4, <3>2, FreshFact, ResetFact
    <3>3. QED BY <3>1, <3>2
  <2>7. broker' \in Marks /\ (up => broker'.hwm = d.hwm) /\ broker'.hwm <= d.hwm
    BY <2>3, <2>4, <2>5, BrokerFact
  <2>8. /\ IsHistory(ghost') /\ ghost'.maxBal = ghost.maxBal
        /\ ghost'.marksSaved = ghost.marksSaved /\ (ghost'.intact => up)
    <3> DEFINE c == ghost.recorded /\ up /\ ~done
               y == IF newDay THEN 0 ELSE ghost.today
    <3>1. c \in BOOLEAN OBVIOUS
    <3>2. y \in Int BY <1>k
    <3>3. ghost' = [ghost EXCEPT !.intact = up, !.recorded = c, !.account = FALSE, !.today = y]
      BY <1>t, <2>1 DEF IsHistory
    <3> HIDE DEF c, y
    <3>4. IsHistory(ghost') BY <1>t, <3>1, <3>2, <3>3 DEF IsHistory
    <3>5. ghost'.intact = up /\ ghost'.maxBal = ghost.maxBal /\ ghost'.marksSaved = ghost.marksSaved
      BY <1>t, <3>3 DEF IsHistory
    <3>6. QED BY <3>4, <3>5
  <2>9. count' \in [trades : 0 .. MaxTrades, days : 0 .. MaxDays, runs : 0 .. MaxRuns]
    <3> DEFINE day == IF newDay THEN count.days + 1 ELSE count.days
    <3>1. count.runs + 1 \in 0 .. MaxRuns BY <1>t, <2>2, BoundsAssumption
    <3>2. day \in 0 .. MaxDays BY <1>t, <2>1, BoundsAssumption
    <3>3. count' = [count EXCEPT !.runs = count.runs + 1, !.days = day] BY <1>t, <2>1
    <3> HIDE DEF day
    <3>4. QED BY <1>t, <3>1, <3>2, <3>3
  <2>10. TypeOK'
    <3>1. open' \in BOOLEAN /\ done' \in BOOLEAN /\ dbUp' \in BOOLEAN BY <2>1, <2>2
    <3>2. donePnl' \in Int /\ db' \in Log BY <2>2, <2>3, <2>4
    <3>3. QED BY <2>6, <2>7, <2>8, <2>9, <3>1, <3>2 DEF TypeOK
  <2>11. LogShape' BY <2>2, <2>4, <2>5 DEF LogShape
  <2>12. OpenWithinLimit' /\ OneTradePastTheLimit'
    <3>1. ~DailyBreached(rm') BY <1>k, <2>6 DEF DailyBreached
    <3>2. QED BY <3>1 DEF OpenWithinLimit, OneTradePastTheLimit
  <2>13. MarkSaved' /\ MarkNeverForgotten'
    <3>1. broker'.hwm <= ghost.maxBal BY <1>k, <1>i, <2>3, <2>7 DEF MarkSaved
    <3>2. dbUp' = up BY <2>1
    <3>3. QED BY <1>i, <2>3, <2>4, <2>7, <2>8, <3>1, <3>2 DEF MarkSaved, MarkNeverForgotten
  <2>14. GaugeMatchesLedger'
    <3> SUFFICES ASSUME ghost'.intact
                 PROVE  /\ rm'.total = d.total /\ rm'.equity = Start + d.total
                        /\ rm'.peak = Start + Larger(d.maxCum, d.total)
      <4>1. d.total + 0 = d.total BY <2>3
      <4>2. QED BY <2>2, <2>4, <4>1 DEF GaugeMatchesLedger, LedgerTotal, LedgerPeak
    <3>1. Larger(d.maxCum, d.total) = d.maxCum BY <2>3, <2>5 DEF Larger
    <3>2. QED BY <2>6, <2>8, <3>1
  <2>15. QED BY <2>10, <2>11, <2>12, <2>13, <2>14 DEF IInv
<1>9. CASE UNCHANGED vars
  BY <1>9, <1>t, <1>i DEF vars, IInv, TypeOK, LogShape, OpenWithinLimit, MarkSaved,
    GaugeMatchesLedger, OneTradePastTheLimit, MarkNeverForgotten, DailyBreached,
    LedgerTotal, LedgerPeak
<1>q. QED BY <1>1, <1>2, <1>3, <1>4, <1>5, <1>6, <1>7, <1>8, <1>9 DEF Next

\* IInv is an invariant of the risk manager over the account's life.
THEOREM Invariance == Spec => []IInv
  BY InitIInv, NextIInv, PTL DEF Spec

\* The manager's state is well formed and it gives a reason exactly while it is
\* halted.
THEOREM TypeCorrect == Spec => []TypeOK
<1>1. IInv => TypeOK BY DEF IInv
<1>2. QED BY Invariance, <1>1, PTL

\* The drawdown gauge is the trade log's, across restarts (risk_manager.hpp and
\* the seeding of run_executor).
THEOREM GaugeTheorem == Spec => []GaugeMatchesLedger
<1>1. IInv => GaugeMatchesLedger BY DEF IInv
<1>2. QED BY Invariance, <1>1, PTL

\* At most one trade of a day in a process passes daily_loss_limit.
THEOREM LossBoundTheorem == Spec => []OneTradePastTheLimit
<1>1. IInv => OneTradePastTheLimit BY DEF IInv
<1>2. QED BY Invariance, <1>1, PTL

\* A saved broker high-water mark is never forgotten.
THEOREM MarkTheorem == Spec => []MarkNeverForgotten
<1>1. IInv => MarkNeverForgotten BY DEF IInv
<1>2. QED BY Invariance, <1>1, PTL

\* No entry is accepted at or beyond the trailing-drawdown cap of the recorded
\* trades, in whichever process.
THEOREM DrawdownTheorem == Spec => NoEntryThroughDrawdown
<1>1. IInv /\ [Next]_vars =>
        [~open /\ open' /\ ghost.intact => LedgerPeak - LedgerTotal < Cap]_vars
  <2> SUFFICES ASSUME IInv, Next, ~open, open', ghost.intact
               PROVE  LedgerPeak - LedgerTotal < Cap
    BY DEF vars
  <2>1. OnSignal
    BY DEF Next, CloseTrade, CloseTradeNonFinite, EodTick, HandlePosUpdateNoBalance,
      HandlePosUpdate, Reconnect, Restart
  <2>2. ~(rm.peak - rm.equity >= Cap)
    BY <2>1 DEF OnSignal, can_trade, DrawdownBreached
  <2>3. rm.equity = Start + LedgerTotal /\ rm.peak = Start + LedgerPeak
    BY DEF IInv, GaugeMatchesLedger
  <2>4. LedgerTotal \in Int /\ LedgerPeak \in Int
    <3>1. donePnl \in Int /\ db.total \in Int /\ db.maxCum \in Int BY DEF IInv, TypeOK
    <3>2. LedgerTotal \in Int BY <3>1 DEF LedgerTotal
    <3>3. QED BY <3>1, <3>2, LargerFact DEF LedgerPeak
  <2>5. QED BY <2>2, <2>3, <2>4, AmountsAssumption, CapAssumption
<1>2. QED BY Invariance, <1>1, PTL DEF Spec, NoEntryThroughDrawdown
=============================================================================
