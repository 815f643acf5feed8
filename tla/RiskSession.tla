---------------------------- MODULE RiskSession ----------------------------
(***************************************************************************)
(* The risk manager (execution/risk_manager.hpp) over the life of the      *)
(* account: trades that close, trading days, reconnects and restarts of    *)
(* the executor, the trade log it is seeded from and the broker's own      *)
(* figures (tid=451).                                                      *)
(*                                                                         *)
(* RiskManager's methods are operators from a record of its members to a   *)
(* record; the actions are the places of the executor that call them.      *)
(* Amounts are integers.  The halt reasons are the prefixes the code       *)
(* tests.  The instance lock is account-wide, so one executor writes the   *)
(* account's trades.  clear_halt() and update_unrealized() have no caller  *)
(* in the executor and unrealized_pnl_ keeps its initial 0.                *)
(***************************************************************************)
EXTENDS Integers

CONSTANTS Start,        \* starting_balance
          DailyLimit,   \* daily_loss_limit (negative: enabled)
          Cap,          \* trailing_drawdown_cap
          MinPrior,     \* prior profit below which the consistency cap is off
          CapPct,       \* consistency_cap_pct, in percent
          CycleMode,    \* cycle_mode
          Pnls,         \* what a trade can make
          Balances,     \* what the broker can report as account balance
          MaxTrades, MaxDays, MaxRuns   \* bounds

ASSUME AmountsAssumption == /\ Start \in Int /\ DailyLimit \in Int /\ MinPrior \in Int
                            /\ CapPct \in Int /\ CycleMode \in BOOLEAN
ASSUME CapAssumption == Cap \in Int /\ Cap > 0    \* main() refuses anything else
ASSUME InputsAssumption == Pnls \subseteq Int /\ Balances \subseteq Int
ASSUME BoundsAssumption == MaxTrades \in Nat /\ MaxDays \in Nat /\ MaxRuns \in Nat

VARIABLES rm,        \* the RiskManager
          open,      \* an entry was accepted and its trade has not closed
          done,      \* trade_completed_: a closed trade not yet popped
          donePnl,   \* its P&L (0 when there is none)
          db,        \* live_trades, as its sums, and live_account_hwm
          dbUp,      \* the OrbDB of this run_executor is connected
          broker,    \* broker_hwm and the two latches of run_executor
          ghost,     \* history the properties speak about
          count      \* trades, days and runs so far

vars == <<rm, open, done, donePnl, db, dbUp, broker, ghost, count>>

Reason == {"none", "daily_loss_limit", "trailing_drawdown_cap", "consistency_cap",
           "non_finite_pnl", "broker_day_pnl", "broker_trailing_drawdown"}

\* The reasons risk_manager.hpp calls account-level.
AccountLevel == {"trailing_drawdown_cap", "consistency_cap", "broker_trailing_drawdown"}

Larger(a, b) == IF a >= b THEN a ELSE b

-----------------------------------------------------------------------------
(* RiskManager. *)

Fresh == [equity |-> Start, peak |-> Start, total |-> 0, daily |-> 0,
          halted |-> FALSE, reason |-> "none"]

halt(r, why) == [r EXCEPT !.halted = TRUE, !.reason = why]

seed_total_profit(r, pnl) == [r EXCEPT !.total = pnl]
seed_daily_pnl(r, pnl) == [r EXCEPT !.daily = pnl]
set_equity(r, eq) == [r EXCEPT !.equity = eq, !.peak = Larger(@, eq)]

\* Mutant: the reason outlives the halt.
reset_daily_keeps_reason(r) ==
  [r EXCEPT !.daily = 0, !.halted = r.halted /\ r.reason # "daily_loss_limit"]

reset_daily(r) ==
  LET d == [r EXCEPT !.daily = 0] IN
  IF r.halted /\ r.reason = "daily_loss_limit"
  THEN [d EXCEPT !.halted = FALSE, !.reason = "none"] ELSE d

DailyBreached(r) == DailyLimit < 0 /\ r.daily <= DailyLimit
DrawdownBreached(r) == r.peak - r.equity >= Cap
ConsistencyBreached(r) ==
  LET prior == r.total - r.daily IN
  ~CycleMode /\ prior >= MinPrior /\ r.daily > 0 /\ r.daily * 100 > CapPct * prior

book_pnl(r, pnl) ==
  [r EXCEPT !.equity = @ + pnl, !.daily = @ + pnl, !.total = @ + pnl,
            !.peak = Larger(@, r.equity + pnl)]

\* The first limit that trips names the halt.
on_trade_pnl(r, pnl) ==
  LET t == book_pnl(r, pnl) IN
  CASE DailyBreached(t) -> halt(t, "daily_loss_limit")
    [] ~DailyBreached(t) /\ DrawdownBreached(t) -> halt(t, "trailing_drawdown_cap")
    [] ~DailyBreached(t) /\ ~DrawdownBreached(t) /\ ConsistencyBreached(t) ->
         halt(t, "consistency_cap")
    [] OTHER -> t

\* Mutant: a halt is taken to cover the drawdown.
can_trade_halt_only(r) == ~r.halted

\* Mutant: a halt and the day's loss are not looked at.
can_trade_drawdown_only(r) == ~DrawdownBreached(r)

can_trade(r) == ~r.halted /\ ~DailyBreached(r) /\ ~DrawdownBreached(r)

-----------------------------------------------------------------------------
(* The trade log and the broker's high-water mark. *)

NoMark == Start       \* NaN: broker_hwm() falls back to the starting balance

write_trade(d, pnl) ==
  [d EXCEPT !.total = @ + pnl, !.today = @ + pnl, !.maxCum = Larger(@, d.total + pnl)]

get_peak_equity(d) == Start + d.maxCum

\* INSERT ... ON CONFLICT DO UPDATE SET GREATEST(...)
set_account_hwm(d, mark) == [d EXCEPT !.hwm = Larger(@, mark)]

broker_drawdown_breached(bal, hwm) == bal <= hwm - Cap

\* Mutant: the peak seeded last also becomes the equity.
seed_peak_last(d) ==
  seed_daily_pnl(set_equity(set_equity(seed_total_profit(Fresh, d.total), Start + d.total),
                            get_peak_equity(d)), d.today)

\* run_executor on a first start: the peak first, then the equity.
seed(d) ==
  seed_daily_pnl(set_equity(set_equity(seed_total_profit(Fresh, d.total),
                                       get_peak_equity(d)), Start + d.total), d.today)

\* Mutant: the mark of an earlier run is not read back.
new_broker_from_start(d, up) == [hwm |-> Start, lossHalted |-> FALSE, ddHalted |-> FALSE]

\* A run_executor begins: its latches are new, the mark comes from the DB.
new_broker(d, up) == [hwm |-> IF up THEN Larger(d.hwm, Start) ELSE Start,
                      lossHalted |-> FALSE, ddHalted |-> FALSE]

-----------------------------------------------------------------------------
(* The executor's steps. *)

Init ==
  /\ rm = Fresh /\ open = FALSE /\ done = FALSE /\ donePnl = 0
  /\ db = [total |-> 0, today |-> 0, maxCum |-> 0, hwm |-> NoMark]
  /\ dbUp = TRUE
  /\ broker = new_broker(db, TRUE)
  /\ ghost = [intact |-> TRUE, recorded |-> TRUE, marksSaved |-> TRUE, finite |-> TRUE,
              today |-> 0, maxBal |-> Start, account |-> FALSE]
  /\ count = [trades |-> 0, days |-> 0, runs |-> 0]

\* OrderManager::on_signal: only while FLAT and can_trade().
OnSignal ==
  /\ ~open /\ count.trades < MaxTrades
  /\ can_trade(rm)
  /\ open' = TRUE
  /\ count' = [count EXCEPT !.trades = @ + 1]
  /\ UNCHANGED <<rm, done, donePnl, db, dbUp, broker, ghost>>

\* The exit fill: completed_pos_ holds one trade, an unpopped one is replaced.
CloseTrade ==
  /\ open
  /\ \E pnl \in Pnls :
       /\ rm' = on_trade_pnl(rm, pnl)
       /\ donePnl' = pnl
       /\ ghost' = [ghost EXCEPT !.intact = @ /\ ~done, !.recorded = @ /\ ~done,
                                 !.today = @ + pnl,
                                 !.account = @ \/ (rm'.halted /\ rm'.reason \in AccountLevel)]
  /\ open' = FALSE /\ done' = TRUE
  /\ UNCHANGED <<db, dbUp, broker, count>>

\* A fill price that is not finite: nothing is booked, the manager halts.
CloseTradeNonFinite ==
  /\ open
  /\ rm' = halt(rm, "non_finite_pnl")
  /\ open' = FALSE /\ done' = TRUE /\ donePnl' = 0
  /\ ghost' = [ghost EXCEPT !.intact = FALSE, !.recorded = FALSE, !.finite = FALSE]
  /\ UNCHANGED <<db, dbUp, broker, count>>

\* One pass of eod_loop: the date rollover, then the completed trade (popped
\* before the write, so a write that fails loses it; `ok`: it does not).
EodTick ==
  \E newDay, ok \in BOOLEAN :
    LET d == IF newDay THEN [db EXCEPT !.today = 0] ELSE db IN
    /\ newDay \/ done
    /\ newDay => count.days < MaxDays
    /\ rm' = IF newDay THEN reset_daily(rm) ELSE rm
    /\ db' = IF done /\ dbUp /\ ok THEN write_trade(d, donePnl) ELSE d
    /\ done' = FALSE /\ donePnl' = 0
    /\ count' = IF newDay THEN [count EXCEPT !.days = @ + 1] ELSE count
    /\ ghost' = [ghost EXCEPT !.intact = @ /\ (done => dbUp /\ ok),
                              !.recorded = @ /\ (done => dbUp /\ ok),
                              !.today = IF newDay THEN 0 ELSE @]
    /\ UNCHANGED <<open, dbUp, broker>>

\* handle_pos_update, its broker-truth part: day P&L, then balance.  An absent
\* balance is the other disjunct.
BrokerDayPnl(breached) ==
  IF breached /\ ~broker.lossHalted THEN halt(rm, "broker_day_pnl") ELSE rm

HandlePosUpdateNoBalance ==
  \E breached \in BOOLEAN :
    /\ rm' = BrokerDayPnl(breached)
    /\ broker' = [broker EXCEPT !.lossHalted = @ \/ breached]
    /\ UNCHANGED <<open, done, donePnl, db, dbUp, ghost, count>>

HandlePosUpdate ==
  \E breached, saved \in BOOLEAN, bal \in Balances :
    LET hwm == Larger(broker.hwm, bal)
        trips == ~broker.ddHalted /\ broker_drawdown_breached(bal, hwm) IN
    /\ rm' = IF trips THEN halt(BrokerDayPnl(breached), "broker_trailing_drawdown")
             ELSE BrokerDayPnl(breached)
    /\ broker' = [hwm |-> hwm, lossHalted |-> broker.lossHalted \/ breached,
                  ddHalted |-> broker.ddHalted \/ trips]
    /\ db' = IF bal > broker.hwm /\ dbUp /\ saved THEN set_account_hwm(db, bal) ELSE db
    /\ ghost' = [ghost EXCEPT !.maxBal = Larger(@, bal),
                              !.marksSaved = @ /\ (bal > db.hwm => dbUp /\ saved),
                              !.account = @ \/ trips]
    /\ UNCHANGED <<open, done, donePnl, dbUp, count>>

\* The MD session ended: a new run_executor and OrderManager; risk survives,
\* the unpopped trade does not.
Reconnect ==
  /\ count.runs < MaxRuns
  /\ \E up \in BOOLEAN : dbUp' = up /\ broker' = new_broker(db, up)
  /\ open' = FALSE /\ done' = FALSE /\ donePnl' = 0
  /\ ghost' = [ghost EXCEPT !.intact = @ /\ ~done, !.recorded = @ /\ ~done]
  /\ count' = [count EXCEPT !.runs = @ + 1]
  /\ UNCHANGED <<rm, db>>

\* A new process, on the same or a later day: seeded from the DB when it can be
\* reached, then reset_daily() of the session setup.  What a non-finite row does
\* to the sums is not explored.
Restart ==
  /\ count.runs < MaxRuns
  /\ ghost.finite
  /\ \E up, newDay \in BOOLEAN :
       LET d == IF newDay THEN [db EXCEPT !.today = 0] ELSE db IN
       /\ newDay => count.days < MaxDays
       /\ rm' = reset_daily(IF up THEN seed(d) ELSE Fresh)
       /\ db' = d /\ dbUp' = up /\ broker' = new_broker(d, up)
       /\ ghost' = [ghost EXCEPT !.intact = up, !.recorded = @ /\ up /\ ~done,
                                 !.account = FALSE,
                                 !.today = IF newDay THEN 0 ELSE @]
       /\ count' = [count EXCEPT !.runs = @ + 1, !.days = IF newDay THEN @ + 1 ELSE @]
  /\ open' = FALSE /\ done' = FALSE /\ donePnl' = 0

Next == \/ OnSignal \/ CloseTrade \/ CloseTradeNonFinite \/ EodTick
        \/ HandlePosUpdateNoBalance \/ HandlePosUpdate \/ Reconnect \/ Restart

Spec == Init /\ [][Next]_vars

-----------------------------------------------------------------------------
(* Properties. *)

\* The members of the manager; there is a reason exactly while there is a halt.
IsRiskManager(r) ==
  /\ DOMAIN r = DOMAIN Fresh
  /\ r.equity \in Int /\ r.peak \in Int /\ r.total \in Int /\ r.daily \in Int
  /\ r.halted \in BOOLEAN /\ r.reason \in Reason
  /\ r.halted <=> r.reason # "none"

IsHistory(g) ==
  /\ DOMAIN g = {"intact", "recorded", "marksSaved", "finite", "today", "maxBal", "account"}
  /\ g.intact \in BOOLEAN /\ g.recorded \in BOOLEAN /\ g.marksSaved \in BOOLEAN
  /\ g.finite \in BOOLEAN /\ g.account \in BOOLEAN
  /\ g.today \in Int /\ g.maxBal \in Int

\* The type of the state, and that the manager is halted exactly when it has a
\* reason to give (halted_ and halt_reason_ are written together).
TypeOK ==
  /\ IsRiskManager(rm) /\ IsHistory(ghost)
  /\ open \in BOOLEAN /\ done \in BOOLEAN /\ dbUp \in BOOLEAN
  /\ donePnl \in Int
  /\ db \in [total : Int, today : Int, maxCum : Int, hwm : Int]
  /\ broker \in [hwm : Int, lossHalted : BOOLEAN, ddHalted : BOOLEAN]
  /\ count \in [trades : 0 .. MaxTrades, days : 0 .. MaxDays, runs : 0 .. MaxRuns]

LedgerTotal == db.total + donePnl
LedgerPeak == Larger(db.maxCum, LedgerTotal)

\* Unless a trade was lost on its way to the trade log (ghost.intact), the gauge
\* the drawdown is measured on is the log's: equity, peak and total profit are
\* those of the trades recorded plus the one still to be written, across closes,
\* rollovers, reconnects and restarts (seed, set_equity, on_trade_pnl).
GaugeMatchesLedger ==
  ghost.intact => /\ rm.total = LedgerTotal
                  /\ rm.equity = Start + LedgerTotal
                  /\ rm.peak = Start + LedgerPeak

\* A day's loss passes daily_loss_limit by one trade at most: the trade that
\* crossed it was entered above it, and none is entered after (on_trade_pnl,
\* can_trade, reset_daily while a position is open).
OneTradePastTheLimit ==
  DailyBreached(rm) => \E pnl \in Pnls : rm.daily - pnl > DailyLimit

\* No entry is accepted once the recorded trades are Cap below their peak, also
\* in a process started after the halt of the one that saw it happen was
\* forgotten (can_trade re-checks the seeded gauge).
NoEntryThroughDrawdown ==
  [][~open /\ open' /\ ghost.intact => LedgerPeak - LedgerTotal < Cap]_vars

\* "Persisted per live label so a restart cannot forget a balance the account
\* once reached" (orb_db.hpp:561-562): while its marks could be saved, a run that
\* reaches the DB measures the broker drawdown from the highest balance any run
\* was told of.
MarkNeverForgotten ==
  ghost.marksSaved /\ dbUp => broker.hwm = ghost.maxBal

\* "a restarted process cannot re-spend the daily loss limit it already consumed
\* before the restart" (orb_db.hpp:591-592): when every trade reached the trade
\* log and a restarted process could read it, no entry is accepted on a day whose
\* trades have lost daily_loss_limit.
DailyLimitNotRespent ==
  [][~open /\ open' /\ ghost.recorded /\ DailyLimit < 0 => ghost.today > DailyLimit]_vars

\* "a trailing-drawdown or consistency-cap breach is an account-level ... event
\* and must survive midnight until clear_halt() is invoked manually"
\* (risk_manager.hpp:58-60): within a process such a halt is never lifted.
AccountHaltSurvives == ghost.account => rm.halted

=============================================================================
