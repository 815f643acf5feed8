SPECIFICATION Spec
CONSTANTS
  Start = 10
  DailyLimit <- MCDailyLimit
  Cap = 4
  MinPrior = 2
  CapPct = 50
  CycleMode = FALSE
  Pnls <- MCPnls
  Balances <- MCBalances
  MaxTrades = 3
  MaxDays = 1
  MaxRuns = 2
CHECK_DEADLOCK FALSE
INVARIANTS
  AccountHaltSurvives
