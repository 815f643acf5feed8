SPECIFICATION Spec
CONSTANTS
  MaxTrades = 1
  MaxAge = 1
  RUnit = 1
  BeAt = 1
  TrailAt = 1
  CoolAfter = 2
  CoolBars = 1
  RegimeBars = 1
  HtfKeep = 2
  Unlimited = {"plain"}
  Sl = 1
  BeTrigger = 2
  Steps <- MCSteps
  LimitModes <- MCLimits
  RiskModes <- MCRisks
  WarmModes <- MCWarms
  MaxStarts = 2
  PaperTrend <- MCTrend
  PaperMtf <- MCMtf
INVARIANTS TypeOK PaperInStep AccountHaltHolds
PROPERTIES PastTape PaperStopHolds
