SPECIFICATION Spec
CONSTANTS
  MaxTrades = 2
  MaxAge = 1
  RUnit = 1
  BeAt = 1
  TrailAt = 1
  CoolAfter = 2
  CoolBars = 1
  RegimeBars = 1
  HtfKeep = 2
  Unlimited = {}
  MaxDrops = 1
  DropModes <- MCDrops
  LiveTrend <- MCTrend
  LiveMtf <- MCMtf
INVARIANTS TypeOK EngineInStep LegHasEngine HaltHolds OneTry StreakIsHistory
PROPERTIES GenuineCross StopNeverRetreats LegContract
