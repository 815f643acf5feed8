SPECIFICATION Spec
CONSTANTS
  MaxTrades = 2
  MaxAge = 1
  RUnit = 1
  BeAt = 1
  TrailAt = 1
  CoolAfter = 2
  CoolBars = 1
  RegimeBars = 1
  HtfKeep = 2
  Unlimited = {}
  MaxDrops = 0
  DropModes = {}
  LiveTrend = {}
  LiveMtf = {}
PROPERTIES EodFlattens
