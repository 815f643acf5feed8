SPECIFICATION Spec
CONSTANTS
  Qty = 2
  Grace = 3
  Retry = 3
  Lag = 1
  Strays <- MCStrays
  MaxUnwinds = 8
  Scenarios <- MCScenarios
INVARIANTS
  TypeOK
  NoFalseAlarm
PROPERTIES
  UnwindsCloseWhatWasReported
  Converges
