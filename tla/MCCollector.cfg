SPECIFICATION Spec
CONSTANTS
  Stream = "tick"
  FlushN = 2
  QueueMax = 2
  MaxRows = 3
  MaxFaults = 2
  MaxCrashes = 2
INVARIANTS
  TypeOK
  NothingVanishes
  LoggedRowsSurvive
  NoDuplicates
PROPERTIES
  WriteAhead
