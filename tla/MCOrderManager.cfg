SPECIFICATION Spec
CONSTANTS
  MaxBaskets = 4
  Qty = 2
VIEW View
INVARIANTS
  TypeOK
  PositionShape
  SessionGuardsCovered
  GuardsPersisted
  RetriesAreGuarded
  StopClosesPosition
PROPERTIES LegContract
