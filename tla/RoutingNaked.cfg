SPECIFICATION RSpec
CONSTANTS
  MaxBaskets = 6
  Qty = 1
  Signals <- MCSignals
  MaxMishaps = 1
  MaxWire = 2
INVARIANTS
  NeverNaked
