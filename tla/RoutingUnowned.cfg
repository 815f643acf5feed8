SPECIFICATION RSpec
CONSTANTS
  MaxBaskets = 5
  Qty = 1
  Signals <- MCSignals
  MaxMishaps = 0
  MaxWire = 2
PROPERTIES
  UnownedFillIsHandled
