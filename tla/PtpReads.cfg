SPECIFICATION Spec
CONSTANTS
  Callers = {a, b}
  NULL = NULL
  Second = 3
  Seconds = 5
  Counter = 22
  Times = {10, 16}
  Deltas = {0, 4}
  Freqs = {0, 65536}
  MaxTicks = 3
  MaxCalls = 3
  Faults = TRUE
INVARIANTS TypeOK ReadingTrue WritesLand RateAsAsked InTheCall
