CONSTANTS
  NULL = NULL
  GptpFrames = {g1, g2}
  NormalFrames = {n1}
  PlainFrames = {}
  UnsetModes = {0}
  UnsetStatus = {{}}
  Errors = {5}
  Unmasked = {5}
  Capacity = 1
  MaxConfig = 1
  MaxHasty = 0
  MaxUnclear = 1
  Faults = {"alloc", "busy", "read", "write"}
SPECIFICATION FairSpec
INVARIANTS StampsTrue CloneThere
PROPERTIES  FatalStops
CHECK_DEADLOCK FALSE
