CONSTANTS
  Nobody = Nobody
  Idle = Idle
  Clients = {k, p, q}
  Phy22 = {q}
  Phy45 = {p}
  Chardev = {}
  Tool = {}
  Starts = {0}
  Lengths = {0, 1, 2}
  Values = {7}
  MaxLength = 2
  MaxCalls = 3
  Faults = {"spi", "mosi", "miso"}
SPECIFICATION FairSpec
INVARIANT ErrorsAnswered
PROPERTIES AccessesAtomic CallsReturn
CHECK_DEADLOCK FALSE
