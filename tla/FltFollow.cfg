CONSTANTS
  Addresses = {{0, 33}, {1, 34}}
  Groups = {{0}, {0, 5, 40}, {1, 11}}
  Flags = {"promisc", "allmulti"}
  Effects = {"lost", "done"}
  MaxFaults = 2
  MaxChanges = 4
  NodeIdStep = TRUE
SPECIFICATION FairSpec
INVARIANTS GroupsKept AddressConsistent
PROPERTIES FilterFollows
CHECK_DEADLOCK FALSE
