SPECIFICATION HeaderSpec
CONSTANTS
  CommandAddresses = {0, 4, 65535, 65536, 131071, 720896, 1048575, 1073741828}
  CommandLengths = {1, 2, 127, 128}
  EndOffsets = {0, 1, 31, 32, 63}
  Nanoseconds = {{}, {0}, {0, 3, 5, 8, 29}, {9, 27, 28, 29}}
INVARIANTS HeadersDecode ChipParams FiltersAgree
CHECK_DEADLOCK FALSE
