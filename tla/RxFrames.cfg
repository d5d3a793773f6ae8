SPECIFICATION Spec
CONSTANTS
  OA_TC6_CHUNK_PAYLOAD_SIZE = 64
  FrameLens = {40, 72, 140}
  StartOffsets = {0, 32}
  TailLens = {8, 40}
  MaxFrames = 3
  MaxTransfer = 3
  MaxOverflows = 2
  ErrorsUnmasked = TRUE
  BadFrames = FALSE
  Faults = {"nomem", "device", "spi"}
INVARIANTS
  TypeOK
  RxSkbThere
  NoSkbLost
  AllDelivered
PROPERTIES
  FramesComeUp
CHECK_DEADLOCK FALSE
