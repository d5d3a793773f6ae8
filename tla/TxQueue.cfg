SPECIFICATION TrafficSpec
CONSTANTS
  TxBuffers = 1
  RxBuffers = 1
  FooterMax = 1
  OA_TC6_CHUNK_PAYLOAD_SIZE = 1
  OA_TC6_MAX_TX_CHUNKS = 1
  FrameLens = {1}
  TsModes = {0}
  MaxFrames = 3
  MaxCloses = 1
  Faults = {"ctrl"}
PROPERTIES
  QueueRestarts
CHECK_DEADLOCK FALSE
