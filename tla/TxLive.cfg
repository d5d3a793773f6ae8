SPECIFICATION FairSpec
CONSTANTS
  TxBuffers = 3
  RxBuffers = 1
  FooterMax = 2
  OA_TC6_CHUNK_PAYLOAD_SIZE = 2
  OA_TC6_MAX_TX_CHUNKS = 3
  FrameLens = {5}
  TsModes = {0, 1}
  MaxFrames = 2
  MaxCloses = 0
  Faults = {"nomem"}
INVARIANTS
  CreditsRespected
  FramingRespected
PROPERTIES
  EventualDelivery
  ReceiveRelieved
