SPECIFICATION Spec
CONSTANTS
  TxBuffers = 2
  RxBuffers = 2
  FooterMax = 2
  OA_TC6_CHUNK_PAYLOAD_SIZE = 2
  OA_TC6_MAX_TX_CHUNKS = 2
  FrameLens = {1, 5}
  TsModes = {0, 1}
  MaxFrames = 2
  MaxCloses = 0
  Faults = {"spi", "device", "nomem", "rx_overflow"}
INVARIANTS
  TypeOK
  SpiBufferFits
  NoLostWakeup
  CreditInterruptArmed
  RxInterruptArmed
  CountSettled
PROPERTIES
  MailboxHandOver
CHECK_DEADLOCK FALSE
