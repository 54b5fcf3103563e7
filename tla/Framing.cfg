SPECIFICATION SpecAll
CONSTANTS
  MAX_FRAME_SIZE = 2
  MAX_RECORD_SIZE = 36
  RandomSize = 1
  MAX_SNI_LEN = 2
  Payloads <- MCPayloads
  Cbor <- MCCbor
  MaxFrames = 2
  Tails <- MCTails
  Hellos <- MCHellos
INVARIANTS FramesAsSent RawBytesKept SniAsSent HelloIsReplayed
CHECK_DEADLOCK FALSE
