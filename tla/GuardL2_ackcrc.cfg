SPECIFICATION Spec
CONSTANTS
  Chunk <- Chunks
  Transfers <- ShortTransfer
  LINK_CAP = 2
  AckErrors = TRUE
  NoChunk = NoChunk
  Garbage = Garbage
  INITIAL_WINDOW = 2
  MAX_TRIES = 2
  WINDOW = 2
INVARIANT SuccessIsDelivery
