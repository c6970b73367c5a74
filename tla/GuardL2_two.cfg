SPECIFICATION FairSpec
CONSTANTS
  Chunk <- Chunks
  Transfers <- TwoTransfers
  LINK_CAP = 2
  AckErrors = FALSE
  NoChunk = NoChunk
  Garbage = Garbage
  INITIAL_WINDOW = 2
  MAX_TRIES = 2
  WINDOW = 2
INVARIANTS Integrity AckedIsHeld InReceiverWindow IInv
PROPERTIES KeepsProgress Refines TransferEnds
