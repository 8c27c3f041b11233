SPECIFICATION ArbiterFairSpec
CONSTANTS
  Collaborators = {v1, v2, v3}
  Master = Master
  Wait = 2
  MaxTime = 6
  NoSlave = NoSlave
  Nobody = Nobody
INVARIANTS
  ArbiterTypeOK
  OneWriterAtTTY
PROPERTIES
  TakesTurns
  NoSpuriousRefusal
  EveryWriteReturns
