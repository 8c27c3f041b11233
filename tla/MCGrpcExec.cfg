SPECIFICATION FairSpec
CONSTANTS
  Inputs = {"a"}
  Outputs = {"x", "y"}
  Window = 1
  MaxInputs = 1
  Printout <- TwoOutputs
  Faults = TRUE
INVARIANTS
  TypeOK
  LastWordsSeen
PROPERTIES
  InputRelayed
  OutputRelayed
  ServerFreed
  SessionEnds
  ExitCompletes
