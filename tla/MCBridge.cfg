SPECIFICATION FairSpec
CONSTANTS
  Inputs = {"a", "paste"}
  Cut <- FirstRead
  Outputs = {"x", "y"}
  Printout <- TwoOutputs
  MaxMessages = 2
INVARIANTS
  TypeOK
PROPERTIES
  Bridges
  SessionEnds
