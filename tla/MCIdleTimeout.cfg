SPECIFICATION FairSpec
CONSTANTS
  IdleTime = 3
  Helpers = {h1, h2, h3}
  ChanCap = 2
INVARIANTS
  TypeOK
PROPERTIES
  OnlyIdleIsCut
  IdleIsCut
