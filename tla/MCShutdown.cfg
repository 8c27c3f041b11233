SPECIFICATION FairSpec
CONSTANTS
  Clients = {k1, k2}
  Streams = {s1}
  PortsTaken = TRUE
  SlowRequests = TRUE
INVARIANTS
  TypeOK
  HttpAloneWaits
PROPERTIES
  DrainedStops
  ForceStops
