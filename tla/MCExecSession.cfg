SPECIFICATION FairSpec
CONSTANTS
  Conns = {c1, c2, c3}
  ExecIDs = {e1}
  MaxConnection = 2
  IdleTimeout = TRUE
  Collaborate = TRUE
  NoMaster = NoMaster
  NoExec = NoExec
INVARIANTS
  TypeOK
  RegistryLive
  SoleHostShareable
  AdmissionBound
  CountExact
PROPERTIES
  LeaversFreed
