SPECIFICATION BroadcastSpec
CONSTANTS
  Viewers = {v1}
  Recorder = Recorder
  Limit = 3
  Buffer = 4
  MaxBytes = 6
  Unread = Unread
INVARIANTS
  BroadcastTypeOK
  KeepsTheTail
  CaughtUpMissesNothing
