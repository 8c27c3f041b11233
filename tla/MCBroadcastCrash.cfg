SPECIFICATION BroadcastSpec
CONSTANTS
  Viewers = {v1}
  Recorder = Recorder
  Limit = 2
  Buffer = 3
  MaxBytes = 4
  Unread = Unread

INVARIANTS
  SharingIsSafe
