SPECIFICATION Spec
CONSTANTS
  c1 = c1
  c2 = c2
  Containers = {c1, c2}
  Has <- Images
  Forms = {"whole"}
  Lookups = {q1, q2}
  Pages = {}
  Watcher = Watcher
  MaxChanges = 1
  NoShell = NoShell
  Absent = Absent
INVARIANTS
  OwnShell
