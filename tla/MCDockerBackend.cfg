SPECIFICATION Spec
CONSTANTS
  c1 = c1
  c2 = c2
  Containers = {c1, c2}
  Has <- Images
  Forms = {"whole", "short", "longer", "shorter"}
  Lookups = {q1}
  Pages = {p1}
  Watcher = Watcher
  MaxChanges = 1
  NoShell = NoShell
  Absent = Absent
INVARIANTS
  TypeOK
  KeysAgree
  LookupFinds
PROPERTIES
  RefreshKeepsShells
