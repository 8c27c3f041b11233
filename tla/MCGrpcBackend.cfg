SPECIFICATION Spec
CONSTANTS
  c1 = c1
  c2 = c2
  s1 = s1
  s2 = s2
  Servers = {s1, s2}
  Containers = {c1, c2}
  Homes <- Placement
  Visitors = {v1}
  Operators = {o1}
  Pages = {p1}
  MaxFlips = 1
  Absent = Absent
  Nowhere = Nowhere
  Nil = Nil
INVARIANTS
  TypeOK
  WorkReachesHome
PROPERTIES
  LocatedAgain
  ListHasTheRest
