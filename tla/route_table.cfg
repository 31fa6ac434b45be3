SPECIFICATION Spec
CONSTANTS
  t1 = t1
  t2 = t2
  n1 = n1
  n2 = n2
  n3 = n3
  n4 = n4
  Thread = {t1, t2}
  Addr = {x, y}
  Iface = {i}
  MaxSpeed = 1
  Node = {n1, n2, n3, n4}
  Head = {rtable}
  rtable = rtable
  Nil = Nil
  NoThread = NoThread
SYMMETRY RouteSymmetry
INVARIANTS
  TypeOK
  ListIntact
  DuplicatesBounded
  HeadOnlyAtFirst
PROPERTIES
  NothingMissed
  SearchEnds
