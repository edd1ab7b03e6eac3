SPECIFICATION Spec
CONSTANTS
  t1 = t1
  t2 = t2
  n1 = n1
  n2 = n2
  n3 = n3
  Thread = {t1, t2}
  Node = {n1, n2, n3}
  Null = Null
  Programs <- Mixed
PROPERTIES
  NothingDeadIsOverlooked
