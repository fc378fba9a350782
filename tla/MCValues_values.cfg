CONSTANTS
  Address = {a1, a2, a3}
  Object = {o1, o2, o3}
  Thread = {t1, t2}
SPECIFICATION Spec
INVARIANTS
  NoDangling
  TreesAreKnown
SYMMETRY Symmetry
CHECK_DEADLOCK FALSE
