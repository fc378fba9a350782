CONSTANTS
  Address = {a1, a2, a3}
  Object = {o1, o2, o3}
  Thread = {t1}
SPECIFICATION Spec
INVARIANTS
  GetReturnsValid
SYMMETRY Symmetry
CHECK_DEADLOCK FALSE
