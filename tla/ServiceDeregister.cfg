SPECIFICATION Spec
CONSTANTS
  Callers = {c1, c2}
  Loops = {l1, l2}
  Tags = {t1}
  Absent = Absent
  Nil = Nil
  ApiFaults = FALSE
CHECK_DEADLOCK FALSE
INVARIANTS
  DeregisterRemoves
