SPECIFICATION Spec
CONSTANTS
  Callers = {c1, c2, c3}
  Loops = {l1, l2, l3}
  Tags = {t1, t2}
  Absent = Absent
  Nil = Nil
  ApiFaults = TRUE
SYMMETRY Symmetry
CHECK_DEADLOCK FALSE
INVARIANTS
  TypeOK
  StopFindsMaintainer
  PlanEndsFirst
  NeverWedged
  StaysGone
  ChangesAddUp
