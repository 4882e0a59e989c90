SPECIFICATION Spec
CONSTANTS
  Callers = {c1, c2}
  Loops = {l1, l2, l3}
  Sessions = {s1, s2}
  NoSession = NoSession
  Nil = Nil
  ApiFaults = TRUE
SYMMETRY Symmetry
CHECK_DEADLOCK FALSE
INVARIANTS
  TypeOK
  StopFindsMaintainer
  ReplyInOnePlace
  LockIsReleased
  HeldSessionIsKept
PROPERTIES
  ImplementsContract
