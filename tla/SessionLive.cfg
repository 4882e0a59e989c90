SPECIFICATION FairOpenSpec
CONSTANTS
  Callers = {c1, c2}
  Loops = {l1, l2}
  Sessions = {s1, s2}
  NoSession = NoSession
  Nil = Nil
  ApiFaults = TRUE
CHECK_DEADLOCK FALSE
PROPERTIES
  CallsReturn
  SessionRecreated
