SPECIFICATION FairSpec
CONSTANTS
  Callers = {c1, c2}
  Loops = {l1, l2}
  Tags = {}
  Absent = Absent
  Nil = Nil
  ApiFaults = TRUE
CHECK_DEADLOCK FALSE
PROPERTIES
  CallsReturn
  Reregistered
