SPECIFICATION OpenSpec
CONSTANTS
  Users = {u1, u2}
  Loops = {l1, l2, l3}
  Sessions = {s1, s2}
  NoSession = NoSession
  Nobody = Nobody
  Rival = Rival
  Handler = Handler
  Nil = Nil
  MaxQueue = 1
  ApiFaults = FALSE
SYMMETRY Symmetry
CHECK_DEADLOCK FALSE
INVARIANTS
  ResignFindsMaintainer
