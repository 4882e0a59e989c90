SPECIFICATION FollowersSpec
CONSTANTS
  Users = {u1}
  Loops = {l1}
  Sessions = {s1, s2}
  NoSession = NoSession
  Nobody = Nobody
  Rival = Rival
  Handler = Handler
  Nil = Nil
  MaxQueue = 1
  ApiFaults = FALSE
CHECK_DEADLOCK FALSE
INVARIANTS
  ElectedHoldsLock
