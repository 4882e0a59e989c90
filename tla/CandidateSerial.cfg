SPECIFICATION SerialSpec
CONSTANTS
  Users = {u1}
  Loops = {l1, l2}
  Sessions = {s1, s2}
  NoSession = NoSession
  Nobody = Nobody
  Rival = Rival
  Handler = Handler
  Nil = Nil
  MaxQueue = 2
  ApiFaults = TRUE
SYMMETRY Symmetry
CHECK_DEADLOCK FALSE
INVARIANTS
  TypeOK
  RunningHasSession
  OutIsNotElected
  ToldWhileRunning
  NeverWedged
PROPERTIES
  BelievesWhatItHeld
  StartsOnlyByOldUpdate
