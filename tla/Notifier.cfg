SPECIFICATION FairSpec
CONSTANTS
  Clients = {c1}
  Workers = {w1, w2}
  Ids = {i1}
  None = None
  Capacity = 1
  MaxPushes = 2
CHECK_DEADLOCK FALSE
INVARIANTS
  TypeOK
  NeverPanics
  PushMeetsOpenWorker
  RecipientsAreCounted
PROPERTIES
  ImplementsMailbox
  CallsReturn
