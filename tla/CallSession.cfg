CONSTANTS
  u1 = u1
  u2 = u2
  c1 = c1
  c2 = c2
  w1 = w1
  w2 = w2
  NoUser = NoUser
  NoCall = NoCall
  Workers <- TwoWorkers
  Users <- TwoUsers
  Calls <- TwoCalls
  MaxDeaths = 1
  MaxRequests = 4
SPECIFICATION MCSpec
CHECK_DEADLOCK FALSE
INVARIANTS
  OneActiveCall
  NoOneInClosedCall
  EmptyCallCloses
PROPERTIES
  ReopenedOnlyByAccept
  CallsEnd
