CONSTANTS
  u1 = u1
  u2 = u2
  c1 = c1
  c2 = c2
  w1 = w1
  w2 = w2
  NoUser = NoUser
  NoCall = NoCall
  Workers <- TwoWorkers
  Users <- TwoUsers
  Calls <- OneCall
  MaxDeaths = 0
  MaxRequests = 2
SPECIFICATION FairSpec
CHECK_DEADLOCK FALSE
PROPERTIES
  AcceptedCallsExpire
