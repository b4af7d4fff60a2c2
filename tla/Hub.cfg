CONSTANTS
  c1 = c1
  c2 = c2
  Subscriber = Subscriber
  NoCast = NoCast
  NoReply = NoReply
  Clients <- MCClients
  Buffer = 2
  MaxEvents = 2
  MaxRequests = 3
SPECIFICATION Spec
SYMMETRY ClientSymmetry
CHECK_DEADLOCK FALSE
INVARIANTS
  NoGap
  GoneIsForgotten
  PeersMeet
