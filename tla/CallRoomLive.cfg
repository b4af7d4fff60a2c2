CONSTANTS
  u1 = u1
  u2 = u2
  c1 = c1
  c2 = c2
  c3 = c3
  t1 = t1
  t2 = t2
  r1 = r1
  r2 = r2
  NoPeer = NoPeer
  NoRoom = NoRoom
  Users <- MCUsers
  Rooms <- OneRoom
  Conns <- MCConns
  UserOf <- MCUserOf
  Tracks <- NoTracks
  OwnerOf <- NoOwners
  MaxPeers = 1
  MaxIceFailures = 1
SPECIFICATION Spec
CHECK_DEADLOCK FALSE
PROPERTIES
  GhostsLeave
  ReplacedIsClosed
