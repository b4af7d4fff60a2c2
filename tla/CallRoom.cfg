CONSTANTS
  u1 = u1
  u2 = u2
  c1 = c1
  c2 = c2
  c3 = c3
  t1 = t1
  t2 = t2
  r1 = r1
  r2 = r2
  NoPeer = NoPeer
  NoRoom = NoRoom
  Users <- MCUsers
  Rooms <- TwoRooms
  Conns <- MCConns
  UserOf <- MCUserOf
  Tracks <- MCTracks
  OwnerOf <- MCOwnerOf
  MaxPeers = 2
  MaxIceFailures = 0
SPECIFICATION Spec
SYMMETRY RoomSymmetry
CHECK_DEADLOCK FALSE
INVARIANTS
  OnePlacePerUser
  NoMissingTrack
PROPERTIES
  RejoinNeverRefused
  OnlyLateTrackStopsClock
