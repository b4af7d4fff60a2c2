CONSTANTS
  u1 = u1
  u2 = u2
  u3 = u3
  r1 = r1
  r2 = r2
  NoUser = NoUser
  Users <- MCUsers
  Requests <- MCRequests
  MaxRequests = 3
  MaxFailures = 1
SPECIFICATION Spec
SYMMETRY Symmetry
INVARIANTS
  HasOwner
  NoStaleGrant
PROPERTIES
  OnlyAdminsReadmit
  CountRepaired
