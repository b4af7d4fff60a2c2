CONSTANTS
  u1 = u1
  u2 = u2
  u3 = u3
  r1 = r1
  r2 = r2
  NoUser = NoUser
  Users <- MCUsers
  Requests <- MCRequests
  MaxRequests = 1
  MaxFailures = 0
SPECIFICATION Spec
SYMMETRY Symmetry
INVARIANTS
  NonMembersDoNotRead
