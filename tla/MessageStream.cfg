CONSTANTS
  m1 = m1
  m2 = m2
  u1 = u1
  s1 = s1
  s2 = s2
  Messages <- MCMessages
  Senders <- MCSenders
  SenderOf <- MCSenderOf
  RestMessages <- MCRestMessages
  Kind <- MCKind
  Savers <- MCSavers
  Count = 2
  MaxEntries = 2
  MaxFaults = 1
SPECIFICATION Spec
SYMMETRY SaverSymmetry
INVARIANTS
  NoLostEntry
  StoredOnce
  SettledAnnounced
  InOrder
PROPERTIES
  ImplementsDelivery
