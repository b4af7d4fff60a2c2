CONSTANTS
  m1 = m1
  m2 = m2
  u1 = u1
  s1 = s1
  s2 = s2
  Messages <- MCMessages
  Senders <- MCSenders
  SenderOf <- MCSenderOf
  RestMessages <- NoMessages
  Kind <- MCPoisonKind
  Savers <- MCOneSaver
  Count = 2
  MaxEntries = 3
  MaxFaults = 2
SPECIFICATION Spec
PROPERTIES
  EventuallySettled
