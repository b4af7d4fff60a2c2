CONSTANTS
  w1 = w1
  w2 = w2
  e1 = e1
  d1 = d1
  t1 = t1
  t2 = t2
  x1 = x1
  x2 = x2
  y1 = y1
  p1 = p1
  r1 = r1
  r2 = r2
  s1 = s1
  NoUser = NoUser
  NoDevice = NoDevice
  NoMedia = NoMedia
  Workers <- TwoThreads
  Emails <- OneEmail
  MaxRequests = 7
  Users <- TwoUsers
  Addresses <- MCAddresses
  Devices <- OneDevice
  KindOf <- MCKindOf
  Servers <- TwoServers
  MaxJobs = 4
  Media <- TwoMedia
  Stories <- OneStory
  Uploaders <- TwoThreads
  MaxCalls = 5
  Posts <- OnePost
  Readers <- TwoReaders
  Handlers <- TwoThreads
  Savers <- TwoSavers
  MaxAsked = 3
  NoOne = NoOne
  People <- TwoReaders
  Bots <- OneBot
  Threads <- TwoThreads
  MaxBegun = 4
  Connections <- TwoSockets
  Realtime = s1
  Trackers <- TwoTrackers
  MaxUpdates = 6
SPECIFICATION MCSpec
CHECK_DEADLOCK FALSE
INVARIANT AttachedIsProtected
