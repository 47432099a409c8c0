SPECIFICATION Spec
CONSTANTS
  u = u
  s1 = s1
  s2 = s2
  b1 = b1
  NInbounds = 2
  Emails <- MCEmails
  Syncers <- MCSyncers
  Bulks <- MCBulks
  MaxRequests = 3
SYMMETRY MCSymmetry
CHECK_DEADLOCK FALSE
INVARIANTS TypeOK UniqueClients AckedServed
