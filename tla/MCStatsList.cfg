SPECIFICATION Spec
CONSTANTS
  Decoded <- MCDecoded
  EndsIn <- MCEndsIn
  Starts <- MCStarts
  UserLists <- MCUserLists
  Users <- MCUsers
  MaxRequests = 2
  MaxTraffic = 2
INVARIANTS TypeIsTraffic
