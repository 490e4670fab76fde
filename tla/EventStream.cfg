\* Both halves of the event stream: the bounds are explained in MC_EventStream.
CONSTANTS
  RingCap = 2
  ChanCap = 1
  MaxId = 5
  MaxFaults = 2
  Users = {u1, u2}
  Nobody = Nobody
  NoToken = NoToken
  MaxClients = 3
  MaxClientFaults = 3
  u2 = u2
SPECIFICATION MCSpec
INVARIANTS
  ResumePointIsHonest
  NoStreamUnlessWanted
PROPERTIES
  EventsInOrder
  CatchesUp
  StreamComesBack
CHECK_DEADLOCK FALSE
