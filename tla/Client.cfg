\* Offline downloads and outbox, each on its own: bounds in MC_Client.
CONSTANTS
  u1 = u1
  u2 = u2
  t1 = t1
  t2 = t2
  Tracks = {t1, t2}
  Owners = {u1, u2}
  LibraryOf <- LibraryOfTracks
  NoTrack = NoTrack
  NoUser = NoUser
  MaxAttempts = 2
  MaxDiskFaults = 1
  MaxLaunches = 2
  Events = {e1, e2, d1}
  Diagnostic = {d1}
  Users = {u1, u2}
  Nothing = Nothing
  Nobody = Nobody
  MaxEntries = 2
  MaxDiagnostic = 1
  MaxFaults = 2
  MaxSwitches = 1
SPECIFICATION MCSpec
INVARIANTS
  ServesOwnFiles
  PinsAreKept
  SentAsItsUser
  NoEventLost
PROPERTIES
  QueuedIsSettled
  FreshIsSent
CHECK_DEADLOCK FALSE
