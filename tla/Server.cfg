\* Shutdown, erasures, tokens and unreleased songs, each on its own: the bounds
\* are explained in MC_Server.
CONSTANTS
  Workers = {w1, w2}
  Calls = {c1, c2}
  Tracks = {t1}
  NoTrack = None
  Owners = 3
  Window = 1
  RetryCap = 1
  MaxReturns = 1
  MaxSweepFaults = 2
  Processes = {p1, p2}
  NoProcess = None
  Configured = 1
  MaySignIn = TRUE
  MaxAges = 2
  MaxFaults = 2
  w2 = w2
  c1 = c1
  c2 = c2
  a1 = a1
  a2 = a2
  a3 = a3
  None = None
SPECIFICATION MCSpec
INVARIANTS
  StopsCleanly
  NothingLeftPending
  NoTokenPresentedTwice
  ChainIsKept
PROPERTIES
  ShutdownEnds
  OnlyDeletedAreErased
  DeletedAreErased
  TokensComeBack
  RequestedIsBuilt
CHECK_DEADLOCK FALSE
