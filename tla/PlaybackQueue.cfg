\* The client's queue, the server's row, and the row of unreleased songs: the
\* bounds are explained in MC_PlaybackQueue.
CONSTANTS
  Library = {a, b}
  Previews = {p}
  NoTrack = None
  MaxTracks = 3
  MaxGeneration = 1
  MaxReplaced = 1
  MaxSaved = 2
  Users = {u1}
  Queues <- SingleTracks
  NoRow = None
  Never = None
  OpTimeout = 2
  Transit = 1
  Fence = 4
  MaxTime = 7
  MaxOps = 3
  Artists = {artist}
  Processes = {process}
  Readers = {reader}
  Broken = {}
  Limit = 1
  Nobody = None
  MaxAges = 1
  MaxFaults = 1
SPECIFICATION MCSpec
INVARIANTS
  SavedQueueResumes
  ErasedStaysErased
PROPERTIES
  RearrangingKeepsTheTrack
  NewerSaveWins
  ListsDoNotGoBack
CHECK_DEADLOCK FALSE
