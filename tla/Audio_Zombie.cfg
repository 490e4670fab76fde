\* One track, two workers, a lease that lapses under the first.
CONSTANTS
  Tracks = {t1}
  Workers = {w1, w2}
  Deleters = {}
  MaxFence = 2
  Settings = {{"stall"}}
SPECIFICATION Spec
SYMMETRY Symmetry
PROPERTIES
  RollbackSparesItsTrack
CHECK_DEADLOCK FALSE
