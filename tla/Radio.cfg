CONSTANTS
  Threads = {1}
  Freqs = {1, 2}
  Bandwidths = {1, 2}
  Css <- NoDcs
  Levels = {1}
  NoiseMax = 0
  Hysteresis = 0
  HoldPolls = 0
  MaxFails = 2
SPECIFICATION CallSpec
INVARIANTS
  CacheTrue
  DetectorStands
  FrequencyTook
  PageReturns
CHECK_DEADLOCK FALSE
