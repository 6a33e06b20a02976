CONSTANTS
  Threads = {1}
  Freqs = {1, 2}
  Bandwidths = {1}
  Css <- WithDcs
  Levels = {1}
  NoiseMax = 0
  Hysteresis = 0
  HoldPolls = 0
  MaxFails = 1
SPECIFICATION CallSpec
INVARIANTS
  FrequencyAnswers
CHECK_DEADLOCK FALSE
