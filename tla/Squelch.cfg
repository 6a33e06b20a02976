CONSTANTS
  Threads = {1}
  Freqs = {1}
  Bandwidths = {1}
  Css <- NoDcs
  Levels = {1}
  NoiseMax = 2
  Hysteresis = 1
  HoldPolls = 1
  MaxFails = 1
SPECIFICATION Spec
PROPERTIES
  SquelchCloses
  SquelchOpens
