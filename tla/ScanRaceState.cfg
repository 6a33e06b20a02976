CONSTANTS
  ChannelMax <- MCChannelMax
  ChannelInUse <- MCChannelInUse
  ZoneSkip <- MCZoneSkip
  ZoneSlotMax <- MCZoneSlotMax
  ZoneInUse <- MCZoneInUse
  ZoneChannels <- MCZoneChannels
  Threads = {con, ui}
  UiThreads = {ui}
  ConsoleThreads = {con}
SPECIFICATION Spec
INVARIANTS
  StateMatchesTarget
