CONSTANTS
  ChannelMax <- MCChannelMax
  ChannelInUse <- MCChannelInUse
  ZoneSkip <- MCZoneSkip
  ZoneSlotMax <- MCZoneSlotMax
  ZoneInUse <- MCZoneInUse
  ZoneChannels <- MCZoneChannels
  Threads = {t1}
  UiThreads = {t1}
  ConsoleThreads = {t1}
SPECIFICATION Spec
INVARIANTS
  StateMatchesTarget
  CacheConsistent
  RadioOnlyInUse
PROPERTIES
  HoldsOnEligible
  RadioHasChannel
