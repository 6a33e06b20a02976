CONSTANTS
  ChannelMax <- MCChannelMax
  ChannelInUse <- MCChannelInUse
  ZoneSkip <- MCZoneSkip
  ZoneSlotMax <- MCZoneSlotMax
  ZoneInUse <- MCZoneInUse
  ZoneChannels <- MCZoneChannels
  Threads = {ui}
  UiThreads = {ui}
  ConsoleThreads = {}
SPECIFICATION FairSpec
INVARIANTS
  ScanIsZoneScoped
PROPERTIES
  ImplementsSession
  CallsEnd
  ScanVisits
