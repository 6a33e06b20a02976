CONSTANTS
  Threads = {ui, con}
  UiThreads = {ui}
  ConsoleThreads = {con}
  VhfMin = 10
  VhfMax = 11
  UhfMin = 13
  UhfMax = 14
  Supported <- MCSupported
  CodeplugVfo <- MCCodeplugVfo
  VfoStep = 1
  EntryDigits = 2
  Debounce = 1
  ScanRange <- MCBothScanRange
  DefaultSpan = 1
  ChannelFreqs = {}
  UpdatePeriod = 1
  Digits = {1}
SPECIFICATION Spec
INVARIANTS
  ShowsWhatIsTuned
  CacheIsChip
