CONSTANTS
  Threads = {ui}
  UiThreads = {ui}
  ConsoleThreads = {}
  VhfMin = 10
  VhfMax = 11
  UhfMin = 13
  UhfMax = 14
  Supported <- MCSupported
  CodeplugVfo <- MCCodeplugVfo
  VfoStep = 1
  EntryDigits = 2
  Debounce = 1
  ScanRange <- MCScanRange
  DefaultSpan = 1
  ChannelFreqs = {14}
  UpdatePeriod = 2
  Digits = {0, 1, 3}
SPECIFICATION Spec
PROPERTIES
  OperatorStaysInBand
  SweepStaysInBounds
  RetuneSettles
