SPECIFICATION DevicesSpec
CONSTANTS
  Threads = {1, 2}
  Pcts = {0, 1, 2}
  CDC_LOG_BUF_SIZE = 6
  Discard = 2
  Chunk = 3
  Lengths = {1, 3}
  MaxPut = 13
  Rows = 2
  Cols = 2
  Edges = {e1, e2}
  Full = 1
  Scrambled = Scrambled
  IfOverride = TRUE
  Bits = 2
  TxLists <- MCTx
  RxLists <- MCRx
  RX_BUF_SIZE = 3
  Batch = 2
  LineMax = 2
  Lines = 2
  MaxTyped = 3
  Fifo = 3
  PinMv <- MCPinMv
  Period = 3
  Contents <- MCContents
  Sentences = 2
  GPS_RX_BUF_SIZE = 4
  GpsBatch = 2
  GPS_LINE_MAX = 8
  Images <- MCImages
  NotReady = NotReady
  NoValue = NoValue
  Indices <- MCIndices
  NvLengths = {2, 300}
  Dumped = {"quickkeys", "boot_password", "vfo_channels"}
  VOL_AXIS_MIN = 2
  VOL_AXIS_MAX = 25
  VOLUME_HYSTERESIS = 3
  Positions = {2, 4, 5, 8, 12, 13, 22, 24, 25}
  Nv <- MCNv
  Tones = 1
  Unit = 15
  WDT_LED_TICKS = 3
  Operators = {s1}
  Consoles = {s1}
INVARIANTS
  LogKept
  PanelAgrees
  ChipAgrees
  Exchanged
  BatteryShown
  RecordsRead
  FadeArrives
  LinesRun
PROPERTIES
  GpsTrue
  KnobFollowed
  SettingsFollow
  DevicesGoOn
CHECK_DEADLOCK FALSE
