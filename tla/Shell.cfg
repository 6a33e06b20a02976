CONSTANTS
  Keys = {"OK", "BACK", "SK1", "SK2", "UP", "DIGIT"}
  MaxHeld = 2
  Detents = 1
  QueueLen = 2
  StackDepth = 4
  BootDwell = 2
  MenuDwell = 2
  LongPress = 1
SPECIFICATION Spec
INVARIANTS
  OnlyTopShown
  ScanUnderItsScreen
  EntryOnItsRoot
  RowsOnlyInSettings
PROPERTIES
  BackClosesOne
  MenuCloses
  OneKeyOneEffect
