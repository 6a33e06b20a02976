CONSTANTS
  Keys = {"OK", "BACK", "SK1", "SK2", "DIGIT"}
  MaxHeld = 2
  Detents = 2
  QueueLen = 2
  StackDepth = 4
  BootDwell = 1
  MenuDwell = 2
  LongPress = 1
SPECIFICATION Spec
INVARIANTS
  OneEffect
