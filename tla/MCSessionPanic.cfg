CONSTANTS
  MaxRuns = 3
  b1 = b1
  Bots <- OneBot
  Durations <- OneDuration
  HookMayPanic = TRUE
SPECIFICATION Spec
PROPERTIES
  RunsEnd
