CONSTANTS
  MaxRuns = 3
  b1 = b1
  Bots <- OneBot
  Durations <- MCDurations
  HookMayPanic = FALSE
SPECIFICATION Spec
INVARIANTS
  SingleRun
  LiveRunCancellable
  HookAfterOwnBots
  HookAtMostOnce
PROPERTIES
  RunsEnd
  Implements
