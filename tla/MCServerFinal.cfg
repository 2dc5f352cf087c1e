CONSTANTS
  MaxRuns = 2
  b1 = b1
  h1 = h1
  t1 = t1
  u1 = u1
  Bots <- OneBot
  Durations <- OneDuration
  HookMayPanic = FALSE
  Handlers <- OneHandler
  BotTrades = {}
  UserTrades = {}
SPECIFICATION SSafe
INVARIANTS
  FinalizedExactlyOnce
