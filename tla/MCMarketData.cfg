CONSTANTS
  e1 = e1
  r1 = r1
  r2 = r2
  Prices <- ThreePricesAndZero
  Emitters <- OneEmitter
  Resets <- TwoResets
  MaxEvents = 2
  MaxSlot = 1
  MaxTicks = 3
SPECIFICATION Spec
SYMMETRY Symmetry
INVARIANTS
  CandlesSummarize
  NoSilentDrift
  FewStaleEvents
