SPECIFICATION Spec
CONSTANTS
  Accounts = {a1, a2}
  NormalizedETH = 3
  NormalizedAPPL = 2
  FirstEquities = {2}
  Amounts = {0, 1}
  Prices = {0, 3}
  MaxTrades = 2
  MaxClosers = 2
SYMMETRY Symmetry
INVARIANT PnLSplits
INVARIANT DrawdownFromPeak
INVARIANT OneSession
INVARIANT VolatilityOfTheEnded
