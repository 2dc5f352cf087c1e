CONSTANTS
  alice = alice
  bob = bob
  amm = amm
  Accounts <- MCAccounts
  AMM = amm
  Supply = 5
  MaxWord = 40
  FEE_NUMERATOR = 1
  FEE_DENOMINATOR = 4
  MaxFees = 1
SPECIFICATION Spec
SYMMETRY Symmetry
INVARIANTS
  SharesAddUp
  Solvent
  PoolAlive
  NoRoundTripPays
PROPERTIES
  ShareValueNeverFalls
  FeesStayInPool
  FirstDepositIsRoot
CHECK_DEADLOCK FALSE
