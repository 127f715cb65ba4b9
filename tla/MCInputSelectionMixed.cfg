SPECIFICATION Spec
CONSTANTS
  MaxInt = 9000
  Pools <- MCPools
  Amounts <- MCAmounts
  FeeRates <- MCFeeRates
INVARIANTS
  RefusalMeansInsufficient
