SPECIFICATION Spec
CONSTANTS
  MaxInt = 1000000
  Setups <- MCSetups
  LegacyDests = {ld}
  SegwitDests = {wd}
  Commands = {c1, c2}
  Requests <- MCRequests
  Deposits <- MCDeposits
  FeeRates = {0, 1, 2}
  OutputSize <- MCOutputSize
  Savings = {0}
  c1 = c1
  c2 = c2
  lr = lr
  lc = lc
  sr = sr
  sc = sc
  ld = ld
  wd = wd
SYMMETRY Symmetry
INVARIANTS
  AddressesDecode
