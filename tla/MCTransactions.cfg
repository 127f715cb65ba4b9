SPECIFICATION Spec
CONSTANTS
  ByteBits = 3
  HashSize = 2
  Selections <- MCSelections
  Payments <- MCPayments
  Sign <- MCSign
INVARIANTS
  TypeOK
  SignaturesStay
  SignaturesVerify
  PostedAsOnTheWire
  ReadsBack
  SpendsTheSelection
