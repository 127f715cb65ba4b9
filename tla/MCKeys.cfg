SPECIFICATION Spec
CONSTANTS
  ByteBits = 2
  WordBits = 3
  AccBits = 4
  EntropyBytes = 4
  Words = 3
  HardenedOffset = 100
  Num <- MCNum
INVARIANTS
  TypeOK
  WordsAreBits
  EveryAddressOnce
