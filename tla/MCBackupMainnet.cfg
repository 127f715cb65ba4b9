SPECIFICATION Spec
CONSTANTS
  name1 = name1
  name2 = name2
  k1 = k1
  k2 = k2
  k3 = k3
  Names <- MCNames
  Keys <- MCKeys
  Stores <- MCStores
  ForeignTexts <- MCForeignTexts
  Buffer = 2
  MaxRuns = 3
  NoWallet = NoWallet
  Unreadable = Unreadable
  NoFile = NoFile
  NoBackup = NoBackup
INVARIANT
  ExportedCanBeImported
