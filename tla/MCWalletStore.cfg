SPECIFICATION Spec
CONSTANTS
  Paths = {p1, p2}
  Commands = {c1, c2, c3}
  Requests <- MCRequests
  OneAtATime = TRUE
  Hole = Hole
  Nobody = Nobody
  p1 = p1
  p2 = p2
  c1 = c1
  c2 = c2
  c3 = c3
  pw1 = pw1
  pw2 = pw2
INVARIANTS
  TypeOK
  ShownIsStored
  TornByFailureOnly
  LoadFinds
PROPERTIES
  FileKept
  ImplementsVault
  OnlyServerBlocks
