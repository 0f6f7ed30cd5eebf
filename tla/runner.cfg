SPECIFICATION FairSpec
CONSTANTS
  k1 = k1
  k2 = k2
  w1 = w1
  w2 = w2
  a = a
  b = b
  h1 = h1
  h2 = h2
  None = None
  Keys = {k1, k2}
  Wallets = {w1, w2}
  ModelIds = {a, b}
  Hotkeys = {h1, h2}
  Issued <- MCIssued
  expected <- MCExpected
INVARIANTS
  TypeOK
  TrustedNode
PROPERTIES
  ImplementsContract
  InitReturns
  InitAdvances
CHECK_DEADLOCK FALSE
