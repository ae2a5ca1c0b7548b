\* Two documents, two listens, one fault of any kind.
SPECIFICATION FairSpec
CONSTANTS
  a = a
  b = b
  Docs = {a, b}
  Faults = {"break", "crash", "reset", "reject"}
  MaxWrites = 2
  MaxListens = 2
  MaxFaults = 1
INVARIANTS
  CurrentIsComplete
  TokenFitsKeys
PROPERTY CatchesUp
CHECK_DEADLOCK FALSE
