\* A mismatch, a listen that ends, the same listen again.
SPECIFICATION Spec
CONSTANTS
  a = a
  b = b
  Docs = {a, b}
  Faults = {"break", "crash"}
  MaxWrites = 3
  MaxListens = 2
  MaxFaults = 0
SYMMETRY symmetry
CHECK_DEADLOCK FALSE
INVARIANT MismatchIsRepaired
