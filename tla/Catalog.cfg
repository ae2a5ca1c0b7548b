\* One import and three jobs, two at a time, cut off or failing anywhere.
SPECIFICATION Spec
CONSTANTS
  idFish = idFish
  j1 = j1
  j2 = j2
  Rows <- mcRows
  Ids <- mcIds
  IdOf <- mcIdOf
  nil = nil
  unset = unset
  SubsPer = 1
  Procs <- mcProcs
  MaxImports = 1
  MaxJobs = 3
SYMMETRY jobSymmetry
INVARIANTS
  LinkedIsWhole
  PlaceLostByRerunOnly
  NullIdOnlyWithoutName
PROPERTY
  VisibleStaysVisible
CHECK_DEADLOCK FALSE
