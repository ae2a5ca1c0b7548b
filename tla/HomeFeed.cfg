\* Safety of the data source: edits, a deletion and a relaunch under way.
SPECIFICATION Spec
CONSTANTS
  d1 = d1
  d2 = d2
  fish = fish
  herb = herb
  Docs <- mcDocs
  Rank <- mcRank
  Removable <- mcRemovable
  Cats <- mcCats
  Catalogue <- mcCatalogue
  Contents <- mcContents
  Undecodable = Undecodable
  Absent = Absent
  MaxWrites = 3
  MaxLaunches = 2
INVARIANTS
  ReadLedger
  FaithfulUnlessTouched
  NoDuplicateWithoutRemoval
PROPERTIES
  ImplementsDirectory
CHECK_DEADLOCK FALSE
