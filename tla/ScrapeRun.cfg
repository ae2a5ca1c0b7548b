\* All four scrapers on a site that may fail at every request.
SPECIFICATION FairSpec
CONSTANTS
  n1 = n1
  n2 = n2
  n3 = n3
  p1 = p1
  p2 = p2
  p3 = p3
  i1 = i1
  i2 = i2
  i3 = i3
  Scrapers = {"fruit", "vegetable", "seafood", "mushroom"}
  Listings <- mcListings
  Missing = Missing
  NoFile = NoFile
  MaxStart = 2
INVARIANTS
  VisitLedger
  CsvIsComplete
  ListedOnce
  SeasonsFromListing
PROPERTY Terminates
CHECK_DEADLOCK FALSE
