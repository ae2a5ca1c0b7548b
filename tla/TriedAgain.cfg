\* The vegetable scraper alone.
SPECIFICATION Spec
CONSTANTS
  n1 = n1
  n2 = n2
  n3 = n3
  p1 = p1
  p2 = p2
  p3 = p3
  i1 = i1
  i2 = i2
  i3 = i3
  Scrapers = {"vegetable"}
  Listings <- mcListings
  Missing = Missing
  NoFile = NoFile
  MaxStart = 0
INVARIANT FailedIsTriedAgain
CHECK_DEADLOCK FALSE
