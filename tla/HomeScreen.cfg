\* Pickers, layout, taps and pages while the feed moves on.
SPECIFICATION FairScreenSpec
CONSTANTS
  d1 = d1
  d2 = d2
  fish = fish
  nuts = nuts
  Docs <- mcDocs
  Rank <- mcRank
  Removable = {}
  Cats <- mcCats
  Catalogue <- mcCatalogue
  Contents <- mcContents
  Undecodable = Undecodable
  Absent = Absent
  MaxWrites = 1
  MaxLaunches = 2
  MonthRows <- mcMonthRows
  Prefectures <- mcPrefectures
  maxInSectionCount = 1
  MaxPages = 2
INVARIANTS
  LayoutFresh
PROPERTIES
  TapOpensWhatIsShown
  ImplementsFeed
  SectionsAppear
  Converges
CHECK_DEADLOCK FALSE
