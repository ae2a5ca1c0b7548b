\* Overlapping pages of one ingredient, in any order of answers.
SPECIFICATION FairSpec
CONSTANTS
  a1 = a1
  a2 = a2
  a3 = a3
  s1 = s1
  v1 = v1
  v2 = v2
  Articles <- mcArticles
  Untitled = {a3}
  Retractable = {a1}
  Subs <- mcSubs
  SubRank <- mcSubRank
  Views <- mcViews
  None = None
  MaxWrites = 3
INVARIANTS
  RowsFresh
  SubsAtHome
  ReadsMatchRows
PROPERTY TextArrives
CHECK_DEADLOCK FALSE
