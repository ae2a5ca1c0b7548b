SPECIFICATION FairSpec
CONSTANTS
  a = a
  b = b
  Targets <- MCTargets
  InitialDelay = 2
  MaxDelay = 4
  MaxFailures = 1
  MaxStale = 2
INVARIANTS
  NeededIsStarted
  OpenCarriesListens
  OnlineIsProven
  TimersCoherent
  RetriesBackOff
PROPERTIES
  AbortsOnCleanEndOnly
  ListenReachesServer
CHECK_DEADLOCK FALSE
