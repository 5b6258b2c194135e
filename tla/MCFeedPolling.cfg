CONSTANTS
  Feeds = 2
  r1 = r1
  r2 = r2
  Release = {r1, r2}
  Home <- MCHome
  Listed0 <- MCListed0
  Changing <- MCChanging
  Stage0 <- MCStage0
  Ageing = {r2}
  Concurrency = 1
  Bootstrap = TRUE
  Optional = {2}
  MaxFaults = 1
SPECIFICATION FairSpec
INVARIANTS
  FeedInv
  HistoryNeverDownloaded
PROPERTIES
  EveryFeedIsAsked
  ListedReleaseIsTakenUp
