\* Three pages, two levels, two units of time; two useful pages are enough.
\* The crawl stops when it is done.
SPECIFICATION FairSpec
CONSTANTS
  home = home  about = about  jobs = jobs  team = team  elsewhere = elsewhere
  acme = acme  other = other
  Urls = {home, about, jobs, team, elsewhere}
  Host <- Hosts
  Seed = home
  Sites <- AnySite
  Score <- Promise
  DepthCost = 1
  Floor = 0
  Matching = {jobs, team}
  Enough = 2
  MaxPages = 3
  MaxDepth = 2
  TimeLimit = 2
INVARIANTS
  FetchedOnce
  NoLinkForgotten
  StopReasonTrue
PROPERTY CrawlEnds
CHECK_DEADLOCK FALSE
