\* One tick of one venture, no failing call: of its two companies one has an
\* apostrophe in its name.
SPECIFICATION FairSpec
CONSTANTS
  t1 = t1  t2 = t2
  Threads = {t1, t2}
  Scenarios <- Lone
  MaxFaults = 0
  Ventures = {"postlineai", "rival"}
  Assumptions = {"market_gap_exists", "problem_is_real", "demand_validated", "customers_satisfied"}
  Customers = {"ann", "bob"}
  Sources <- SourceList
  OwnerOf <- Venture
  KindOf <- Kinds
  Listed <- BothJobs
  Quoted <- QuotedNames
  Written <- WrittenNames
  Tone <- Tones
INVARIANT
  EveryCompanyTold
CHECK_DEADLOCK FALSE
