\* Two threads, thirteen scenarios of at most two requests each, one failing call.
\* The system stops once every request is served.
SPECIFICATION FairSpec
CONSTANTS
  t1 = t1  t2 = t2
  Threads = {t1, t2}
  Scenarios <- Scenes
  MaxFaults = 1
  Ventures = {"postlineai", "rival"}
  Assumptions = {"market_gap_exists", "problem_is_real", "demand_validated", "customers_satisfied"}
  Customers = {"ann", "bob"}
  Sources <- SourceList
  OwnerOf <- Venture
  KindOf <- Kinds
  Listed <- Feed
  Quoted <- QuotedNames
  Written <- WrittenNames
  Tone <- Tones
INVARIANTS
  ReplyTrue
  BeliefTold
  SubscriptionsHeld
  ChargedOnce
  RowsSound
  NoDanglingEdges
  EveryLeadTold
PROPERTY RequestsEnd
CHECK_DEADLOCK FALSE
