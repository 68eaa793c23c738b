\* Two sources and one thread that scrapes and edits them; a drift after which
\* the model may be unsure, a person who may register or disable a source but has
\* no hints, one failing call or restart.  The last source can never be fetched.
SPECIFICATION FairSpec
CONSTANTS
  Workers = {w1}
  s1 = s1  s2 = s2
  r1 = r1  r2 = r2  r3 = r3
  Order <- TwoSources
  Registered = {s1, s2}
  Records = {r1, r2}
  SourceOf <- OwnerIsS1
  Zone <- Utc
  PlansFor <- OneUnit
  Hints = {}
  Broken = {s2}
  InOrder = TRUE
  PageSize = 1
  MaxPages = 2
  MaxClock = 2
  MaxFaults = 1
  MaxEdits = 1
PROPERTY EveryRecordStored
