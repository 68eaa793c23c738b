\* Two sources, of which the last cannot be fetched, and one thread; after a drift
\* the model may be unsure.  No edits, no failing call, no restart.
SPECIFICATION FairSpec
CONSTANTS
  Workers = {w1}
  s1 = s1  s2 = s2
  r1 = r1  r2 = r2  r3 = r3
  Order <- TwoSources
  Registered = {s1, s2}
  Records = {r1, r2}
  SourceOf <- OwnerIsS1
  Zone <- Utc
  PlansFor <- OneUnit
  Hints = {}
  Broken = {s2}
  InOrder = TRUE
  PageSize = 1
  MaxPages = 2
  MaxClock = 2
  MaxFaults = 0
  MaxEdits = 0
PROPERTY DoubtIsAsked
