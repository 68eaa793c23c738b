\* One thread, one source; after a drift its records carry another timestamp
\* field, in seconds instead of milliseconds.
SPECIFICATION Spec
CONSTANTS
  Workers = {w1}
  s1 = s1  s2 = s2
  r1 = r1  r2 = r2  r3 = r3
  Order <- OneSource
  Registered = {s1}
  Records = {r1, r2, r3}
  SourceOf <- OwnerIsS1
  Zone <- Utc
  PlansFor <- UnitDrift
  Hints = {}
  Broken = {}
  InOrder = TRUE
  PageSize = 2
  MaxPages = 2
  MaxClock = 3
  MaxFaults = 0
  MaxEdits = 0
INVARIANT CursorCovers
