\* One thread, one source that always writes dates, the first of its records two
\* hours east of UTC, the others in UTC.
SPECIFICATION Spec
CONSTANTS
  Workers = {w1}
  s1 = s1  s2 = s2
  r1 = r1  r2 = r2  r3 = r3
  Order <- OneSource
  Registered = {s1}
  Records = {r1, r2, r3}
  SourceOf <- OwnerIsS1
  Zone <- East
  PlansFor <- IsoOnly
  Hints = {}
  Broken = {}
  InOrder = TRUE
  PageSize = 2
  MaxPages = 2
  MaxClock = 3
  MaxFaults = 0
  MaxEdits = 0
INVARIANT CursorCovers
