\* One source that publishes in order and changes shape once, from a count
\* of seconds to a date, two threads that scrape and edit it, one failing call or restart.
SPECIFICATION Spec
CONSTANTS
  Workers = {w1, w2}
  s1 = s1  s2 = s2
  r1 = r1  r2 = r2  r3 = r3
  Order <- OneSource
  Registered = {}
  Records = {r1, r2}
  SourceOf <- OwnerIsS1
  Zone <- Utc
  PlansFor <- ToDates
  Hints = {"snapshot"}
  Broken = {}
  InOrder = TRUE
  PageSize = 1
  MaxPages = 2
  MaxClock = 2
  MaxFaults = 1
  MaxEdits = 2
INVARIANTS
  CursorCovers
  PlanFitsShape
