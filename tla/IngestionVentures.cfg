\* One publishing thread, two ventures that have a company in common, and a restart.
SPECIFICATION Spec
CONSTANTS
  Workers = {w1}
  v1 = v1  v2 = v2  NoVenture = NoVenture
  r1 = r1  r2 = r2  r3 = r3
  acme = acme  job1 = job1  job2 = job2  job3 = job3
  Records = {r1, r2, r3}
  Ventures = {v1, v2}
  VentureOf <- TwoVentures
  EntitiesOf <- SharedCompany
  Poison = {}
  Faults = {}
  MaxSeq = 5
  MaxCrashes = 1
INVARIANT ViewsCurrent
