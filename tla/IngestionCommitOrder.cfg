\* Two publishing threads and no fault at all.
SPECIFICATION Spec
CONSTANTS
  Workers = {w1, w2}
  v1 = v1  v2 = v2  NoVenture = NoVenture
  r1 = r1  r2 = r2  r3 = r3
  acme = acme  job1 = job1  job2 = job2  job3 = job3
  Records = {r1, r2, r3}
  Ventures = {v1}
  VentureOf <- OneVenture
  EntitiesOf <- SharedCompany
  Poison = {}
  Faults = {}
  MaxSeq = 5
  MaxCrashes = 0
INVARIANT NothingSkipped
