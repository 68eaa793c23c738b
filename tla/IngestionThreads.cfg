\* Two publishing threads, two ventures, every fault, a record that cannot be
\* extracted and a restart.
SPECIFICATION Spec
CONSTANTS
  Workers = {w1, w2}
  v1 = v1  v2 = v2  NoVenture = NoVenture
  r1 = r1  r2 = r2  r3 = r3
  acme = acme  job1 = job1  job2 = job2  job3 = job3
  Records = {r1, r2, r3}
  Ventures = {v1, v2}
  VentureOf <- TwoVentures
  EntitiesOf <- SharedCompany
  Poison = {r2}
  Faults = {"scrape", "insert", "read", "extract", "entities", "edges", "rollup", "views"}
  MaxSeq = 3
  MaxCrashes = 1
PROPERTY ImplementsPipeline
SYMMETRY WorkerSymmetry
