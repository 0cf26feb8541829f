CONSTANTS
  r1 = r1  r2 = r2  r3 = r3
  m1 = m1  m2 = m2  m3 = m3
  f1 = f1  f2 = f2
  s1 = s1  s2 = s2
  Noise = Noise
  Entry = {1, 2}
  Run = {r1, r2}
  Memory = {m1}
  UserMemory = {}
  Fact = {f1}
  Scope = {s1, s2}
  HomeOf <- TwoHomes
  Reads <- OwnScope
  Limit = 1
  Threshold = 1
  Ceiling = 2
  Retention = FALSE
  Capacity = 2
  MaxCandidates = 1
  MaxActive = 2
  MaxFaults = 1
SPECIFICATION RSpec
SYMMETRY Symmetry
PROPERTIES KeepsPromise AloneReopensOnlyFailures
\* Bounded runs and ids: the instance ends when they are used up.
CHECK_DEADLOCK FALSE
