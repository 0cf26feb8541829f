CONSTANTS
  r1 = r1  r2 = r2  r3 = r3
  m1 = m1  m2 = m2  m3 = m3
  f1 = f1  f2 = f2
  s1 = s1  s2 = s2
  Noise = Noise
  Entry = {1}
  Run = {r1, r2, r3}
  Memory = {m1, m2}
  UserMemory = {}
  Fact = {f1, f2}
  Scope = {s1}
  HomeOf <- OneHome
  Reads <- OwnScope
  Limit = 2
  Threshold = 2
  Ceiling = 2
  Retention = TRUE
  Capacity = 2
  MaxCandidates = 1
  MaxActive = 1
  MaxFaults = 1
SPECIFICATION FairSpec
INVARIANTS NoTwinDigestMemories ClaimsKept
PROPERTIES BacklogDrains
\* Bounded runs and ids: the instance ends when they are used up.
CHECK_DEADLOCK FALSE
