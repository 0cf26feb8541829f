CONSTANTS
  m1 = m1  m2 = m2  m3 = m3  m4 = m4  c1 = c1  t1 = t1  t2 = t2
  Memory = {m1, m2, m3, m4}
  Text = {t1, t2}
  Curated = {c1}
  CuratedText <- Files
  Author <- Authors
  TargetOf <- Targets
  Historical = {}
  Edges <- OneEdge
  FirstRows <- Rows
  Readers <- OneUser
  Pool = "p"
  CuratedMode = "profile-global"
  CuratedUsers = {}
  Limit = 1
  CandidatePool = 1
  VectorTopK = 1
  GeneralMode = "same-scope"
  GeneralWeight = 350
  MaxItems = 1
  MinRepeated = 2
  Session = {1, 2}
  MaxWrites = 1
  MaxTurn = 1
  MaxSearches = 2
  MaxFaults = 1
  Overlap <- Overlaps
  Similarity <- Similar
  ProjectsOf <- None
  EntitiesOf <- Atlas
  QueryProjects = {}
  QueryEntities = {}
  QueryWords = {}
  FreshHints = 1
  Quality <- Fair
  Facts <- Checks
  Now = 5
  Policy <- Classes
  Decay <- Young
  DecayWeight = 0
  Mode = "hybrid"
  RelationsRank = TRUE
SPECIFICATION Spec
INVARIANTS QTypeOK ShownWasRecallable OnlyOwnMemories LiveMatchIsFound HitsMatchLog
\* Bounded searches and turns: the instance ends when they are used up.
CHECK_DEADLOCK FALSE
