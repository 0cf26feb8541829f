CONSTANTS
  host = host  script = script
  core = core  auto = auto  later = later  hers = hers
  own = own  pool = pool
  Agent = {host, script}
  Book = {core, auto, later, hers}
  Scope = {own, pool}
  Home <- MCHome
  Pool <- MCPool
  Core = {core}
  CoreClass <- MCCoreClass
  AutoBook = {auto, later}
  Session <- MCSession
  Made <- MCMade
  Skilled = {core}
  Reads <- MCReads
  Writes <- MCWrites
  AutoPromote = TRUE
  MinEntries = 3
  MinToolEntries = 1
  RequireVerification = TRUE
  RiskyDirect = FALSE
  DirectThreshold = 820
  MaxOps = 4
SPECIFICATION Spec
INVARIANTS OffersAreEarned EpisodesHaveBooks
PROPERTIES OnlyDecisionsLift
\* Operations are bounded: the instance ends when they are used up.
CHECK_DEADLOCK FALSE
