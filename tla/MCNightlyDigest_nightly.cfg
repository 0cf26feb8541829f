CONSTANTS
  cron = cron  hand = hand  gateway = gateway  task = task  chat = chat
  port = port  proxy = proxy  noproxy = noproxy
  Run = {cron, hand}
  Day <- MCDay
  Talk <- MCTalk
  Header = 20
  ChunkChars = 120
  MaxSessionChars = 300
  Gist <- MCGist
  Draft <- MCDraft
  Failure <- MCFailure
  Fact = {port, proxy, noproxy}
  Known <- MCKnown
  Contrary <- MCContrary
  AllowFallback = TRUE
  MaxAttempts = 2
  LimitSessions = 0
  MaxRows = 3
  MaxWrites = 3
  Window = 3
  Writer = {gateway}
  Told <- MCTold
SPECIFICATION NSpec
ACTION_CONSTRAINT CollectsAlone
SYMMETRY Runs
INVARIANTS TwinsAreSwept SuccessIsTraceable
PROPERTIES PooledStays
\* A run that is over stays over.
CHECK_DEADLOCK FALSE
