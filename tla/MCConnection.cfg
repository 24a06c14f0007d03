SPECIFICATION MCSpec
CONSTANTS
  Requests = {r1}
  Timeout = 3
  Backoff <- MCBackoff
  MaxDownload = 3
  ChunkSizes = {2}
  MaxLag = 1
  MaxSessions = 2
  MaxAttempts = 3
  MaxWaits = 2
  MaxSlowDowns = 1
  Pairings = {"daemon", "box"}
  Topics = {t1, t2}
  Calls = {c1, c2}
  Valid = {c1}
  NoCall = NoCall
  MaxCuts = 1
  MaxFlight = 2
  MaxDrops = 3
  MaxPushes = 2
  Addresses = {a1, a2}
  MaxHolds = 2
  MaxGaps = 1
  MaxFailures = 1
  MaxDeclines = 2
INVARIANTS AnswersAreTrue   SessionAgrees  
PROPERTIES RequestsReturn WaitReturns OutageIsReported DeclinedIsOffered
CHECK_DEADLOCK FALSE
