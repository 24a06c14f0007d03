SPECIFICATION MCSpec
CONSTANTS
  MaxSize = 3
  MaxBytes = 4
  FrameSizes = {1, 2}
  SeqNos = {1}
  Payloads = {p}
  NoSeq = NoSeq
  LadderLen = 3
  MaxStarts = 2
  Requests = {r1, r2}
  Timeout = 3
  Backoff <- MCBackoff
  MaxDownload = 3
  ChunkSizes = {2}
  MaxLag = 1
  MaxSessions = 2
  Addresses = {a1, a2}
  Channels = {1, 2}
  Tasks = {w1, w2}
  Slots = 1
  MaxDevices = 1
  MaxPairings = 4
  MaxGaps = 1
  MaxFailures = 1
  MaxChanges = 3
  MaxReadFailures = 1
  Names = {n1, n2, n3}
  ChannelNos = {1, 2, 3}
  Params = {"short", "long", "fault"}
  Emitting = {"short", "long"}
  MaxObjects = 3
  Declarations <- MCDeclarations
INVARIANTS TypeOK QueueBounded TallyCovers NoSessionLeaks AttemptsBounded CapHolds ChannelsHaveDevices  CdpFoundByChannel EntityHearsTriggers ReadsFresh
PROPERTIES OneResyncPerDrain 
CHECK_DEADLOCK FALSE
