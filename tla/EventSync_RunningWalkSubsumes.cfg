SPECIFICATION SyncSpec
CONSTANTS
  MaxSize = 1
  MaxBytes = 9
  FrameSizes = {1}
  SeqNos <- MCSeqNos
  Payloads <- MCPayloads
  NoSeq = NoSeq
  LadderLen = 1
  MaxStarts = 1
  Keys = {k1}
  RingSize = 2
  MaxChanges = 3
  MaxRestarts = 1
  MaxReloads = 1
INVARIANT RunningWalkSubsumes
CHECK_DEADLOCK FALSE
