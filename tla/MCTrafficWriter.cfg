CONSTANTS
  Writes = {w1, w2, w3}
  Controllers = {c1, c2}
  QueueSize = 1
  MaxGen = 2
  NoWrite = NoWrite
SPECIFICATION FairSpec
INVARIANTS
  NoWriteAbandoned
  AnswerIsTruth
  OneWriter
  NoOrphanedRequest
PROPERTIES
  ImplementsWriteService
  StopReturns
CHECK_DEADLOCK FALSE
