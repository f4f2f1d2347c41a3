SPECIFICATION FairSpec
CONSTANTS
  Mid = Mid
  Requests <- MCRequests
  RESPONSE_BUF_SIZE = 3
  InternalErrorLen = 2
  READ_CHUNK_SIZE = 3
  SENDFILE_MAX_CHUNK = 1
  SndBuf = 1
  MaxStream = 3
INVARIANTS TypeOK AnswersInOrder InputConserved BlockedWriteConsistent FilesOwned NoLostEdge
PROPERTIES ImplementsExchange EveryRequestAnswered GoneClientIsClosed
