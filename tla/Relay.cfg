SPECIFICATION RelaySpec
CONSTANTS
  MaxConn = 2
  MaxMutations = 1
  Misses = 2
  ChunkBytes = 2
  WindowBytes = 4
  MessageByteLimit = 4
  OutSizes = {0, 3}
  InSizes = {1, 3, 5}
  MaxSent = 2
  RpcIds = {"a", "b"}
  MaxCalls = 2
  MaxControls = 2
  PendingLimit = 1
  HttpIds = {"x", "y"}
  BodyChunks = {1, 2, 3}
  UploadChunks = 2
  MaxReopens = 1
CHECK_DEADLOCK FALSE
INVARIANTS  CreditIsConserved CallsAreSafe
PROPERTIES DisconnectSticks ConnectionRecovers StreamIsAPipe EveryRpcIsAnswered 
