SPECIFICATION ServerSpec
CONSTANTS
  r1 = r1
  r2 = r2
  r3 = r3
  r4 = r4
  r5 = r5
  Requests <- AllRequests
  Priority <- SamePriority
  Policies = {"fcfs"}
  MaxQueueSize = 2
  NumBlocks = 3
  BlockSize = 2
  BatchLimits = {1, 3}
  PromptTokens <- Prompts
  MaxTokens <- Limits
  MaxPositions = 5
  Unsampleable <- OneUnsampleable
  StreamRequests <- OneStream
  MaxIterations = 3
  NoRequest = NoRequest
INVARIANTS
  AnswersHonest
  MetricsLedger
  NeverBatched
PROPERTIES
  EngineContract
  EveryCallAnswered
CHECK_DEADLOCK FALSE
