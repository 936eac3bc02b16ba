SPECIFICATION FairSpec
CONSTANTS
  r1 = r1
  r2 = r2
  r3 = r3
  Requests <- ThreeRequests
  Priority <- SamePriority
  Policies = {"fcfs"}
  MaxQueueSize = 2
  NumBlocks = 3
  BlockSize = 2
  BatchLimits = {2}
  PromptTokens <- Prompts
  MaxTokens <- Limits
  MaxPositions = 100
  Unsampleable <- OneUnsampleable
PROPERTIES
  EveryRequestDone
