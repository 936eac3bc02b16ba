SPECIFICATION Spec
CONSTANTS
  short = short
  long = long
  empty = empty
  Streams <- ThreeStreams
  PromptTokens <- Prompts
  MaxTokens <- Limits
  MaxPositions = 4
  Unsampleable <- OneUnsampleable
INVARIANTS
  TypeOK
  CacheAligned
PROPERTIES
  Protocol
  EveryStreamEnds
CHECK_DEADLOCK FALSE
