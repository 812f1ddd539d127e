SPECIFICATION Spec
CONSTANTS
  r1 = r1
  r2 = r2
  b1 = b1
  b2 = b2
  c1 = c1
  c2 = c2
  c3 = c3
  Bodies = {b1, b2}
  Empty = Empty
  NoHash = NoHash
  NoAnalysis = NoAnalysis
  RegulatorSeq <- One
  ChunkCount <- Counts
  Limit = 4
  Retries = 1
  Collectors = {c1}
  RegulatorOf <- Lone
  Processors = {p1}
  Embedders = {}
  Analysts = {}
  Reporters = {}
  MaxPublished = 1
  MaxHours = 2
  MaxErrors = 0
  MaxKills = 1
CHECK_DEADLOCK FALSE
INVARIANT RetryRepairs
