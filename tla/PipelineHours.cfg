SPECIFICATION Spec
CONSTANTS
  r1 = r1
  r2 = r2
  b1 = b1
  b2 = b2
  c1 = c1
  c2 = c2
  c3 = c3
  Bodies = {b1, b2}
  Empty = Empty
  NoHash = NoHash
  NoAnalysis = NoAnalysis
  RegulatorSeq <- Two
  ChunkCount <- Counts
  Limit = 2
  Retries = 1
  Collectors = {c1, c2, c3}
  RegulatorOf <- Three
  Processors = {p1}
  Embedders = {}
  Analysts = {}
  Reporters = {}
  MaxPublished = 1
  MaxHours = 1
  MaxErrors = 0
  MaxKills = 1
CHECK_DEADLOCK FALSE
INVARIANTS
  PipelineInv
  HashedIsSaved
  NoStrandedDocument
