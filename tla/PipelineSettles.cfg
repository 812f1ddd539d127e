SPECIFICATION FairSpec
CONSTANTS
  r1 = r1
  r2 = r2
  b1 = b1
  b2 = b2
  c1 = c1
  c2 = c2
  c3 = c3
  Bodies = {b1, b2}
  Empty = Empty
  NoHash = NoHash
  NoAnalysis = NoAnalysis
  RegulatorSeq <- One
  ChunkCount <- Counts
  Limit = 2
  Retries = 1
  Collectors = {c1}
  RegulatorOf <- Lone
  Processors = {p1, p2}
  Embedders = {e1, e2}
  Analysts = {a1}
  Reporters = {t1}
  MaxPublished = 1
  MaxHours = 2
  MaxErrors = 1
  MaxKills = 1
CHECK_DEADLOCK FALSE
INVARIANTS SummaryRepaired NoStrandedChunk
PROPERTIES Settles EverythingStored
