SPECIFICATION FairSpec
CONSTANTS
  p1 = p1
  p2 = p2
  v1 = v1
  v2 = v2
  v3 = v3
  PortalSeq <- OnePortal
  Contents = {v1, v2}
  NoContent = NoContent
  Cosmetic <- NoCosmetic
  Pollers = {api, scheduler}
  Demos = {demo}
  Misnamed = {}
  MaxPublished <- Once
  MaxFaults = 1
  DeltasEach = 3
INVARIANTS
  SnapshotHasDelta
  DeltasPerPublication
PROPERTIES
  Converges
  DeltasSettle
