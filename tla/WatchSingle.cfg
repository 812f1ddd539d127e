SPECIFICATION Spec
CONSTANTS
  p1 = p1
  p2 = p2
  v1 = v1
  v2 = v2
  v3 = v3
  PortalSeq <- TwoPortals
  Contents = {v1, v2, v3}
  NoContent = NoContent
  Cosmetic <- CosmeticEdit
  Pollers = {api}
  Demos = {}
  Misnamed = {}
  MaxPublished <- Twice
  MaxFaults = 1
  DeltasEach = 4
INVARIANTS
  WatchInv
  AbandonedPerFault
  DeltaChain
