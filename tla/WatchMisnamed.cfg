SPECIFICATION Spec
CONSTANTS
  p1 = p1
  p2 = p2
  v1 = v1
  v2 = v2
  v3 = v3
  PortalSeq <- OnePortal
  Contents = {v1, v2}
  NoContent = NoContent
  Cosmetic <- NoCosmetic
  Pollers = {api}
  Demos = {demo}
  Misnamed = {p1}
  MaxPublished <- Once
  MaxFaults = 0
  DeltasEach = 2
INVARIANT DemoFindsChange
