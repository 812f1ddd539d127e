SPECIFICATION Spec
CONSTANTS
  b1 = b1
  Handlers = {h1, h2}
  Sockets = {s1, s2}
  Businesses = {b1}
  GstRegistered = {b1}
  Payloads <- Bodies
  Seeded <- OneGst
  Statuses = {"compliant", "waived"}
  MaxRequests = 3
  MaxFaults = 1
  MaxMonth = 2
  AuditMonths = 0
SYMMETRY Symmetry
CHECK_DEADLOCK FALSE
INVARIANTS
  DuplicatesBounded
  ShownSince
  ListExplainsScore
  ScoresAgree
  DivergenceReviewed
  Evidenced
  CoherentDecision
  NobodyPassedOver
  ResetStands
