SPECIFICATION Spec
CONSTANTS
  gstn = gstn
  pt = pt
  RegulatorSeq <- TwoRegulators
  Pieces <- Lengths
  Names <- CounterNames
  Writers = {r1, r2}
  Limit = 3
  MaxNews = 1
  MaxStarts = 2
  MaxKills = 1
  MaxErrors = 2
  MaxOverlappingErrors = 0
SYMMETRY Symmetry
CHECK_DEADLOCK FALSE
INVARIANTS
  HashedIsRaw
  LineageOrder
  ReportCurrent
  CountersFollow
  AbortsHaveCause
