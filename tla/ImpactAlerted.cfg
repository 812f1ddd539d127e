SPECIFICATION Spec
CONSTANTS
  Graph <- Pt
  Businesses <- TwoStates
  Contents <- PtContents
  FieldSeq <- SortedFields
  Registered <- Nothing
  Pollers = {p1}
  Demos = {}
  MaxPublished = 1
  MaxFaults = 0
  MaxResets = 0
INVARIANTS ObligatedAreAlerted
