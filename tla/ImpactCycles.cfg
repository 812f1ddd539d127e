SPECIFICATION Spec
CONSTANTS
  Graph <- Fssai
  Businesses <- FoodBusinesses
  Contents <- FssaiContents
  FieldSeq <- SortedFields
  Registered <- LicenceHolder
  Pollers = {p1}
  Demos = {d1}
  MaxPublished = 2
  MaxFaults = 1
  MaxResets = 1
INVARIANTS CascadeInv OncePerCycle CascadeComplete HistoryConsistent ThresholdsFollow
