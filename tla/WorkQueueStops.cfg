SPECIFICATION Spec
CONSTANTS
  Jobs = {j1}
  NoJob = NoJob
  Workers = {w1}
  MaxEnqueue = 1
  MaxFaults = 1
PROPERTY StopsOnlyWhenInterrupted
