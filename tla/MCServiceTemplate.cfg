SPECIFICATION Spec
CONSTANTS
  Containers <- SampleContainers
  MaxContainers = 2
INVARIANTS
  CpuIsCovered
  MemoryIsWithinLimit
  StatusesFitContainers
