SPECIFICATION Spec
CONSTANTS
  Namespaces = {"n1"}
  Names = {"a"}
  Suffixes = {"x"}
  Prefix <- OwnPrefix
  Faults = {"meddling"}
  MaxUid = 1
  MaxGen = 1
  MaxRun = 2
PROPERTIES
  DeletionCompletes
  PodsAreServed
  StatusConverges
