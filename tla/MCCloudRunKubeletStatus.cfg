SPECIFICATION Spec
CONSTANTS
  Namespaces = {"n1"}
  Names = {"a"}
  Suffixes = {"x"}
  Prefix <- OwnPrefix
  Faults = {}
  MaxUid = 2
  MaxGen = 1
  MaxRun = 1
PROPERTIES
  StatusIsOwn
