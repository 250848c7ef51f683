SPECIFICATION Spec
CONSTANTS
  Namespaces = {"n1"}
  Names = {"a"}
  Suffixes = {"x"}
  Prefix <- OwnPrefix
  Faults = {}
  MaxUid = 1
  MaxGen = 1
  MaxRun = 1
INVARIANTS
  MissingServiceIsNotFatal
