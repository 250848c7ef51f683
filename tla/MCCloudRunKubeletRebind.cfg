SPECIFICATION Spec
CONSTANTS
  Namespaces = {"n1"}
  Names = {"a"}
  Suffixes = {"x"}
  Prefix <- OwnPrefix
  Faults = {"removal", "incomplete"}
  MaxUid = 2
  MaxGen = 1
  MaxRun = 2
INVARIANTS
  NoCreateAfterDelete
PROPERTIES
  ImplementsLifecycle
