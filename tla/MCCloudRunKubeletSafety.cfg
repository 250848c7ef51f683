SPECIFICATION Spec
CONSTANTS
  Namespaces = {"n1"}
  Names = {"a"}
  Suffixes = {"x"}
  Prefix <- OwnPrefix
  Faults = {"rpc", "credentials", "removal", "stop"}
  MaxUid = 1
  MaxGen = 2
  MaxRun = 2
INVARIANTS
  TypeOK
  Creations
  OwnServiceIsOlder
PROPERTIES
  CreateOncePerVersion
