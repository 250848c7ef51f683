SPECIFICATION Spec
CONSTANTS
  Namespaces = {"n1"}
  Names = {"a"}
  HostStatuses <- RunningOnly
  UpdateStatuses <- RunningOnly
  Failures = {"status"}
  MaxUid = 2
INVARIANTS
  TypeOK
  FailedWasLost
