SPECIFICATION Spec
CONSTANTS
  Namespaces = {"n1"}
  Names = {"a"}
  HostStatuses <- RunningOnly
  UpdateStatuses = {}
  Failures = {"status", "active", "cleanup"}
  MaxUid = 2
PROPERTIES
  LossIsReported
  DanglingIsCleaned
  StopsWhenCancelled
