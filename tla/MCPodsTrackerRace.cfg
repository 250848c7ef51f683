SPECIFICATION Spec
CONSTANTS
  Namespaces = {"n1"}
  Names = {"a"}
  HostStatuses <- RunningOnly
  UpdateStatuses = {}
  Failures = {}
  MaxUid = 1
PROPERTIES
  CleanupSparesBoundPods
