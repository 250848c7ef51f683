SPECIFICATION Spec
CONSTANTS
  Choices <- AllChoices
  Atoi <- Numerals
  Quantities <- Parsable
  maxInt32 = 20000
INVARIANTS
  TypeOK
  NodeEndsFirst
  OnlyToldToStop
  ConfigurationDoesNotPanic
  NodeIsConfigured
  PortIsNotWrapped
  TaintedUnlessTold
PROPERTIES
  StopCompletes
  StartupEnds
