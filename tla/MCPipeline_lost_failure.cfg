SPECIFICATION Spec
CONSTANTS
  Runs = {r1}
  NoArtifact = NoArtifact
  NoMessage = NoMessage
  NoResult = NoResult
  Workers <- LocalStack
  Service <- ServiceOfWorker
  Results <- HandlerResults
  GeneratedCode = {"unfinished"}
  RoutingActions = {"regenerate"}
  StatusNameBound = FALSE
  FaultKinds = {"crash"}
  FaultLabels = {}
  MaxFaults = 1
PROPERTIES
  FailuresArePublished
CHECK_DEADLOCK FALSE
