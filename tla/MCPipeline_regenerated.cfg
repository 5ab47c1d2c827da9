SPECIFICATION Spec
CONSTANTS
  Runs = {r1}
  NoArtifact = NoArtifact
  NoMessage = NoMessage
  NoResult = NoResult
  Workers <- LocalStack
  Service <- ServiceOfWorker
  Results <- HandlerResults
  GeneratedCode = {"unfinished"}
  RoutingActions = {"regenerate"}
  StatusNameBound = TRUE
  FaultKinds = {}
  FaultLabels = {}
  MaxFaults = 0
PROPERTIES
  FailedRegenerationsReachAHuman
CHECK_DEADLOCK FALSE
