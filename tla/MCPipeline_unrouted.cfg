SPECIFICATION Spec
CONSTANTS
  Runs = {r1}
  NoArtifact = NoArtifact
  NoMessage = NoMessage
  NoResult = NoResult
  Workers <- LocalStack
  Service <- ServiceOfWorker
  Results <- HandlerResults
  GeneratedCode = {"clean", "unfinished"}
  RoutingActions = {"regenerate"}
  StatusNameBound = FALSE
  FaultKinds = {}
  FaultLabels = {}
  MaxFaults = 0
PROPERTIES
  FailedRunsAreRouted
CHECK_DEADLOCK FALSE
