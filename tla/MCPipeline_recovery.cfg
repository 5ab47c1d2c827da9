SPECIFICATION Spec
CONSTANTS
  Runs = {r1}
  NoArtifact = NoArtifact
  NoMessage = NoMessage
  NoResult = NoResult
  Workers <- LocalStack
  Service <- ServiceOfWorker
  Results <- HandlerResults
  GeneratedCode = {"unfinished"}
  RoutingActions = {"regenerate"}
  StatusNameBound = FALSE
  FaultKinds = {"error"}
  FaultLabels <- TryLabels
  MaxFaults = 2
INVARIANTS
  RunningStepsAreOwned
PROPERTIES
  EveryRunIsJudged
CHECK_DEADLOCK FALSE
