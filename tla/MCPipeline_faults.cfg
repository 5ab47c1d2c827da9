SPECIFICATION Spec
CONSTANTS
  Runs = {r1}
  NoArtifact = NoArtifact
  NoMessage = NoMessage
  NoResult = NoResult
  Workers <- LocalStack
  Service <- ServiceOfWorker
  Results <- HandlerResults
  GeneratedCode = {"clean", "unfinished"}
  RoutingActions = {"regenerate"}
  StatusNameBound = FALSE
  FaultKinds = {"error", "lost_reply", "crash"}
  FaultLabels <- AllLabels
  MaxFaults = 1
INVARIANTS
  TypeOK
  MessagesResolvable
  OrphansNeedFaults
  StrandedRunsNeedFaults
  FailedStepsAreRetried
  CompletedRunPassedEveryGate
  StagesReceivePassedWork
  AuditTrailTruthful
CHECK_DEADLOCK FALSE
