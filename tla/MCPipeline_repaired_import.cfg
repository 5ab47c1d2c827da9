SPECIFICATION Spec
CONSTANTS
  Runs = {r1}
  NoArtifact = NoArtifact
  NoMessage = NoMessage
  NoResult = NoResult
  Workers <- LocalStack
  Service <- ServiceOfWorker
  Results <- HandlerResults
  GeneratedCode = {"clean", "unfinished", "oversized"}
  RoutingActions = {"regenerate", "human_review"}
  StatusNameBound = TRUE
  FaultKinds = {}
  FaultLabels = {}
  MaxFaults = 0
INVARIANTS
  CompletedRunPassedEveryGate
  RoutedOnFailureOnly
PROPERTIES
  FailedRunsAreRouted
  VerdictIsFinal
CHECK_DEADLOCK FALSE
