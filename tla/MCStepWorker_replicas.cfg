SPECIFICATION Spec
CONSTANTS
  Runs = {r1}
  NoArtifact = NoArtifact
  NoMessage = NoMessage
  NoResult = NoResult
  Workers <- Replicas
  Service <- ServiceOfWorker
  Results <- AnyResults
  StatusNameBound = TRUE
  FaultKinds <- AllFaults
  FaultLabels <- AllLabels
  MaxFaults = 3
INVARIANTS
  ExclusiveExecution
  MessagesResolvable
PROPERTIES
  CompletionKept
  ImplementsLifecycle
CHECK_DEADLOCK FALSE
