SPECIFICATION Spec
CONSTANTS
  Runs = {r1, r2}
  NoArtifact = NoArtifact
  NoMessage = NoMessage
  NoResult = NoResult
  Workers <- Replicas
  Service <- ServiceOfWorker
  Results <- HandsOnOrFails
  StatusNameBound = TRUE
  FaultKinds <- AllFaults
  FaultLabels <- AllLabels
  MaxFaults = 2
SYMMETRY RunSymmetry
INVARIANTS
  LostStepsNeedFaults
  StrandedRunsNeedFaults
CHECK_DEADLOCK FALSE
