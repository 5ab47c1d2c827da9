SPECIFICATION Spec
CHECK_DEADLOCK FALSE
CONSTANTS
  Prompts = {"active", "candidate"}
  Outcomes <- SomeOutcomes
  MaxSamples = 5
  Unit = 20
  MinimumSamples = 2
  Minimum <- DefaultMinimum
  MaximumRepairs = 20
  Delta = 2
INVARIANTS
  TypeOK
  NoMutualPromotion
  WorkflowRateBoundsStages
PROPERTIES
  SuccessKeepsPromotion
