SPECIFICATION Spec
CHECK_DEADLOCK FALSE
CONSTANTS
    Spelling <- Spellings
    Path <- FileNames
    Blank = ""
    Normal <- Stripped
    InputArtifact = "artifact"
    Requests <- SmallRequests
INVARIANT BundleWithinBudget
