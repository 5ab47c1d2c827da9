SPECIFICATION Spec
CHECK_DEADLOCK FALSE
CONSTANTS
    Spelling <- Spellings
    Path <- FileNames
    Blank = ""
    Normal <- Stripped
    InputArtifact = "artifact"
    Requests <- SmallRequests
INVARIANT TypeOK
INVARIANT FilesAreTheFirstWanted
INVARIANT OmissionsAreMarked
INVARIANT BundleIsBounded
