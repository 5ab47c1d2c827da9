SPECIFICATION Spec
CHECK_DEADLOCK FALSE
CONSTANTS
    Scores <- ScoresAround
    Missing = Missing
    PassScore = 16
    MaxRefinements = 4
    MaxRepairs = 3
    ChecksOutput = TRUE
    RepairsOutput = TRUE
INVARIANT TypeOK
INVARIANT TaskPromptIsJudged
INVARIANT ReturnedOutputIsJudged
INVARIANT CallsAreBounded
