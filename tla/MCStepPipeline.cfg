SPECIFICATION FairPipelineSpec
CONSTANTS
    N = 3
    MaxRetries <- MCMaxRetries
    Critical = {1}
    MaxClaims <- MCMaxClaims
    MaxResumes = 1
    MaxDeaths = 1
INVARIANTS
    OneStepAtATime
    NoStepIsLeftBehind
    EndLeavesNoStep
PROPERTIES
    PipelineGoesOn
CHECK_DEADLOCK FALSE
