SPECIFICATION MergeSpec
CONSTANTS
    Stories <- MCStories
    MaxPasses = 2
    MaxFaults = 2
INVARIANTS
    MergedIsPublished
    DoneIsWhole
PROPERTIES
    PublishedFailsByFaultOnly
    ContinuationEnds
CHECK_DEADLOCK FALSE
