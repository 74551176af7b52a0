SPECIFICATION MergeSpec
CONSTANTS
    Stories <- MCStories
    MaxPasses = 2
    MaxFaults = 1
INVARIANT ReplayIsAccepted
CHECK_DEADLOCK FALSE
