\* Two runs: what one leaves, the next one finds.
SPECIFICATION FairSpec
CONSTANTS
    MaxRuns = 2
INVARIANTS
    TypeOK
    LeavesNothing
    CompletedWorked
PROPERTIES
    RetiredInTheEnd
CHECK_DEADLOCK FALSE
