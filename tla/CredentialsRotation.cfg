\* One agent, whose requests may outlive its interest in them, over four
\* credentials and three starts.  It may end up switched off.
SPECIFICATION FairSpec
CONSTANTS
    Agent = {a1}
    MaxUses = 2
    MaxTokens = 4
    MaxStarts = 3
    MaxStray = 1
INVARIANTS
    TypeOK
    LockoutHasCause
PROPERTIES
    TwoLiveOnlyByOverlap
    OldIsRevoked
CHECK_DEADLOCK FALSE
