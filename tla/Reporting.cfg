\* Four events (a start, an exit, a Stop that fails and one that observe has no
\* status for), or three and a late request or another start of the agent: enough
\* for a runner to be given up on, retired, and reported on all the same.
SPECIFICATION FairSpec
CONSTANTS
    Stale = 1
    Offline = 2
    Buffer = 2
    Batch = 1
    Ephemeral = TRUE
    MaxStray = 1
    MaxStarts = 2
    MaxEvents = 4
INVARIANTS
    TypeOK
    StatusFollowsSupervisor
PROPERTIES
    ImplementsFeed
    RetiredIsFinal
    SilenceIsShown
    UpIsShown
CHECK_DEADLOCK FALSE
