\* An operator restarts an ephemeral runner that is finishing its job.
SPECIFICATION Spec
CONSTANTS
    Initial = 1
    Factor = 2
    MaxDelay = 2
    MaxRestarts = 1
    ResetAfter = 2
    MaxRestartsPerWindow = 2
    Window = 4
    StopTimeout = 1
    Ephemeral = TRUE
    HooksInstalled = TRUE
    MaxUptime = 2
    MaxTime = 3
    MaxRequests = 1
PROPERTIES
    FinishedEphemeralEnds
