\* Every feature switched on: one failure in a row, two in a window of five, an
\* operator's restart, a process that honours an operator's Stop but may ignore a
\* shutdown's.  A process may stay up just long enough to be forgiven (ResetAfter)
\* and still fail three times in one Window, at an uptime and a delay of 1 each.  It
\* may also stay up for longer (MaxUptime): three failures are then more than a
\* Window apart, and the budget never ends the loop.  The clock stops at MaxTime with
\* Run still at work, so CrashLoopEnds would fail if it did not ask for haste.  A
\* hasty runner is given up on by 9: a failed launch, a failure, a restart that
\* spreads the failures, then three in a row.
SPECIFICATION CooperativeSpec
CONSTANTS
    Initial = 1
    Factor = 2
    MaxDelay = 2
    MaxRestarts = 1
    ResetAfter = 1
    MaxRestartsPerWindow = 2
    Window = 5
    StopTimeout = 1
    Ephemeral = TRUE
    HooksInstalled = TRUE
    MaxUptime = 2
    MaxTime = 10
    MaxRequests = 1
INVARIANTS
    TypeOK
    BudgetDecides
    RestartExcusesItsTarget
    ShutdownLaunches
PROPERTIES
    ImplementsLife
    ShutdownEnds
    RestartReachesItsTarget
    CrashLoopEnds
