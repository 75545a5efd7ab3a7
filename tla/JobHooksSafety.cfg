\* Two jobs, one thing of each kind, a change of the
\* configuration and a death of the runner.  The runner has no more jobs then.
SPECIFICATION Spec
CONSTANTS
    Container = {c1}
    Volume = {v1}
    Network = {n1}
    MaxJobs = 2
    MaxEdits = 1
    MaxKills = 1
INVARIANTS
    TypeOK
    FileTellsTheTruth
PROPERTIES
    KeepsWhatWasThere
    LeavesNothing
CHECK_DEADLOCK FALSE
