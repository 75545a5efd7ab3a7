\* One job, whose first hook cannot list what Docker holds.
SPECIFICATION Spec
CONSTANTS
    Container = {c1}
    Volume = {v1}
    Network = {n1}
    MaxJobs = 1
    MaxEdits = 0
    MaxKills = 0
PROPERTY
    UntakenCleansNothing
CHECK_DEADLOCK FALSE
