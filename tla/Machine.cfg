\* Two commands at once, three in all; two runners share a file.
SPECIFICATION Spec
CONSTANTS
    Runner = {r1, r2}
    Process = {p1, p2}
    MaxCommands = 3
    r1 = r1
    r2 = r2
    p1 = p1
    p2 = p2
INVARIANTS
    TypeOK
    PromiseKept
    KnownJobsSpared
CHECK_DEADLOCK FALSE
