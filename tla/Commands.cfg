\* Two operators, whose requests may overlap and so queue two commands: what is
\* queued is resolved by the server, whatever the agent does.
SPECIFICATION FairSpec
CONSTANTS
    Operator = {o1, o2}
    TakeLimit = 1
    MaxCommands = 2
    MaxStarts = 2
    MaxStray = 2
INVARIANTS
    TypeOK
    RunsAtMostOnce
    OneOpenUnlessOverlapped
PROPERTIES
    FinalUnlessOverlapped
    EveryCommandResolved
