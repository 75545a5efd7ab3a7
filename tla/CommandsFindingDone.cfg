\* One command, one agent that stops.
SPECIFICATION Spec
CONSTANTS
    Operator = {o1}
    TakeLimit = 1
    MaxCommands = 1
    MaxStarts = 1
    MaxStray = 0
INVARIANTS
    DoneIsCarriedOut
