SPECIFICATION Spec
CONSTANTS
    Readers = {r1}
    Writers = {w1}
    Jobs = {j1, j2}
    MaxTasks <- MCMaxTasks
    j1 = j1
    NoTask = NoTask
CHECK_DEADLOCK FALSE
PROPERTY DrainAfterShutdownReturns
