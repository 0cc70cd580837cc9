SPECIFICATION WorkerSpec
CHECK_DEADLOCK FALSE
CONSTANTS
    Jobs = {j1, j2}
    NoJob = NoJob
    Copies = 2
    MaxSubmits = 3
    MaxKernels = 1
INVARIANTS
    ResultsAccountedFor
    CopiesHaveOwner
PROPERTIES
    StoresReadStable
    CallsReturn
