SPECIFICATION FileTierSpec
CONSTANTS
    p1 = p1  p2 = p2  w3 = w3  k1 = k1
    Procs = {p1, p2}
    Threads = {w1, w2, w3}
    ProcessOf <- MCProcessOf
    Requests <- MCRequests
    Keys = {k1, k2}
    Jobs = {j1, j2}
    NoProc = NoProc
    NoJob = NoJob
    NoKey = NoKey
    MaxLeftovers = 1
SYMMETRY MCSymmetry
INVARIANTS
    FileTierTypeOK
PROPERTIES
    NeverPublishesTorn
    FileImplementsTier
