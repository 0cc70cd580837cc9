SPECIFICATION LifecycleSpec
CONSTANTS
    s1 = s1  s2 = s2  r1 = r1  r2 = r2  r3 = r3
    Keys = {k1}
    Sessions = {s1, s2}
    Reqs = {r1, r2, r3}
    SessionOf <- MCSessionOf
    Stable = {s1}
    Ttl = 1
    MaxSessions = 1
    Tiers = {fs}
    Transfers = {}
    MaxInflight = 0
    MaxEntries = 1
    MaxTime = 2
    NoBlock = NoBlock
    Never = Never
    NoSession = NoSession
INVARIANTS
    LifecycleTypeOK
    SessionsMatchTracker
    NoOrphanMapping
    DeadlineGate
    ReclaimedKeysUnused
PROPERTIES
    IdleSessionsExpire
