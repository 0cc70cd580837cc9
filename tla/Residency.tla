------------------------------- MODULE Residency -------------------------------
(***************************************************************************)
(* BlockResidencyTracker (residency.py): which tiers hold a block, which   *)
(* sessions use it and which transfers move it.  The tracker runs on one   *)
(* thread; its callers report events in any order.  access_count, which    *)
(* only orders candidates under CPU pressure that are alike in being used  *)
(* and shared, is left out: their order is arbitrary.                      *)
(***************************************************************************)
EXTENDS Integers, FiniteSets

CONSTANTS
    Keys, Sessions,
    Tiers,          \* names of secondary tiers
    Transfers,      \* pairs (source, target)
    MaxInflight,    \* bound on the transfers of one kind under way for a block
    MaxEntries,     \* max_entries
    MaxTime,        \* bound on the clock
    NoBlock, Never

VARIABLES
    blocks,         \* _blocks: key -> state or NoBlock
    sessionKeys,    \* _session_keys, {} for a session without an entry
    active,         \* _active_sessions
    now,            \* time.monotonic()
    moving,         \* history: transfers started and not finished
    onCpu           \* history: blocks reported in CPU memory

tracker == <<blocks, sessionKeys, active>>
history == <<moving, onCpu>>
trackerVars == <<tracker, now, history>>

Times == 1 .. MaxTime
BlockResidencyState ==
    [cpu : BOOLEAN, tiers : SUBSET Tiers, sessions : SUBSET Sessions,
     inflight : [Transfers -> 0 .. MaxInflight], last : Times, idle : Times \cup {Never}]

ASSUME ResidencyAssumption ==
    /\ IsFiniteSet(Keys) /\ IsFiniteSet(Sessions)
    /\ MaxInflight \in Nat /\ MaxEntries \in Nat \ {0} /\ MaxTime \in Nat \ {0}
    /\ NoBlock \notin BlockResidencyState /\ Never \notin Times

TrackerInit ==
    /\ blocks = [k \in Keys |-> NoBlock]
    /\ sessionKeys = [s \in Sessions |-> {}]
    /\ active = {}
    /\ now = 1
    /\ moving = [k \in Keys |-> [x \in Transfers |-> 0]]
    /\ onCpu = {}

-----------------------------------------------------------------------------
(* What the operations make of the blocks.                                 *)

(* Mutant: a block is created without an access time.                      *)
GetOrCreateUndated(B, k) ==
    IF B[k] # NoBlock THEN B[k]
    ELSE [cpu |-> FALSE, tiers |-> {}, sessions |-> {},
          inflight |-> [x \in Transfers |-> 0], last |-> 0, idle |-> Never]

GetOrCreate(B, k) ==
    IF B[k] # NoBlock THEN B[k]
    ELSE [cpu |-> FALSE, tiers |-> {}, sessions |-> {},
          inflight |-> [x \in Transfers |-> 0], last |-> now, idle |-> Never]

HasActiveSession(b, A) == b.sessions \cap A # {}
HasInflightTransfer(b) == \E x \in Transfers : b.inflight[x] > 0
Tracked == {k \in Keys : blocks[k] # NoBlock}

(* on_session_active                                                       *)
Activated(s) ==
    [k \in Keys |-> IF k \in sessionKeys[s] \cap Tracked
                    THEN [blocks[k] EXCEPT !.idle = Never, !.last = now] ELSE blocks[k]]

(* Mutant: the other sessions of a shared block are not asked.             *)
IdledShared(s) ==
    [k \in Keys |-> IF k \in sessionKeys[s] \cap Tracked
                    THEN [blocks[k] EXCEPT !.idle = now] ELSE blocks[k]]

(* on_session_idle                                                         *)
Idled(s) ==
    [k \in Keys |->
        IF k \in sessionKeys[s] \cap Tracked /\ ~HasActiveSession(blocks[k], active \ {s})
        THEN [blocks[k] EXCEPT !.idle = now] ELSE blocks[k]]

(* record_access of the keys K by session s, when the sessions A are active.*)
Accessed(B, s, K, A) ==
    [k \in Keys |->
        IF k \notin K THEN B[k]
        ELSE LET b == GetOrCreate(B, k)
             IN  [b EXCEPT !.sessions = @ \cup {s}, !.last = now,
                           !.idle = IF s \in A THEN Never ELSE @]]

(* release_session of every session of S.                                  *)
KeysOf(S) == UNION {sessionKeys[s] : s \in S}
Released(S) ==
    [k \in Keys |->
        IF k \notin KeysOf(S) \cap Tracked THEN blocks[k]
        ELSE LET b == [blocks[k] EXCEPT !.sessions = @ \ S]
             IN  IF HasActiveSession(b, active \ S) \/ b.idle # Never THEN b
                 ELSE [b EXCEPT !.idle = now]]
Unreferenced(S) == {k \in KeysOf(S) \cap Tracked : blocks[k].sessions \subseteq S}

-----------------------------------------------------------------------------
(* The sessions' events.                                                   *)

OnSessionActive(s) ==
    /\ active' = active \cup {s}
    /\ blocks' = Activated(s)
    /\ UNCHANGED <<sessionKeys, now, history>>

OnSessionIdle(s) ==
    /\ active' = active \ {s}
    /\ blocks' = Idled(s)
    /\ UNCHANGED <<sessionKeys, now, history>>

RecordAccess(s, K) ==
    /\ blocks' = Accessed(blocks, s, K, active)
    /\ sessionKeys' = [sessionKeys EXCEPT ![s] = @ \cup K]
    /\ UNCHANGED <<active, now, history>>

(* Mutant: the session's key set survives its release.                     *)
ReleaseSessionsKeepingKeys(S) ==
    /\ active' = active \ S
    /\ blocks' = Released(S)
    /\ UNCHANGED <<sessionKeys, now, history>>

ReleaseSessions(S) ==
    /\ active' = active \ S
    /\ sessionKeys' = [s \in Sessions |-> IF s \in S THEN {} ELSE sessionKeys[s]]
    /\ blocks' = Released(S)
    /\ UNCHANGED <<now, history>>

-----------------------------------------------------------------------------
(* The tiers' events.                                                      *)

(* The blocks with the entries `new' put in.                               *)
Entry(k) == GetOrCreate(blocks, k)
Updated(new) == [k \in Keys |-> IF k \in DOMAIN new THEN new[k] ELSE blocks[k]]

MarkCpuResident(K, resident) ==
    /\ blocks' = Updated([k \in K |-> [Entry(k) EXCEPT !.cpu = resident]])
    /\ onCpu' = IF resident THEN onCpu \cup K ELSE onCpu \ K
    /\ UNCHANGED <<sessionKeys, active, now, moving>>

MarkSecondaryResident(K, t, resident) ==
    /\ blocks' = Updated([k \in K |-> [Entry(k) EXCEPT !.tiers = IF resident THEN @ \cup {t} ELSE @ \ {t}]])
    /\ UNCHANGED <<sessionKeys, active, now, history>>

StartTransfer(K, x) ==
    /\ \A k \in K : moving[k][x] < MaxInflight
    /\ blocks' = Updated([k \in K |-> [Entry(k) EXCEPT !.inflight[x] = @ + 1]])
    /\ moving' = [k \in Keys |-> IF k \in K THEN [moving[k] EXCEPT ![x] = @ + 1] ELSE moving[k]]
    /\ UNCHANGED <<sessionKeys, active, now, onCpu>>

(* Mutant: the entry goes with the first transfer that ends.               *)
FinishTransferAll(K, x) ==
    /\ \A k \in K : moving[k][x] > 0
    /\ blocks' = [k \in Keys |-> IF k \in K \cap Tracked
                                 THEN [blocks[k] EXCEPT !.inflight[x] = 0] ELSE blocks[k]]
    /\ moving' = [k \in Keys |-> IF k \in K THEN [moving[k] EXCEPT ![x] = @ - 1] ELSE moving[k]]
    /\ UNCHANGED <<sessionKeys, active, now, onCpu>>

(* The caller finishes what it has started.                                *)
FinishTransfer(K, x) ==
    /\ \A k \in K : moving[k][x] > 0
    /\ blocks' = [k \in Keys |->
                    IF k \notin K \cap Tracked THEN blocks[k]
                    ELSE [blocks[k] EXCEPT !.inflight[x] = IF @ <= 1 THEN 0 ELSE @ - 1]]
    /\ moving' = [k \in Keys |-> IF k \in K THEN [moving[k] EXCEPT ![x] = @ - 1] ELSE moving[k]]
    /\ UNCHANGED <<sessionKeys, active, now, onCpu>>

ClearCpuResidency ==
    /\ blocks' = [k \in Keys |-> IF k \in Tracked THEN [blocks[k] EXCEPT !.cpu = FALSE] ELSE NoBlock]
    /\ onCpu' = {}
    /\ UNCHANGED <<sessionKeys, active, now, moving>>

(* Mutant: a block under transfer may be pruned.                           *)
PrunableMoving == {k \in Tracked : blocks[k].sessions = {} /\ ~blocks[k].cpu}

Prunable == {k \in Tracked : blocks[k].sessions = {} /\ ~blocks[k].cpu
                             /\ ~HasInflightTransfer(blocks[k])}

(* What sorting C by rank and taking [:n] can give: n elements that come   *)
(* first, or all of C.                                                     *)
Lowest(C, n, rank) ==
    {S \in SUBSET C :
        /\ Cardinality(S) = IF Cardinality(C) < n THEN Cardinality(C) ELSE n
        /\ \A a \in S, b \in C \ S : rank[a] <= rank[b]}

Prune ==
    /\ Cardinality(Tracked) > MaxEntries
    /\ \E S \in Lowest(Prunable, Cardinality(Tracked) - MaxEntries, [k \in Prunable |-> blocks[k].last]) :
         blocks' = [k \in Keys |-> IF k \in S THEN NoBlock ELSE blocks[k]]
    /\ UNCHANGED <<sessionKeys, active, now, history>>

Tick ==
    /\ now < MaxTime
    /\ now' = now + 1
    /\ UNCHANGED <<tracker, history>>

-----------------------------------------------------------------------------
(* The queries for blocks to move out of CPU memory; `before' is           *)
(* idle_before, Never when the caller asks for no age.                     *)

IsShared(b) == Cardinality(b.sessions) > 1
OldEnough(b, before) == before = Never \/ (b.idle # Never /\ b.idle <= before)

(* get_idle_cpu_candidates before the limit, oldest idle time first;       *)
(* has_idle_cpu_blocks asks whether it has any without an age.             *)
IdleCpuCandidates(before) ==
    {k \in Tracked :
        LET b == blocks[k]
        IN  /\ b.cpu /\ b.tiers # {} /\ ~HasInflightTransfer(b)
            /\ ~HasActiveSession(b, active) /\ ~IsShared(b)
            /\ b.idle # Never /\ OldEnough(b, before)}

(* The candidates of get_cpu_pressure_candidates, its order as far as it   *)
(* concerns their sessions, and what it can return.                        *)
CpuPressureCandidates(before, includeActive) ==
    {k \in Tracked :
        LET b == blocks[k]
        IN  /\ b.cpu /\ ~HasInflightTransfer(b) /\ OldEnough(b, before)
            /\ includeActive \/ ~HasActiveSession(b, active)}

(* Mutant: sharing weighs more than use.                                   *)
PressureRankSharedFirst(b) ==
    (IF IsShared(b) THEN 2 ELSE 0) + (IF HasActiveSession(b, active) THEN 1 ELSE 0)

PressureRank(b) ==
    (IF HasActiveSession(b, active) THEN 2 ELSE 0) + (IF IsShared(b) THEN 1 ELSE 0)

GetCpuPressureCandidates(limit, before, includeActive) ==
    LET C == CpuPressureCandidates(before, includeActive)
    IN  Lowest(C, limit, [k \in C |-> PressureRank(blocks[k])])

-----------------------------------------------------------------------------
TierEvent ==
    \/ \E K \in (SUBSET Keys) \ {{}} :
         \/ \E resident \in BOOLEAN :
              \/ MarkCpuResident(K, resident)
              \/ \E t \in Tiers : MarkSecondaryResident(K, t, resident)
         \/ \E x \in Transfers : StartTransfer(K, x) \/ FinishTransfer(K, x)
    \/ ClearCpuResidency
    \/ Prune
    \/ Tick

SessionEvent ==
    \E s \in Sessions :
        \/ OnSessionActive(s)
        \/ OnSessionIdle(s)
        \/ \E K \in (SUBSET Keys) \ {{}} : RecordAccess(s, K)
        \/ ReleaseSessions({s})

TrackerNext == TierEvent \/ SessionEvent

TrackerSpec == TrackerInit /\ [][TrackerNext]_trackerVars

-----------------------------------------------------------------------------
(* Types of the tracker's state.                                            *)
TrackerTypeOK ==
    /\ blocks \in [Keys -> BlockResidencyState \cup {NoBlock}]
    /\ sessionKeys \in [Sessions -> SUBSET Keys]
    /\ active \in SUBSET Sessions
    /\ now \in Times
    /\ moving \in [Keys -> [Transfers -> 0 .. MaxInflight]]
    /\ onCpu \in SUBSET Keys

(* The two ownership indexes of record_access, release_session and prune    *)
(* agree: a session's keys are tracked and name the session, and a block    *)
(* names no session that does not list it.                                  *)
OwnershipAgrees ==
    \A s \in Sessions :
        sessionKeys[s] = {k \in Tracked : s \in blocks[k].sessions}

(* A block that an active session uses has no idle time, whichever of its   *)
(* sessions went idle, came back or were released: it cannot be demoted for *)
(* its age (idle_since in get_idle_cpu_candidates).                         *)
ActiveBlocksNotIdle ==
    \A k \in Tracked : HasActiveSession(blocks[k], active) => blocks[k].idle = Never

(* The tracker forgets no transfer under way and no block in CPU memory,    *)
(* although prune drops entries and finish_transfer ignores missing ones.   *)
NothingForgotten ==
    \A k \in Keys :
        IF blocks[k] = NoBlock
        THEN k \notin onCpu /\ \A x \in Transfers : moving[k][x] = 0
        ELSE (blocks[k].cpu <=> k \in onCpu) /\ blocks[k].inflight = moving[k]

(* The blocks `used' leave CPU memory only as a last resort: no query that  *)
(* asks for an age, demotes idle blocks or excludes active sessions offers  *)
(* one, and get_cpu_pressure_candidates with its defaults (include_active,  *)
(* no age) offers one only together with every other block reported in CPU  *)
(* memory that no transfer holds there.                                     *)
LastResort(used) ==
    LET movable == {k \in onCpu \ used : \A x \in Transfers : moving[k][x] = 0}
    IN  /\ \A before \in Times \cup {Never} :
             /\ used \cap IdleCpuCandidates(before) = {}
             /\ used \cap CpuPressureCandidates(before, FALSE) = {}
             /\ before # Never => used \cap CpuPressureCandidates(before, TRUE) = {}
        /\ \A limit \in 0 .. Cardinality(Keys) :
             \A S \in GetCpuPressureCandidates(limit, Never, TRUE) :
               used \cap S # {} => movable \subseteq S

(* The blocks of the active sessions are a last resort under CPU pressure,  *)
(* as the docstring of get_cpu_pressure_candidates says: with an age only   *)
(* their idle times keep them out, and without one only the order does,     *)
(* over entries that transfers, prune and other sessions have changed.      *)
ActiveBlocksLastResort == LastResort(KeysOf(active))
================================================================================
