---------------------------- MODULE LifecycleProofs ----------------------------
(* Theorems about Lifecycle and its tracker Residency, for every value of  *)
(* their constants: the tracker first, under every call of its own, then   *)
(* the manager, whose effect on the tracker the same lemmas cover.         *)
EXTENDS Lifecycle, WellFoundedInduction, TLAPS

(* The inductive invariant: no conjunct is inductive alone, because the    *)
(* bound of a transfer's count comes from its history and the events of a  *)
(* session reach its blocks through its key set.                           *)
TrackerInv ==
    /\ TrackerTypeOK
    /\ OwnershipAgrees
    /\ ActiveBlocksNotIdle
    /\ NothingForgotten

-----------------------------------------------------------------------------
(* Facts about block states.                                               *)

(* The fields of a block state, and NoBlock is none.                       *)
LEMMA BlockFields ==
    ASSUME NEW b \in BlockResidencyState
    PROVE  /\ b # NoBlock
           /\ b.cpu \in BOOLEAN /\ b.tiers \in SUBSET Tiers /\ b.sessions \in SUBSET Sessions
           /\ b.inflight \in [Transfers -> 0 .. MaxInflight]
           /\ b.last \in Times /\ b.idle \in Times \cup {Never}
BY ResidencyAssumption DEF BlockResidencyState

(* A key's entry is a block state or missing.                              *)
LEMMA EntryType ==
    ASSUME TrackerTypeOK, NEW k \in Keys, blocks[k] # NoBlock
    PROVE  blocks[k] \in BlockResidencyState
BY DEF TrackerTypeOK

(* _get_or_create returns the entry, or one that nobody uses and nothing   *)
(* holds.                                                                  *)
LEMMA GetOrCreateFacts ==
    ASSUME NEW B \in [Keys -> BlockResidencyState \cup {NoBlock}], NEW k \in Keys, now \in Times
    PROVE  /\ GetOrCreate(B, k) \in BlockResidencyState
           /\ B[k] # NoBlock => GetOrCreate(B, k) = B[k]
           /\ B[k] = NoBlock =>
                /\ GetOrCreate(B, k).cpu = FALSE
                /\ GetOrCreate(B, k).sessions = {}
                /\ GetOrCreate(B, k).inflight = [x \in Transfers |-> 0]
                /\ GetOrCreate(B, k).idle = Never
<1> DEFINE new == [cpu |-> FALSE, tiers |-> {}, sessions |-> {},
                   inflight |-> [x \in Transfers |-> 0], last |-> now, idle |-> Never]
<1>1. [x \in Transfers |-> 0] \in [Transfers -> 0 .. MaxInflight]
  BY ResidencyAssumption
<1>2. new \in BlockResidencyState
  BY <1>1 DEF BlockResidencyState
<1>3. QED
  BY <1>2 DEF GetOrCreate

(* Field updates of a block state give block states.                       *)
LEMMA BlockUpdates ==
    ASSUME NEW b \in BlockResidencyState
    PROVE  /\ \A c \in BOOLEAN : [b EXCEPT !.cpu = c] \in BlockResidencyState
           /\ \A T \in SUBSET Tiers : [b EXCEPT !.tiers = T] \in BlockResidencyState
           /\ \A S \in SUBSET Sessions : [b EXCEPT !.sessions = S] \in BlockResidencyState
           /\ \A f \in [Transfers -> 0 .. MaxInflight] : [b EXCEPT !.inflight = f] \in BlockResidencyState
           /\ \A t \in Times : [b EXCEPT !.last = t] \in BlockResidencyState
           /\ \A i \in Times \cup {Never} : [b EXCEPT !.idle = i] \in BlockResidencyState
BY DEF BlockResidencyState

-----------------------------------------------------------------------------
(* What an event must leave alone for each half of the invariant.          *)

(* Entries may be made for no session and dropped when no session uses     *)
(* them; the other entries keep their sessions and idle times.             *)
SameOwnership ==
    /\ sessionKeys' = sessionKeys /\ active' = active
    /\ \A k \in Keys :
         /\ blocks[k] # NoBlock /\ blocks'[k] # NoBlock =>
              blocks'[k].sessions = blocks[k].sessions /\ blocks'[k].idle = blocks[k].idle
         /\ blocks[k] = NoBlock /\ blocks'[k] # NoBlock => blocks'[k].sessions = {}
         /\ blocks[k] # NoBlock /\ blocks'[k] = NoBlock => blocks[k].sessions = {}

(* No entry is dropped, entries that are made hold nothing, and the others *)
(* keep their place in CPU memory and their transfers.                     *)
SameResidency ==
    /\ moving' = moving /\ onCpu' = onCpu
    /\ \A k \in Keys :
         /\ blocks[k] # NoBlock =>
              /\ blocks'[k] # NoBlock
              /\ blocks'[k].cpu = blocks[k].cpu /\ blocks'[k].inflight = blocks[k].inflight
         /\ blocks[k] = NoBlock /\ blocks'[k] # NoBlock =>
              blocks'[k].cpu = FALSE /\ blocks'[k].inflight = [x \in Transfers |-> 0]

(* Events that respect ownership keep the two indexes in agreement and     *)
(* leave the blocks of active sessions without idle time.                  *)
LEMMA OwnershipKept ==
    ASSUME TrackerTypeOK, OwnershipAgrees, ActiveBlocksNotIdle, SameOwnership
    PROVE  OwnershipAgrees' /\ ActiveBlocksNotIdle'
<1>1. ASSUME NEW s \in Sessions
      PROVE  {k \in Tracked' : s \in blocks'[k].sessions} = {k \in Tracked : s \in blocks[k].sessions}
  BY DEF SameOwnership, Tracked
<1>2. OwnershipAgrees'
  BY <1>1 DEF SameOwnership, OwnershipAgrees
<1>3. ActiveBlocksNotIdle'
  BY DEF SameOwnership, ActiveBlocksNotIdle, Tracked, HasActiveSession
<1>4. QED
  BY <1>2, <1>3

(* Events that respect residency forget nothing.                           *)
LEMMA ResidencyKept ==
    ASSUME TrackerTypeOK, NothingForgotten, SameResidency
    PROVE  NothingForgotten'
<1> SUFFICES ASSUME NEW k \in Keys
             PROVE  IF blocks'[k] = NoBlock
                    THEN k \notin onCpu' /\ \A x \in Transfers : moving'[k][x] = 0
                    ELSE (blocks'[k].cpu <=> k \in onCpu') /\ blocks'[k].inflight = moving'[k]
  BY DEF NothingForgotten
<1>1. moving[k] \in [Transfers -> 0 .. MaxInflight]
  BY DEF TrackerTypeOK
<1>2. (\A x \in Transfers : moving[k][x] = 0) => moving[k] = [x \in Transfers |-> 0]
  BY <1>1
<1>3. CASE blocks[k] = NoBlock
  BY <1>2, <1>3 DEF NothingForgotten, SameResidency
<1>4. CASE blocks[k] # NoBlock
  BY <1>4 DEF NothingForgotten, SameResidency
<1>5. QED
  BY <1>3, <1>4

-----------------------------------------------------------------------------
(* The sessions' events.                                                   *)

(* The parts of the state that a session's event never touches.            *)
LEMMA SessionEventFacts ==
    ASSUME TrackerInv, SameResidency, now' = now,
           blocks' \in [Keys -> BlockResidencyState \cup {NoBlock}],
           sessionKeys' \in [Sessions -> SUBSET Keys], active' \in SUBSET Sessions
    PROVE  TrackerTypeOK' /\ NothingForgotten'
BY ResidencyKept DEF TrackerInv, TrackerTypeOK, SameResidency

(* on_session_active: every block of the session loses its idle time.      *)
LEMMA OnSessionActiveStep ==
    ASSUME TrackerInv, NEW s \in Sessions, OnSessionActive(s)
    PROVE  TrackerInv'
<1> USE DEF TrackerInv
<1>1. ASSUME NEW k \in Keys, blocks[k] # NoBlock
      PROVE  /\ blocks'[k] \in BlockResidencyState
             /\ blocks'[k].cpu = blocks[k].cpu /\ blocks'[k].inflight = blocks[k].inflight
             /\ blocks'[k].sessions = blocks[k].sessions
             /\ blocks'[k].idle = IF k \in sessionKeys[s] THEN Never ELSE blocks[k].idle
  <2>1. blocks[k] \in BlockResidencyState
    BY <1>1, EntryType
  <2>2. blocks'[k] = IF k \in sessionKeys[s] THEN [blocks[k] EXCEPT !.idle = Never, !.last = now] ELSE blocks[k]
    BY <1>1 DEF OnSessionActive, Activated, Tracked
  <2>3. now \in Times
    BY DEF TrackerTypeOK
  <2>4. QED
    BY <2>1, <2>2, <2>3 DEF BlockResidencyState
<1>2. ASSUME NEW k \in Keys, blocks[k] = NoBlock
      PROVE  blocks'[k] = NoBlock
  BY <1>2 DEF OnSessionActive, Activated, Tracked
<1>3. \A k \in Keys : (blocks'[k] = NoBlock) <=> (blocks[k] = NoBlock)
  BY <1>1, <1>2, BlockFields
<1>4. blocks' \in [Keys -> BlockResidencyState \cup {NoBlock}]
  BY <1>1, <1>2 DEF OnSessionActive, Activated
<1>5. SameResidency
  BY <1>1, <1>2, <1>3 DEF SameResidency, OnSessionActive, history
<1>6. TrackerTypeOK' /\ NothingForgotten'
  BY <1>4, <1>5, SessionEventFacts DEF OnSessionActive, TrackerTypeOK
<1>7. OwnershipAgrees'
  <2>1. ASSUME NEW t \in Sessions
        PROVE  {k \in Tracked' : t \in blocks'[k].sessions} = {k \in Tracked : t \in blocks[k].sessions}
    BY <1>1, <1>3 DEF Tracked
  <2>2. QED
    BY <2>1 DEF OwnershipAgrees, OnSessionActive
<1>8. ActiveBlocksNotIdle'
  <2> SUFFICES ASSUME NEW k \in Tracked', HasActiveSession(blocks'[k], active')
               PROVE  blocks'[k].idle = Never
    BY DEF ActiveBlocksNotIdle
  <2>1. k \in Keys /\ blocks[k] # NoBlock
    BY <1>2 DEF Tracked
  <2>2. CASE s \in blocks[k].sessions
    <3>1. k \in sessionKeys[s]
      BY <2>1, <2>2 DEF OwnershipAgrees, Tracked
    <3>2. QED
      BY <3>1, <2>1, <1>1
  <2>3. CASE s \notin blocks[k].sessions
    <3>1. HasActiveSession(blocks[k], active)
      BY <2>1, <2>3, <1>1 DEF HasActiveSession, OnSessionActive
    <3>2. blocks[k].idle = Never
      BY <2>1, <3>1 DEF ActiveBlocksNotIdle, Tracked
    <3>3. QED
      BY <3>2, <2>1, <1>1
  <2>4. QED
    BY <2>2, <2>3
<1>9. QED
  BY <1>6, <1>7, <1>8

(* on_session_idle: a block with another active session keeps none.        *)
LEMMA OnSessionIdleStep ==
    ASSUME TrackerInv, NEW s \in Sessions, OnSessionIdle(s)
    PROVE  TrackerInv'
<1> USE DEF TrackerInv
<1>1. ASSUME NEW k \in Keys, blocks[k] # NoBlock
      PROVE  /\ blocks'[k] \in BlockResidencyState
             /\ blocks'[k].cpu = blocks[k].cpu /\ blocks'[k].inflight = blocks[k].inflight
             /\ blocks'[k].sessions = blocks[k].sessions
             /\ HasActiveSession(blocks[k], active \ {s}) => blocks'[k].idle = blocks[k].idle
  <2>1. blocks[k] \in BlockResidencyState
    BY <1>1, EntryType
  <2>2. blocks'[k] = IF k \in sessionKeys[s] /\ ~HasActiveSession(blocks[k], active \ {s})
                     THEN [blocks[k] EXCEPT !.idle = now] ELSE blocks[k]
    BY <1>1 DEF OnSessionIdle, Idled, Tracked
  <2>3. now \in Times
    BY DEF TrackerTypeOK
  <2>4. QED
    BY <2>1, <2>2, <2>3 DEF BlockResidencyState
<1>2. ASSUME NEW k \in Keys, blocks[k] = NoBlock
      PROVE  blocks'[k] = NoBlock
  BY <1>2 DEF OnSessionIdle, Idled, Tracked
<1>3. \A k \in Keys : (blocks'[k] = NoBlock) <=> (blocks[k] = NoBlock)
  BY <1>1, <1>2, BlockFields
<1>4. blocks' \in [Keys -> BlockResidencyState \cup {NoBlock}]
  BY <1>1, <1>2 DEF OnSessionIdle, Idled
<1>5. SameResidency
  BY <1>1, <1>2, <1>3 DEF SameResidency, OnSessionIdle, history
<1>6. TrackerTypeOK' /\ NothingForgotten'
  BY <1>4, <1>5, SessionEventFacts DEF OnSessionIdle, TrackerTypeOK
<1>7. OwnershipAgrees'
  <2>1. ASSUME NEW t \in Sessions
        PROVE  {k \in Tracked' : t \in blocks'[k].sessions} = {k \in Tracked : t \in blocks[k].sessions}
    BY <1>1, <1>3 DEF Tracked
  <2>2. QED
    BY <2>1 DEF OwnershipAgrees, OnSessionIdle
<1>8. ActiveBlocksNotIdle'
  <2> SUFFICES ASSUME NEW k \in Tracked', HasActiveSession(blocks'[k], active')
               PROVE  blocks'[k].idle = Never
    BY DEF ActiveBlocksNotIdle
  <2>1. k \in Keys /\ blocks[k] # NoBlock
    BY <1>2 DEF Tracked
  <2>2. HasActiveSession(blocks[k], active \ {s}) /\ HasActiveSession(blocks[k], active)
    BY <2>1, <1>1 DEF HasActiveSession, OnSessionIdle
  <2>3. blocks[k].idle = Never
    BY <2>1, <2>2 DEF ActiveBlocksNotIdle, Tracked
  <2>4. QED
    BY <2>1, <2>2, <2>3, <1>1
<1>9. QED
  BY <1>6, <1>7, <1>8

(* What record_access makes of an entry b that session s uses.             *)
UsedBy(s, A, b, n) ==
    /\ n \in BlockResidencyState
    /\ s \in A => n.idle = Never
    /\ b = NoBlock =>
         n.sessions = {s} /\ n.idle = Never /\ n.cpu = FALSE /\ n.inflight = [x \in Transfers |-> 0]
    /\ b # NoBlock =>
         /\ n.sessions = b.sessions \cup {s}
         /\ n.cpu = b.cpu /\ n.inflight = b.inflight
         /\ s \notin A => n.idle = b.idle

(* record_access changes the entries of the keys it is given, and no other. *)
LEMMA AccessedFacts ==
    ASSUME NEW B \in [Keys -> BlockResidencyState \cup {NoBlock}], now \in Times,
           NEW s \in Sessions, NEW K \in SUBSET Keys, NEW A
    PROVE  \A k \in Keys : IF k \in K THEN UsedBy(s, A, B[k], Accessed(B, s, K, A)[k])
                                      ELSE Accessed(B, s, K, A)[k] = B[k]
<1> SUFFICES ASSUME NEW k \in Keys
             PROVE  IF k \in K THEN UsedBy(s, A, B[k], Accessed(B, s, K, A)[k])
                               ELSE Accessed(B, s, K, A)[k] = B[k]
  OBVIOUS
<1> DEFINE n == Accessed(B, s, K, A)[k]
           b == GetOrCreate(B, k)
<1>1. CASE k \notin K
  BY <1>1 DEF Accessed
<1>2. CASE k \in K
  <2>1. n = [b EXCEPT !.sessions = @ \cup {s}, !.last = now, !.idle = IF s \in A THEN Never ELSE @]
    BY <1>2 DEF Accessed
  <2>2. /\ b \in BlockResidencyState
        /\ B[k] # NoBlock => b = B[k]
        /\ B[k] = NoBlock => b.cpu = FALSE /\ b.sessions = {} /\ b.inflight = [x \in Transfers |-> 0] /\ b.idle = Never
    BY GetOrCreateFacts
  <2> HIDE DEF b, n
  <2>3. /\ n \in BlockResidencyState
        /\ n.sessions = b.sessions \cup {s} /\ n.cpu = b.cpu /\ n.inflight = b.inflight
        /\ n.idle = IF s \in A THEN Never ELSE b.idle
    BY <2>1, <2>2 DEF BlockResidencyState
  <2>4. UsedBy(s, A, B[k], n)
    BY <2>2, <2>3 DEF UsedBy
  <2>5. QED
    BY <1>2, <2>4 DEF n
<1>3. QED
  BY <1>1, <1>2

(* record_access, as it changes the tracker.                               *)
Uses(s, K) ==
    /\ blocks' = Accessed(blocks, s, K, active')
    /\ sessionKeys' = [sessionKeys EXCEPT ![s] = @ \cup K]
    /\ UNCHANGED <<now, history>>

(* record_access: the session enters the key's entry and the key its set.  *)
(* The session may become active in the same call, while it has no keys.   *)
LEMMA AccessStep ==
    ASSUME TrackerInv, NEW s \in Sessions, NEW K \in SUBSET Keys, Uses(s, K),
           active' = active \/ (active' = active \cup {s} /\ sessionKeys[s] = {})
    PROVE  TrackerInv'
<1> USE DEF TrackerInv, Uses
<1> DEFINE A == active'
<1>1. /\ blocks \in [Keys -> BlockResidencyState \cup {NoBlock}] /\ now \in Times
      /\ sessionKeys \in [Sessions -> SUBSET Keys] /\ active' \in SUBSET Sessions
  BY DEF TrackerTypeOK
<1>2. \A k \in Keys :
        /\ k \notin K => blocks'[k] = blocks[k]
        /\ k \in K => blocks'[k] \in BlockResidencyState /\ blocks'[k] # NoBlock
        /\ k \in K /\ s \in A => blocks'[k].idle = Never
        /\ k \in K /\ blocks[k] = NoBlock =>
             /\ blocks'[k].sessions = {s} /\ blocks'[k].idle = Never
             /\ blocks'[k].cpu = FALSE /\ blocks'[k].inflight = [x \in Transfers |-> 0]
        /\ k \in K /\ blocks[k] # NoBlock =>
             /\ blocks'[k].sessions = blocks[k].sessions \cup {s}
             /\ blocks'[k].cpu = blocks[k].cpu /\ blocks'[k].inflight = blocks[k].inflight
             /\ s \notin A => blocks'[k].idle = blocks[k].idle
  <2>1. \A k \in Keys : IF k \in K THEN UsedBy(s, A, blocks[k], blocks'[k])
                                   ELSE blocks'[k] = blocks[k]
    BY <1>1, AccessedFacts
  <2>2. QED
    BY <2>1, BlockFields DEF UsedBy
<1>3. blocks' \in [Keys -> BlockResidencyState \cup {NoBlock}]
  <2>1. \A k \in Keys : blocks'[k] \in BlockResidencyState \cup {NoBlock}
    BY <1>1, <1>2
  <2>2. QED
    BY <2>1 DEF Accessed
<1>4. SameResidency
  BY <1>2 DEF SameResidency, history
<1>5. TrackerTypeOK' /\ NothingForgotten'
  BY <1>1, <1>3, <1>4, SessionEventFacts
<1>6. OwnershipAgrees'
  <2> SUFFICES ASSUME NEW t \in Sessions
               PROVE  sessionKeys'[t] = {k \in Tracked' : t \in blocks'[k].sessions}
    BY DEF OwnershipAgrees
  <2>1. sessionKeys[t] = {k \in Tracked : t \in blocks[k].sessions}
    BY DEF OwnershipAgrees
  <2>2. sessionKeys'[t] = IF t = s THEN sessionKeys[t] \cup K ELSE sessionKeys[t]
    BY <1>1
  <2>3. QED
    BY <1>2, <2>1, <2>2 DEF Tracked
<1>7. ActiveBlocksNotIdle'
  <2> SUFFICES ASSUME NEW k \in Tracked', HasActiveSession(blocks'[k], A)
               PROVE  blocks'[k].idle = Never
    BY DEF ActiveBlocksNotIdle
  <2>1. k \in Keys /\ blocks'[k] # NoBlock
    BY DEF Tracked
  <2>2. CASE k \in K /\ (s \in A \/ blocks[k] = NoBlock)
    BY <1>2, <2>1, <2>2
  <2>3. CASE k \in K /\ s \notin A /\ blocks[k] # NoBlock
    <3>1. HasActiveSession(blocks[k], active)
      BY <1>2, <2>1, <2>3 DEF HasActiveSession
    <3>2. QED
      BY <1>2, <2>1, <2>3, <3>1 DEF ActiveBlocksNotIdle, Tracked
  <2>4. CASE k \notin K
    <3>1. blocks'[k] = blocks[k]
      BY <1>2, <2>1, <2>4
    <3>2. s \in blocks[k].sessions => sessionKeys[s] # {}
      BY <2>1, <3>1 DEF OwnershipAgrees, Tracked
    <3>3. HasActiveSession(blocks[k], active)
      BY <3>1, <3>2 DEF HasActiveSession
    <3>4. QED
      BY <2>1, <3>1, <3>3 DEF ActiveBlocksNotIdle, Tracked
  <2>5. QED
    BY <2>2, <2>3, <2>4
<1>8. QED
  BY <1>5, <1>6, <1>7

(* record_access by a session that stays active or idle.                   *)
LEMMA RecordAccessStep ==
    ASSUME TrackerInv, NEW s \in Sessions, NEW K \in SUBSET Keys, RecordAccess(s, K)
    PROVE  TrackerInv'
<1>1. Uses(s, K) /\ active' = active
  BY DEF RecordAccess, Uses
<1>2. QED
  BY <1>1, AccessStep

(* release_session of the sessions S: they leave the blocks they share, and *)
(* only blocks without another active session become idle.                 *)
LEMMA ReleaseSessionsStep ==
    ASSUME TrackerInv, NEW S \in SUBSET Sessions, ReleaseSessions(S)
    PROVE  TrackerInv'
<1> USE DEF TrackerInv
<1>1. ASSUME NEW k \in Keys, blocks[k] # NoBlock
      PROVE  /\ blocks'[k] \in BlockResidencyState
             /\ blocks'[k].cpu = blocks[k].cpu /\ blocks'[k].inflight = blocks[k].inflight
             /\ blocks'[k].sessions = blocks[k].sessions \ S
             /\ HasActiveSession(blocks[k], active \ S) => blocks'[k].idle = blocks[k].idle
  <2>1. blocks[k] \in BlockResidencyState /\ now \in Times
    BY <1>1, EntryType DEF TrackerTypeOK
  <2>2. CASE k \notin KeysOf(S)
    <3>1. blocks'[k] = blocks[k]
      BY <1>1, <2>2 DEF ReleaseSessions, Released, Tracked
    <3>2. \A s \in S : k \notin sessionKeys[s]
      BY <2>2 DEF KeysOf
    <3>3. \A s \in S : s \notin blocks[k].sessions
      BY <1>1, <3>2 DEF OwnershipAgrees, Tracked
    <3>4. QED
      BY <2>1, <3>1, <3>3
  <2>3. CASE k \in KeysOf(S)
    <3> DEFINE b == [blocks[k] EXCEPT !.sessions = @ \ S]
    <3>1. blocks'[k] = IF HasActiveSession(b, active \ S) \/ b.idle # Never THEN b
                       ELSE [b EXCEPT !.idle = now]
      BY <1>1, <2>3 DEF ReleaseSessions, Released, Tracked
    <3>2. /\ b \in BlockResidencyState
          /\ b.cpu = blocks[k].cpu /\ b.inflight = blocks[k].inflight /\ b.idle = blocks[k].idle
          /\ b.sessions = blocks[k].sessions \ S
      BY <2>1 DEF BlockResidencyState
    <3> HIDE DEF b
    <3>3. HasActiveSession(blocks[k], active \ S) <=> HasActiveSession(b, active \ S)
      BY <3>2 DEF HasActiveSession
    <3>4. QED
      BY <2>1, <3>1, <3>2, <3>3 DEF BlockResidencyState
  <2>4. QED
    BY <2>2, <2>3
<1>2. ASSUME NEW k \in Keys, blocks[k] = NoBlock
      PROVE  blocks'[k] = NoBlock
  BY <1>2 DEF ReleaseSessions, Released, Tracked
<1>3. \A k \in Keys : (blocks'[k] = NoBlock) <=> (blocks[k] = NoBlock)
  BY <1>1, <1>2, BlockFields
<1>4. blocks' \in [Keys -> BlockResidencyState \cup {NoBlock}]
  <2>1. \A k \in Keys : blocks'[k] \in BlockResidencyState \cup {NoBlock}
    BY <1>1, <1>2
  <2>2. QED
    BY <2>1 DEF ReleaseSessions, Released
<1>5. SameResidency
  BY <1>1, <1>2, <1>3 DEF SameResidency, ReleaseSessions, history
<1>6. TrackerTypeOK' /\ NothingForgotten'
  BY <1>4, <1>5, SessionEventFacts DEF ReleaseSessions, TrackerTypeOK
<1>7. OwnershipAgrees'
  <2> SUFFICES ASSUME NEW t \in Sessions
               PROVE  sessionKeys'[t] = {k \in Tracked' : t \in blocks'[k].sessions}
    BY DEF OwnershipAgrees
  <2>1. sessionKeys[t] = {k \in Tracked : t \in blocks[k].sessions}
    BY DEF OwnershipAgrees
  <2>2. sessionKeys'[t] = IF t \in S THEN {} ELSE sessionKeys[t]
    BY DEF ReleaseSessions
  <2>3. QED
    BY <1>1, <1>3, <2>1, <2>2 DEF Tracked
<1>8. ActiveBlocksNotIdle'
  <2> SUFFICES ASSUME NEW k \in Tracked', HasActiveSession(blocks'[k], active')
               PROVE  blocks'[k].idle = Never
    BY DEF ActiveBlocksNotIdle
  <2>1. k \in Keys /\ blocks[k] # NoBlock
    BY <1>2 DEF Tracked
  <2>2. HasActiveSession(blocks[k], active \ S) /\ HasActiveSession(blocks[k], active)
    BY <2>1, <1>1 DEF HasActiveSession, ReleaseSessions
  <2>3. blocks[k].idle = Never
    BY <2>1, <2>2 DEF ActiveBlocksNotIdle, Tracked
  <2>4. QED
    BY <2>1, <2>2, <2>3, <1>1
<1>9. QED
  BY <1>6, <1>7, <1>8

-----------------------------------------------------------------------------
(* The tiers' events.                                                      *)

(* The entries that an event of a tier looks up or makes.                  *)
LEMMA EntryFacts ==
    ASSUME TrackerInv, NEW k \in Keys
    PROVE  /\ Entry(k) \in BlockResidencyState
           /\ blocks[k] # NoBlock => Entry(k) = blocks[k]
           /\ blocks[k] = NoBlock => Entry(k).sessions = {}
           /\ Entry(k).cpu <=> k \in onCpu
           /\ Entry(k).inflight = moving[k]
<1>1. /\ blocks \in [Keys -> BlockResidencyState \cup {NoBlock}] /\ now \in Times
      /\ moving[k] \in [Transfers -> 0 .. MaxInflight]
  BY DEF TrackerInv, TrackerTypeOK
<1>2. CASE blocks[k] # NoBlock
  BY <1>1, <1>2, GetOrCreateFacts DEF Entry, TrackerInv, NothingForgotten
<1>3. CASE blocks[k] = NoBlock
  <2>1. moving[k] = [x \in Transfers |-> 0] /\ k \notin onCpu
    BY <1>1, <1>3 DEF TrackerInv, NothingForgotten
  <2>2. QED
    BY <1>1, <1>3, <2>1, GetOrCreateFacts DEF Entry
<1>4. QED
  BY <1>2, <1>3

(* An event that puts well-formed entries for the keys K in, with the      *)
(* sessions and idle times of the old ones, respects ownership.            *)
LEMMA UpdatedFacts ==
    ASSUME TrackerInv, NEW K \in SUBSET Keys, NEW new, DOMAIN new = K,
           blocks' = Updated(new), sessionKeys' = sessionKeys, active' = active, now' = now,
           \A k \in K : /\ new[k] \in BlockResidencyState
                        /\ new[k].sessions = Entry(k).sessions /\ new[k].idle = Entry(k).idle
    PROVE  /\ blocks' \in [Keys -> BlockResidencyState \cup {NoBlock}]
           /\ \A k \in Keys : blocks'[k] = IF k \in K THEN new[k] ELSE blocks[k]
           /\ \A k \in K : blocks'[k] # NoBlock
           /\ OwnershipAgrees' /\ ActiveBlocksNotIdle'
<1>1. \A k \in Keys : blocks'[k] = IF k \in K THEN new[k] ELSE blocks[k]
  BY DEF Updated
<1>2. \A k \in Keys : blocks'[k] \in BlockResidencyState \cup {NoBlock}
  BY <1>1 DEF TrackerInv, TrackerTypeOK
<1>3. blocks' \in [Keys -> BlockResidencyState \cup {NoBlock}]
  BY <1>2 DEF Updated
<1>4. \A k \in K : blocks'[k] # NoBlock
  BY <1>1, BlockFields
<1>5. SameOwnership
  BY <1>1, <1>4, EntryFacts DEF SameOwnership
<1>6. QED
  BY <1>1, <1>3, <1>4, <1>5, OwnershipKept DEF TrackerInv

(* mark_cpu_resident                                                       *)
LEMMA MarkCpuResidentStep ==
    ASSUME TrackerInv, NEW K \in SUBSET Keys, NEW resident \in BOOLEAN, MarkCpuResident(K, resident)
    PROVE  TrackerInv'
<1> DEFINE new == [k \in K |-> [Entry(k) EXCEPT !.cpu = resident]]
<1>1. \A k \in K : /\ new[k] \in BlockResidencyState /\ new[k].cpu = resident
                   /\ new[k].sessions = Entry(k).sessions /\ new[k].idle = Entry(k).idle
                   /\ new[k].inflight = moving[k]
  BY EntryFacts DEF BlockResidencyState
<1>2. DOMAIN new = K /\ blocks' = Updated(new)
  BY DEF MarkCpuResident
<1> HIDE DEF new
<1>3. /\ blocks' \in [Keys -> BlockResidencyState \cup {NoBlock}]
      /\ \A k \in Keys : blocks'[k] = IF k \in K THEN new[k] ELSE blocks[k]
      /\ \A k \in K : blocks'[k] # NoBlock
      /\ OwnershipAgrees' /\ ActiveBlocksNotIdle'
  BY <1>1, <1>2, UpdatedFacts DEF MarkCpuResident
<1>4. TrackerTypeOK'
  BY <1>3 DEF TrackerInv, TrackerTypeOK, MarkCpuResident
<1>5. NothingForgotten'
  BY <1>1, <1>3 DEF TrackerInv, NothingForgotten, MarkCpuResident
<1>6. QED
  BY <1>3, <1>4, <1>5 DEF TrackerInv

(* mark_secondary_resident                                                 *)
LEMMA MarkSecondaryResidentStep ==
    ASSUME TrackerInv, NEW K \in SUBSET Keys, NEW t \in Tiers, NEW resident \in BOOLEAN,
           MarkSecondaryResident(K, t, resident)
    PROVE  TrackerInv'
<1> DEFINE new == [k \in K |-> [Entry(k) EXCEPT !.tiers = IF resident THEN @ \cup {t} ELSE @ \ {t}]]
<1>1. \A k \in K : /\ new[k] \in BlockResidencyState /\ new[k].cpu = Entry(k).cpu
                   /\ new[k].sessions = Entry(k).sessions /\ new[k].idle = Entry(k).idle
                   /\ new[k].inflight = moving[k]
  BY EntryFacts DEF BlockResidencyState
<1>2. DOMAIN new = K /\ blocks' = Updated(new)
  BY DEF MarkSecondaryResident
<1> HIDE DEF new
<1>3. /\ blocks' \in [Keys -> BlockResidencyState \cup {NoBlock}]
      /\ \A k \in Keys : blocks'[k] = IF k \in K THEN new[k] ELSE blocks[k]
      /\ \A k \in K : blocks'[k] # NoBlock
      /\ OwnershipAgrees' /\ ActiveBlocksNotIdle'
  BY <1>1, <1>2, UpdatedFacts DEF MarkSecondaryResident
<1>4. TrackerTypeOK'
  BY <1>3 DEF TrackerInv, TrackerTypeOK, MarkSecondaryResident, history
<1>5. NothingForgotten'
  BY <1>1, <1>3, EntryFacts DEF TrackerInv, NothingForgotten, MarkSecondaryResident, history
<1>6. QED
  BY <1>3, <1>4, <1>5 DEF TrackerInv

(* start_transfer: the count stays in its bound because it is the number   *)
(* of transfers really under way.                                          *)
LEMMA StartTransferStep ==
    ASSUME TrackerInv, NEW K \in SUBSET Keys, NEW x \in Transfers, StartTransfer(K, x)
    PROVE  TrackerInv'
<1> DEFINE new == [k \in K |-> [Entry(k) EXCEPT !.inflight[x] = @ + 1]]
           more(k) == [moving[k] EXCEPT ![x] = @ + 1]
<1>1. \A k \in K : more(k) \in [Transfers -> 0 .. MaxInflight]
  BY ResidencyAssumption DEF TrackerInv, TrackerTypeOK, StartTransfer
<1>2. \A k \in K : /\ new[k] \in BlockResidencyState /\ new[k].cpu = Entry(k).cpu
                   /\ new[k].sessions = Entry(k).sessions /\ new[k].idle = Entry(k).idle
                   /\ new[k].inflight = more(k)
  <2> SUFFICES ASSUME NEW k \in K
               PROVE  /\ new[k] \in BlockResidencyState /\ new[k].cpu = Entry(k).cpu
                      /\ new[k].sessions = Entry(k).sessions /\ new[k].idle = Entry(k).idle
                      /\ new[k].inflight = more(k)
    OBVIOUS
  <2>1. new[k] = [Entry(k) EXCEPT !.inflight = more(k)]
    BY EntryFacts DEF BlockResidencyState
  <2> HIDE DEF new, more
  <2>2. QED
    BY <1>1, <2>1, EntryFacts DEF BlockResidencyState
<1>3. DOMAIN new = K /\ blocks' = Updated(new)
  BY DEF StartTransfer
<1>4. \A k \in Keys : moving'[k] = IF k \in K THEN more(k) ELSE moving[k]
  BY DEF StartTransfer
<1>5. moving' \in [Keys -> [Transfers -> 0 .. MaxInflight]]
  <2> HIDE DEF more
  <2>1. \A k \in Keys : moving'[k] \in [Transfers -> 0 .. MaxInflight]
    BY <1>1, <1>4 DEF TrackerInv, TrackerTypeOK
  <2>2. QED
    BY <2>1 DEF StartTransfer
<1> HIDE DEF new, more
<1>6. /\ blocks' \in [Keys -> BlockResidencyState \cup {NoBlock}]
      /\ \A k \in Keys : blocks'[k] = IF k \in K THEN new[k] ELSE blocks[k]
      /\ \A k \in K : blocks'[k] # NoBlock
      /\ OwnershipAgrees' /\ ActiveBlocksNotIdle'
  BY <1>2, <1>3, UpdatedFacts DEF StartTransfer
<1>7. TrackerTypeOK'
  BY <1>5, <1>6 DEF TrackerInv, TrackerTypeOK, StartTransfer
<1>8. NothingForgotten'
  BY <1>2, <1>4, <1>6, EntryFacts DEF TrackerInv, NothingForgotten, StartTransfer
<1>9. QED
  BY <1>6, <1>7, <1>8 DEF TrackerInv

(* finish_transfer: a block with a transfer under way has an entry, so that *)
(* ignoring a missing one loses nothing.                                   *)
LEMMA FinishTransferStep ==
    ASSUME TrackerInv, NEW K \in SUBSET Keys, NEW x \in Transfers, FinishTransfer(K, x)
    PROVE  TrackerInv'
<1> DEFINE less(k) == [moving[k] EXCEPT ![x] = @ - 1]
<1>1. \A k \in K : /\ moving[k] \in [Transfers -> 0 .. MaxInflight] /\ moving[k][x] > 0
                   /\ less(k) \in [Transfers -> 0 .. MaxInflight]
  BY ResidencyAssumption DEF TrackerInv, TrackerTypeOK, FinishTransfer
<1>2. \A k \in K : blocks[k] # NoBlock /\ blocks[k] \in BlockResidencyState
                   /\ blocks[k].inflight = moving[k]
  BY <1>1, EntryType DEF TrackerInv, NothingForgotten
<1>3. \A k \in K : blocks'[k] = [blocks[k] EXCEPT !.inflight = less(k)]
  <2> SUFFICES ASSUME NEW k \in K
               PROVE  blocks'[k] = [blocks[k] EXCEPT !.inflight = less(k)]
    OBVIOUS
  <2>1. blocks'[k] = [blocks[k] EXCEPT !.inflight[x] = IF @ <= 1 THEN 0 ELSE @ - 1]
    BY <1>2 DEF FinishTransfer, Tracked
  <2>2. (IF blocks[k].inflight[x] <= 1 THEN 0 ELSE blocks[k].inflight[x] - 1) = moving[k][x] - 1
    BY <1>1, <1>2, ResidencyAssumption
  <2>3. QED
    BY <1>1, <1>2, <2>1, <2>2 DEF BlockResidencyState
<1>4. \A k \in Keys : k \notin K => blocks'[k] = blocks[k] /\ moving'[k] = moving[k]
  BY DEF FinishTransfer, Tracked
<1>5. \A k \in K : moving'[k] = less(k)
  BY DEF FinishTransfer
<1> HIDE DEF less
<1>6. \A k \in K : /\ blocks'[k] \in BlockResidencyState /\ blocks'[k] # NoBlock
                   /\ blocks'[k].cpu = blocks[k].cpu /\ blocks'[k].inflight = less(k)
                   /\ blocks'[k].sessions = blocks[k].sessions /\ blocks'[k].idle = blocks[k].idle
  <2> SUFFICES ASSUME NEW k \in K
               PROVE  /\ blocks'[k] \in BlockResidencyState
                      /\ blocks'[k].cpu = blocks[k].cpu /\ blocks'[k].inflight = less(k)
                      /\ blocks'[k].sessions = blocks[k].sessions /\ blocks'[k].idle = blocks[k].idle
    BY BlockFields
  <2> DEFINE b == blocks[k]
  <2>1. b \in BlockResidencyState /\ less(k) \in [Transfers -> 0 .. MaxInflight]
    BY <1>1, <1>2
  <2>2. blocks'[k] = [b EXCEPT !.inflight = less(k)]
    BY <1>3
  <2> HIDE DEF b
  <2>3. QED
    BY <2>1, <2>2 DEF BlockResidencyState, b
<1>7. TrackerTypeOK'
  <2>1. \A k \in Keys : /\ blocks'[k] \in BlockResidencyState \cup {NoBlock}
                        /\ moving'[k] \in [Transfers -> 0 .. MaxInflight]
    BY <1>1, <1>4, <1>5, <1>6 DEF TrackerInv, TrackerTypeOK
  <2>2. /\ blocks' \in [Keys -> BlockResidencyState \cup {NoBlock}]
        /\ moving' \in [Keys -> [Transfers -> 0 .. MaxInflight]]
    BY <2>1 DEF FinishTransfer
  <2>3. QED
    BY <2>2 DEF TrackerInv, TrackerTypeOK, FinishTransfer
<1>8. SameOwnership
  BY <1>2, <1>4, <1>6 DEF SameOwnership, FinishTransfer
<1>9. NothingForgotten'
  <2> SUFFICES ASSUME NEW k \in Keys
               PROVE  IF blocks'[k] = NoBlock
                      THEN k \notin onCpu /\ \A y \in Transfers : moving'[k][y] = 0
                      ELSE (blocks'[k].cpu <=> k \in onCpu) /\ blocks'[k].inflight = moving'[k]
    BY DEF NothingForgotten, FinishTransfer
  <2>1. CASE k \in K
    BY <2>1, <1>2, <1>5, <1>6 DEF TrackerInv, NothingForgotten
  <2>2. CASE k \notin K
    BY <2>2, <1>4 DEF TrackerInv, NothingForgotten
  <2>3. QED
    BY <2>1, <2>2
<1>10. QED
  BY <1>7, <1>8, <1>9, OwnershipKept DEF TrackerInv

(* clear_cpu_residency                                                     *)
LEMMA ClearCpuResidencyStep ==
    ASSUME TrackerInv, ClearCpuResidency
    PROVE  TrackerInv'
<1>1. ASSUME NEW k \in Keys, blocks[k] # NoBlock
      PROVE  /\ blocks'[k] \in BlockResidencyState /\ blocks'[k] # NoBlock
             /\ blocks'[k].cpu = FALSE /\ blocks'[k].inflight = blocks[k].inflight
             /\ blocks'[k].sessions = blocks[k].sessions /\ blocks'[k].idle = blocks[k].idle
  <2>1. blocks[k] \in BlockResidencyState
    BY <1>1, EntryType DEF TrackerInv
  <2>2. blocks'[k] = [blocks[k] EXCEPT !.cpu = FALSE]
    BY <1>1 DEF ClearCpuResidency, Tracked
  <2>3. blocks'[k] \in BlockResidencyState
    BY <2>1, <2>2, BlockUpdates
  <2>4. QED
    BY <2>1, <2>2, <2>3, BlockFields DEF BlockResidencyState
<1>2. \A k \in Keys : blocks[k] = NoBlock => blocks'[k] = NoBlock
  BY DEF ClearCpuResidency, Tracked
<1>3. TrackerTypeOK'
  <2>1. \A k \in Keys : blocks'[k] \in BlockResidencyState \cup {NoBlock}
    BY <1>1, <1>2
  <2>2. blocks' \in [Keys -> BlockResidencyState \cup {NoBlock}]
    BY <2>1 DEF ClearCpuResidency
  <2>3. QED
    BY <2>2 DEF TrackerInv, TrackerTypeOK, ClearCpuResidency
<1>4. SameOwnership
  BY <1>1, <1>2 DEF SameOwnership, ClearCpuResidency
<1>5. NothingForgotten'
  BY <1>1, <1>2 DEF TrackerInv, NothingForgotten, ClearCpuResidency
<1>6. QED
  BY <1>3, <1>4, <1>5, OwnershipKept DEF TrackerInv

(* prune: the entries it drops belong to no session, are not in CPU memory *)
(* and move nowhere, however many it takes.                                *)
LEMMA PruneStep ==
    ASSUME TrackerInv, Prune
    PROVE  TrackerInv'
<1>1. PICK S \in SUBSET Prunable : blocks' = [k \in Keys |-> IF k \in S THEN NoBlock ELSE blocks[k]]
  BY DEF Prune, Lowest
<1>2. \A k \in S : /\ blocks[k] # NoBlock /\ blocks[k].sessions = {} /\ ~blocks[k].cpu
                   /\ \A x \in Transfers : ~(blocks[k].inflight[x] > 0)
  BY DEF Prunable, Tracked, HasInflightTransfer
<1>3. \A k \in Keys : blocks'[k] = IF k \in S THEN NoBlock ELSE blocks[k]
  BY <1>1
<1>4. TrackerTypeOK'
  BY <1>1 DEF TrackerInv, TrackerTypeOK, Prune, history
<1>5. SameOwnership
  BY <1>2, <1>3 DEF SameOwnership, Prune
<1>6. NothingForgotten'
  <2> SUFFICES ASSUME NEW k \in Keys
               PROVE  IF blocks'[k] = NoBlock
                      THEN k \notin onCpu /\ \A x \in Transfers : moving[k][x] = 0
                      ELSE (blocks'[k].cpu <=> k \in onCpu) /\ blocks'[k].inflight = moving[k]
    BY DEF NothingForgotten, Prune, history
  <2>1. CASE k \in S
    <3>1. moving[k] \in [Transfers -> 0 .. MaxInflight]
      BY DEF TrackerInv, TrackerTypeOK
    <3>2. k \notin onCpu /\ blocks[k].inflight = moving[k]
      BY <1>2, <2>1 DEF TrackerInv, NothingForgotten
    <3>3. \A x \in Transfers : moving[k][x] = 0
      BY <1>2, <2>1, <3>1, <3>2, ResidencyAssumption
    <3>4. QED
      BY <1>3, <2>1, <3>2, <3>3
  <2>2. CASE k \notin S
    BY <1>3, <2>2 DEF TrackerInv, NothingForgotten
  <2>3. QED
    BY <2>1, <2>2
<1>7. QED
  BY <1>4, <1>5, <1>6, OwnershipKept DEF TrackerInv

(* The clock.                                                              *)
LEMMA TickStep ==
    ASSUME TrackerInv, Tick
    PROVE  TrackerInv'
<1>1. TrackerTypeOK'
  BY ResidencyAssumption DEF TrackerInv, TrackerTypeOK, Tick, tracker, history, Times
<1>2. QED
  BY <1>1 DEF TrackerInv, Tick, tracker, history, OwnershipAgrees, ActiveBlocksNotIdle,
     NothingForgotten, Tracked, HasActiveSession

-----------------------------------------------------------------------------
(* What the tracker starts with.                                           *)
LEMMA TrackerInitInv ==
    ASSUME TrackerInit
    PROVE  TrackerInv
<1>1. TrackerTypeOK
  BY ResidencyAssumption DEF TrackerInit, TrackerTypeOK, Times
<1>2. OwnershipAgrees /\ ActiveBlocksNotIdle /\ NothingForgotten
  BY DEF TrackerInit, OwnershipAgrees, ActiveBlocksNotIdle, NothingForgotten, Tracked
<1>3. QED
  BY <1>1, <1>2 DEF TrackerInv

(* Every event of a tier preserves the invariant, whoever manages sessions. *)
LEMMA TierEventStep ==
    ASSUME TrackerInv, TierEvent
    PROVE  TrackerInv'
<1>1. ASSUME NEW K \in SUBSET Keys, NEW resident \in BOOLEAN, MarkCpuResident(K, resident)
      PROVE  TrackerInv'
  BY <1>1, MarkCpuResidentStep
<1>2. ASSUME NEW K \in SUBSET Keys, NEW resident \in BOOLEAN, NEW t \in Tiers,
             MarkSecondaryResident(K, t, resident)
      PROVE  TrackerInv'
  BY <1>2, MarkSecondaryResidentStep
<1>3. ASSUME NEW K \in SUBSET Keys, NEW x \in Transfers, StartTransfer(K, x)
      PROVE  TrackerInv'
  BY <1>3, StartTransferStep
<1>4. ASSUME NEW K \in SUBSET Keys, NEW x \in Transfers, FinishTransfer(K, x)
      PROVE  TrackerInv'
  BY <1>4, FinishTransferStep
<1>5. QED
  BY <1>1, <1>2, <1>3, <1>4, ClearCpuResidencyStep, PruneStep, TickStep DEF TierEvent

(* The tracker's whole invariant holds in every behaviour.                 *)
THEOREM TrackerInvariant == TrackerSpec => []TrackerInv
<1>1. TrackerInit => TrackerInv
  BY TrackerInitInv
<1>2. TrackerInv /\ [TrackerNext]_trackerVars => TrackerInv'
  <2> SUFFICES ASSUME TrackerInv, [TrackerNext]_trackerVars
               PROVE  TrackerInv'
    OBVIOUS
  <2>1. CASE TierEvent
    BY <2>1, TierEventStep
  <2>2. ASSUME NEW s \in Sessions, OnSessionActive(s)
        PROVE  TrackerInv'
    BY <2>2, OnSessionActiveStep
  <2>3. ASSUME NEW s \in Sessions, OnSessionIdle(s)
        PROVE  TrackerInv'
    BY <2>3, OnSessionIdleStep
  <2>4. ASSUME NEW s \in Sessions, NEW K \in SUBSET Keys, RecordAccess(s, K)
        PROVE  TrackerInv'
    BY <2>4, RecordAccessStep
  <2>5. ASSUME NEW s \in Sessions, ReleaseSessions({s})
        PROVE  TrackerInv'
    BY <2>5, ReleaseSessionsStep
  <2>6. CASE UNCHANGED trackerVars
    BY <2>6 DEF trackerVars, tracker, history, TrackerInv, TrackerTypeOK, OwnershipAgrees,
       ActiveBlocksNotIdle, NothingForgotten, Tracked, HasActiveSession
  <2>7. QED
    BY <2>1, <2>2, <2>3, <2>4, <2>5, <2>6 DEF TrackerNext, SessionEvent
<1>3. QED
  BY <1>1, <1>2, PTL DEF TrackerSpec

(* Types of the tracker's state: no count leaves its bound.                *)
THEOREM TrackerTypeCorrect == TrackerSpec => []TrackerTypeOK
<1>1. TrackerInv => TrackerTypeOK
  BY DEF TrackerInv
<1>2. QED
  BY <1>1, TrackerInvariant, PTL

(* The sessions' key sets and the blocks' session sets, which record_access, *)
(* release_session and prune update separately, name the same pairs.       *)
THEOREM TrackerOwnership == TrackerSpec => []OwnershipAgrees
<1>1. TrackerInv => OwnershipAgrees
  BY DEF TrackerInv
<1>2. QED
  BY <1>1, TrackerInvariant, PTL

(* No block that an active session uses has an idle time, in whatever      *)
(* order its sessions become active and idle and are released.             *)
THEOREM TrackerActiveBlocks == TrackerSpec => []ActiveBlocksNotIdle
<1>1. TrackerInv => ActiveBlocksNotIdle
  BY DEF TrackerInv
<1>2. QED
  BY <1>1, TrackerInvariant, PTL

(* prune and finish_transfer lose no transfer under way and no block in    *)
(* CPU memory.                                                             *)
THEOREM TrackerForgetsNothing == TrackerSpec => []NothingForgotten
<1>1. TrackerInv => NothingForgotten
  BY DEF TrackerInv
<1>2. QED
  BY <1>1, TrackerInvariant, PTL

(* A block is used by an active session exactly if the session lists it,   *)
(* and then it has no idle time.                                           *)
LEMMA UsedBlocks ==
    ASSUME TrackerInv, NEW k \in Keys
    PROVE  /\ k \in KeysOf(active) <=> k \in Tracked /\ HasActiveSession(blocks[k], active)
           /\ k \in KeysOf(active) => blocks[k].idle = Never
<1>1. active \subseteq Sessions
  BY DEF TrackerInv, TrackerTypeOK
<1>2. \A s \in active : k \in sessionKeys[s] <=> k \in Tracked /\ s \in blocks[k].sessions
  BY <1>1 DEF TrackerInv, OwnershipAgrees
<1>3. k \in KeysOf(active) <=> \E s \in active : k \in sessionKeys[s]
  BY DEF KeysOf
<1>4. k \in KeysOf(active) <=> k \in Tracked /\ HasActiveSession(blocks[k], active)
  BY <1>2, <1>3 DEF HasActiveSession
<1>5. QED
  BY <1>4 DEF TrackerInv, ActiveBlocksNotIdle

(* A block in CPU memory that no transfer holds is a candidate under CPU   *)
(* pressure: the tracker has forgotten neither it nor its transfers' ends. *)
LEMMA MovableBlocks ==
    ASSUME TrackerInv, NEW k \in onCpu, \A x \in Transfers : moving[k][x] = 0
    PROVE  k \in CpuPressureCandidates(Never, TRUE)
<1>1. k \in Keys
  BY DEF TrackerInv, TrackerTypeOK
<1>2. blocks[k] # NoBlock /\ blocks[k].cpu /\ blocks[k].inflight = moving[k]
  BY <1>1 DEF TrackerInv, NothingForgotten
<1>3. ~HasInflightTransfer(blocks[k])
  BY <1>2 DEF HasInflightTransfer
<1>4. QED
  BY <1>1, <1>2, <1>3 DEF CpuPressureCandidates, Tracked, OldEnough

(* The inductive invariant makes the active sessions' blocks a last resort *)
(* of every query.                                                         *)
LEMMA ActiveLastResort ==
    ASSUME TrackerInv
    PROVE  LastResort(KeysOf(active))
<1> DEFINE used == KeysOf(active)
           movable == {k \in onCpu \ used : \A x \in Transfers : moving[k][x] = 0}
           C == CpuPressureCandidates(Never, TRUE)
           rank == [k \in C |-> PressureRank(blocks[k])]
<1>1. used \subseteq Keys
  BY DEF TrackerInv, TrackerTypeOK, KeysOf
<1>2. \A before \in Times \cup {Never} : used \cap IdleCpuCandidates(before) = {}
  BY <1>1, UsedBlocks DEF IdleCpuCandidates
<1>3. \A before \in Times \cup {Never} : used \cap CpuPressureCandidates(before, FALSE) = {}
  BY <1>1, UsedBlocks DEF CpuPressureCandidates
<1>4. \A before \in Times : used \cap CpuPressureCandidates(before, TRUE) = {}
  BY <1>1, UsedBlocks, ResidencyAssumption DEF CpuPressureCandidates, OldEnough
<1>5. \A limit \in 0 .. Cardinality(Keys) :
        \A S \in GetCpuPressureCandidates(limit, Never, TRUE) : used \cap S # {} => movable \subseteq S
  <2> SUFFICES ASSUME NEW limit, NEW S \in GetCpuPressureCandidates(limit, Never, TRUE),
                      NEW a \in used \cap S, NEW b \in movable, b \notin S
               PROVE  FALSE
    OBVIOUS
  <2>1. S \in SUBSET C /\ \A x \in S, y \in C \ S : rank[x] <= rank[y]
    BY DEF GetCpuPressureCandidates, Lowest
  <2>2. b \in C \ S
    BY MovableBlocks
  <2>3. a \in C /\ rank[a] <= rank[b]
    BY <2>1, <2>2
  <2>4. HasActiveSession(blocks[a], active)
    BY <1>1, UsedBlocks
  <2>5. b \in Tracked /\ ~HasActiveSession(blocks[b], active)
    BY <2>2, UsedBlocks DEF CpuPressureCandidates, Tracked
  <2>6. rank[a] >= 2 /\ rank[b] <= 1
    BY <2>2, <2>3, <2>4, <2>5 DEF PressureRank
  <2>7. rank[a] \in Int /\ rank[b] \in Int
    BY <2>2, <2>3 DEF PressureRank
  <2> HIDE DEF rank
  <2>8. QED
    BY <2>3, <2>6, <2>7
<1>6. QED
  BY <1>2, <1>3, <1>4, <1>5 DEF LastResort

(* A block of an active session is offered under CPU pressure only with    *)
(* every block that could go instead, and never for its age.               *)
THEOREM TrackerLastResort == TrackerSpec => []ActiveBlocksLastResort
<1>1. TrackerInv => ActiveBlocksLastResort
  BY ActiveLastResort DEF ActiveBlocksLastResort
<1>2. QED
  BY <1>1, TrackerInvariant, PTL

-----------------------------------------------------------------------------
(* The lifecycle manager.                                                  *)

(* The inductive invariant.  SessionsMatchTracker lets a deleted session    *)
(* leave nothing behind in the tracker, NoOrphanMapping lets a call find    *)
(* the session of its request, and DeadlineGate needs only the types.       *)
LifecycleInv ==
    /\ TrackerInv
    /\ LifecycleTypeOK
    /\ SessionsMatchTracker
    /\ NoOrphanMapping
    /\ DeadlineGate
    /\ ReclaimedKeysUnused

-----------------------------------------------------------------------------
(* Facts about session states and deadlines.                               *)

(* The fields of a session state, and NoSession is none.                   *)
LEMMA SessionFields ==
    ASSUME NEW st \in SessionKVState
    PROVE  /\ st # NoSession /\ st.status \in {"active", "idle_retained"}
           /\ st.running \in SUBSET Reqs /\ st.retained \in SUBSET Reqs /\ st.keys \in SUBSET Keys
           /\ st.last \in Times /\ st.deadline \in Deadlines \cup {Never}
BY LifecycleAssumption DEF SessionKVState

(* Times are deadlines, and deadlines are natural numbers.                 *)
LEMMA DeadlineFacts ==
    /\ Times \subseteq Deadlines /\ Deadlines \subseteq Nat /\ Never \notin Deadlines
    /\ \A t \in Times : t + Ttl \in Deadlines
BY ResidencyAssumption, LifecycleAssumption DEF Times, Deadlines

(* A set of natural numbers has a least element.                           *)
LEMMA MinFacts ==
    ASSUME NEW S \in SUBSET Nat, S # {}
    PROVE  Min(S) \in S /\ \A y \in S : Min(S) <= y
<1>1. PICK x \in S : \A y \in S : ~ (<<y, x>> \in OpToRel(<, Nat))
  BY NatLessThanWellFounded, WFMin
<1>2. \A y \in S : ~(y < x)
  BY <1>1 DEF OpToRel
<1>3. \A y \in S : x <= y
  BY <1>2
<1>4. QED
  BY <1>3 DEF Min

(* _refresh_next_expiration finds a deadline no later than any.            *)
LEMMA NextDeadlineFacts ==
    ASSUME NEW S \in [Sessions -> SessionKVState \cup {NoSession}]
    PROVE  /\ NextDeadline(S) \in Deadlines \cup {Never}
           /\ \A s \in Sessions :
                S[s] # NoSession /\ S[s].status = "idle_retained" /\ S[s].deadline # Never =>
                  NextDeadline(S) # Never /\ NextDeadline(S) <= S[s].deadline
<1> DEFINE due == {S[s].deadline : s \in {t \in Sessions : S[t] # NoSession /\ S[t].status = "idle_retained"}}
                     \ {Never}
<1>1. due \subseteq Deadlines
  BY SessionFields
<1>2. due \in SUBSET Nat
  BY <1>1, DeadlineFacts
<1>3. NextDeadline(S) = IF due = {} THEN Never ELSE Min(due)
  BY DEF NextDeadline
<1>4. \A s \in Sessions :
        S[s] # NoSession /\ S[s].status = "idle_retained" /\ S[s].deadline # Never => S[s].deadline \in due
  OBVIOUS
<1> HIDE DEF due
<1>5. due # {} => Min(due) \in due /\ \A y \in due : Min(due) <= y
  BY <1>2, MinFacts
<1>6. QED
  BY <1>1, <1>3, <1>4, <1>5, DeadlineFacts

(* The session that a request's later calls find is the one of its name,   *)
(* when it is missing or the request is not mapped.                        *)
LEMMA GetByReqFacts ==
    ASSUME LifecycleInv, NEW r \in Reqs
    PROVE  /\ GetByReq(r) \in Sessions /\ SessionOf[r] \in Sessions
           /\ sess[GetByReq(r)] = NoSession => reqSession[r] = NoSession /\ GetByReq(r) = SessionOf[r]
BY LifecycleAssumption DEF GetByReq, LifecycleInv, LifecycleTypeOK, NoOrphanMapping, Live

(* A call that returns no keys.                                            *)
LEMMA NothingReclaimed ==
    ASSUME reclaimed' = Nothing
    PROVE  ReclaimedKeysUnused' /\ reclaimed' \in [keys : SUBSET Keys, kept : SUBSET Keys]
BY DEF Nothing, ReclaimedKeysUnused

-----------------------------------------------------------------------------
(* What one session must satisfy: SessionsMatchTracker of s.               *)
Match(st, K, isActive) ==
    /\ K = IF st # NoSession THEN st.keys ELSE {}
    /\ isActive <=> (st # NoSession /\ st.running # {})
    /\ st # NoSession => (st.status = "idle_retained" <=> st.running = {})

(* SessionsMatchTracker, session by session.                               *)
LEMMA MatchFacts ==
    SessionsMatchTracker <=> \A s \in Sessions : Match(sess[s], sessionKeys[s], s \in active)
BY DEF SessionsMatchTracker, Match, Live, Idle

(* A call that replaces the state of session s keeps the manager and the   *)
(* tracker in agreement, if it does for s.                                 *)
LEMMA MatchKept ==
    ASSUME LifecycleInv, NEW s \in Sessions, NEW v, sess' = [sess EXCEPT ![s] = v],
           Match(v, sessionKeys'[s], s \in active'),
           \A t \in Sessions \ {s} : sessionKeys'[t] = sessionKeys[t] /\ (t \in active' <=> t \in active)
    PROVE  SessionsMatchTracker'
<1>1. \A t \in Sessions : sess'[t] = IF t = s THEN v ELSE sess[t]
  BY DEF LifecycleInv, LifecycleTypeOK
<1>2. \A t \in Sessions : Match(sess[t], sessionKeys[t], t \in active)
  BY MatchFacts DEF LifecycleInv
<1>3. \A t \in Sessions : Match(sess'[t], sessionKeys'[t], t \in active')
  BY <1>1, <1>2 DEF Match
<1>4. QED
  BY <1>3 DEF SessionsMatchTracker, Match, Live, Idle

(* on_new_request begins the session or takes it back.                     *)
LEMMA JoinedFacts ==
    ASSUME LifecycleInv, NEW r \in Reqs
    PROVE  LET st == sess[SessionOf[r]] IN
           /\ Joined(r) \in SessionKVState
           /\ Joined(r).status = "active" /\ Joined(r).deadline = Never
           /\ r \in Joined(r).running
           /\ st = NoSession => Joined(r).keys = {} /\ Joined(r).running = {r} /\ Joined(r).retained = {}
           /\ st # NoSession =>
                /\ Joined(r).keys = st.keys /\ Joined(r).running = st.running \cup {r}
                /\ Joined(r).retained = st.retained \ {r}
<1>1. sess[SessionOf[r]] \in SessionKVState \cup {NoSession} /\ now \in Times
  BY LifecycleAssumption DEF LifecycleInv, LifecycleTypeOK, TrackerTypeOK
<1>2. QED
  BY <1>1 DEF Joined, SessionKVState

(* on_new_request                                                          *)
LEMMA OnNewRequestStep ==
    ASSUME LifecycleInv, NEW r \in Reqs, OnNewRequest(r)
    PROVE  LifecycleInv'
<1> DEFINE s == SessionOf[r]
           v == Joined(r)
<1>1. /\ s \in Sessions /\ OnSessionActive(s)
      /\ sess' = [sess EXCEPT ![s] = v] /\ reqSession' = [reqSession EXCEPT ![r] = s]
      /\ nextExp' = IF sess[s] = NoSession THEN nextExp ELSE NextDeadline(sess')
      /\ reclaimed' = Nothing
  BY GetByReqFacts DEF OnNewRequest
<1>2. /\ v \in SessionKVState /\ v.status = "active" /\ v.deadline = Never /\ r \in v.running
      /\ sess[s] = NoSession => v.keys = {} /\ v.running = {r} /\ v.retained = {}
      /\ sess[s] # NoSession =>
           v.keys = sess[s].keys /\ v.running = sess[s].running \cup {r} /\ v.retained = sess[s].retained \ {r}
  BY JoinedFacts
<1>3. /\ sess \in [Sessions -> SessionKVState \cup {NoSession}]
      /\ reqSession \in [Reqs -> Sessions \cup {NoSession}]
      /\ nextExp \in Deadlines \cup {Never}
  BY DEF LifecycleInv, LifecycleTypeOK
<1> HIDE DEF s, v
<1>4. \A t \in Sessions : sess'[t] = IF t = s THEN v ELSE sess[t]
  BY <1>1, <1>3
<1>5. TrackerInv'
  BY <1>1, OnSessionActiveStep DEF LifecycleInv
<1>6. LifecycleTypeOK'
  <2>1. sess' \in [Sessions -> SessionKVState \cup {NoSession}]
    BY <1>1, <1>2, <1>3
  <2>2. nextExp' \in Deadlines \cup {Never}
    BY <1>1, <1>3, <2>1, NextDeadlineFacts
  <2>3. QED
    BY <1>1, <1>3, <1>5, <2>1, <2>2, NothingReclaimed DEF LifecycleTypeOK, TrackerInv
<1>7. SessionsMatchTracker'
  <2>1. /\ sessionKeys' = sessionKeys
        /\ \A t \in Sessions : t \in active' <=> t \in active \/ t = s
    BY <1>1 DEF OnSessionActive
  <2>2. Match(sess[s], sessionKeys[s], s \in active)
    BY <1>1, MatchFacts DEF LifecycleInv
  <2>3. Match(v, sessionKeys'[s], s \in active')
    BY <1>1, <1>2, <2>1, <2>2, SessionFields DEF Match
  <2>4. QED
    BY <1>1, <2>1, <2>3, MatchKept
<1>8. NoOrphanMapping'
  <2> SUFFICES ASSUME NEW q \in Reqs, reqSession'[q] # NoSession
               PROVE  /\ reqSession'[q] \in Sessions /\ sess'[reqSession'[q]] # NoSession
                      /\ q \in sess'[reqSession'[q]].running \cup sess'[reqSession'[q]].retained
    BY DEF NoOrphanMapping, Live
  <2>1. CASE q = r
    BY <2>1, <1>1, <1>2, <1>3, <1>4, SessionFields
  <2>2. CASE q # r
    <3>1. reqSession'[q] = reqSession[q]
      BY <2>2, <1>1, <1>3
    <3>2. /\ reqSession[q] \in Sessions /\ sess[reqSession[q]] # NoSession
          /\ q \in sess[reqSession[q]].running \cup sess[reqSession[q]].retained
      BY <3>1 DEF LifecycleInv, NoOrphanMapping, Live
    <3>3. QED
      BY <2>2, <3>1, <3>2, <1>2, <1>4, SessionFields
  <2>3. QED
    BY <2>1, <2>2
<1>9. DeadlineGate'
  <2>1. sess' \in [Sessions -> SessionKVState \cup {NoSession}]
    BY <1>1, <1>2, <1>3
  <2>2. CASE sess[s] # NoSession
    BY <1>1, <2>1, <2>2, NextDeadlineFacts DEF DeadlineGate, Idle, Live
  <2>3. CASE sess[s] = NoSession
    BY <1>1, <1>2, <1>4, <2>3 DEF LifecycleInv, DeadlineGate, Idle, Live
  <2>4. QED
    BY <2>2, <2>3
<1>10. QED
  BY <1>1, <1>5, <1>6, <1>7, <1>8, <1>9, NothingReclaimed DEF LifecycleInv

(* The gate stays good while no deadline is added and it does not move.    *)
LEMMA GateKept ==
    ASSUME LifecycleInv, nextExp' = nextExp,
           \A s \in Sessions :
             sess'[s] # NoSession /\ sess'[s].status = "idle_retained" /\ sess'[s].deadline # Never =>
               /\ sess[s] # NoSession /\ sess[s].status = "idle_retained"
               /\ sess'[s].deadline = sess[s].deadline
    PROVE  DeadlineGate'
BY DEF LifecycleInv, DeadlineGate, Idle, Live

(* record_reuse_hit                                                        *)
LEMMA RecordReuseHitStep ==
    ASSUME LifecycleInv, NEW r \in Reqs, RecordReuseHit(r)
    PROVE  LifecycleInv'
<1> DEFINE s == GetByReq(r)
           v == [sess[s] EXCEPT !.last = now]
<1>1. /\ s \in Sessions /\ sess[s] \in SessionKVState /\ now \in Times
      /\ sess \in [Sessions -> SessionKVState \cup {NoSession}]
  BY GetByReqFacts DEF RecordReuseHit, LifecycleInv, LifecycleTypeOK, TrackerTypeOK
<1>2. /\ v \in SessionKVState /\ v.status = sess[s].status /\ v.deadline = sess[s].deadline
      /\ v.running = sess[s].running /\ v.retained = sess[s].retained /\ v.keys = sess[s].keys
  BY <1>1 DEF SessionKVState
<1>3. sess' = [sess EXCEPT ![s] = v] /\ reclaimed' = Nothing /\ UNCHANGED <<trackerVars, reqSession, nextExp>>
  BY <1>1 DEF RecordReuseHit
<1> HIDE DEF s, v
<1>4. \A t \in Sessions : sess'[t] = IF t = s THEN v ELSE sess[t]
  BY <1>1, <1>3
<1>5. TrackerInv'
  BY <1>3 DEF LifecycleInv, trackerVars, tracker, history, TrackerInv, TrackerTypeOK, OwnershipAgrees,
     ActiveBlocksNotIdle, NothingForgotten, Tracked, HasActiveSession
<1>6. LifecycleTypeOK'
  <2>1. sess' \in [Sessions -> SessionKVState \cup {NoSession}]
    BY <1>1, <1>2, <1>3
  <2>2. QED
    BY <1>3, <1>5, <2>1, NothingReclaimed DEF LifecycleInv, LifecycleTypeOK, TrackerInv
<1>7. SessionsMatchTracker'
  <2>1. sessionKeys' = sessionKeys /\ active' = active
    BY <1>3 DEF trackerVars, tracker
  <2>2. Match(sess[s], sessionKeys[s], s \in active)
    BY <1>1, MatchFacts DEF LifecycleInv
  <2>3. Match(v, sessionKeys'[s], s \in active')
    BY <1>1, <1>2, <2>1, <2>2, SessionFields DEF Match
  <2>4. QED
    BY <1>1, <1>3, <2>1, <2>3, MatchKept
<1>8. NoOrphanMapping'
  BY <1>1, <1>2, <1>3, <1>4, SessionFields DEF LifecycleInv, NoOrphanMapping, Live
<1>9. DeadlineGate'
  BY <1>1, <1>2, <1>3, <1>4, SessionFields, GateKept
<1>10. QED
  BY <1>3, <1>5, <1>6, <1>7, <1>8, <1>9, NothingReclaimed DEF LifecycleInv

(* The session of a request as the later calls find it.  One that is begun *)
(* again has no keys left.                                                 *)
LEMMA PresentFacts ==
    ASSUME LifecycleInv, NEW r \in Reqs
    PROVE  LET s == GetByReq(r) IN
           /\ Present(r) \in SessionKVState
           /\ sess[s] # NoSession => Present(r) = sess[s] /\ Mapped(r) = reqSession
           /\ sess[s] = NoSession =>
                /\ Present(r).status = "active" /\ Present(r).deadline = Never
                /\ Present(r).keys = {} /\ Present(r).running = {r} /\ Present(r).retained = {}
                /\ Mapped(r) = [reqSession EXCEPT ![r] = s]
<1>1. CASE sess[GetByReq(r)] # NoSession
  BY <1>1, GetByReqFacts DEF Present, Mapped, LifecycleInv, LifecycleTypeOK
<1>2. CASE sess[GetByReq(r)] = NoSession
  BY <1>2, GetByReqFacts, JoinedFacts DEF Present, Mapped
<1>3. QED
  BY <1>1, <1>2

(* record_request_keys: a session that expired before the call is begun    *)
(* again and active, with these keys alone.                                *)
LEMMA RecordRequestKeysStep ==
    ASSUME LifecycleInv, NEW r \in Reqs, NEW K \in SUBSET Keys, RecordRequestKeys(r, K)
    PROVE  LifecycleInv'
<1> DEFINE s == GetByReq(r)
           p == Present(r)
           v == [p EXCEPT !.keys = @ \cup K, !.last = now]
<1>1. /\ s \in Sessions /\ now \in Times
      /\ sess \in [Sessions -> SessionKVState \cup {NoSession}]
      /\ reqSession \in [Reqs -> Sessions \cup {NoSession}]
      /\ sessionKeys \in [Sessions -> SUBSET Keys]
      /\ blocks \in [Keys -> BlockResidencyState \cup {NoBlock}]
  BY GetByReqFacts DEF LifecycleInv, LifecycleTypeOK, TrackerTypeOK
<1>2. /\ p \in SessionKVState
      /\ sess[s] # NoSession => p = sess[s] /\ Mapped(r) = reqSession
      /\ sess[s] = NoSession =>
           /\ p.status = "active" /\ p.deadline = Never
           /\ p.keys = {} /\ p.running = {r} /\ p.retained = {}
           /\ Mapped(r) = [reqSession EXCEPT ![r] = s]
  BY PresentFacts
<1>3. /\ sess' = [sess EXCEPT ![s] = v] /\ reqSession' = Mapped(r) /\ reclaimed' = Nothing
      /\ sessionKeys' = [sessionKeys EXCEPT ![s] = @ \cup K]
      /\ active' = IF sess[s] = NoSession THEN active \cup {s} ELSE active
      /\ blocks' = Accessed(IF sess[s] = NoSession THEN Activated(s) ELSE blocks, s, K, active')
      /\ nextExp' = nextExp /\ UNCHANGED <<now, history>>
  BY DEF RecordRequestKeys
<1> HIDE DEF s, p
<1>4. /\ v \in SessionKVState /\ v.status = p.status /\ v.deadline = p.deadline
      /\ v.running = p.running /\ v.retained = p.retained /\ v.keys = p.keys \cup K
  BY <1>1, <1>2 DEF SessionKVState
<1> HIDE DEF v
<1>5. Match(sess[s], sessionKeys[s], s \in active)
  BY <1>1, MatchFacts DEF LifecycleInv
<1>6. \A t \in Sessions : sess'[t] = IF t = s THEN v ELSE sess[t]
  BY <1>1, <1>3
<1>7. TrackerInv'
  <2>1. sess[s] = NoSession => sessionKeys[s] = {}
    BY <1>5 DEF Match
  <2>2. sess[s] = NoSession => Activated(s) = blocks
    BY <1>1, <2>1 DEF Activated
  <2>3. blocks' = Accessed(blocks, s, K, active')
    BY <1>3, <2>2
  <2>4. Uses(s, K)
    BY <1>3, <2>3 DEF Uses
  <2>5. QED
    BY <1>1, <1>3, <2>1, <2>4, AccessStep DEF LifecycleInv
<1>8. LifecycleTypeOK'
  <2>1. sess' \in [Sessions -> SessionKVState \cup {NoSession}]
    BY <1>1, <1>3, <1>4
  <2>2. reqSession' \in [Reqs -> Sessions \cup {NoSession}]
    BY <1>1, <1>2, <1>3
  <2>3. QED
    BY <1>3, <1>7, <2>1, <2>2, NothingReclaimed DEF LifecycleInv, LifecycleTypeOK, TrackerInv
<1>9. SessionsMatchTracker'
  <2>1. \A t \in Sessions : /\ sessionKeys'[t] = IF t = s THEN sessionKeys[t] \cup K ELSE sessionKeys[t]
                            /\ t \in active' <=> t \in active \/ (t = s /\ sess[s] = NoSession)
    BY <1>1, <1>3
  <2>2. Match(v, sessionKeys'[s], s \in active')
    BY <1>1, <1>2, <1>4, <1>5, <2>1, SessionFields DEF Match
  <2>3. QED
    BY <1>1, <1>3, <2>1, <2>2, MatchKept
<1>10. NoOrphanMapping'
  <2> SUFFICES ASSUME NEW q \in Reqs, reqSession'[q] # NoSession
               PROVE  /\ reqSession'[q] \in Sessions /\ sess'[reqSession'[q]] # NoSession
                      /\ q \in sess'[reqSession'[q]].running \cup sess'[reqSession'[q]].retained
    BY DEF NoOrphanMapping, Live
  <2>1. CASE q = r /\ sess[s] = NoSession
    BY <2>1, <1>1, <1>2, <1>3, <1>4, <1>6, SessionFields
  <2>2. CASE q # r \/ sess[s] # NoSession
    <3>1. reqSession'[q] = reqSession[q]
      BY <2>2, <1>1, <1>2, <1>3
    <3>2. /\ reqSession[q] \in Sessions /\ sess[reqSession[q]] # NoSession
          /\ q \in sess[reqSession[q]].running \cup sess[reqSession[q]].retained
      BY <3>1 DEF LifecycleInv, NoOrphanMapping, Live
    <3>3. QED
      BY <3>1, <3>2, <1>2, <1>4, <1>6, SessionFields
  <2>3. QED
    BY <2>1, <2>2
<1>11. DeadlineGate'
  BY <1>2, <1>3, <1>4, <1>6, GateKept
<1>12. QED
  BY <1>3, <1>7, <1>8, <1>9, <1>10, <1>11, NothingReclaimed DEF LifecycleInv

(* The tracker's invariant survives a call that does not touch it.         *)
LEMMA TrackerStutter ==
    ASSUME TrackerInv, UNCHANGED trackerVars
    PROVE  TrackerInv' /\ sessionKeys' = sessionKeys /\ active' = active
BY DEF trackerVars, tracker, history, TrackerInv, TrackerTypeOK, OwnershipAgrees,
   ActiveBlocksNotIdle, NothingForgotten, Tracked, HasActiveSession

(* on_request_finished: the last request leaves the session idle with a    *)
(* deadline that the gate does not pass.                                   *)
LEMMA OnRequestFinishedStep ==
    ASSUME LifecycleInv, NEW r \in Reqs, OnRequestFinished(r)
    PROVE  LifecycleInv'
<1> DEFINE s == GetByReq(r)
           p == Present(r)
           st == [p EXCEPT !.running = @ \ {r}, !.retained = @ \cup {r}, !.last = now]
           deadline == IF Ttl > 0 THEN now + Ttl ELSE Never
           idle == [st EXCEPT !.status = "idle_retained", !.deadline = deadline]
           v == IF st.running = {} THEN idle ELSE st
<1>1. /\ s \in Sessions /\ now \in Times
      /\ sess \in [Sessions -> SessionKVState \cup {NoSession}]
      /\ reqSession \in [Reqs -> Sessions \cup {NoSession}]
      /\ nextExp \in Deadlines \cup {Never}
  BY GetByReqFacts DEF LifecycleInv, LifecycleTypeOK, TrackerTypeOK
<1>2. /\ p \in SessionKVState
      /\ sess[s] # NoSession => p = sess[s] /\ Mapped(r) = reqSession
      /\ sess[s] = NoSession =>
           /\ p.status = "active" /\ p.deadline = Never
           /\ p.keys = {} /\ p.running = {r} /\ p.retained = {}
           /\ Mapped(r) = [reqSession EXCEPT ![r] = s]
  BY PresentFacts
<1>3. /\ reqSession' = Mapped(r) /\ reclaimed' = Nothing
      /\ sess' = [sess EXCEPT ![s] = v]
      /\ IF st.running = {}
         THEN /\ OnSessionIdle(s)
              /\ nextExp' = IF deadline # Never /\ (nextExp = Never \/ deadline < nextExp)
                            THEN deadline ELSE nextExp
         ELSE UNCHANGED <<nextExp, trackerVars>>
  BY DEF OnRequestFinished, LastRequest
<1>4. deadline \in Deadlines \cup {Never}
  BY <1>1, DeadlineFacts
<1> HIDE DEF s, p, deadline
<1>5. /\ st \in SessionKVState /\ st.status = p.status /\ st.deadline = p.deadline
      /\ st.running = p.running \ {r} /\ st.retained = p.retained \cup {r} /\ st.keys = p.keys
  BY <1>1, <1>2 DEF SessionKVState
<1> HIDE DEF st
<1>6. /\ v \in SessionKVState
      /\ v.running = st.running /\ v.retained = st.retained /\ v.keys = st.keys
      /\ st.running = {} => v.status = "idle_retained" /\ v.deadline = deadline
      /\ st.running # {} => v = st
  BY <1>4, <1>5 DEF SessionKVState
<1> HIDE DEF v
<1>7. Match(sess[s], sessionKeys[s], s \in active)
  BY <1>1, MatchFacts DEF LifecycleInv
<1>8. \A t \in Sessions : sess'[t] = IF t = s THEN v ELSE sess[t]
  BY <1>1, <1>3
<1>9. TrackerInv' /\ sessionKeys' = sessionKeys
  BY <1>1, <1>3, OnSessionIdleStep, TrackerStutter DEF LifecycleInv, OnSessionIdle
<1>10. LifecycleTypeOK'
  <2>1. sess' \in [Sessions -> SessionKVState \cup {NoSession}]
    BY <1>1, <1>3, <1>6
  <2>2. reqSession' \in [Reqs -> Sessions \cup {NoSession}]
    BY <1>1, <1>2, <1>3
  <2>3. nextExp' \in Deadlines \cup {Never}
    BY <1>1, <1>3, <1>4
  <2>4. QED
    BY <1>3, <1>9, <2>1, <2>2, <2>3, NothingReclaimed DEF LifecycleInv, LifecycleTypeOK, TrackerInv
<1>11. SessionsMatchTracker'
  <2>1. \A t \in Sessions \ {s} : t \in active' <=> t \in active
    BY <1>3, TrackerStutter DEF OnSessionIdle, LifecycleInv
  <2>2. s \in active' <=> v.running # {}
    <3>1. CASE st.running = {}
      BY <3>1, <1>3, <1>6 DEF OnSessionIdle
    <3>2. CASE st.running # {}
      <4>1. active' = active
        BY <3>2, <1>3, TrackerStutter DEF LifecycleInv
      <4>2. s \in active
        BY <3>2, <1>2, <1>5, <1>7 DEF Match
      <4>3. QED
        BY <3>2, <4>1, <4>2, <1>6
    <3>3. QED
      BY <3>1, <3>2
  <2>3. v.status = "idle_retained" <=> v.running = {}
    BY <1>2, <1>5, <1>6, <1>7 DEF Match
  <2>4. Match(v, sessionKeys'[s], s \in active')
    BY <1>2, <1>5, <1>6, <1>7, <1>9, <2>2, <2>3, SessionFields DEF Match
  <2>5. QED
    BY <1>1, <1>3, <1>9, <2>1, <2>4, MatchKept
<1>12. NoOrphanMapping'
  <2> SUFFICES ASSUME NEW q \in Reqs, reqSession'[q] # NoSession
               PROVE  /\ reqSession'[q] \in Sessions /\ sess'[reqSession'[q]] # NoSession
                      /\ q \in sess'[reqSession'[q]].running \cup sess'[reqSession'[q]].retained
    BY DEF NoOrphanMapping, Live
  <2>1. CASE q = r /\ sess[s] = NoSession
    BY <2>1, <1>1, <1>2, <1>3, <1>5, <1>6, <1>8, SessionFields
  <2>2. CASE q # r \/ sess[s] # NoSession
    <3>1. reqSession'[q] = reqSession[q]
      BY <2>2, <1>1, <1>2, <1>3
    <3>2. /\ reqSession[q] \in Sessions /\ sess[reqSession[q]] # NoSession
          /\ q \in sess[reqSession[q]].running \cup sess[reqSession[q]].retained
      BY <3>1 DEF LifecycleInv, NoOrphanMapping, Live
    <3>3. v.running \cup v.retained = p.running \cup p.retained \cup {r}
      BY <1>5, <1>6
    <3>4. QED
      BY <3>1, <3>2, <3>3, <1>2, <1>6, <1>8, SessionFields
  <2>3. QED
    BY <2>1, <2>2
<1>13. DeadlineGate'
  <2> SUFFICES ASSUME NEW t \in Sessions, sess'[t] # NoSession, sess'[t].status = "idle_retained",
                      sess'[t].deadline # Never
               PROVE  nextExp' # Never /\ nextExp' <= sess'[t].deadline
    BY DEF DeadlineGate, Idle, Live
  <2>1. CASE t = s /\ st.running = {}
    <3>1. sess'[t].deadline = deadline
      BY <2>1, <1>6, <1>8
    <3>2. QED
      BY <2>1, <3>1, <1>1, <1>3, <1>4, DeadlineFacts
  <2>2. CASE t # s
    <3>1. sess'[t] = sess[t]
      BY <2>2, <1>8
    <3>2. nextExp # Never /\ nextExp <= sess[t].deadline
      BY <3>1 DEF LifecycleInv, DeadlineGate, Idle, Live
    <3>3. sess[t].deadline \in Deadlines
      BY <3>1, <1>1, SessionFields
    <3> DEFINE d == sess[t].deadline
    <3> HIDE DEF d
    <3>4. d \in Nat /\ nextExp \in Nat /\ nextExp # Never /\ nextExp <= d
      BY <3>2, <3>3, <1>1, DeadlineFacts DEF d
    <3>5. nextExp' = nextExp \/ (nextExp' = deadline /\ deadline # Never /\ deadline < nextExp)
      BY <3>4, <1>3
    <3>6. deadline # Never => deadline \in Nat
      BY <1>4, DeadlineFacts
    <3>7. nextExp' # Never /\ nextExp' <= d
      BY <3>4, <3>5, <3>6
    <3>8. QED
      BY <3>1, <3>7 DEF d
  <2>3. CASE t = s /\ st.running # {}
    <3>1. sess'[t].status = p.status /\ p.running # {}
      BY <2>3, <1>5, <1>6, <1>8
    <3>2. QED
      BY <3>1, <1>2, <1>7 DEF Match
  <2>4. QED
    BY <2>1, <2>2, <2>3
<1>14. QED
  BY <1>3, <1>9, <1>10, <1>11, <1>12, <1>13, NothingReclaimed DEF LifecycleInv

(* Deleting the sessions D, which the tracker releases in the same call,   *)
(* with every request that they still list.                                *)
LEMMA DeleteStep ==
    ASSUME LifecycleInv, NEW D \in SUBSET Live, ReleaseSessions(D), sess' = Deleted(D),
           reqSession' \in [Reqs -> Sessions \cup {NoSession}],
           \A r \in Reqs : reqSession'[r] # NoSession => reqSession'[r] = reqSession[r] /\ reqSession[r] \notin D
    PROVE  /\ TrackerInv' /\ SessionsMatchTracker' /\ NoOrphanMapping'
           /\ sess' \in [Sessions -> SessionKVState \cup {NoSession}]
           /\ nextExp' = nextExp => DeadlineGate'
<1>1. D \in SUBSET Sessions /\ sess \in [Sessions -> SessionKVState \cup {NoSession}]
  BY DEF Live, LifecycleInv, LifecycleTypeOK
<1>2. \A t \in Sessions : sess'[t] = IF t \in D THEN NoSession ELSE sess[t]
  BY DEF Deleted
<1>3. TrackerInv'
  BY <1>1, ReleaseSessionsStep DEF LifecycleInv
<1>4. sess' \in [Sessions -> SessionKVState \cup {NoSession}]
  BY <1>1 DEF Deleted
<1>5. SessionsMatchTracker'
  <2>1. \A t \in Sessions : Match(sess[t], sessionKeys[t], t \in active)
    BY MatchFacts DEF LifecycleInv
  <2>2. \A t \in Sessions : /\ sessionKeys'[t] = IF t \in D THEN {} ELSE sessionKeys[t]
                            /\ t \in active' <=> t \in active /\ t \notin D
    BY DEF ReleaseSessions
  <2>3. \A t \in Sessions : Match(sess'[t], sessionKeys'[t], t \in active')
    BY <1>2, <2>1, <2>2 DEF Match
  <2>4. QED
    BY <2>3 DEF SessionsMatchTracker, Match, Live, Idle
<1>6. NoOrphanMapping'
  BY <1>2 DEF LifecycleInv, NoOrphanMapping, Live
<1>7. nextExp' = nextExp => DeadlineGate'
  BY <1>2, GateKept
<1>8. QED
  BY <1>3, <1>4, <1>5, <1>6, <1>7

(* on_request_finalized                                                    *)
LEMMA OnRequestFinalizedStep ==
    ASSUME LifecycleInv, NEW r \in Reqs, OnRequestFinalized(r)
    PROVE  LifecycleInv'
<1> DEFINE s == GetByReq(r)
           st == [sess[s] EXCEPT !.retained = @ \ {r}]
<1>1. /\ s \in Sessions
      /\ sess \in [Sessions -> SessionKVState \cup {NoSession}]
      /\ reqSession \in [Reqs -> Sessions \cup {NoSession}]
  BY GetByReqFacts DEF LifecycleInv, LifecycleTypeOK
<1>2. /\ reqSession' = [reqSession EXCEPT ![r] = NoSession]
      /\ reclaimed' = Nothing /\ nextExp' = nextExp
  BY DEF OnRequestFinalized
<1>3. /\ \/ UNCHANGED <<trackerVars, sess>>
         \/ sess[s] # NoSession /\ sess' = [sess EXCEPT ![s] = st] /\ UNCHANGED trackerVars
         \/ /\ sess[s] # NoSession /\ st.running \cup st.retained = {}
            /\ ReleaseSessions({s}) /\ sess' = Deleted({s})
  BY DEF OnRequestFinalized
<1>4. reqSession' \in [Reqs -> Sessions \cup {NoSession}]
  BY <1>1, <1>2
<1>5. \A q \in Reqs : reqSession'[q] = IF q = r THEN NoSession ELSE reqSession[q]
  BY <1>1, <1>2
<1>6. sess[s] # NoSession =>
        /\ st \in SessionKVState /\ st.status = sess[s].status /\ st.deadline = sess[s].deadline
        /\ st.running = sess[s].running /\ st.retained = sess[s].retained \ {r} /\ st.keys = sess[s].keys
  BY <1>1 DEF SessionKVState
<1> HIDE DEF s, st
<1>7. /\ TrackerInv' /\ SessionsMatchTracker' /\ NoOrphanMapping' /\ DeadlineGate'
      /\ sess' \in [Sessions -> SessionKVState \cup {NoSession}]
  <2>1. CASE UNCHANGED <<trackerVars, sess>>
    <3>1. TrackerInv' /\ sessionKeys' = sessionKeys /\ active' = active /\ sess' = sess
      BY <2>1, TrackerStutter DEF LifecycleInv
    <3>2. SessionsMatchTracker'
      BY <3>1 DEF LifecycleInv, SessionsMatchTracker, Live, Idle
    <3>3. NoOrphanMapping'
      BY <3>1, <1>5 DEF LifecycleInv, NoOrphanMapping, Live
    <3>4. DeadlineGate'
      BY <3>1, <1>2, GateKept
    <3>5. QED
      BY <3>1, <3>2, <3>3, <3>4, <1>1
  <2>2. CASE sess[s] # NoSession /\ sess' = [sess EXCEPT ![s] = st] /\ UNCHANGED trackerVars
    <3>1. TrackerInv' /\ sessionKeys' = sessionKeys /\ active' = active
      BY <2>2, TrackerStutter DEF LifecycleInv
    <3>2. \A t \in Sessions : sess'[t] = IF t = s THEN st ELSE sess[t]
      BY <2>2, <1>1
    <3>3. SessionsMatchTracker'
      <4>1. Match(sess[s], sessionKeys[s], s \in active)
        BY <1>1, MatchFacts DEF LifecycleInv
      <4>2. Match(st, sessionKeys'[s], s \in active')
        BY <2>2, <3>1, <4>1, <1>6, SessionFields DEF Match
      <4>3. QED
        BY <2>2, <3>1, <4>2, <1>1, MatchKept
    <3>4. NoOrphanMapping'
      BY <2>2, <3>2, <1>5, <1>6, SessionFields DEF LifecycleInv, NoOrphanMapping, Live
    <3>5. DeadlineGate'
      BY <2>2, <3>2, <1>2, <1>6, GateKept
    <3>6. sess' \in [Sessions -> SessionKVState \cup {NoSession}]
      BY <2>2, <1>1, <1>6
    <3>7. QED
      BY <3>1, <3>3, <3>4, <3>5, <3>6
  <2>3. CASE /\ sess[s] # NoSession /\ st.running \cup st.retained = {}
             /\ ReleaseSessions({s}) /\ sess' = Deleted({s})
    <3>1. \A q \in Reqs : reqSession[q] = s => q = r
      <4>1. sess[s].running \cup sess[s].retained \subseteq {r}
        BY <2>3, <1>6
      <4>2. \A q \in Reqs : reqSession[q] = s => q \in sess[s].running \cup sess[s].retained
        BY <1>1, LifecycleAssumption DEF LifecycleInv, NoOrphanMapping
      <4>3. QED
        BY <4>1, <4>2
    <3>2. {s} \in SUBSET Live
      BY <2>3, <1>1 DEF Live
    <3>3. \A q \in Reqs : reqSession'[q] # NoSession => reqSession'[q] = reqSession[q] /\ reqSession[q] \notin {s}
      BY <3>1, <1>5
    <3>4. QED
      BY <2>3, <3>2, <3>3, <1>2, <1>4, DeleteStep
  <2>4. QED
    BY <1>3, <2>1, <2>2, <2>3
<1>8. LifecycleTypeOK'
  BY <1>2, <1>4, <1>7, NothingReclaimed DEF LifecycleInv, LifecycleTypeOK, TrackerInv
<1>9. QED
  BY <1>2, <1>7, <1>8, NothingReclaimed DEF LifecycleInv

(* _delete_state forgets every request mapped to a deleted session.        *)
LEMMA UnmappedFacts ==
    ASSUME LifecycleInv, NEW D \in SUBSET Live
    PROVE  /\ Unmapped(D) \in [Reqs -> Sessions \cup {NoSession}]
           /\ \A r \in Reqs : Unmapped(D)[r] # NoSession =>
                Unmapped(D)[r] = reqSession[r] /\ reqSession[r] \notin D
<1>1. reqSession \in [Reqs -> Sessions \cup {NoSession}]
  BY DEF LifecycleInv, LifecycleTypeOK
<1>2. \A r \in Reqs : Unmapped(D)[r] = IF \E s \in D : r \in sess[s].running \cup sess[s].retained
                                       THEN NoSession ELSE reqSession[r]
  BY DEF Unmapped
<1>3. Unmapped(D) \in [Reqs -> Sessions \cup {NoSession}]
  BY <1>1 DEF Unmapped
<1>4. QED
  BY <1>2, <1>3 DEF LifecycleInv, NoOrphanMapping

(* The keys reported for the sessions D were theirs, and no session that   *)
(* stays has them.                                                         *)
LEMMA UnreferencedFacts ==
    ASSUME LifecycleInv, NEW D \in SUBSET Live
    PROVE  /\ Unreferenced(D) \in SUBSET Keys
           /\ \A k \in Unreferenced(D) : \E s \in D : k \in sess[s].keys
           /\ \A s \in Live \ D : Unreferenced(D) \cap sess[s].keys = {}
<1>1. \A s \in Live : sessionKeys[s] = sess[s].keys
  BY DEF LifecycleInv, SessionsMatchTracker, Live
<1>2. Unreferenced(D) \in SUBSET Keys
  BY DEF Unreferenced, Tracked
<1>3. \A k \in Unreferenced(D) : \E s \in D : k \in sess[s].keys
  BY <1>1 DEF Unreferenced, KeysOf
<1>4. ASSUME NEW s \in Live \ D, NEW k \in Unreferenced(D), k \in sess[s].keys
      PROVE  FALSE
  <2>1. k \in sessionKeys[s]
    BY <1>1, <1>4
  <2>2. s \in blocks[k].sessions
    BY <2>1 DEF LifecycleInv, TrackerInv, OwnershipAgrees, Live
  <2>3. QED
    BY <2>2 DEF Unreferenced
<1>5. QED
  BY <1>2, <1>3, <1>4

(* expire_idle_sessions                                                    *)
LEMMA ExpireStep ==
    ASSUME LifecycleInv, NEW P \in SUBSET Keys, NEW R \in SUBSET Reqs, ExpireIdleSessions(P, R)
    PROVE  LifecycleInv'
<1> DEFINE D == Expirable(P, R)
<1>1. D \in SUBSET Live /\ \A s \in D : sess[s].keys \cap P = {}
  BY DEF Expirable, Idle
<1>2. /\ ReleaseSessions(D) /\ sess' = Deleted(D) /\ reqSession' = Unmapped(D)
      /\ reclaimed' = [keys |-> Unreferenced(D), kept |-> P]
      /\ nextExp' = NextDeadline(sess')
  BY DEF ExpireIdleSessions
<1> HIDE DEF D
<1>3. /\ TrackerInv' /\ SessionsMatchTracker' /\ NoOrphanMapping'
      /\ sess' \in [Sessions -> SessionKVState \cup {NoSession}]
      /\ reqSession' \in [Reqs -> Sessions \cup {NoSession}]
  BY <1>1, <1>2, DeleteStep, UnmappedFacts
<1>4. nextExp' \in Deadlines \cup {Never} /\ DeadlineGate'
  BY <1>2, <1>3, NextDeadlineFacts DEF DeadlineGate, Idle, Live
<1>5. /\ Unreferenced(D) \in SUBSET Keys /\ Unreferenced(D) \cap P = {}
      /\ \A s \in Live \ D : Unreferenced(D) \cap sess[s].keys = {}
  BY <1>1, UnreferencedFacts
<1>6. reclaimed'.keys = Unreferenced(D) /\ reclaimed'.kept = P
      /\ reclaimed' \in [keys : SUBSET Keys, kept : SUBSET Keys]
  BY <1>2, <1>5
<1>7. \A s \in Live' : s \in Live \ D /\ sess'[s] = sess[s]
  BY <1>2 DEF Live, Deleted
<1>8. ReclaimedKeysUnused'
  BY <1>5, <1>6, <1>7 DEF ReclaimedKeysUnused
<1>9. LifecycleTypeOK'
  BY <1>3, <1>4, <1>6 DEF LifecycleTypeOK, TrackerInv
<1>10. QED
  BY <1>3, <1>4, <1>8, <1>9 DEF LifecycleInv

(* prune_idle_sessions: the gate may stay behind the sessions it deletes.  *)
LEMMA PruneSessionsStep ==
    ASSUME LifecycleInv, PruneIdleSessions
    PROVE  LifecycleInv'
<1>1. PICK D \in SUBSET PrunableSessions :
        /\ ReleaseSessions(D) /\ sess' = Deleted(D) /\ reqSession' = Unmapped(D)
        /\ reclaimed' = [keys |-> Unreferenced(D), kept |-> {}]
  BY DEF PruneIdleSessions, Lowest
<1>2. D \in SUBSET Live /\ nextExp' = nextExp
  BY DEF PruneIdleSessions, PrunableSessions, Idle
<1>3. /\ TrackerInv' /\ SessionsMatchTracker' /\ NoOrphanMapping' /\ DeadlineGate'
      /\ sess' \in [Sessions -> SessionKVState \cup {NoSession}]
      /\ reqSession' \in [Reqs -> Sessions \cup {NoSession}]
  BY <1>1, <1>2, DeleteStep, UnmappedFacts
<1>4. /\ Unreferenced(D) \in SUBSET Keys
      /\ \A s \in Live \ D : Unreferenced(D) \cap sess[s].keys = {}
  BY <1>2, UnreferencedFacts
<1>5. reclaimed'.keys = Unreferenced(D) /\ reclaimed'.kept = {}
      /\ reclaimed' \in [keys : SUBSET Keys, kept : SUBSET Keys]
  BY <1>1, <1>4
<1>6. \A s \in Live' : s \in Live \ D /\ sess'[s] = sess[s]
  BY <1>1 DEF Live, Deleted
<1>7. ReclaimedKeysUnused'
  BY <1>4, <1>5, <1>6 DEF ReclaimedKeysUnused
<1>8. LifecycleTypeOK'
  BY <1>2, <1>3, <1>5 DEF LifecycleInv, LifecycleTypeOK, TrackerInv
<1>9. QED
  BY <1>3, <1>7, <1>8 DEF LifecycleInv

(* The events of the tiers, and the clock, leave the sessions alone.       *)
LEMMA TierStep ==
    ASSUME LifecycleInv, TierEvent, reclaimed' = Nothing, UNCHANGED <<sess, reqSession, nextExp>>
    PROVE  LifecycleInv'
<1>1. TrackerInv'
  BY TierEventStep DEF LifecycleInv
<1>2. sessionKeys' = sessionKeys /\ active' = active
  BY DEF TierEvent, MarkCpuResident, MarkSecondaryResident, StartTransfer, FinishTransfer,
     ClearCpuResidency, Prune, Tick, tracker
<1>3. LifecycleTypeOK'
  BY <1>1, NothingReclaimed DEF LifecycleInv, LifecycleTypeOK, TrackerInv
<1>4. SessionsMatchTracker' /\ NoOrphanMapping' /\ DeadlineGate'
  BY <1>2 DEF LifecycleInv, SessionsMatchTracker, NoOrphanMapping, DeadlineGate, Live, Idle
<1>5. QED
  BY <1>1, <1>3, <1>4, NothingReclaimed DEF LifecycleInv

-----------------------------------------------------------------------------
(* The manager's whole invariant holds in every behaviour.                 *)
THEOREM LifecycleInvariant == LifecycleSpec => []LifecycleInv
<1>1. LifecycleInit => LifecycleInv
  <2> SUFFICES ASSUME LifecycleInit
               PROVE  LifecycleInv
    OBVIOUS
  <2>1. TrackerInv
    BY TrackerInitInv DEF LifecycleInit
  <2>2. LifecycleTypeOK
    BY <2>1 DEF LifecycleInit, LifecycleTypeOK, TrackerInv, Nothing
  <2>3. SessionsMatchTracker /\ NoOrphanMapping /\ DeadlineGate /\ ReclaimedKeysUnused
    BY DEF LifecycleInit, TrackerInit, SessionsMatchTracker, NoOrphanMapping, DeadlineGate,
       ReclaimedKeysUnused, Nothing, Live, Idle
  <2>4. QED
    BY <2>1, <2>2, <2>3 DEF LifecycleInv
<1>2. LifecycleInv /\ [LifecycleNext]_lifecycleVars => LifecycleInv'
  <2> SUFFICES ASSUME LifecycleInv, [LifecycleNext]_lifecycleVars
               PROVE  LifecycleInv'
    OBVIOUS
  <2>1. CASE RequestEvent
    <3>1. PICK r \in Reqs :
            \/ OnNewRequest(r)
            \/ RecordReuseHit(r)
            \/ \E K \in (SUBSET Keys) \ {{}} : RecordRequestKeys(r, K)
            \/ OnRequestFinished(r)
            \/ OnRequestFinalized(r)
      BY <2>1 DEF RequestEvent
    <3>2. QED
      BY <3>1, OnNewRequestStep, RecordReuseHitStep, RecordRequestKeysStep,
         OnRequestFinishedStep, OnRequestFinalizedStep
  <2>2. CASE SchedulerStep
    BY <2>2, ExpireStep, PruneSessionsStep DEF SchedulerStep
  <2>3. CASE TierEvent /\ reclaimed' = Nothing /\ UNCHANGED <<sess, reqSession, nextExp>>
    BY <2>3, TierStep
  <2>4. CASE UNCHANGED lifecycleVars
    <3>1. UNCHANGED trackerVars /\ UNCHANGED <<sess, reqSession, nextExp, reclaimed>>
      BY <2>4 DEF lifecycleVars, lifecycle
    <3>2. TrackerInv' /\ sessionKeys' = sessionKeys /\ active' = active
      BY <3>1, TrackerStutter DEF LifecycleInv
    <3>3. QED
      BY <3>1, <3>2 DEF LifecycleInv, LifecycleTypeOK, TrackerInv, SessionsMatchTracker,
         NoOrphanMapping, DeadlineGate, ReclaimedKeysUnused, Live, Idle
  <2>5. QED
    BY <2>1, <2>2, <2>3, <2>4 DEF LifecycleNext
<1>3. QED
  BY <1>1, <1>2, PTL DEF LifecycleSpec

(* Types of the manager's state.                                           *)
THEOREM LifecycleTypeCorrect == LifecycleSpec => []LifecycleTypeOK
<1>1. LifecycleInv => LifecycleTypeOK
  BY DEF LifecycleInv
<1>2. QED
  BY <1>1, LifecycleInvariant, PTL

(* The manager and its tracker agree on every session's keys and on which  *)
(* sessions are active, after every call.                                  *)
THEOREM LifecycleTrackerAgreement == LifecycleSpec => []SessionsMatchTracker
<1>1. LifecycleInv => SessionsMatchTracker
  BY DEF LifecycleInv
<1>2. QED
  BY <1>1, LifecycleInvariant, PTL

(* No request stays mapped to a session that was finalized, expired or     *)
(* pruned, or that no longer lists it.                                     *)
THEOREM LifecycleNoOrphans == LifecycleSpec => []NoOrphanMapping
<1>1. LifecycleInv => NoOrphanMapping
  BY DEF LifecycleInv
<1>2. QED
  BY <1>1, LifecycleInvariant, PTL

(* _next_expiration_at never hides the deadline of an idle session.        *)
THEOREM LifecycleGate == LifecycleSpec => []DeadlineGate
<1>1. LifecycleInv => DeadlineGate
  BY DEF LifecycleInv
<1>2. QED
  BY <1>1, LifecycleInvariant, PTL

(* The keys that expire_idle_sessions and prune_idle_sessions give back    *)
(* belong to no remaining session and to no transfer.                      *)
THEOREM LifecycleReclaimsUnused == LifecycleSpec => []ReclaimedKeysUnused
<1>1. LifecycleInv => ReclaimedKeysUnused
  BY DEF LifecycleInv
<1>2. QED
  BY <1>1, LifecycleInvariant, PTL

(* The blocks of a session with a running request leave CPU memory last:   *)
(* the sessions the manager takes for running are the tracker's active     *)
(* ones, with the same keys.                                               *)
THEOREM LifecycleRunningBlocks == LifecycleSpec => []RunningBlocksLastResort
<1>1. LifecycleInv => RunningBlocksLastResort
  <2> SUFFICES ASSUME LifecycleInv
               PROVE  LastResort(RunningKeys)
    BY DEF RunningBlocksLastResort
  <2>1. active \subseteq Sessions
    BY DEF LifecycleInv, TrackerInv, TrackerTypeOK
  <2>2. active = {t \in Live : sess[t].running # {}}
    BY <2>1 DEF LifecycleInv, SessionsMatchTracker, Live
  <2>3. \A s \in active : sess[s].keys = sessionKeys[s]
    BY <2>1, <2>2 DEF LifecycleInv, SessionsMatchTracker
  <2>4. RunningKeys = KeysOf(active)
    BY <2>2, <2>3 DEF RunningKeys, KeysOf
  <2>5. QED
    BY <2>4, ActiveLastResort DEF LifecycleInv
<1>2. QED
  BY <1>1, LifecycleInvariant, PTL
================================================================================
