------------------------------- MODULE Lifecycle -------------------------------
(***************************************************************************)
(* SessionLifecycleManager (lifecycle.py) over the residency tracker:      *)
(* requests join, leave and outlive sessions, idle sessions expire or are  *)
(* pruned, and each step updates the tracker in the same call.  The        *)
(* manager is enabled; request and reuse counts, which only feed           *)
(* statistics, are left out.  The caller is not in this repository: it may *)
(* make any call for any request at any moment.                            *)
(***************************************************************************)
EXTENDS Residency, FiniteSetsExt

CONSTANTS
    Reqs,
    SessionOf,      \* get_session_id of each request
    Stable,         \* sessions named by the client (has_stable_session_id)
    Ttl,            \* idle_ttl_sec, 0 when sessions do not expire
    MaxSessions,    \* max_sessions
    NoSession

VARIABLES
    sess,           \* _sessions: session -> state or NoSession
    reqSession,     \* _req_to_session
    nextExp,        \* _next_expiration_at
    reclaimed       \* history: the result of expire or prune, if that was the last call

lifecycle == <<sess, reqSession, nextExp, reclaimed>>
lifecycleVars == <<trackerVars, lifecycle>>

Deadlines == 1 .. MaxTime + Ttl
SessionKVState ==
    [status : {"active", "idle_retained"}, running : SUBSET Reqs, retained : SUBSET Reqs,
     keys : SUBSET Keys, last : Times, deadline : Deadlines \cup {Never}]

(* A session without a client's name is called after its only request.     *)
ASSUME LifecycleAssumption ==
    /\ IsFiniteSet(Reqs) /\ SessionOf \in [Reqs -> Sessions] /\ Stable \subseteq Sessions
    /\ \A r, q \in Reqs : SessionOf[r] = SessionOf[q] /\ SessionOf[r] \notin Stable => r = q
    /\ Ttl \in Nat /\ MaxSessions \in Nat \ {0}
    /\ Never \notin Deadlines
    /\ NoSession \notin Sessions /\ NoSession \notin SessionKVState

Nothing == [keys |-> {}, kept |-> {}]

LifecycleInit ==
    /\ TrackerInit
    /\ sess = [s \in Sessions |-> NoSession]
    /\ reqSession = [r \in Reqs |-> NoSession]
    /\ nextExp = Never
    /\ reclaimed = Nothing

-----------------------------------------------------------------------------
Live == {s \in Sessions : sess[s] # NoSession}
Idle == {s \in Live : sess[s].status = "idle_retained"}
GetByReq(r) == IF reqSession[r] # NoSession THEN reqSession[r] ELSE SessionOf[r]

(* _refresh_next_expiration over the sessions S.  Without a TTL no session *)
(* has a deadline.                                                         *)
NextDeadline(S) ==
    LET due == {S[s].deadline : s \in {t \in Sessions : S[t] # NoSession /\ S[t].status = "idle_retained"}}
                   \ {Never}
    IN  IF due = {} THEN Never ELSE Min(due)

(* Mutant: the state is marked deleted and stays in the dictionary.        *)
DeletedInPlace(D) ==
    [s \in Sessions |-> IF s \in D THEN [sess[s] EXCEPT !.status = "deleted"] ELSE sess[s]]

(* _delete_state of the sessions D.                                        *)
Deleted(D) == [s \in Sessions |-> IF s \in D THEN NoSession ELSE sess[s]]

(* Mutant: only running requests are unmapped.                             *)
UnmappedRunning(D) ==
    [r \in Reqs |-> IF \E s \in D : r \in sess[s].running THEN NoSession ELSE reqSession[r]]

Unmapped(D) ==
    [r \in Reqs |-> IF \E s \in D : r \in sess[s].running \cup sess[s].retained
                    THEN NoSession ELSE reqSession[r]]

(* The session of r after on_new_request.                                  *)
Joined(r) ==
    IF sess[SessionOf[r]] = NoSession
    THEN [status |-> "active", running |-> {r}, retained |-> {},
          keys |-> {}, last |-> now, deadline |-> Never]
    ELSE [sess[SessionOf[r]] EXCEPT !.status = "active", !.running = @ \cup {r},
             !.retained = @ \ {r}, !.last = now, !.deadline = Never]

(* The session of r as the later calls find it: missing ones are begun.    *)
Present(r) == IF sess[GetByReq(r)] = NoSession THEN Joined(r) ELSE sess[GetByReq(r)]
Mapped(r) ==
    IF sess[GetByReq(r)] = NoSession THEN [reqSession EXCEPT ![r] = SessionOf[r]] ELSE reqSession

-----------------------------------------------------------------------------
(* Mutant: a session that comes back clears the gate for all sessions.     *)
OnNewRequestClearsGate(r) ==
    LET s == SessionOf[r]
    IN  /\ OnSessionActive(s)
        /\ sess' = [sess EXCEPT ![s] = Joined(r)]
        /\ reqSession' = [reqSession EXCEPT ![r] = s]
        /\ nextExp' = IF sess[s] = NoSession THEN nextExp ELSE Never
        /\ reclaimed' = Nothing

OnNewRequest(r) ==
    LET s == SessionOf[r]
    IN  /\ OnSessionActive(s)
        /\ sess' = [sess EXCEPT ![s] = Joined(r)]
        /\ reqSession' = [reqSession EXCEPT ![r] = s]
        /\ nextExp' = IF sess[s] = NoSession THEN nextExp ELSE NextDeadline(sess')
        /\ reclaimed' = Nothing

RecordReuseHit(r) ==
    LET s == GetByReq(r)
    IN  /\ sess[s] # NoSession
        /\ sess' = [sess EXCEPT ![s].last = now]
        /\ reclaimed' = Nothing
        /\ UNCHANGED <<trackerVars, reqSession, nextExp>>

(* A session that expired before this call is begun again.                 *)
RecordRequestKeys(r, K) ==
    LET s == GetByReq(r)
        begun == sess[s] = NoSession
        A == IF begun THEN active \cup {s} ELSE active
    IN  /\ active' = A
        /\ blocks' = Accessed(IF begun THEN Activated(s) ELSE blocks, s, K, A)
        /\ sessionKeys' = [sessionKeys EXCEPT ![s] = @ \cup K]
        /\ sess' = [sess EXCEPT ![s] = [Present(r) EXCEPT !.keys = @ \cup K, !.last = now]]
        /\ reqSession' = Mapped(r)
        /\ reclaimed' = Nothing
        /\ UNCHANGED <<nextExp, now, history>>

(* Mutant: the session goes idle with the first request that ends.         *)
LastRequestFirst(running) == TRUE

LastRequest(running) == running = {}

OnRequestFinished(r) ==
    LET s == GetByReq(r)
        st == [Present(r) EXCEPT !.running = @ \ {r}, !.retained = @ \cup {r}, !.last = now]
        deadline == IF Ttl > 0 THEN now + Ttl ELSE Never
    IN  /\ reqSession' = Mapped(r)
        /\ reclaimed' = Nothing
        /\ \/ /\ LastRequest(st.running)
              /\ sess' = [sess EXCEPT ![s] = [st EXCEPT !.status = "idle_retained", !.deadline = deadline]]
              /\ nextExp' = IF deadline # Never /\ (nextExp = Never \/ deadline < nextExp)
                            THEN deadline ELSE nextExp
              /\ OnSessionIdle(s)
           \/ /\ ~LastRequest(st.running)
              /\ sess' = [sess EXCEPT ![s] = st]
              /\ UNCHANGED <<nextExp, trackerVars>>

OnRequestFinalized(r) ==
    LET s == GetByReq(r)
        st == [sess[s] EXCEPT !.retained = @ \ {r}]
        unmapped == [reqSession EXCEPT ![r] = NoSession]
    IN  /\ reclaimed' = Nothing
        /\ UNCHANGED nextExp
        /\ \/ /\ sess[s] = NoSession
              /\ reqSession' = unmapped
              /\ UNCHANGED <<trackerVars, sess>>
           \/ /\ sess[s] # NoSession
              /\ st.running \cup st.retained # {} \/ s \in Stable
              /\ sess' = [sess EXCEPT ![s] = st]
              /\ reqSession' = unmapped
              /\ UNCHANGED trackerVars
           \/ /\ sess[s] # NoSession
              /\ st.running \cup st.retained = {} /\ s \notin Stable
              /\ ReleaseSessions({s})
              /\ sess' = Deleted({s})
              /\ reqSession' = unmapped

(* Mutant: the protected keys are not consulted.                           *)
ExpirableUnprotected(P, R) ==
    {s \in Idle : /\ sess[s].deadline # Never /\ sess[s].deadline <= now
                  /\ sess[s].retained \cap R = {}}

Expirable(P, R) ==
    {s \in Idle : /\ sess[s].deadline # Never /\ sess[s].deadline <= now
                  /\ sess[s].keys \cap P = {}
                  /\ sess[s].retained \cap R = {}}

(* Mutant: a session that is due now is left to a later step.              *)
ExpirationDueLate == nextExp # Never /\ nextExp < now

ExpirationDue == nextExp # Never /\ nextExp <= now

(* With the keys P and the requests R protected by their transfers.        *)
ExpireIdleSessions(P, R) ==
    /\ ExpirationDue
    /\ LET D == Expirable(P, R)
       IN  /\ ReleaseSessions(D)
           /\ sess' = Deleted(D)
           /\ reqSession' = Unmapped(D)
           /\ reclaimed' = [keys |-> Unreferenced(D), kept |-> P]
    /\ nextExp' = NextDeadline(sess')

PrunableSessions == {s \in Idle : sess[s].running \cup sess[s].retained = {}}

PruneIdleSessions ==
    /\ Cardinality(Live) > MaxSessions
    /\ \E D \in Lowest(PrunableSessions, Cardinality(Live) - MaxSessions,
                      [s \in PrunableSessions |-> sess[s].last]) :
         /\ ReleaseSessions(D)
         /\ sess' = Deleted(D)
         /\ reqSession' = Unmapped(D)
         /\ reclaimed' = [keys |-> Unreferenced(D), kept |-> {}]
    /\ UNCHANGED nextExp

-----------------------------------------------------------------------------
RequestEvent ==
    \E r \in Reqs :
        \/ OnNewRequest(r)
        \/ RecordReuseHit(r)
        \/ \E K \in (SUBSET Keys) \ {{}} : RecordRequestKeys(r, K)
        \/ OnRequestFinished(r)
        \/ OnRequestFinalized(r)

SchedulerStep ==
    \/ \E P \in SUBSET Keys, R \in SUBSET Reqs : ExpireIdleSessions(P, R)
    \/ PruneIdleSessions

LifecycleNext ==
    \/ RequestEvent
    \/ SchedulerStep
    \/ TierEvent /\ reclaimed' = Nothing /\ UNCHANGED <<sess, reqSession, nextExp>>

(* The scheduler calls expire_idle_sessions while has_expiration_due, and  *)
(* transfers, which protect keys and requests, end.                        *)
LifecycleSpec ==
    /\ LifecycleInit /\ [][LifecycleNext]_lifecycleVars
    /\ WF_lifecycleVars(ExpireIdleSessions({}, {}))

-----------------------------------------------------------------------------
(* Types of the manager's state.                                            *)
LifecycleTypeOK ==
    /\ TrackerTypeOK
    /\ sess \in [Sessions -> SessionKVState \cup {NoSession}]
    /\ reqSession \in [Reqs -> Sessions \cup {NoSession}]
    /\ nextExp \in Deadlines \cup {Never}
    /\ reclaimed \in [keys : SUBSET Keys, kept : SUBSET Keys]

(* The manager and its tracker agree after every call: the tracker knows    *)
(* exactly the sessions' keys, and it takes a session for active exactly    *)
(* while one of its requests runs.                                          *)
SessionsMatchTracker ==
    \A s \in Sessions :
        /\ sessionKeys[s] = IF s \in Live THEN sess[s].keys ELSE {}
        /\ (s \in active) <=> (s \in Live /\ sess[s].running # {})
        /\ (s \in Idle) <=> (s \in Live /\ sess[s].running = {})

(* Request metadata does not outlive its session: every mapped request is   *)
(* one that its session still lists, so that _delete_state removes the      *)
(* mapping, whichever of finalize, expire and prune deletes the session.    *)
NoOrphanMapping ==
    \A r \in Reqs : reqSession[r] # NoSession =>
        reqSession[r] \in Live /\ r \in sess[reqSession[r]].running \cup sess[reqSession[r]].retained

(* _next_expiration_at, the cheap gate of expire_idle_sessions, is never    *)
(* later than the deadline of an idle session, although requests come and   *)
(* go, sessions are deleted and only some of these calls refresh it.        *)
DeadlineGate ==
    \A s \in Idle : sess[s].deadline # Never => nextExp # Never /\ nextExp <= sess[s].deadline

(* The keys that expire_idle_sessions and prune_idle_sessions report as     *)
(* unreferenced, which their caller may delete from the tiers, belong to no *)
(* remaining session and are not protected by a transfer.                   *)
ReclaimedKeysUnused ==
    /\ reclaimed.keys \cap reclaimed.kept = {}
    /\ \A s \in Live : reclaimed.keys \cap sess[s].keys = {}

(* The blocks that the manager has recorded for sessions with a running     *)
(* request are a last resort under CPU pressure, whatever other sessions    *)
(* share them and whatever happened to those.                               *)
RunningKeys == UNION {sess[s].keys : s \in {t \in Live : sess[t].running # {}}}
RunningBlocksLastResort == LastResort(RunningKeys)

(* An idle session whose deadline has passed expires, unless a request      *)
(* takes it back: the gate hides no session for ever.                       *)
Overdue(s) == s \in Idle /\ sess[s].deadline # Never /\ sess[s].deadline <= now
IdleSessionsExpire == \A s \in Sessions : Overdue(s) ~> ~Overdue(s)
================================================================================
