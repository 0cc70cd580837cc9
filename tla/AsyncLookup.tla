------------------------------ MODULE AsyncLookup ------------------------------
(***************************************************************************)
(* The asynchronous existence checks of a secondary tier (async_lookup.py) *)
(* as the filesystem tier uses them: the scheduler thread looks keys up,   *)
(* flushes a batch per step and cleans up after requests; a background     *)
(* thread checks the batches against the tier.  There is no lock: the two  *)
(* threads share only the queues.                                          *)
(***************************************************************************)
EXTENDS Integers, FiniteSets, FiniteSetsExt, Functions, Sequences

CONSTANTS
    Keys, Reqs,
    MaxChecks,  \* bound on the checks queued or under way
    None,       \* result not yet available
    NoState,    \* key without an entry
    Stop        \* the shutdown sentinel

VARIABLES
    state,      \* _lookup_state: key -> entry [result, ids] or NoState
    reqKeys,    \* _req_keys, {} for a request without an entry
    batch,      \* _lookup_batch
    queue,      \* _lookup_queue
    worker,     \* "get", "check" or "exited"
    work,       \* the worker's batch
    left,       \* the places in it not checked yet
    results,    \* its results, one item per request
    pending,    \* _pending_results, the posted batches one after the other
    last,       \* history: outcome of the latest check of each key
    sched       \* "open", "joining" or "closed"

scheduler == <<state, reqKeys, batch, sched>>
thread == <<worker, work, left, results, last>>
vars == <<scheduler, thread, queue, pending>>

Pairs == Keys \X Reqs
Found == [keys : SUBSET Keys, hits : SUBSET Keys]
LookupState == [result : BOOLEAN \cup {None}, ids : SUBSET Reqs]

ASSUME LookupAssumption ==
    /\ IsFiniteSet(Keys) /\ IsFiniteSet(Reqs)
    /\ MaxChecks \in Nat \ {0}
    /\ None \notin BOOLEAN /\ NoState \notin LookupState /\ Stop \notin Seq(Pairs)

Init ==
    /\ state = [k \in Keys |-> NoState]
    /\ reqKeys = [r \in Reqs |-> {}]
    /\ batch = <<>> /\ queue = <<>> /\ pending = <<>>
    /\ worker = "get" /\ work = <<>> /\ left = {} /\ results = <<>>
    /\ last = [k \in Keys |-> None]
    /\ sched = "open"

-----------------------------------------------------------------------------
(* The scheduler thread.                                                   *)

Tracked(k) == state[k] # NoState

(* The places of the results s that are about key k.                       *)
Places(s, k) == {i \in DOMAIN s : k \in s[i].keys}

(* Mutant: the first result wins.                                          *)
AnswerFirstWins(k) ==
    LET mine == Places(pending, k)
    IN  IF state[k].result # None \/ mine = {} THEN state[k].result ELSE k \in pending[Min(mine)].hits

(* The result a key has once the pending results are applied in order.     *)
Answer(k) ==
    LET mine == Places(pending, k)
    IN  IF mine = {} THEN state[k].result ELSE k \in pending[Max(mine)].hits

(* drain_results: entries take their results, other results are dropped.   *)
Drained ==
    [k \in Keys |->
        IF Tracked(k) THEN [state[k] EXCEPT !.result = Answer(k)] ELSE NoState]

(* The checks whose results are not posted yet.                            *)
Checks ==
    FoldFunction(LAMBDA b, n : n + IF b = Stop THEN 0 ELSE Len(b),
                 Len(batch) + Len(work), queue)

(* Mutant: only a lookup that creates an entry drains the results.         *)
LookupDrainingOnCreate(k, r) ==
    /\ sched = "open"
    /\ IF Tracked(k)
       THEN /\ state' = [state EXCEPT ![k].ids = @ \cup {r}]
            /\ UNCHANGED <<batch, pending>>
       ELSE /\ Checks < MaxChecks
            /\ pending' = <<>>
            /\ state' = [Drained EXCEPT ![k] = [result |-> None, ids |-> {r}]]
            /\ batch' = Append(batch, <<k, r>>)
    /\ reqKeys' = [reqKeys EXCEPT ![r] = @ \cup {k}]
    /\ UNCHANGED <<sched, thread, queue>>

(* lookup: drain, then find or create the entry and register the request.  *)
Lookup(k, r) ==
    /\ sched = "open"
    /\ pending' = <<>>
    /\ IF Tracked(k)
       THEN /\ state' = [Drained EXCEPT ![k].ids = @ \cup {r}]
            /\ UNCHANGED batch
       ELSE /\ Checks < MaxChecks
            /\ state' = [Drained EXCEPT ![k] = [result |-> None, ids |-> {r}]]
            /\ batch' = Append(batch, <<k, r>>)
    /\ reqKeys' = [reqKeys EXCEPT ![r] = @ \cup {k}]
    /\ UNCHANGED <<sched, thread, queue>>

(* flush, from on_schedule_end.                                            *)
Flush ==
    /\ sched = "open" /\ batch # <<>>
    /\ queue' = Append(queue, batch)
    /\ batch' = <<>>
    /\ UNCHANGED <<state, reqKeys, sched, thread, pending>>

(* Mutant: the entries of a finished request go, whoever else asked.       *)
CleanupAll(r) ==
    /\ sched = "open" /\ reqKeys[r] # {}
    /\ reqKeys' = [reqKeys EXCEPT ![r] = {}]
    /\ state' = [k \in Keys |-> IF k \in reqKeys[r] THEN NoState ELSE state[k]]
    /\ UNCHANGED <<batch, sched, thread, queue, pending>>

(* cleanup, from on_request_finished.                                      *)
Cleanup(r) ==
    /\ sched = "open" /\ reqKeys[r] # {}
    /\ reqKeys' = [reqKeys EXCEPT ![r] = {}]
    /\ state' = [k \in Keys |->
                    IF k \notin reqKeys[r] THEN state[k]
                    ELSE IF state[k].ids \subseteq {r} THEN NoState
                    ELSE [state[k] EXCEPT !.ids = @ \ {r}]]
    /\ UNCHANGED <<batch, sched, thread, queue, pending>>

(* Mutant: no sentinel.                                                    *)
ShutdownSilent ==
    /\ sched = "open"
    /\ sched' = "joining"
    /\ UNCHANGED <<state, reqKeys, batch, thread, queue, pending>>

(* shutdown: the sentinel, then the join.                                  *)
Shutdown ==
    /\ sched = "open"
    /\ queue' = Append(queue, Stop)
    /\ sched' = "joining"
    /\ UNCHANGED <<state, reqKeys, batch, thread, pending>>

Joined ==
    /\ sched = "joining" /\ worker = "exited"
    /\ sched' = "closed"
    /\ UNCHANGED <<state, reqKeys, batch, thread, queue, pending>>

-----------------------------------------------------------------------------
(* The background thread: get a batch or the sentinel.                     *)

(* Mutant: the sentinel is taken for a batch.                              *)
WorkerGetNoSentinel ==
    /\ worker = "get" /\ queue # <<>>
    /\ queue' = Tail(queue)
    /\ worker' = "check" /\ work' = Head(queue)
    /\ left' = IF Head(queue) = Stop THEN {} ELSE DOMAIN Head(queue)
    /\ UNCHANGED <<scheduler, results, last, pending>>

WorkerGet ==
    /\ worker = "get" /\ queue # <<>>
    /\ queue' = Tail(queue)
    /\ IF Head(queue) = Stop
       THEN worker' = "exited" /\ UNCHANGED <<work, left>>
       ELSE worker' = "check" /\ work' = Head(queue) /\ left' = DOMAIN Head(queue)
    /\ UNCHANGED <<scheduler, results, last, pending>>

(* The batch grouped by request, in the order of the first occurrences:    *)
(* the places and the keys of the next group.                              *)
Group == {i \in left : work[i][2] = work[Min(left)][2]}
GroupKeys == {work[i][1] : i \in Group}

(* The group's results: a hit for its keys in hits.                        *)
Record(hits) ==
    /\ worker = "check" /\ left # {}
    /\ left' = left \ Group
    /\ results' = Append(results, [keys |-> GroupKeys, hits |-> hits])
    /\ last' = [k \in Keys |-> IF k \in GroupKeys THEN k \in hits ELSE last[k]]
    /\ UNCHANGED <<scheduler, worker, work, queue, pending>>

(* batch_lookup of one request's keys.  External: stores, deletes and other *)
(* processes change the tier at any time, so it finds any of them.          *)
WorkerCheck == \E hits \in SUBSET GroupKeys : Record(hits)

(* Mutant: a failed batch_lookup skips its keys.                           *)
WorkerRaisedSkipping ==
    /\ worker = "check" /\ left # {}
    /\ left' = left \ Group
    /\ UNCHANGED <<scheduler, worker, work, results, last, queue, pending>>

(* batch_lookup raised: all misses.                                        *)
WorkerRaised == Record({})

(* The results of the whole batch are posted as one item.                  *)
WorkerPost ==
    /\ worker = "check" /\ left = {}
    /\ pending' = pending \o results
    /\ worker' = "get" /\ work' = <<>> /\ results' = <<>>
    /\ UNCHANGED <<scheduler, left, last, queue>>

-----------------------------------------------------------------------------
WorkerStep == WorkerGet \/ WorkerCheck \/ WorkerRaised \/ WorkerPost

Next ==
    \/ \E k \in Keys, r \in Reqs : Lookup(k, r)
    \/ Flush
    \/ \E r \in Reqs : Cleanup(r)
    \/ Shutdown
    \/ Joined
    \/ WorkerStep

(* A request that was told to retry looks the key up again.                *)
Retry(k) == Tracked(k) /\ state[k].result = None /\ \E r \in state[k].ids : Lookup(k, r)

(* The thread runs and batch_lookup returns; the engine keeps stepping, so *)
(* it flushes and retries; nobody need look up, clean up or shut down.     *)
Fairness ==
    /\ WF_vars(WorkerStep) /\ WF_vars(Joined)
    /\ WF_vars(Flush) /\ \A k \in Keys : WF_vars(Retry(k))

Spec == Init /\ [][Next]_vars /\ Fairness

-----------------------------------------------------------------------------
(* Types of the state.                                                      *)
TypeOK ==
    /\ state \in [Keys -> LookupState \cup {NoState}]
    /\ reqKeys \in [Reqs -> SUBSET Keys]
    /\ batch \in Seq(Pairs)
    /\ queue \in Seq(Seq(Pairs) \cup {Stop})
    /\ worker \in {"get", "check", "exited"}
    /\ work \in Seq(Pairs) /\ left \subseteq DOMAIN work
    /\ results \in Seq(Found) /\ pending \in Seq(Found)
    /\ last \in [Keys -> BOOLEAN \cup {None}]
    /\ sched \in {"open", "joining", "closed"}

(* The two indexes of lookup and cleanup agree and hold nothing but live    *)
(* requests: cleanup never meets a missing entry (KeyError), and an entry   *)
(* is gone when its last request has finished.                              *)
IndexesAgree ==
    \A k \in Keys :
        LET askers == {r \in Reqs : k \in reqKeys[r]}
        IN  IF Tracked(k) THEN state[k].ids = askers /\ askers # {} ELSE askers = {}

Checking(k) ==
    \/ \E i \in DOMAIN batch : batch[i][1] = k
    \/ \E q \in DOMAIN queue : queue[q] # Stop /\ \E i \in DOMAIN queue[q] : queue[q][i][1] = k
    \/ \E i \in left : work[i][1] = k
InFlight(k) ==
    \/ Checking(k)
    \/ Places(results, k) # {}
    \/ Places(pending, k) # {}

(* lookup queues a key only when it creates the entry.  So an entry without *)
(* a result always has its check or its result on the way, whatever         *)
(* batch_lookup does: otherwise the key would be "retry" for ever.          *)
NoLookupLost == \A k \in Keys : Tracked(k) /\ state[k].result = None => InFlight(k)

(* An entry removed by cleanup and created again can be answered by the     *)
(* check made for the old entry.  Once nothing is on the way any more, the  *)
(* answer is nevertheless that of the latest check of the key.              *)
SettledAnswerIsLatest ==
    \A k \in Keys : Tracked(k) /\ ~InFlight(k) => state[k].result = last[k]

(* A key told to retry gets its answer, unless its requests end or the tier *)
(* shuts down: a result that arrives after the first retry is consumed.     *)
EveryLookupAnswered ==
    \A k \in Keys :
        Tracked(k) /\ state[k].result = None
            ~> ~Tracked(k) \/ state[k].result # None \/ sched # "open"

(* shutdown returns: the worker reaches the sentinel behind the batches.    *)
LookupShutdownReturns == sched = "joining" ~> sched = "closed"
================================================================================
