-------------------------------- MODULE KVTier --------------------------------
(***************************************************************************)
(* The contract of a secondary tier (SecondaryTierManager, base.py): jobs  *)
(* are submitted, run for a while, and are reported exactly once.  Blocks  *)
(* enter the tier through store jobs only and may leave it at any moment   *)
(* (deletes, unreadable copies).  A job succeeds only if each of its       *)
(* blocks was in the tier at some moment between its submission and its    *)
(* completion: a load has found it, a store has found or put it there.     *)
(***************************************************************************)
CONSTANTS Keys, Jobs

VARIABLES
    present,    \* blocks the tier holds
    job         \* what the tier knows of every job id

tierVars == <<present, job>>

Kinds == {"store", "load"}
Idle == [phase |-> "idle"]
Running(kind, K, seen) == [phase |-> "running", kind |-> kind, keys |-> K, seen |-> seen]
Done(ok) == [phase |-> "done", ok |-> ok]

TierInit ==
    /\ present \in SUBSET Keys
    /\ job = [j \in Jobs |-> Idle]

(* The running jobs have seen their blocks among K.                         *)
Witnessed(K) ==
    [j \in Jobs |-> IF job[j].phase = "running"
                    THEN [job[j] EXCEPT !.seen = @ \cup (job[j].keys \cap K)] ELSE job[j]]

(* submit_store, submit_load                                                *)
Submit(j, kind, K) ==
    /\ job[j] = Idle
    /\ job' = [job EXCEPT ![j] = Running(kind, K, K \cap present)]
    /\ UNCHANGED present

(* Blocks of a store job become visible.                                    *)
Publish(j, K) ==
    /\ job[j].phase = "running" /\ job[j].kind = "store" /\ K \subseteq job[j].keys
    /\ present' = present \cup K
    /\ job' = Witnessed(K)

(* delete, or the tier finds a copy unreadable.                             *)
Remove(K) == present' = present \ K /\ UNCHANGED job

(* The job ends; a store may publish the blocks K in the same step.         *)
Finish(j, ok, K) ==
    /\ job[j].phase = "running"
    /\ K \subseteq job[j].keys /\ (K # {} => job[j].kind = "store")
    /\ ok => job[j].keys \subseteq job[j].seen \cup K
    /\ present' = present \cup K
    /\ job' = [Witnessed(K) EXCEPT ![j] = Done(ok)]

(* get_finished_jobs                                                        *)
Collect(j) ==
    /\ job[j].phase = "done"
    /\ job' = [job EXCEPT ![j] = Idle]
    /\ UNCHANGED present

(* The tier's process ends, or a submission raises: no result.              *)
Abandon(S) ==
    /\ job' = [j \in Jobs |-> IF j \in S THEN Idle ELSE job[j]]
    /\ UNCHANGED present

JobStep(j) ==
    \/ /\ job[j].phase = "idle"
       /\ \E kind \in Kinds, K \in SUBSET Keys : Submit(j, kind, K)
    \/ /\ job[j].phase = "running"
       /\ \E K \in SUBSET job[j].keys :
            Publish(j, K) \/ \E ok \in BOOLEAN : Finish(j, ok, K)
    \/ Collect(j)

TierNext ==
    \/ \E K \in SUBSET Keys : Remove(K)
    \/ \E j \in Jobs : JobStep(j)
    \/ \E S \in SUBSET Jobs : Abandon(S)

TierSpec == TierInit /\ [][TierNext]_tierVars
===============================================================================
