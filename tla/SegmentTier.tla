------------------------------ MODULE SegmentTier ------------------------------
(***************************************************************************)
(* The segment layout of FileSystemTierManager implements the contract of  *)
(* KVTier, in a directory without block files of the older layout.  `hist' *)
(* is a history variable: what every running job was asked for, and which  *)
(* of its keys were indexed at some moment since then.                     *)
(***************************************************************************)
EXTENDS SegmentStore

VARIABLE hist

tierStoreVars == <<vars, hist>>

NoHist == [kind |-> "none", keys |-> {}, seen |-> {}]
Asked(kind, K) == [kind |-> kind, keys |-> K, seen |-> {}]
Indexed == {k \in Keys : index[k] # NoSlot}
Active(j) == status[j] \in {"preparing", "store", "load"}

(* The history h after a step.                                             *)
Observed(h) ==
    [j \in Jobs |-> IF Active(j)' THEN [h[j] EXCEPT !.seen = @ \cup (h[j].keys \cap Indexed')]
                    ELSE NoHist]

TierStoreInit == Init /\ hist = [j \in Jobs |-> NoHist]

(* Without a block file, a key that is not located cannot be loaded.       *)
SubmitJob(p, j, K) ==
    \/ /\ PrepareStore(p, j, K)
       /\ hist' = Observed([hist EXCEPT ![j] = Asked("store", K)])
    \/ /\ SubmitLoad(p, j, K, \A k \in K : Located(p, k) # NoSlot)
       /\ hist' = Observed([hist EXCEPT ![j] = Asked("load", K)])

TierStoreNext ==
    \/ \E p \in Procs, j \in Jobs, K \in (SUBSET Keys) \ {{}} : SubmitJob(p, j, K)
    \/ /\ Next
       /\ \A j \in Jobs : status[j] = "free" => status'[j] = "free"
       /\ hist' = Observed(hist)

TierStoreSpec == TierStoreInit /\ [][TierStoreNext]_tierStoreVars

-----------------------------------------------------------------------------
JobView(j) ==
    IF status[j] = "free" THEN [phase |-> "idle"]
    ELSE IF Active(j) THEN [phase |-> "running", kind |-> hist[j].kind,
                            keys |-> hist[j].keys, seen |-> hist[j].seen]
    ELSE [phase |-> "done", ok |-> status[j] = "ok"]

Tier == INSTANCE KVTier WITH present <- Indexed, job <- [j \in Jobs |-> JobView(j)]

(* For a process that has the directory to itself: prepare_store, the       *)
(* write tasks, complete_store with its error paths, load_many, delete and  *)
(* restarts never report a success that no state of the index justifies,    *)
(* publish only what a store job was asked for, and report each job once.   *)
SegmentImplementsTier == Tier!TierSpec
================================================================================
