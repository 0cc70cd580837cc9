--------------------------- MODULE SegmentTierProofs ---------------------------
(* The segment layout implements the contract of KVTier for every value of *)
(* the constants, as long as one process has the directory to itself.      *)
EXTENDS SegmentTier, SegmentStoreProofs

(* The directory is not shared.  With two processes the contract does not  *)
(* hold: a cached location outlives a delete by the other process.         *)
OneProcess == \A p, q \in Procs : p = q

(* Only the segment layout's own process deletes, so its cache is not stale. *)
CacheIndexed == \A p \in Procs, k \in Keys : cache[p][k] # NoSlot => index[k] # NoSlot

JobsOwned == \A j \in Jobs : status[j] # "free" => owner[j] \in Procs

Histories == [kind : {"none", "store", "load"}, keys : SUBSET Keys, seen : SUBSET Keys]

(* A running job has seen those of its keys that are indexed now.           *)
JobsSee ==
    \A j \in Jobs : Active(j) =>
        /\ hist[j].kind = IF status[j] = "load" THEN "load" ELSE "store"
        /\ hist[j].keys \cap Indexed \subseteq hist[j].seen

(* Every key of a store job is in its plan, or was indexed while it ran, or *)
(* waits for prepare_store's allocation.                                    *)
StoresCovered ==
    \A j \in Jobs :
        /\ status[j] = "preparing" =>
             /\ pending \cup Planned(j) \subseteq hist[j].keys
             /\ hist[j].keys \subseteq hist[j].seen \cup Planned(j) \cup pending
        /\ status[j] = "store" =>
             /\ Planned(j) \subseteq hist[j].keys
             /\ hist[j].keys \subseteq hist[j].seen \cup Planned(j)

(* A load that can still succeed has located all its keys.                  *)
LoadsSeen == \A j \in Jobs : status[j] = "load" /\ good[j] => hist[j].keys \subseteq hist[j].seen

TierInv ==
    /\ Inv /\ CacheIndexed /\ JobsOwned /\ hist \in [Jobs -> Histories]
    /\ JobsSee /\ StoresCovered /\ LoadsSeen

-----------------------------------------------------------------------------
(* Facts about the history.                                                *)

LEMMA HistoryFacts ==
    ASSUME NEW h \in Histories
    PROVE  h.kind \in {"none", "store", "load"} /\ h.keys \in SUBSET Keys /\ h.seen \in SUBSET Keys
BY DEF Histories

(* A history that sees more keys.                                          *)
LEMMA HistorySees ==
    ASSUME NEW h \in Histories, NEW S \in SUBSET Keys
    PROVE  /\ [h EXCEPT !.seen = S] \in Histories
           /\ [h EXCEPT !.seen = S].kind = h.kind /\ [h EXCEPT !.seen = S].keys = h.keys
           /\ [h EXCEPT !.seen = S].seen = S
BY DEF Histories

LEMMA AskedFacts ==
    ASSUME NEW kind \in {"store", "load"}, NEW K \in SUBSET Keys
    PROVE  /\ Asked(kind, K) \in Histories /\ NoHist \in Histories
           /\ Asked(kind, K).kind = kind /\ Asked(kind, K).keys = K /\ Asked(kind, K).seen = {}
BY DEF Asked, NoHist, Histories

(* The keys indexed after a step.                                          *)
LEMMA IndexedPrimed == Indexed' = {k \in Keys : index'[k] # NoSlot} /\ Indexed' \in SUBSET Keys
BY DEF Indexed

(* What the history says after a step.                                     *)
LEMMA ObservedFacts ==
    ASSUME NEW h \in [Jobs -> Histories], hist' = Observed(h)
    PROVE  /\ hist' \in [Jobs -> Histories]
           /\ \A j \in Jobs : Active(j)' =>
                /\ hist'[j].kind = h[j].kind /\ hist'[j].keys = h[j].keys
                /\ hist'[j].seen = h[j].seen \cup (h[j].keys \cap Indexed')
<1> DEFINE X == Indexed'
<1>1. X \in SUBSET Keys
  BY IndexedPrimed
<1>2. hist' = [j \in Jobs |-> IF Active(j)' THEN [h[j] EXCEPT !.seen = @ \cup (h[j].keys \cap X)] ELSE NoHist]
  BY DEF Observed
<1> HIDE DEF X
<1>3. ASSUME NEW j \in Jobs, Active(j)'
      PROVE  /\ hist'[j] \in Histories
             /\ hist'[j].kind = h[j].kind /\ hist'[j].keys = h[j].keys
             /\ hist'[j].seen = h[j].seen \cup (h[j].keys \cap X)
  <2> DEFINE g == h[j]
             S == g.seen \cup (g.keys \cap X)
  <2>1. g \in Histories
    OBVIOUS
  <2>2. hist'[j] = [g EXCEPT !.seen = S]
    BY <1>2, <1>3
  <2>3. S \in SUBSET Keys
    BY <2>1, HistoryFacts
  <2> HIDE DEF g, S
  <2>4. /\ hist'[j] \in Histories /\ hist'[j].kind = g.kind
        /\ hist'[j].keys = g.keys /\ hist'[j].seen = S
    BY <2>1, <2>2, <2>3, HistorySees
  <2>5. QED
    BY <2>4 DEF g, S
<1>4. ASSUME NEW j \in Jobs
      PROVE  hist'[j] \in Histories
  <2>1. CASE Active(j)'
    BY <2>1, <1>3
  <2>2. CASE ~Active(j)'
    <3>1. hist'[j] = NoHist
      BY <1>2, <2>2
    <3>2. QED
      BY <3>1 DEF NoHist, Histories
  <2>3. QED
    BY <2>1, <2>2
<1>5. DOMAIN hist' = Jobs /\ hist' = [j \in Jobs |-> hist'[j]]
  BY <1>2
<1>6. hist' \in [Jobs -> Histories]
  BY <1>4, <1>5
<1>7. QED
  BY <1>3, <1>6 DEF X

(* A step of the store's own, which starts no job.                         *)
LEMMA HistoryKept ==
    ASSUME TierInv, Inv', CacheIndexed', JobsOwned', hist' = Observed(hist),
           \A j \in Jobs : status'[j] = "load" => status[j] = "load" /\ (good'[j] => good[j]),
           \A j \in Jobs : status'[j] = "preparing" =>
               /\ status[j] = "preparing" /\ pending' \cup Planned(j)' = pending \cup Planned(j),
           \A j \in Jobs : status'[j] = "store" =>
               /\ Planned(j)' = Planned(j)
               /\ status[j] = "store" \/ (status[j] = "preparing" /\ pending = {})
    PROVE  TierInv'
<1>1. \A j \in Jobs : Active(j)' => Active(j)
  BY DEF Active
<1>2. /\ hist' \in [Jobs -> Histories]
      /\ \A j \in Jobs : Active(j)' =>
           /\ hist'[j].kind = hist[j].kind /\ hist'[j].keys = hist[j].keys
           /\ hist'[j].seen = hist[j].seen \cup (hist[j].keys \cap Indexed')
  BY ObservedFacts DEF TierInv
<1>3. JobsSee'
  <2> SUFFICES ASSUME NEW j \in Jobs, Active(j)'
               PROVE  /\ hist'[j].kind = IF status'[j] = "load" THEN "load" ELSE "store"
                      /\ hist'[j].keys \cap Indexed' \subseteq hist'[j].seen
    BY DEF JobsSee
  <2>1. hist[j].kind = IF status[j] = "load" THEN "load" ELSE "store"
    BY <1>1 DEF TierInv, JobsSee
  <2>2. status'[j] = "load" <=> status[j] = "load"
    BY DEF Active
  <2>3. QED
    BY <1>2, <2>1, <2>2
<1>4. StoresCovered'
  <2>1. ASSUME NEW j \in Jobs, status'[j] = "preparing"
        PROVE  /\ pending' \cup Planned(j)' \subseteq hist'[j].keys
               /\ hist'[j].keys \subseteq hist'[j].seen \cup Planned(j)' \cup pending'
    <3>1. Active(j)'
      BY <2>1 DEF Active
    <3>2. /\ pending \cup Planned(j) \subseteq hist[j].keys
          /\ hist[j].keys \subseteq hist[j].seen \cup Planned(j) \cup pending
      BY <2>1 DEF TierInv, StoresCovered
    <3>3. QED
      BY <1>2, <2>1, <3>1, <3>2
  <2>2. ASSUME NEW j \in Jobs, status'[j] = "store"
        PROVE  /\ Planned(j)' \subseteq hist'[j].keys
               /\ hist'[j].keys \subseteq hist'[j].seen \cup Planned(j)'
    <3>1. Active(j)'
      BY <2>2 DEF Active
    <3>2. /\ Planned(j) \subseteq hist[j].keys
          /\ hist[j].keys \subseteq hist[j].seen \cup Planned(j)
      BY <2>2 DEF TierInv, StoresCovered
    <3>3. QED
      BY <1>2, <2>2, <3>1, <3>2
  <2>3. QED
    BY <2>1, <2>2 DEF StoresCovered
<1>5. LoadsSeen'
  <2> SUFFICES ASSUME NEW j \in Jobs, status'[j] = "load", good'[j]
               PROVE  hist'[j].keys \subseteq hist'[j].seen
    BY DEF LoadsSeen
  <2>1. Active(j)' /\ hist[j].keys \subseteq hist[j].seen
    BY DEF Active, TierInv, LoadsSeen
  <2>2. QED
    BY <1>2, <2>1
<1>6. QED
  BY <1>2, <1>3, <1>4, <1>5 DEF TierInv

(* Steps that leave index and cache alone keep the cache fresh.            *)
LEMMA CacheUntouched ==
    ASSUME TierInv, index' = index, cache' = cache
    PROVE  CacheIndexed'
BY DEF TierInv, CacheIndexed

(* A delete by the only process leaves no stale location in its cache.     *)
LEMMA CacheForgets ==
    ASSUME OneProcess, TierInv, NEW p \in Procs, NEW K \in SUBSET Keys,
           index' = Unindexed(K), cache' = Forget(p, K)
    PROVE  CacheIndexed'
<1> SUFFICES ASSUME NEW q \in Procs, NEW k \in Keys, cache'[q][k] # NoSlot
             PROVE  index'[k] # NoSlot
  BY DEF CacheIndexed
<1>1. q = p /\ cache \in [Procs -> Locations]
  BY DEF OneProcess, TierInv, Inv, TypeOK
<1>2. cache'[p][k] = IF k \in K /\ index[k] # NoSlot THEN NoSlot ELSE cache[p][k]
  BY <1>1 DEF Forget
<1>3. index'[k] = IF k \in K THEN NoSlot ELSE index[k]
  BY DEF Unindexed
<1>4. QED
  BY <1>1, <1>2, <1>3 DEF TierInv, CacheIndexed

(* A lookup remembers what the index says.                                 *)
LEMMA CacheRemembers ==
    ASSUME TierInv, NEW p \in Procs, NEW K \in SUBSET Keys, index' \in Locations,
           \A k \in Keys : index[k] # NoSlot => index'[k] # NoSlot,
           cache' = Remember(p, K, index')
    PROVE  CacheIndexed'
<1>1. \A q \in Procs, k \in Keys : cache'[q][k] \in {cache[q][k], index'[k]}
  BY RememberFacts DEF TierInv, Inv
<1>2. QED
  BY <1>1 DEF TierInv, CacheIndexed

-----------------------------------------------------------------------------
(* The invariant, step by step.                                            *)

(* A job that no step concerns has the same plan.                          *)
LEMMA PlannedSame ==
    ASSUME NEW j \in Jobs, plan'[j] = plan[j]
    PROVE  Planned(j)' = Planned(j)
BY DEF Planned

(* The steps of a store job before its completion.                         *)
LEMMA PrepareKeeps ==
    ASSUME TierInv, Inv', hist' = Observed(hist), NEW j \in Jobs,
           (\E k \in Keys : AllocateEntry(j, k)) \/ PrepareReturn(j) \/ PrepareAbort(j)
    PROVE  TierInv'
<1>1. /\ index' = index /\ cache' = cache /\ good' = good /\ status[j] = "preparing"
      /\ status \in [Jobs -> Phases] /\ owner \in [Jobs -> Procs \cup {NoProc}]
      /\ plan \in [Jobs -> Locations]
      /\ \A i \in Jobs : status[i] = "preparing" => i = j
  BY DEF AllocateEntry, PrepareReturn, PrepareAbort, dirVars, TierInv, Inv, TypeOK, SlotInv, JobsConsistent
<1>2. CacheIndexed'
  BY <1>1, CacheUntouched
<1>3. ASSUME NEW k \in Keys, AllocateEntry(j, k)
      PROVE  TierInv'
  <2>1. PICK slot \in Slots : plan' = [plan EXCEPT ![j] = [@ EXCEPT ![k] = slot]]
    BY <1>3, AllocateEntryFacts DEF TierInv
  <2>2. status' = status /\ owner' = owner /\ k \in pending /\ pending' = pending \ {k}
    BY <1>3 DEF AllocateEntry
  <2>3. plan[j] \in Locations /\ slot # NoSlot
    BY <1>1, <2>1, SlotFacts
  <2>4. \A l \in Keys : plan'[j][l] = IF l = k THEN slot ELSE plan[j][l]
    BY <1>1, <2>1, <2>3 DEF Locations
  <2>5. Planned(j)' = Planned(j) \cup {k}
    BY <2>3, <2>4 DEF Planned
  <2>6. \A i \in Jobs : i # j => plan'[i] = plan[i]
    BY <1>1, <2>1
  <2>7. \A i \in Jobs : i # j => Planned(i)' = Planned(i)
    BY <2>6, PlannedSame
  <2>8. JobsOwned'
    BY <2>2 DEF TierInv, JobsOwned
  <2>9. pending' \cup Planned(j)' = pending \cup Planned(j)
    BY <2>2, <2>5
  <2>10. QED
    BY <1>1, <1>2, <2>2, <2>7, <2>8, <2>9, HistoryKept
<1>4. CASE PrepareReturn(j)
  <2>1. /\ status' = [status EXCEPT ![j] = "store"] /\ owner' = owner /\ plan' = plan /\ pending = {}
    BY <1>4 DEF PrepareReturn
  <2>2. \A i \in Jobs : Planned(i)' = Planned(i)
    BY <2>1, PlannedSame
  <2>3. status'[j] = "store" /\ \A i \in Jobs : i # j => status'[i] = status[i]
    BY <1>1, <2>1
  <2>4. JobsOwned'
    BY <1>1, <2>1, <2>3 DEF TierInv, JobsOwned
  <2>5. QED
    BY <1>1, <1>2, <2>1, <2>2, <2>3, <2>4, HistoryKept
<1>5. CASE PrepareAbort(j)
  <2>1. /\ status'[j] = "free" /\ \A i \in Jobs : i # j => status'[i] = status[i]
        /\ \A i \in Jobs : i # j => owner'[i] = owner[i] /\ plan'[i] = plan[i]
    BY <1>1, <1>5 DEF PrepareAbort
  <2>2. \A i \in Jobs : i # j => Planned(i)' = Planned(i)
    BY <2>1, PlannedSame
  <2>3. JobsOwned'
    BY <2>1 DEF TierInv, JobsOwned
  <2>4. QED
    BY <1>1, <1>2, <2>1, <2>2, <2>3, HistoryKept
<1>6. QED
  BY <1>3, <1>4, <1>5

(* The tasks of a job, lookups and deletes: no job changes its phase.      *)
LEMMA TasksKeep ==
    ASSUME TierInv, Inv', CacheIndexed', hist' = Observed(hist),
           status' = status, owner' = owner, plan' = plan, pending' = pending,
           \A j \in Jobs : good'[j] => good[j]
    PROVE  TierInv'
<1>1. \A i \in Jobs : Planned(i)' = Planned(i)
  BY PlannedSame
<1>2. JobsOwned'
  BY DEF TierInv, JobsOwned
<1>3. QED
  BY <1>1, <1>2, HistoryKept

(* The end of a job, and the poll of its result.                           *)
LEMMA EndKeeps ==
    ASSUME TierInv, Inv', CacheIndexed', hist' = Observed(hist), NEW j \in Jobs,
           status'[j] \in {"ok", "failed", "free"},
           status'[j] # "free" => owner'[j] \in Procs,
           \A i \in Jobs : i # j => /\ status'[i] = status[i] /\ plan'[i] = plan[i]
                                    /\ owner'[i] = owner[i] /\ good'[i] = good[i],
           pending' = pending
    PROVE  TierInv'
<1>1. \A i \in Jobs : i # j => Planned(i)' = Planned(i)
  BY PlannedSame
<1>2. JobsOwned'
  BY DEF TierInv, JobsOwned
<1>3. status'[j] \notin {"load", "preparing", "store"}
  OBVIOUS
<1>4. QED
  BY <1>1, <1>2, <1>3, HistoryKept

(* A restart drops the jobs of its process.                                *)
LEMMA RestartKeeps ==
    ASSUME TierInv, Inv', hist' = Observed(hist), NEW p \in Procs, Restart(p)
    PROVE  TierInv'
<1>1. /\ index' = index /\ cache' = [cache EXCEPT ![p] = NoLocations]
      /\ cache \in [Procs -> Locations]
      /\ \A j \in Jobs : /\ owner[j] = p => status'[j] = "free"
                         /\ owner[j] # p => /\ status'[j] = status[j] /\ plan'[j] = plan[j]
                                            /\ good'[j] = good[j] /\ owner'[j] = owner[j]
  BY DEF Restart, dirVars, TierInv, Inv, TypeOK
<1>2. CacheIndexed'
  BY <1>1 DEF TierInv, CacheIndexed, NoLocations
<1>3. JobsOwned'
  BY <1>1 DEF TierInv, JobsOwned
<1>4. \A j \in Jobs : owner[j] # p => Planned(j)' = Planned(j)
  BY <1>1, PlannedSame
<1>5. ASSUME NEW j \in Jobs, status'[j] = "preparing"
      PROVE  status[j] = "preparing" /\ pending' = pending /\ Planned(j)' = Planned(j)
  <2>1. owner[j] # p /\ status[j] = "preparing"
    BY <1>1, <1>5
  <2>2. lock # p
    BY <2>1 DEF TierInv, Inv, SlotInv, JobsConsistent
  <2>3. pending' = pending
    BY <2>2 DEF Restart
  <2>4. QED
    BY <1>4, <2>1, <2>3
<1>6. \A j \in Jobs : status'[j] = "load" => status[j] = "load" /\ (good'[j] => good[j])
  BY <1>1
<1>7. \A j \in Jobs : status'[j] = "store" => Planned(j)' = Planned(j) /\ status[j] = "store"
  BY <1>1, <1>4
<1>8. QED
  BY <1>2, <1>3, <1>5, <1>6, <1>7, HistoryKept

(* The completion of a store inserts its planned keys.                     *)
LEMMA InsertedFacts ==
    ASSUME TierInv, NEW j \in Jobs, index' = Inserted(j)
    PROVE  /\ index' \in Locations
           /\ \A k \in Keys : index[k] # NoSlot => index'[k] # NoSlot
           /\ Indexed' = Indexed \cup Planned(j)
<1>1. index \in Locations /\ plan[j] \in Locations
  BY DEF TierInv, Inv, TypeOK
<1>2. \A k \in Keys : index'[k] = IF index[k] = NoSlot THEN plan[j][k] ELSE index[k]
  BY DEF Inserted
<1>3. index' \in Locations
  BY <1>1 DEF Inserted, Locations
<1>4. Indexed' = Indexed \cup Planned(j)
  BY <1>2 DEF Indexed, Planned
<1>5. QED
  BY <1>2, <1>3, <1>4

(* What task_done does to the jobs.                                        *)
LEMMA SettleFacts ==
    ASSUME TierInv, NEW j \in Jobs, NEW ok, Settle(j, ok)
    PROVE  /\ status'[j] = IF ok THEN "ok" ELSE "failed"
           /\ \A i \in Jobs : i # j => /\ status'[i] = status[i] /\ plan'[i] = plan[i]
                                       /\ owner'[i] = owner[i] /\ good'[i] = good[i]
           /\ owner' = owner
<1>1. status \in [Jobs -> Phases] /\ plan \in [Jobs -> Locations]
  BY DEF TierInv, Inv, TypeOK
<1>2. QED
  BY <1>1 DEF Settle

(* The completion of a store job.                                          *)
LEMMA CompleteKeeps ==
    ASSUME TierInv, Inv', hist' = Observed(hist), NEW j \in Jobs,
           \/ CompleteNothing(j) \/ CompleteStore(j)
           \/ \E committed \in BOOLEAN : CompleteFail(j, committed)
           \/ FinishLoad(j)
    PROVE  TierInv'
<1>1. /\ status[j] \in {"store", "load"} /\ pending' = pending
      /\ Settle(j, good[j]) \/ Settle(j, TRUE) \/ Settle(j, FALSE)
  BY DEF CompleteNothing, CompleteStore, CompleteFail, FinishLoad, TasksDone, prepVars
<1>2. /\ status'[j] \in {"ok", "failed"}
      /\ \A i \in Jobs : i # j => /\ status'[i] = status[i] /\ plan'[i] = plan[i]
                                  /\ owner'[i] = owner[i] /\ good'[i] = good[i]
      /\ owner' = owner
  BY <1>1, SettleFacts
<1>3. owner[j] \in Procs
  BY <1>1 DEF TierInv, JobsOwned
<1>4. CacheIndexed'
  <2>1. CASE index' = index /\ cache' = cache
    BY <2>1, CacheUntouched
  <2>2. CASE CompleteStore(j)
    <3>1. index' = Inserted(j) /\ cache' = Remember(owner[j], Planned(j), index') /\ Planned(j) \in SUBSET Keys
      BY <2>2 DEF CompleteStore, Planned
    <3>2. QED
      BY <1>3, <3>1, InsertedFacts, CacheRemembers
  <2>3. CASE index' = Inserted(j) /\ cache' = cache
    BY <2>3, InsertedFacts DEF TierInv, CacheIndexed
  <2>4. QED
    BY <2>1, <2>2, <2>3 DEF CompleteNothing, CompleteFail, FinishLoad, dirVars
<1>5. QED
  BY <1>1, <1>2, <1>3, <1>4, EndKeeps

(* A load chunk that fails deletes its keys, or not.                       *)
LEMMA ChunkFails ==
    ASSUME OneProcess, TierInv, NEW j \in Jobs, NEW g \in Segments, NEW deleted \in BOOLEAN,
           LoadChunkFail(j, g, deleted)
    PROVE  /\ CacheIndexed'
           /\ status' = status /\ owner' = owner /\ plan' = plan /\ pending' = pending
           /\ \A i \in Jobs : good'[i] => good[i]
           /\ \E K \in SUBSET Keys : Indexed' = Indexed \ K
<1>1. /\ status[j] = "load" /\ good' = [good EXCEPT ![j] = FALSE]
      /\ status' = status /\ owner' = owner /\ plan' = plan /\ pending' = pending
  BY DEF LoadChunkFail, prepVars
<1>2. \A i \in Jobs : good'[i] => good[i]
  <2>1. good \in [Jobs -> BOOLEAN]
    BY DEF TierInv, Inv, TypeOK
  <2>2. \A i \in Jobs : i # j => good'[i] = good[i]
    BY <1>1, <2>1, Zenon
  <2>3. ~good'[j]
    BY <1>1, <2>1, Zenon
  <2>4. QED
    BY <2>2, <2>3, Zenon
<1>3. Group(j, g) \in SUBSET Keys /\ owner[j] \in Procs
  BY <1>1 DEF Group, Planned, TierInv, JobsOwned
<1>4. CASE deleted
  <2>1. index' = Unindexed(Group(j, g)) /\ cache' = Forget(owner[j], Group(j, g))
    BY <1>4 DEF LoadChunkFail
  <2>2. CacheIndexed'
    BY <1>3, <2>1, CacheForgets
  <2>3. Indexed' = Indexed \ Group(j, g)
    BY <2>1 DEF Indexed, Unindexed
  <2>4. QED
    BY <1>1, <1>2, <1>3, <2>2, <2>3
<1>5. CASE ~deleted
  <2>1. index' = index /\ cache' = cache
    BY <1>5 DEF LoadChunkFail
  <2>2. CacheIndexed' /\ Indexed' = Indexed \ {}
    BY <2>1, CacheUntouched DEF Indexed
  <2>3. QED
    BY <1>1, <1>2, <2>2
<1>6. QED
  BY <1>4, <1>5

(* A new job: the keys it need not store are indexed, and a load can only  *)
(* succeed when all its keys are.                                          *)
LEMMA SubmitKeeps ==
    ASSUME TierInv, Inv', CacheIndexed', NEW j \in Jobs, NEW kind \in {"store", "load"},
           NEW K \in SUBSET Keys,
           hist' = Observed([hist EXCEPT ![j] = Asked(kind, K)]),
           index' = index, owner'[j] \in Procs,
           \A i \in Jobs : i # j => /\ status'[i] = status[i] /\ plan'[i] = plan[i]
                                    /\ owner'[i] = owner[i] /\ good'[i] = good[i],
           \A i \in Jobs : i # j /\ status[i] = "preparing" => pending' = pending,
           \/ /\ status'[j] = "preparing" /\ kind = "store" /\ plan'[j] = NoLocations
              /\ pending' \subseteq K /\ K \ pending' \subseteq Indexed
           \/ status'[j] = "load" /\ kind = "load" /\ (good'[j] => K \subseteq Indexed)
    PROVE  TierInv' /\ hist'[j].kind = kind /\ hist'[j].keys = K /\ hist'[j].seen = K \cap Indexed
<1> DEFINE h == [hist EXCEPT ![j] = Asked(kind, K)]
<1>1. /\ hist \in [Jobs -> Histories] /\ h \in [Jobs -> Histories]
      /\ h[j] = Asked(kind, K) /\ \A i \in Jobs : i # j => h[i] = hist[i]
  BY AskedFacts DEF TierInv
<1>2. h[j].kind = kind /\ h[j].keys = K /\ h[j].seen = {}
  BY <1>1, AskedFacts
<1>3. hist' = Observed(h) /\ Indexed' = Indexed
  BY DEF Indexed
<1> HIDE DEF h
<1>4. /\ hist' \in [Jobs -> Histories]
      /\ \A i \in Jobs : Active(i)' =>
           /\ hist'[i].kind = h[i].kind /\ hist'[i].keys = h[i].keys
           /\ hist'[i].seen = h[i].seen \cup (h[i].keys \cap Indexed)
  BY <1>1, <1>3, ObservedFacts
<1>5. Active(j)'
  BY DEF Active
<1>6. hist'[j].kind = kind /\ hist'[j].keys = K /\ hist'[j].seen = K \cap Indexed
  BY <1>2, <1>4, <1>5
<1>7. ASSUME NEW i \in Jobs, i # j, Active(i)'
      PROVE  /\ Active(i) /\ hist'[i].kind = hist[i].kind /\ hist'[i].keys = hist[i].keys
             /\ hist'[i].seen = hist[i].seen
             /\ hist[i].keys \cap Indexed \subseteq hist[i].seen
  <2>1. Active(i)
    BY <1>7 DEF Active
  <2>2. hist[i].keys \cap Indexed \subseteq hist[i].seen
    BY <2>1 DEF TierInv, JobsSee
  <2>3. h[i] = hist[i]
    BY <1>1, <1>7
  <2>4. /\ hist'[i].kind = hist[i].kind /\ hist'[i].keys = hist[i].keys
        /\ hist'[i].seen = hist[i].seen \cup (hist[i].keys \cap Indexed)
    BY <1>4, <1>7, <2>3
  <2>5. hist[i].seen \cup (hist[i].keys \cap Indexed) = hist[i].seen
    BY <2>2
  <2>6. QED
    BY <2>1, <2>2, <2>4, <2>5
<1>8. JobsSee'
  <2> SUFFICES ASSUME NEW i \in Jobs, Active(i)'
               PROVE  /\ hist'[i].kind = IF status'[i] = "load" THEN "load" ELSE "store"
                      /\ hist'[i].keys \cap Indexed' \subseteq hist'[i].seen
    BY DEF JobsSee
  <2>1. CASE i = j
    BY <1>3, <1>6, <2>1
  <2>2. CASE i # j
    BY <1>3, <1>7, <2>2 DEF TierInv, JobsSee
  <2>3. QED
    BY <2>1, <2>2
<1>9. JobsOwned'
  BY DEF TierInv, JobsOwned
<1>10. StoresCovered'
  <2>1. ASSUME NEW i \in Jobs, i # j
        PROVE  /\ status'[i] = "preparing" =>
                    /\ pending' \cup Planned(i)' \subseteq hist'[i].keys
                    /\ hist'[i].keys \subseteq hist'[i].seen \cup Planned(i)' \cup pending'
               /\ status'[i] = "store" =>
                    /\ Planned(i)' \subseteq hist'[i].keys
                    /\ hist'[i].keys \subseteq hist'[i].seen \cup Planned(i)'
    <3>1. Planned(i)' = Planned(i)
      BY <2>1, PlannedSame
    <3>2. status'[i] \in {"preparing", "store"} => Active(i)'
      BY DEF Active
    <3>3. QED
      BY <1>7, <2>1, <3>1, <3>2 DEF TierInv, StoresCovered
  <2>2. status'[j] = "preparing" =>
          /\ pending' \cup Planned(j)' \subseteq hist'[j].keys
          /\ hist'[j].keys \subseteq hist'[j].seen \cup Planned(j)' \cup pending'
    <3> SUFFICES ASSUME status'[j] = "preparing"
                 PROVE  /\ pending' \cup Planned(j)' \subseteq hist'[j].keys
                        /\ hist'[j].keys \subseteq hist'[j].seen \cup Planned(j)' \cup pending'
      OBVIOUS
    <3>1. Planned(j)' = {}
      BY DEF Planned, NoLocations
    <3>2. QED
      BY <1>6, <3>1
  <2>3. status'[j] # "store"
    OBVIOUS
  <2>4. QED
    BY <2>1, <2>2, <2>3 DEF StoresCovered
<1>11. LoadsSeen'
  <2> SUFFICES ASSUME NEW i \in Jobs, status'[i] = "load", good'[i]
               PROVE  hist'[i].keys \subseteq hist'[i].seen
    BY DEF LoadsSeen
  <2>1. CASE i = j
    BY <1>6, <2>1
  <2>2. CASE i # j
    <3>1. Active(i)' /\ status[i] = "load" /\ good[i]
      BY <2>2, Zenon DEF Active
    <3>2. QED
      BY <1>7, <2>2, <3>1 DEF TierInv, LoadsSeen
  <2>3. QED
    BY <2>1, <2>2
<1>12. QED
  BY <1>4, <1>6, <1>8, <1>9, <1>10, <1>11 DEF TierInv

(* Submitting a job is a step of the store.                                *)
LEMMA SubmitIsNext ==
    ASSUME NEW p \in Procs, NEW j \in Jobs, NEW K \in (SUBSET Keys) \ {{}}, SubmitJob(p, j, K)
    PROVE  Next
<1> DEFINE all == \A k \in K : Located(p, k) # NoSlot
<1>1. CASE PrepareStore(p, j, K)
  BY <1>1 DEF Next, StoreStep
<1>2. CASE SubmitLoad(p, j, K, all)
  <2> HIDE DEF all
  <2>1. CASE all
    <3>1. all = TRUE
      BY <2>1, Zenon
    <3>2. SubmitLoad(p, j, K, TRUE)
      BY <1>2, <3>1, Zenon
    <3>3. QED
      BY <3>2 DEF Next, LoadStep
  <2>2. CASE ~all
    <3>1. all = FALSE
      BY <2>2, Zenon DEF all
    <3>2. SubmitLoad(p, j, K, FALSE)
      BY <1>2, <3>1, Zenon
    <3>3. QED
      BY <3>2 DEF Next, LoadStep
  <2>3. QED
    BY <2>1, <2>2
<1>3. QED
  BY <1>1, <1>2 DEF SubmitJob

(* What submit_store and submit_load do.                                   *)
LEMMA SubmitFacts ==
    ASSUME TierInv, Inv', NEW p \in Procs, NEW j \in Jobs, NEW K \in SUBSET Keys, SubmitJob(p, j, K)
    PROVE  /\ TierInv' /\ index' = index /\ status[j] = "free" /\ Active(j)'
           /\ \A i \in Jobs : i # j => status'[i] = status[i]
           /\ \E kind \in {"store", "load"} :
                /\ hist' = Observed([hist EXCEPT ![j] = Asked(kind, K)])
                /\ hist'[j].kind = kind /\ hist'[j].keys = K /\ hist'[j].seen = K \cap Indexed
<1>1. /\ index \in Locations /\ status \in [Jobs -> Phases] /\ owner \in [Jobs -> Procs \cup {NoProc}]
      /\ plan \in [Jobs -> Locations]
  BY DEF TierInv, Inv, TypeOK
<1>2. \A k \in Keys : Located(p, k) # NoSlot => k \in Indexed
  BY DEF Located, Indexed, TierInv, CacheIndexed
<1>3. ASSUME index' = index, cache' = Remember(p, K, index)
      PROVE  CacheIndexed'
  BY <1>1, <1>3, CacheRemembers
<1>4. CASE /\ PrepareStore(p, j, K)
           /\ hist' = Observed([hist EXCEPT ![j] = Asked("store", K)])
  <2>1. /\ status[j] = "free" /\ lock = NoProc /\ pending' = {k \in K : Located(p, k) = NoSlot}
        /\ status' = [status EXCEPT ![j] = "preparing"] /\ owner' = [owner EXCEPT ![j] = p]
        /\ cache' = Remember(p, K, index) /\ index' = index /\ plan' = plan /\ good' = good
    BY <1>4 DEF PrepareStore, dirVars
  <2>2. CacheIndexed'
    BY <1>3, <2>1
  <2>3. plan'[j] = NoLocations /\ \A i \in Jobs : status[i] # "preparing"
    BY <2>1, ConstantsAssumption DEF TierInv, Inv, SlotInv, JobsConsistent
  <2>4. /\ status'[j] = "preparing" /\ owner'[j] = p
        /\ \A i \in Jobs : i # j => /\ status'[i] = status[i] /\ plan'[i] = plan[i]
                                    /\ owner'[i] = owner[i] /\ good'[i] = good[i]
    BY <1>1, <2>1
  <2>5. pending' \subseteq K /\ K \ pending' \subseteq Indexed
    BY <1>2, <2>1
  <2>6. TierInv' /\ hist'[j].kind = "store" /\ hist'[j].keys = K /\ hist'[j].seen = K \cap Indexed
    BY <1>4, <2>1, <2>2, <2>3, <2>4, <2>5, SubmitKeeps
  <2>7. "store" \in {"store", "load"}
    OBVIOUS
  <2>8. \E kind \in {"store", "load"} :
          /\ hist' = Observed([hist EXCEPT ![j] = Asked(kind, K)])
          /\ hist'[j].kind = kind /\ hist'[j].keys = K /\ hist'[j].seen = K \cap Indexed
    BY <1>4, <2>6, <2>7, Zenon
  <2>9. Active(j)'
    BY <2>4 DEF Active
  <2>10. QED
    BY <2>1, <2>4, <2>6, <2>8, <2>9
<1>5. CASE /\ SubmitLoad(p, j, K, \A k \in K : Located(p, k) # NoSlot)
           /\ hist' = Observed([hist EXCEPT ![j] = Asked("load", K)])
  <2> DEFINE all == \A k \in K : Located(p, k) # NoSlot
             at == [k \in Keys |-> IF k \in K THEN Located(p, k) ELSE NoSlot]
  <2>1. /\ status[j] = "free" /\ status' = [status EXCEPT ![j] = "load"]
        /\ owner' = [owner EXCEPT ![j] = p] /\ plan' = [plan EXCEPT ![j] = at]
        /\ cache' = Remember(p, K, index) /\ index' = index /\ pending' = pending
    BY <1>5 DEF SubmitLoad, dirVars, prepVars
  <2>2. good' = [good EXCEPT ![j] = all]
    BY <1>5, Zenon DEF SubmitLoad
  <2>3. good \in [Jobs -> BOOLEAN]
    BY DEF TierInv, Inv, TypeOK
  <2>4. good'[j] => K \subseteq Indexed
    <3> HIDE DEF all
    <3>1. good'[j] = all
      BY <2>2, <2>3, Zenon
    <3>2. all => K \subseteq Indexed
      BY <1>2 DEF all
    <3>3. QED
      BY <3>1, <3>2, Zenon
  <2>5. \A i \in Jobs : i # j => good'[i] = good[i]
    <3> HIDE DEF all
    <3>1. QED
      BY <2>2, <2>3, Zenon
  <2>6. /\ status'[j] = "load" /\ owner'[j] = p
        /\ \A i \in Jobs : i # j => /\ status'[i] = status[i] /\ plan'[i] = plan[i]
                                    /\ owner'[i] = owner[i]
    BY <1>1, <2>1
  <2>7. CacheIndexed'
    BY <1>3, <2>1
  <2> HIDE DEF all, at
  <2>8. TierInv' /\ hist'[j].kind = "load" /\ hist'[j].keys = K /\ hist'[j].seen = K \cap Indexed
    BY <1>5, <2>1, <2>4, <2>5, <2>6, <2>7, SubmitKeeps
  <2>9. "load" \in {"store", "load"}
    OBVIOUS
  <2>10. \E kind \in {"store", "load"} :
          /\ hist' = Observed([hist EXCEPT ![j] = Asked(kind, K)])
          /\ hist'[j].kind = kind /\ hist'[j].keys = K /\ hist'[j].seen = K \cap Indexed
    BY <1>5, <2>8, <2>9, Zenon
  <2>11. Active(j)'
    BY <2>6 DEF Active
  <2>12. QED
    BY <2>1, <2>6, <2>8, <2>10, <2>11
<1>6. QED
  BY <1>4, <1>5 DEF SubmitJob

(* The steps of the store that start no job.                               *)
OwnStep ==
    /\ Next
    /\ \A j \in Jobs : status[j] = "free" => status'[j] = "free"
    /\ hist' = Observed(hist)

(* An own step is none of the submissions.                                 *)
LEMMA NoSubmission ==
    ASSUME TierInv, NEW j \in Jobs, status[j] = "free" => status'[j] = "free", NEW p, NEW K, NEW ok
    PROVE  ~PrepareStore(p, j, K) /\ ~SubmitLoad(p, j, K, ok)
<1>1. status \in [Jobs -> Phases]
  BY DEF TierInv, Inv, TypeOK
<1>2. ASSUME PrepareStore(p, j, K)
      PROVE  FALSE
  <2>1. status[j] = "free" /\ status' = [status EXCEPT ![j] = "preparing"]
    BY <1>2 DEF PrepareStore
  <2>2. QED
    BY <1>1, <2>1
<1>3. ASSUME SubmitLoad(p, j, K, ok)
      PROVE  FALSE
  <2>1. status[j] = "free" /\ status' = [status EXCEPT ![j] = "load"]
    BY <1>3 DEF SubmitLoad
  <2>2. QED
    BY <1>1, <2>1
<1>4. QED
  BY <1>2, <1>3

(* A task that a worker starts or ends.                                    *)
LEMMA TaskFacts ==
    ASSUME TierInv, NEW j \in Jobs, NEW g,
           WriteBegin(j, g) \/ WriteEnd(j, g) \/ WriteFail(j, g) \/ LoadChunk(j, g)
    PROVE  /\ index' = index /\ cache' = cache /\ status' = status /\ owner' = owner
           /\ plan' = plan /\ pending' = pending /\ \A i \in Jobs : good'[i] => good[i]
<1>1. /\ index' = index /\ cache' = cache /\ status' = status /\ owner' = owner
      /\ plan' = plan /\ pending' = pending
  BY DEF WriteBegin, WriteEnd, WriteFail, LoadChunk, dirVars, prepVars
<1>2. \A i \in Jobs : good'[i] => good[i]
  <2>1. CASE good' = good
    BY <2>1, Zenon
  <2>2. CASE good' = [good EXCEPT ![j] = FALSE]
    <3>1. good \in [Jobs -> BOOLEAN]
      BY DEF TierInv, Inv, TypeOK
    <3>2. (\A i \in Jobs : i # j => good'[i] = good[i]) /\ ~good'[j]
      BY <2>2, <3>1, Zenon
    <3>3. QED
      BY <3>2, Zenon
  <2>3. QED
    BY <2>1, <2>2 DEF WriteBegin, WriteEnd, WriteFail, LoadChunk
<1>3. QED
  BY <1>1, <1>2

(* What Poll does.                                                         *)
LEMMA PollFacts ==
    ASSUME TierInv, NEW j \in Jobs, Poll(j)
    PROVE  /\ status[j] \in {"ok", "failed"} /\ status'[j] = "free"
           /\ index' = index /\ cache' = cache /\ pending' = pending
           /\ \A i \in Jobs : i # j => /\ status'[i] = status[i] /\ plan'[i] = plan[i]
                                       /\ owner'[i] = owner[i] /\ good'[i] = good[i]
<1>1. status \in [Jobs -> Phases] /\ owner \in [Jobs -> Procs \cup {NoProc}] /\ good \in [Jobs -> BOOLEAN]
  BY DEF TierInv, Inv, TypeOK
<1>2. \A i \in Jobs : i # j => good'[i] = good[i]
  <2>1. good' = [good EXCEPT ![j] = TRUE]
    BY DEF Poll
  <2>2. QED
    BY <1>1, <2>1, Zenon
<1>3. QED
  BY <1>1, <1>2 DEF Poll, dirVars, prepVars

(* The store's own steps keep the invariant.                               *)
LEMMA OwnStepKeeps ==
    ASSUME OneProcess, TierInv, Inv', OwnStep
    PROVE  TierInv'
<1>1. hist' = Observed(hist)
  BY DEF OwnStep
<1>2. ASSUME NEW j \in Jobs, StoreStep(j) \/ LoadStep(j) \/ Poll(j)
      PROVE  TierInv'
  <2>1. ASSUME NEW g, WriteBegin(j, g) \/ WriteEnd(j, g) \/ WriteFail(j, g) \/ LoadChunk(j, g)
        PROVE  TierInv'
    BY <1>1, <2>1, TaskFacts, CacheUntouched, TasksKeep
  <2>2. ASSUME NEW g \in Segments, NEW deleted \in BOOLEAN, LoadChunkFail(j, g, deleted)
        PROVE  TierInv'
    BY <1>1, <2>2, ChunkFails, TasksKeep
  <2>3. CASE Poll(j)
    BY <1>1, <2>3, PollFacts, CacheUntouched, EndKeeps
  <2>4. QED
    BY <1>1, <1>2, <2>1, <2>2, <2>3, PrepareKeeps, CompleteKeeps, NoSubmission
       DEF OwnStep, StoreStep, LoadStep
<1>3. ASSUME NEW p \in Procs, NEW K \in (SUBSET Keys) \ {{}}, Lookup(p, K) \/ Delete(p, K)
      PROVE  TierInv'
  <2>1. /\ status' = status /\ owner' = owner /\ plan' = plan /\ pending' = pending /\ good' = good
    BY <1>3 DEF Lookup, Delete, prepVars, jobVars
  <2>2. CacheIndexed'
    <3>1. CASE Lookup(p, K)
      <4>1. index' = index /\ cache' = Remember(p, K, index') /\ index \in Locations
        BY <3>1 DEF Lookup, dirVars, TierInv, Inv, TypeOK
      <4>2. QED
        BY <4>1, CacheRemembers
    <3>2. CASE Delete(p, K)
      BY <3>2, CacheForgets DEF Delete
    <3>3. QED
      BY <1>3, <3>1, <3>2
  <2>3. QED
    BY <1>1, <2>1, <2>2, TasksKeep
<1>4. QED
  BY <1>1, <1>2, <1>3, RestartKeeps DEF OwnStep, Next

(* Every step keeps the invariant.                                         *)
LEMMA TierInvStep ==
    ASSUME OneProcess, TierInv, [TierStoreNext]_tierStoreVars
    PROVE  TierInv'
<1>1. ASSUME NEW p \in Procs, NEW j \in Jobs, NEW K \in (SUBSET Keys) \ {{}}, SubmitJob(p, j, K)
      PROVE  TierInv'
  <2>1. Inv'
    BY <1>1, SubmitIsNext, InvStep DEF TierInv
  <2>2. QED
    BY <1>1, <2>1, SubmitFacts
<1>2. CASE OwnStep
  BY <1>2, OwnStepKeeps, InvStep DEF OwnStep, TierInv
<1>3. CASE UNCHANGED tierStoreVars
  <2>1. UNCHANGED <<index, cache, status, owner, plan, pending, good, hist>> /\ UNCHANGED vars
    BY <1>3 DEF tierStoreVars, vars, dirVars, prepVars, jobVars
  <2>2. Inv'
    BY <2>1, InvStep DEF TierInv
  <2>3. CacheIndexed' /\ JobsOwned' /\ JobsSee' /\ hist' \in [Jobs -> Histories]
    BY <2>1 DEF TierInv, CacheIndexed, JobsOwned, JobsSee, Active, Indexed
  <2>4. StoresCovered'
    BY <2>1 DEF TierInv, StoresCovered, Planned
  <2>5. LoadsSeen'
    BY <2>1, Zenon DEF TierInv, LoadsSeen
  <2>6. QED
    BY <2>2, <2>3, <2>4, <2>5 DEF TierInv
<1>4. QED
  BY <1>1, <1>2, <1>3 DEF TierStoreNext, OwnStep

(* The invariant holds of a store that has just been opened.               *)
LEMMA TierInvInit ==
    ASSUME TierStoreInit
    PROVE  TierInv
<1>1. /\ Init /\ hist = [j \in Jobs |-> NoHist] /\ status = [j \in Jobs |-> "free"]
      /\ cache = [p \in Procs |-> NoLocations]
  BY DEF TierStoreInit, Init, ProcInit
<1>2. Inv
  BY <1>1, TypeInit, SlotInvInit DEF Inv
<1>3. NoHist \in Histories
  BY DEF NoHist, Histories
<1>4. hist \in [Jobs -> Histories]
  BY <1>1, <1>3
<1>5. CacheIndexed /\ JobsOwned /\ JobsSee /\ StoresCovered /\ LoadsSeen
  BY <1>1 DEF CacheIndexed, NoLocations, JobsOwned, JobsSee, Active, StoresCovered, LoadsSeen
<1>6. QED
  BY <1>2, <1>4, <1>5 DEF TierInv

(* The invariant behind the refinement: the process's cache is never       *)
(* stale, and every key of a job that may still succeed was indexed while  *)
(* the job ran or is still to be published by it.                          *)
THEOREM SegmentTierInvariant ==
    ASSUME OneProcess
    PROVE  TierStoreSpec => []TierInv
<1>1. TierStoreInit => TierInv
  BY TierInvInit
<1>2. TierInv /\ [TierStoreNext]_tierStoreVars => TierInv'
  BY TierInvStep
<1>3. QED
  BY <1>1, <1>2, PTL DEF TierStoreSpec

-----------------------------------------------------------------------------
(* The refinement, step by step.                                           *)

View == [j \in Jobs |-> JobView(j)]

(* What the contract sees of a job.                                        *)
LEMMA ViewFacts ==
    ASSUME NEW j \in Jobs
    PROVE  /\ status[j] = "free" => View[j] = Tier!Idle
           /\ Active(j) => View[j] = Tier!Running(hist[j].kind, hist[j].keys, hist[j].seen)
           /\ status[j] \in {"ok", "failed"} => View[j] = Tier!Done(status[j] = "ok")
BY DEF View, JobView, Active, Tier!Idle, Tier!Done, Tier!Running

(* The same of the next state.                                             *)
LEMMA ViewFactsPrimed ==
    ASSUME NEW j \in Jobs
    PROVE  /\ status'[j] = "free" => View'[j] = Tier!Idle
           /\ Active(j)' => View'[j] = Tier!Running(hist'[j].kind, hist'[j].keys, hist'[j].seen)
           /\ status'[j] \in {"ok", "failed"} => View'[j] = Tier!Done(status'[j] = "ok")
BY DEF View, JobView, Active, Tier!Idle, Tier!Done, Tier!Running

LEMMA PhaseFacts ==
    /\ Tier!Idle.phase = "idle"
    /\ \A ok : Tier!Done(ok).phase = "done"
    /\ \A kind, K, S : /\ Tier!Running(kind, K, S).phase = "running"
                      /\ Tier!Running(kind, K, S).kind = kind
                      /\ Tier!Running(kind, K, S).keys = K
                      /\ Tier!Running(kind, K, S).seen = S
BY DEF Tier!Idle, Tier!Done, Tier!Running

(* What the witnessing of the keys S does to the view y of one job.        *)
Widened(y, S) == IF y.phase = "running" THEN [y EXCEPT !.seen = @ \cup (y.keys \cap S)] ELSE y

LEMMA WidenedRunning ==
    ASSUME NEW kind, NEW K, NEW seen, NEW S, NEW y, y = Tier!Running(kind, K, seen)
    PROVE  Widened(y, S) = Tier!Running(kind, K, seen \cup (K \cap S))
<1>1. y.phase = "running" /\ y.keys = K
  BY DEF Tier!Running
<1>2. [y EXCEPT !.seen = @ \cup (K \cap S)] = Tier!Running(kind, K, seen \cup (K \cap S))
  BY DEF Tier!Running
<1>3. QED
  BY <1>1, <1>2, Zenon DEF Widened

(* A job that goes on has seen the keys published by the step.             *)
LEMMA ActiveView ==
    ASSUME TierInv, hist' = Observed(hist), NEW j \in Jobs, Active(j), Active(j)',
           NEW S, S \subseteq Indexed', Indexed' \subseteq Indexed \cup S
    PROVE  View'[j] = Widened(View[j], S)
<1>1. hist[j].keys \cap Indexed \subseteq hist[j].seen
  BY DEF TierInv, JobsSee
<1>2. /\ hist'[j].kind = hist[j].kind /\ hist'[j].keys = hist[j].keys
      /\ hist'[j].seen = hist[j].seen \cup (hist[j].keys \cap Indexed')
  BY ObservedFacts DEF TierInv
<1>3. hist[j].seen \cup (hist[j].keys \cap Indexed') = hist[j].seen \cup (hist[j].keys \cap S)
  BY <1>1
<1>4. View[j] = Tier!Running(hist[j].kind, hist[j].keys, hist[j].seen)
  BY ViewFacts
<1>5. View'[j] = Tier!Running(hist[j].kind, hist[j].keys, hist[j].seen \cup (hist[j].keys \cap S))
  BY <1>2, <1>3, ViewFactsPrimed
<1>6. Widened(View[j], S) = Tier!Running(hist[j].kind, hist[j].keys, hist[j].seen \cup (hist[j].keys \cap S))
  BY <1>4, WidenedRunning
<1>7. QED
  BY <1>5, <1>6

(* A job that no step concerns, when nothing is published.                 *)
LEMMA SameView ==
    ASSUME TierInv, hist' = Observed(hist), NEW j \in Jobs, Indexed' \subseteq Indexed,
           (Active(j) /\ Active(j)') \/ (~Active(j) /\ status'[j] = status[j])
    PROVE  View'[j] = View[j]
<1>1. CASE Active(j) /\ Active(j)'
  <2>1. View[j] = Tier!Running(hist[j].kind, hist[j].keys, hist[j].seen)
    BY <1>1, ViewFacts
  <2>2. View'[j] = Widened(View[j], {})
    BY <1>1, ActiveView
  <2>3. Widened(View[j], {}) = Tier!Running(hist[j].kind, hist[j].keys, hist[j].seen \cup (hist[j].keys \cap {}))
    BY <2>1, WidenedRunning
  <2>4. hist[j].seen \cup (hist[j].keys \cap {}) = hist[j].seen
    OBVIOUS
  <2>5. QED
    BY <2>1, <2>2, <2>3, <2>4
<1>2. CASE ~Active(j) /\ status'[j] = status[j]
  <2>1. status[j] \in {"free", "ok", "failed"}
    BY <1>2 DEF TierInv, Inv, TypeOK, Phases, Active
  <2>2. CASE status[j] = "free"
    BY <1>2, <2>2, ViewFacts, ViewFactsPrimed
  <2>3. CASE status[j] \in {"ok", "failed"}
    <3>1. View[j] = Tier!Done(status[j] = "ok")
      BY <2>3, ViewFacts
    <3>2. View'[j] = Tier!Done(status'[j] = "ok")
      BY <1>2, <2>3, ViewFactsPrimed
    <3>3. QED
      BY <1>2, <3>1, <3>2
  <2>4. QED
    BY <2>1, <2>2, <2>3
<1>3. QED
  BY <1>1, <1>2

(* Keys leave the index, or nothing the contract sees happens.             *)
LEMMA RemoveRefines ==
    ASSUME TierInv, hist' = Observed(hist), NEW K \in SUBSET Keys, Indexed' = Indexed \ K,
           \A j \in Jobs : (Active(j) /\ Active(j)') \/ (~Active(j) /\ status'[j] = status[j])
    PROVE  Tier!TierNext
<1>1. \A j \in Jobs : View'[j] = View[j]
  BY SameView
<1>2. View' = View
  BY <1>1 DEF View
<1>3. Tier!Remove(K)
  BY <1>2 DEF Tier!Remove, View
<1>4. QED
  BY <1>3 DEF Tier!TierNext

(* Jobs that end without a result.                                         *)
LEMMA AbandonRefines ==
    ASSUME TierInv, hist' = Observed(hist), NEW S \in SUBSET Jobs, Indexed' = Indexed,
           \A j \in S : status'[j] = "free",
           \A j \in Jobs \ S : status'[j] = status[j]
    PROVE  Tier!TierNext
<1>1. \A j \in S : View'[j] = Tier!Idle
  BY ViewFactsPrimed
<1>2. \A j \in Jobs \ S : View'[j] = View[j]
  BY SameView DEF Active
<1>3. View' = [j \in Jobs |-> IF j \in S THEN Tier!Idle ELSE View[j]]
  BY <1>1, <1>2 DEF View
<1>4. Tier!Abandon(S)
  BY <1>3 DEF Tier!Abandon, View
<1>5. QED
  BY <1>4 DEF Tier!TierNext

(* get_finished_jobs                                                       *)
LEMMA PollRefines ==
    ASSUME TierInv, hist' = Observed(hist), NEW j \in Jobs, Poll(j)
    PROVE  Tier!TierNext
<1>1. /\ status[j] \in {"ok", "failed"} /\ status'[j] = "free" /\ index' = index
      /\ \A i \in Jobs : i # j => status'[i] = status[i]
  BY PollFacts
<1>2. View[j] = Tier!Done(status[j] = "ok") /\ View'[j] = Tier!Idle
  BY <1>1, ViewFacts, ViewFactsPrimed
<1>3. Indexed' = Indexed
  BY <1>1 DEF Indexed
<1>4. \A i \in Jobs : i # j => View'[i] = View[i]
  BY <1>1, <1>3, SameView DEF Active
<1>5. View' = [View EXCEPT ![j] = Tier!Idle]
  BY <1>2, <1>4 DEF View
<1>6. View[j].phase = "done"
  BY <1>2, PhaseFacts
<1>7. Tier!Collect(j)
  BY <1>3, <1>5, <1>6 DEF Tier!Collect, View
<1>8. QED
  BY <1>7 DEF Tier!TierNext, Tier!JobStep

(* A job that ends with a result, publishing the keys K.                   *)
LEMMA EndRefines ==
    ASSUME TierInv, hist' = Observed(hist), NEW j \in Jobs, NEW ok \in BOOLEAN, NEW K,
           Active(j), status'[j] = IF ok THEN "ok" ELSE "failed",
           \A i \in Jobs : i # j => status'[i] = status[i],
           Indexed' = Indexed \cup K, K \subseteq hist[j].keys,
           K # {} => status[j] = "store",
           ok => hist[j].keys \subseteq hist[j].seen \cup K
    PROVE  Tier!TierNext
<1>1. View[j] = Tier!Running(hist[j].kind, hist[j].keys, hist[j].seen)
  BY ViewFacts
<1>2. /\ View[j].phase = "running" /\ View[j].kind = hist[j].kind
      /\ View[j].keys = hist[j].keys /\ View[j].seen = hist[j].seen
  BY <1>1, PhaseFacts
<1>3. K # {} => hist[j].kind = "store"
  BY DEF TierInv, JobsSee
<1>4. View'[j] = Tier!Done(ok)
  <2>1. View'[j] = Tier!Done(status'[j] = "ok")
    BY ViewFactsPrimed
  <2>2. (status'[j] = "ok") = ok
    OBVIOUS
  <2>3. QED
    BY <2>1, <2>2, Zenon
<1>5. ASSUME NEW i \in Jobs, i # j
      PROVE  View'[i] = Widened(View[i], K)
  <2>1. CASE Active(i)
    <3>1. Active(i)'
      BY <1>5, <2>1 DEF Active
    <3>2. QED
      BY <2>1, <3>1, ActiveView
  <2>2. CASE ~Active(i)
    <3>1. status'[i] = status[i] /\ status[i] \in {"free", "ok", "failed"}
      BY <1>5, <2>2 DEF TierInv, Inv, TypeOK, Phases, Active
    <3>2. View'[i] = View[i] /\ View[i].phase # "running"
      <4>1. CASE status[i] = "free"
        BY <3>1, <4>1, ViewFacts, ViewFactsPrimed, PhaseFacts
      <4>2. CASE status[i] \in {"ok", "failed"}
        <5>1. View[i] = Tier!Done(status[i] = "ok")
          BY <4>2, ViewFacts
        <5>2. View'[i] = Tier!Done(status'[i] = "ok")
          BY <3>1, <4>2, ViewFactsPrimed
        <5>3. View'[i] = View[i]
          BY <3>1, <5>1, <5>2
        <5>4. QED
          BY <5>1, <5>3, PhaseFacts
      <4>3. QED
        BY <3>1, <4>1, <4>2
    <3>3. QED
      BY <3>2, Zenon DEF Widened
  <2>3. QED
    BY <2>1, <2>2
<1>6. \A i \in Jobs : Tier!Witnessed(K)[i] = Widened(View[i], K)
  BY Zenon DEF Tier!Witnessed, View, Widened
<1>7. DOMAIN Tier!Witnessed(K) = Jobs /\ DOMAIN View' = Jobs /\ View' = [i \in Jobs |-> View'[i]]
  BY DEF Tier!Witnessed, View
<1>8. View' = [Tier!Witnessed(K) EXCEPT ![j] = Tier!Done(ok)]
  <2> DEFINE W == Tier!Witnessed(K)
             D == Tier!Done(ok)
  <2>1. /\ W = [i \in Jobs |-> W[i]] /\ \A i \in Jobs : i # j => View'[i] = W[i]
        /\ View'[j] = D
    BY <1>4, <1>5, <1>6 DEF Tier!Witnessed
  <2> HIDE DEF W, D
  <2>2. View' = [W EXCEPT ![j] = D]
    BY <1>7, <2>1
  <2>3. QED
    BY <2>2 DEF W, D
<1>9. Tier!Finish(j, ok, K)
  BY <1>2, <1>3, <1>8 DEF Tier!Finish, View
<1>10. K \in SUBSET View[j].keys
  BY <1>2
<1>11. Tier!JobStep(j)
  BY <1>2, <1>9, <1>10 DEF Tier!JobStep, View
<1>12. QED
  BY <1>11 DEF Tier!TierNext

(* submit_store and submit_load are the contract's Submit.                 *)
LEMMA SubmitRefines ==
    ASSUME TierInv, Inv', NEW p \in Procs, NEW j \in Jobs, NEW K \in SUBSET Keys, SubmitJob(p, j, K)
    PROVE  Tier!TierNext
<1>1. /\ index' = index /\ status[j] = "free" /\ Active(j)'
      /\ \A i \in Jobs : i # j => status'[i] = status[i]
  BY SubmitFacts DEF Active
<1>2. PICK kind \in {"store", "load"} :
        /\ hist' = Observed([hist EXCEPT ![j] = Asked(kind, K)])
        /\ hist'[j].kind = kind /\ hist'[j].keys = K /\ hist'[j].seen = K \cap Indexed
  BY SubmitFacts DEF Active, Observed
<1>3. Indexed' = Indexed
  BY <1>1 DEF Indexed
<1>4. View[j] = Tier!Idle /\ View'[j] = Tier!Running(kind, K, K \cap Indexed)
  BY <1>1, <1>2, ViewFacts, ViewFactsPrimed
<1>5. ASSUME NEW i \in Jobs, i # j
      PROVE  View'[i] = View[i]
  <2> DEFINE h == [hist EXCEPT ![j] = Asked(kind, K)]
  <2>1. h \in [Jobs -> Histories] /\ h[i] = hist[i]
    BY <1>5, AskedFacts DEF TierInv
  <2>2. hist' = Observed(h)
    BY <1>2
  <2> HIDE DEF h
  <2>3. CASE Active(i)
    <3>1. Active(i)'
      BY <1>1, <1>5, <2>3 DEF Active
    <3>2. /\ hist'[i].kind = hist[i].kind /\ hist'[i].keys = hist[i].keys
          /\ hist'[i].seen = hist[i].seen \cup (hist[i].keys \cap Indexed)
      BY <1>3, <2>1, <2>2, <3>1, ObservedFacts
    <3>3. hist[i].keys \cap Indexed \subseteq hist[i].seen
      BY <2>3 DEF TierInv, JobsSee
    <3>4. hist'[i].seen = hist[i].seen
      BY <3>2, <3>3
    <3>5. QED
      BY <2>3, <3>1, <3>2, <3>4, ViewFacts, ViewFactsPrimed
  <2>4. CASE ~Active(i)
    <3>1. status'[i] = status[i] /\ ~Active(i)'
      BY <1>1, <1>5, <2>4 DEF Active
    <3>2. JobView(i)' = JobView(i)
      BY <2>4, <3>1 DEF JobView
    <3>3. QED
      BY <3>2 DEF View
  <2>5. QED
    BY <2>3, <2>4
<1>6. View' = [View EXCEPT ![j] = Tier!Running(kind, K, K \cap Indexed)]
  BY <1>4, <1>5 DEF View
<1>7. Tier!Submit(j, kind, K) /\ View[j].phase = "idle"
  BY <1>3, <1>4, <1>6, PhaseFacts DEF Tier!Submit, View
<1>8. Tier!JobStep(j)
  BY <1>7 DEF Tier!JobStep, Tier!Kinds, View
<1>9. QED
  BY <1>8 DEF Tier!TierNext

(* The end of a store or load job is the contract's Finish: a success is   *)
(* justified by what the job has seen and what it publishes.               *)
LEMMA CompleteRefines ==
    ASSUME TierInv, hist' = Observed(hist), NEW j \in Jobs,
           \/ CompleteNothing(j) \/ CompleteStore(j)
           \/ \E committed \in BOOLEAN : CompleteFail(j, committed)
           \/ FinishLoad(j)
    PROVE  Tier!TierNext
<1>1. good[j] \in BOOLEAN
  BY DEF TierInv, Inv, TypeOK
<1>2. Active(j)
  BY DEF CompleteNothing, CompleteStore, CompleteFail, FinishLoad, TasksDone, Active
<1>3. ASSUME NEW ok \in BOOLEAN, Settle(j, ok), NEW K, Indexed' = Indexed \cup K,
             K \subseteq hist[j].keys, K # {} => status[j] = "store",
             ok => hist[j].keys \subseteq hist[j].seen \cup K
      PROVE  Tier!TierNext
  <2>1. /\ status'[j] = IF ok THEN "ok" ELSE "failed"
        /\ \A i \in Jobs : i # j => status'[i] = status[i]
    BY <1>3, SettleFacts
  <2>2. QED
    BY <1>2, <1>3, <2>1, EndRefines
<1>4. status[j] = "store" => Planned(j) \subseteq hist[j].keys /\ hist[j].keys \subseteq hist[j].seen \cup Planned(j)
  BY DEF TierInv, StoresCovered
<1>5. CASE CompleteNothing(j)
  <2>1. status[j] = "store" /\ (~good[j] \/ Planned(j) = {}) /\ Settle(j, good[j]) /\ Indexed' = Indexed \cup {}
    BY <1>5 DEF CompleteNothing, TasksDone, dirVars, Indexed
  <2>2. good[j] => hist[j].keys \subseteq hist[j].seen \cup {}
    BY <1>4, <2>1
  <2>3. QED
    BY <1>1, <1>3, <2>1, <2>2
<1>6. CASE CompleteStore(j)
  <2>1. status[j] = "store" /\ Settle(j, TRUE) /\ index' = Inserted(j)
    BY <1>6 DEF CompleteStore, TasksDone
  <2>2. Indexed' = Indexed \cup Planned(j)
    BY <2>1, InsertedFacts
  <2>3. QED
    BY <1>3, <1>4, <2>1, <2>2
<1>7. ASSUME NEW committed \in BOOLEAN, CompleteFail(j, committed)
      PROVE  Tier!TierNext
  <2>1. status[j] = "store" /\ Settle(j, FALSE)
    BY <1>7 DEF CompleteFail, TasksDone
  <2>2. CASE committed
    <3>1. Indexed' = Indexed \cup Planned(j)
      BY <1>7, <2>2, InsertedFacts DEF CompleteFail
    <3>2. QED
      BY <1>3, <1>4, <2>1, <3>1
  <2>3. CASE ~committed
    <3>1. Indexed' = Indexed \cup {}
      BY <1>7, <2>3 DEF CompleteFail, Indexed
    <3>2. QED
      BY <1>3, <2>1, <3>1
  <2>4. QED
    BY <2>2, <2>3
<1>8. CASE FinishLoad(j)
  <2>1. status[j] = "load" /\ Settle(j, good[j]) /\ Indexed' = Indexed \cup {}
    BY <1>8 DEF FinishLoad, dirVars, Indexed
  <2>2. good[j] => hist[j].keys \subseteq hist[j].seen \cup {}
    BY <2>1 DEF TierInv, LoadsSeen
  <2>3. QED
    BY <1>1, <1>3, <2>1, <2>2
<1>9. QED
  BY <1>5, <1>6, <1>7, <1>8

(* Every own step of the store is one of the contract.                     *)
LEMMA OwnStepRefines ==
    ASSUME OneProcess, TierInv, OwnStep
    PROVE  Tier!TierNext
<1>1. hist' = Observed(hist)
  BY DEF OwnStep
<1>2. ASSUME index' = index, status' = status
      PROVE  Tier!TierNext
  <2>1. \E K \in SUBSET Keys : Indexed' = Indexed \ K
    <3>1. {} \in SUBSET Keys /\ Indexed' = Indexed \ {}
      BY <1>2 DEF Indexed
    <3>2. QED
      BY <3>1, Zenon
  <2>2. \A j \in Jobs : (Active(j) /\ Active(j)') \/ (~Active(j) /\ status'[j] = status[j])
    BY <1>2 DEF Active
  <2>3. QED
    BY <1>1, <2>1, <2>2, RemoveRefines
<1>3. ASSUME NEW j \in Jobs, StoreStep(j) \/ LoadStep(j) \/ Poll(j)
      PROVE  Tier!TierNext
  <2>1. ASSUME NEW k, AllocateEntry(j, k)
        PROVE  Tier!TierNext
    BY <1>2, <2>1 DEF AllocateEntry, dirVars
  <2>2. CASE PrepareReturn(j)
    <3>1. /\ status[j] = "preparing" /\ status' = [status EXCEPT ![j] = "store"] /\ index' = index
          /\ status \in [Jobs -> Phases]
      BY <2>2 DEF PrepareReturn, TierInv, Inv, TypeOK
    <3>2. \A i \in Jobs : (Active(i) /\ Active(i)') \/ (~Active(i) /\ status'[i] = status[i])
      BY <3>1 DEF Active
    <3>3. \E K \in SUBSET Keys : Indexed' = Indexed \ K
      <4>1. {} \in SUBSET Keys /\ Indexed' = Indexed \ {}
        BY <3>1 DEF Indexed
      <4>2. QED
        BY <4>1, Zenon
    <3>4. QED
      BY <1>1, <3>2, <3>3, RemoveRefines
  <2>3. CASE PrepareAbort(j)
    <3>1. /\ status' = [status EXCEPT ![j] = "free"] /\ index' = index /\ status \in [Jobs -> Phases]
      BY <2>3 DEF PrepareAbort, dirVars, TierInv, Inv, TypeOK
    <3>2. Indexed' = Indexed /\ {j} \in SUBSET Jobs
      BY <3>1 DEF Indexed
    <3>3. (\A i \in {j} : status'[i] = "free") /\ \A i \in Jobs \ {j} : status'[i] = status[i]
      BY <3>1
    <3>4. QED
      BY <1>1, <3>2, <3>3, AbandonRefines
  <2>4. ASSUME NEW g, WriteBegin(j, g) \/ WriteEnd(j, g) \/ WriteFail(j, g) \/ LoadChunk(j, g)
        PROVE  Tier!TierNext
    BY <1>2, <2>4, TaskFacts
  <2>5. ASSUME NEW g \in Segments, NEW deleted \in BOOLEAN, LoadChunkFail(j, g, deleted)
        PROVE  Tier!TierNext
    <3>1. status' = status /\ \E K \in SUBSET Keys : Indexed' = Indexed \ K
      BY <2>5, ChunkFails
    <3>2. \A i \in Jobs : (Active(i) /\ Active(i)') \/ (~Active(i) /\ status'[i] = status[i])
      BY <3>1 DEF Active
    <3>3. QED
      BY <1>1, <3>1, <3>2, RemoveRefines
  <2>6. QED
    BY <1>1, <1>3, <2>1, <2>2, <2>3, <2>4, <2>5, CompleteRefines, PollRefines, NoSubmission
       DEF OwnStep, StoreStep, LoadStep
<1>4. ASSUME NEW p \in Procs, NEW K \in (SUBSET Keys) \ {{}}, Lookup(p, K) \/ Delete(p, K)
      PROVE  Tier!TierNext
  <2>1. CASE Lookup(p, K)
    BY <1>2, <2>1 DEF Lookup, dirVars, jobVars
  <2>2. CASE Delete(p, K)
    <3>1. status' = status /\ index' = Unindexed(K) /\ K \in SUBSET Keys
      BY <2>2 DEF Delete, jobVars
    <3>2. Indexed' = Indexed \ K
      BY <3>1 DEF Indexed, Unindexed
    <3>3. \A i \in Jobs : (Active(i) /\ Active(i)') \/ (~Active(i) /\ status'[i] = status[i])
      BY <3>1 DEF Active
    <3>4. QED
      BY <1>1, <3>1, <3>2, <3>3, RemoveRefines
  <2>3. QED
    BY <1>4, <2>1, <2>2
<1>5. ASSUME NEW p \in Procs, Restart(p)
      PROVE  Tier!TierNext
  <2> DEFINE S == {j \in Jobs : owner[j] = p}
  <2>1. /\ S \in SUBSET Jobs /\ (\A j \in S : status'[j] = "free")
        /\ \A j \in Jobs \ S : status'[j] = status[j]
    BY <1>5 DEF Restart
  <2>2. Indexed' = Indexed
    BY <1>5 DEF Restart, dirVars, Indexed
  <2> HIDE DEF S
  <2>3. QED
    BY <1>1, <2>1, <2>2, AbandonRefines
<1>6. QED
  BY <1>3, <1>4, <1>5 DEF OwnStep, Next

(* The segment layout implements the contract of a tier for a process that *)
(* has the directory to itself, whatever the numbers of keys, jobs, shards *)
(* and segments: a success is reported once, and only for blocks that were *)
(* indexed while the job ran.                                              *)
THEOREM SegmentTierRefinement ==
    ASSUME OneProcess
    PROVE  TierStoreSpec => SegmentImplementsTier
<1>1. TierStoreInit => Tier!TierInit
  <2> SUFFICES ASSUME TierStoreInit
               PROVE  Tier!TierInit
    OBVIOUS
  <2>1. \A j \in Jobs : status[j] = "free"
    BY DEF TierStoreInit, Init, ProcInit
  <2>2. View = [j \in Jobs |-> Tier!Idle]
    BY <2>1, ViewFacts DEF View
  <2>3. Indexed \in SUBSET Keys
    BY DEF Indexed
  <2>4. QED
    BY <2>2, <2>3 DEF Tier!TierInit, View
<1>2. TierInv /\ [TierStoreNext]_tierStoreVars => [Tier!TierNext]_(Tier!tierVars)
  <2> SUFFICES ASSUME TierInv, [TierStoreNext]_tierStoreVars
               PROVE  [Tier!TierNext]_(Tier!tierVars)
    OBVIOUS
  <2>1. ASSUME NEW p \in Procs, NEW j \in Jobs, NEW K \in (SUBSET Keys) \ {{}}, SubmitJob(p, j, K)
        PROVE  Tier!TierNext
    <3>1. Inv'
      BY <2>1, SubmitIsNext, InvStep DEF TierInv
    <3>2. QED
      BY <2>1, <3>1, SubmitRefines
  <2>2. CASE OwnStep
    BY <2>2, OwnStepRefines
  <2>3. CASE UNCHANGED tierStoreVars
    <3>1. index' = index /\ status' = status /\ hist' = hist
      BY <2>3 DEF tierStoreVars, vars, dirVars, jobVars
    <3>2. \A j \in Jobs : JobView(j)' = JobView(j)
      BY <3>1 DEF JobView, Active
    <3>3. Indexed' = Indexed /\ View' = View
      BY <3>1, <3>2 DEF Indexed, View
    <3>4. QED
      BY <3>3 DEF Tier!tierVars, View
  <2>4. QED
    BY <2>1, <2>2, <2>3 DEF TierStoreNext, OwnStep
<1>3. QED
  BY <1>1, <1>2, SegmentTierInvariant, PTL DEF TierStoreSpec, SegmentImplementsTier, Tier!TierSpec
================================================================================
