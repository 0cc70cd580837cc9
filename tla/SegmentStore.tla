----------------------------- MODULE SegmentStore -----------------------------
(***************************************************************************)
(* The segmented block store of the filesystem tier                        *)
(* (fs/segment_store.py) together with the store and load jobs that        *)
(* fs/manager.py runs on it.                                               *)
(*                                                                         *)
(* Several processes share one directory: the segment files (`cells'), an  *)
(* SQLite index (`index', `meta') and an advisory file lock (`lock').      *)
(* Every process also keeps a private cache of positive lookups.  A slot   *)
(* is one block of a segment; offsets are counted in blocks.  The bytes of *)
(* a block are determined by its key, so a slot holds a key, nothing       *)
(* (Empty) or unspecified bytes (Torn).                                    *)
(***************************************************************************)
EXTENDS Integers, FiniteSets, FiniteSetsExt

CONSTANTS
    Procs,          \* processes sharing the directory
    Keys,           \* block keys
    Jobs,           \* job slots: store and load jobs that can be in flight
    Capacity,       \* blocks per segment: segment_size_bytes \div block_size
    MaxShards,      \* bound on segment_shards
    ShardCount,     \* segment_shards of every process
    MaxSegments,    \* bound on the segments ever created
    LegacyStores,   \* directories an older version may have left behind
    NoProc, Empty, Torn, NoData

VARIABLES
    index,      \* table blocks: key -> slot
    meta,       \* table metadata
    cells,      \* contents of the segment files
    cache,      \* _location_cache of every process
    lock,       \* who holds the thread lock and the file lock across steps
    wanted,     \* keys given to the prepare_store that holds the lock
    pending,    \* `unique' keys it has not placed yet
    alloc,      \* its shard_state, next_segment_id and cursor
    status,     \* phase of every job
    owner,      \* process that submitted the job
    plan,       \* store job: the plan; load job: the captured locations
    todo,       \* segments whose task has not started
    writing,    \* segments a worker is writing for the job
    good,       \* JobState._success
    got         \* what a load job has read for each key

dirVars == <<index, meta, cells>>
prepVars == <<lock, wanted, pending, alloc>>
jobVars == <<status, owner, plan, todo, writing, good, got>>
vars == <<dirVars, cache, prepVars, jobVars>>

-----------------------------------------------------------------------------
Segments == 0 .. MaxSegments - 1
Shards == 0 .. MaxShards - 1
Slots == [seg : Segments, off : 0 .. Capacity - 1]

(* A head is the next free position of a shard's segment; the segment is   *)
(* full when off = Capacity.                                               *)
Heads == [seg : Segments, off : 0 .. Capacity]

NoSlot == [seg |-> -1, off |-> -1]
Locations == [Keys -> Slots \cup {NoSlot}]
NoLocations == [k \in Keys |-> NoSlot]
Contents == Keys \cup {Empty, Torn}

(* The rows of table metadata: `legacy' is segment_id/segment_offset of an *)
(* older version, NoSlot if it left none; shard_<i>_segment_id/_offset     *)
(* exist for the shards i < n, because they are always written together.   *)
Metadata == [legacy : Heads \cup {NoSlot}, n : 0 .. MaxShards,
             heads : [Shards -> Heads], next : 0 .. MaxSegments,
             cursor : Shards]

(* A directory in the format of an older version: its metadata row (if     *)
(* any) and its index.                                                     *)
LegacyDirs == [head : Heads \cup {NoSlot}, index : Locations]

ASSUME ConstantsAssumption ==
    /\ Capacity \in Nat \ {0}
    /\ MaxShards \in Nat \ {0}
    /\ MaxSegments \in Nat \ {0}
    /\ ShardCount \in [Procs -> 1 .. MaxShards]
    /\ NoProc \notin Procs
    /\ Empty \notin Keys /\ Torn \notin Keys /\ NoData \notin Keys
    /\ Empty # Torn /\ NoData # Empty /\ NoData # Torn

(* What an older version left is consistent: no two keys share a slot, and *)
(* the metadata row, when there is one, lies above every indexed block.    *)
ASSUME LegacyAssumption ==
    /\ LegacyStores \subseteq LegacyDirs
    /\ \A d \in LegacyStores : \A k \in Keys : d.index[k] # NoSlot =>
         /\ \A l \in Keys : d.index[l] = d.index[k] => l = k
         /\ d.head # NoSlot =>
              \/ d.index[k].seg < d.head.seg
              \/ d.index[k].seg = d.head.seg /\ d.index[k].off < d.head.off

(* The index and the metadata row agree on where the next block goes, or   *)
(* the directory is new.                                                   *)
Migrated(d) == d.head # NoSlot \/ d.index = NoLocations

DirInit(d) ==
    /\ index = d.index
    /\ meta = [legacy |-> d.head, n |-> 0,
               heads |-> [s \in Shards |-> [seg |-> 0, off |-> 0]],
               next |-> 0, cursor |-> 0]
    /\ cells = [x \in Slots |-> IF \E k \in Keys : d.index[k] = x
                                THEN CHOOSE k \in Keys : d.index[k] = x
                                ELSE Empty]

(* SegmentStore.__init__ in every process.                                 *)
ProcInit ==
    /\ cache = [p \in Procs |-> NoLocations]
    /\ lock = NoProc /\ wanted = {} /\ pending = {} /\ alloc = meta
    /\ status = [j \in Jobs |-> "free"]
    /\ owner = [j \in Jobs |-> NoProc]
    /\ plan = [j \in Jobs |-> NoLocations]
    /\ todo = [j \in Jobs |-> {}]
    /\ writing = [j \in Jobs |-> {}]
    /\ good = [j \in Jobs |-> TRUE]
    /\ got = [j \in Jobs |-> [k \in Keys |-> NoData]]

-----------------------------------------------------------------------------
(* Reading the index through the cache.                                    *)

(* get_locations: a cached location wins; misses are never cached.         *)
Located(p, k) == IF cache[p][k] # NoSlot THEN cache[p][k] ELSE index[k]

Remember(p, K, rows) ==
    [cache EXCEPT ![p] = [k \in Keys |->
        IF k \in K /\ cache[p][k] = NoSlot THEN rows[k] ELSE cache[p][k]]]

(* contains_many, called by the lookup worker of process p.                *)
Lookup(p, K) ==
    /\ lock # p
    /\ cache' = Remember(p, K, index)
    /\ UNCHANGED <<dirVars, prepVars, jobVars>>

-----------------------------------------------------------------------------
(* Allocation: where the next block of every shard goes.                   *)

(* _latest_segment: the row of the older version, else one past the last   *)
(* block of the highest indexed segment.                                   *)
LatestSegment ==
    LET rows == {index[k] : k \in Keys} \ {NoSlot}
        top == Max({r.seg : r \in rows})
    IN  IF meta.legacy # NoSlot THEN meta.legacy
        ELSE IF rows = {} THEN [seg |-> 0, off |-> 0]
        ELSE [seg |-> top, off |-> Max({r.off + 1 : r \in {q \in rows : q.seg = top}})]

(* Mutant: the allocation trusts the index although shard rows exist.      *)
BaseMetadataFromIndex ==
    [legacy |-> meta.legacy, n |-> 1, heads |-> [meta.heads EXCEPT ![0] = LatestSegment],
     next |-> LatestSegment.seg + 1, cursor |-> meta.cursor]

(* The metadata rows, or what stands for them in a directory without any   *)
(* shard row: one shard that continues after LatestSegment.                *)
BaseMetadata ==
    IF meta.n > 0 THEN meta
    ELSE [legacy |-> meta.legacy, n |-> 1,
          heads |-> [meta.heads EXCEPT ![0] = LatestSegment],
          next |-> LatestSegment.seg + 1, cursor |-> meta.cursor]

(* Mutant: the highest segment in use instead of the one after it.         *)
NextSegmentIdReused(m) == Max({m.heads[s].seg : s \in {t \in Shards : t < m.n}})

NextSegmentId(m) == Max({m.next} \cup {m.heads[s].seg + 1 : s \in {t \in Shards : t < m.n}})

(* _allocation_state of a process with c shards: a shard without a row     *)
(* gets a segment of its own.                                              *)
AllocationState(c) ==
    LET m == BaseMetadata
        first == NextSegmentId(m)
        added == IF c > m.n THEN c - m.n ELSE 0
    IN  [legacy |-> m.legacy, n |-> m.n + added,
         heads |-> [s \in Shards |-> IF s < m.n \/ s >= c THEN m.heads[s]
                                     ELSE [seg |-> first + (s - m.n), off |-> 0]],
         next |-> first + added, cursor |-> m.cursor % c]

-----------------------------------------------------------------------------
(* submit_store: prepare_store on the scheduler thread, then the tasks.    *)

Release == lock' = NoProc /\ wanted' = {} /\ pending' = {}

(* prepare_store takes both locks, drops the keys it finds and reads the   *)
(* allocation state.                                                       *)
PrepareStore(p, j, K) ==
    LET new == {k \in K : Located(p, k) = NoSlot}
        state == AllocationState(ShardCount[p])
    IN  /\ status[j] = "free" /\ lock = NoProc
        /\ new # {} => state.next <= MaxSegments
        /\ lock' = p /\ wanted' = K /\ pending' = new
        /\ alloc' = IF new = {} THEN meta ELSE state
        /\ status' = [status EXCEPT ![j] = "preparing"]
        /\ owner' = [owner EXCEPT ![j] = p]
        /\ cache' = Remember(p, K, index)
        /\ UNCHANGED <<dirVars, plan, todo, writing, good, got>>

(* Mutant: the rollover test forgets the block about to be added.          *)
SegmentFullOffByOne(head) == head.off > Capacity

(* No room for one more block.                                             *)
SegmentFull(head) == head.off + 1 > Capacity

(* One turn of the allocation loop: key k goes to the head of the shard    *)
(* under the cursor, or to a new segment when that one is full.            *)
AllocateEntry(j, k) ==
    LET s == alloc.cursor
        head == alloc.heads[s]
        full == SegmentFull(head)
        slot == IF full THEN [seg |-> alloc.next, off |-> 0] ELSE head
    IN  /\ status[j] = "preparing" /\ k \in pending
        /\ full => alloc.next < MaxSegments
        /\ pending' = pending \ {k}
        /\ plan' = [plan EXCEPT ![j] = [@ EXCEPT ![k] = slot]]
        /\ alloc' = [legacy |-> alloc.legacy, n |-> alloc.n,
                     heads |-> [alloc.heads EXCEPT ![s] =
                                  [seg |-> slot.seg, off |-> slot.off + 1]],
                     next |-> IF full THEN alloc.next + 1 ELSE alloc.next,
                     cursor |-> (s + 1) % ShardCount[owner[j]]]
        /\ UNCHANGED <<dirVars, cache, lock, wanted,
                       status, owner, todo, writing, good, got>>

(* group_writes (and the chunks of submit_load): one task per segment.     *)
Planned(j) == {k \in Keys : plan[j][k] # NoSlot}
Group(j, g) == {k \in Planned(j) : plan[j][k].seg = g}
Groups(j) == {plan[j][k].seg : k \in Planned(j)}

(* The metadata transaction commits, prepare_store returns and             *)
(* submit_store enqueues the tasks; a plan without entries writes nothing. *)
PrepareReturn(j) ==
    /\ status[j] = "preparing" /\ pending = {}
    /\ Release
    /\ meta' = IF Planned(j) = {} THEN meta ELSE alloc
    /\ alloc' = meta'
    /\ status' = [status EXCEPT ![j] = "store"]
    /\ todo' = [todo EXCEPT ![j] = Groups(j)]
    /\ UNCHANGED <<index, cells, cache, owner, plan, writing, good, got>>

(* A database error: ROLLBACK, and the exception leaves submit_store       *)
(* before the job is enqueued.                                             *)
PrepareAbort(j) ==
    /\ status[j] = "preparing"
    /\ Release
    /\ alloc' = meta
    /\ status' = [status EXCEPT ![j] = "free"]
    /\ owner' = [owner EXCEPT ![j] = NoProc]
    /\ plan' = [plan EXCEPT ![j] = NoLocations]
    /\ UNCHANGED <<dirVars, cache, todo, writing, good, got>>

-----------------------------------------------------------------------------
(* The store tasks and the completion callback, on worker threads.         *)

(* The segment files when the slots that job j planned for the keys K hold *)
(* their blocks, or an unfinished write.                                   *)
Stored(j, K) == [x \in Slots |-> IF \E k \in K : plan[j][k] = x
                                 THEN CHOOSE k \in K : plan[j][k] = x ELSE cells[x]]
Scratched(j, K) == [x \in Slots |-> IF \E k \in K : plan[j][k] = x
                                    THEN Torn ELSE cells[x]]

(* write_entries opens segment g under the segment lock of its process and *)
(* starts writing.                                                         *)
WriteBegin(j, g) ==
    /\ status[j] = "store" /\ g \in todo[j]
    /\ lock # owner[j]
    /\ \A i \in Jobs : owner[i] = owner[j] => g \notin writing[i]
    /\ todo' = [todo EXCEPT ![j] = @ \ {g}]
    /\ writing' = [writing EXCEPT ![j] = @ \cup {g}]
    /\ cells' = Scratched(j, Group(j, g))
    /\ UNCHANGED <<index, meta, cache, prepVars, status, owner, plan, good, got>>

(* pwritev returned the expected length.                                   *)
WriteEnd(j, g) ==
    /\ g \in writing[j]
    /\ writing' = [writing EXCEPT ![j] = @ \ {g}]
    /\ cells' = Stored(j, Group(j, g))
    /\ UNCHANGED <<index, meta, cache, prepVars,
                   status, owner, plan, todo, good, got>>

(* open or pwritev failed, or the write was short.                         *)
WriteFail(j, g) ==
    /\ g \in writing[j]
    /\ writing' = [writing EXCEPT ![j] = @ \ {g}]
    /\ good' = [good EXCEPT ![j] = FALSE]
    /\ UNCHANGED <<dirVars, cache, prepVars, status, owner, plan, todo, got>>

(* Mutant: an exception of the completion callback does not fail the job.  *)
SettleIgnoringCallback(j, ok) ==
    /\ status' = [status EXCEPT ![j] = IF good[j] THEN "ok" ELSE "failed"]
    /\ plan' = [plan EXCEPT ![j] = NoLocations]
    /\ UNCHANGED <<owner, todo, writing, good, got>>

(* task_done: the job leaves the pool with its result.                     *)
Settle(j, ok) ==
    /\ status' = [status EXCEPT ![j] = IF ok THEN "ok" ELSE "failed"]
    /\ plan' = [plan EXCEPT ![j] = NoLocations]
    /\ UNCHANGED <<owner, todo, writing, good, got>>

(* Mutant: tasks count as done when they start.                            *)
TasksDoneEarly(j) == status[j] = "store" /\ todo[j] = {}

TasksDone(j) == status[j] = "store" /\ todo[j] = {} /\ writing[j] = {}

(* Mutant: INSERT OR REPLACE.                                              *)
InsertedReplacing(j) == [k \in Keys |-> IF plan[j][k] # NoSlot THEN plan[j][k] ELSE index[k]]

(* INSERT OR IGNORE of the whole plan.                                     *)
Inserted(j) == [k \in Keys |-> IF index[k] = NoSlot THEN plan[j][k] ELSE index[k]]

(* complete_store has nothing to do: a task failed or the plan is empty.   *)
CompleteNothing(j) ==
    /\ TasksDone(j)
    /\ ~good[j] \/ Planned(j) = {}
    /\ Settle(j, good[j])
    /\ UNCHANGED <<dirVars, cache, prepVars>>

(* The transaction commits and the durable rows are read back.             *)
CompleteStore(j) ==
    /\ TasksDone(j) /\ good[j] /\ Planned(j) # {} /\ lock = NoProc
    /\ index' = Inserted(j)
    /\ cache' = Remember(owner[j], Planned(j), index')
    /\ Settle(j, TRUE)
    /\ UNCHANGED <<meta, cells, prepVars>>

(* An error inside complete_store, before the COMMIT or in the read-back   *)
(* after it; task_done turns the exception into a failed job.              *)
CompleteFail(j, committed) ==
    /\ TasksDone(j) /\ good[j] /\ Planned(j) # {} /\ lock = NoProc
    /\ index' = IF committed THEN Inserted(j) ELSE index
    /\ Settle(j, FALSE)
    /\ UNCHANGED <<meta, cells, cache, prepVars>>

-----------------------------------------------------------------------------
(* Load jobs.                                                              *)

(* submit_load captures the locations.  Keys without one are read from     *)
(* legacy block files, which does not touch this store: the outcome of     *)
(* those tasks is drawn here.                                              *)
SubmitLoad(p, j, K, filesOk) ==
    /\ status[j] = "free" /\ lock # p
    /\ LET at == [k \in Keys |-> IF k \in K THEN Located(p, k) ELSE NoSlot]
       IN  /\ ~filesOk => \E k \in K : at[k] = NoSlot
           /\ plan' = [plan EXCEPT ![j] = at]
           /\ todo' = [todo EXCEPT ![j] = {at[k].seg : k \in {l \in K : at[l] # NoSlot}}]
    /\ cache' = Remember(p, K, index)
    /\ status' = [status EXCEPT ![j] = "load"]
    /\ owner' = [owner EXCEPT ![j] = p]
    /\ good' = [good EXCEPT ![j] = filesOk]
    /\ UNCHANGED <<dirVars, prepVars, writing, got>>

(* load_many of one segment's chunk reads whatever the slots hold.         *)
LoadChunk(j, g) ==
    /\ status[j] = "load" /\ g \in todo[j]
    /\ todo' = [todo EXCEPT ![j] = @ \ {g}]
    /\ got' = [got EXCEPT ![j] = [k \in Keys |->
                 IF k \in Group(j, g) THEN cells[plan[j][k]] ELSE got[j][k]]]
    /\ UNCHANGED <<dirVars, cache, prepVars,
                   status, owner, plan, writing, good>>

(* delete by process p: rows go, and the cache entries of the rows found.  *)
Unindexed(K) == [k \in Keys |-> IF k \in K THEN NoSlot ELSE index[k]]
Forget(p, K) == [cache EXCEPT ![p] = [k \in Keys |->
                   IF k \in K /\ index[k] # NoSlot THEN NoSlot ELSE cache[p][k]]]

(* An I/O error or a short read: load_many deletes every key of the chunk, *)
(* unless the delete fails as well and is rolled back.                     *)
LoadChunkFail(j, g, deleted) ==
    /\ status[j] = "load" /\ g \in todo[j] /\ lock = NoProc
    /\ todo' = [todo EXCEPT ![j] = @ \ {g}]
    /\ good' = [good EXCEPT ![j] = FALSE]
    /\ index' = IF deleted THEN Unindexed(Group(j, g)) ELSE index
    /\ cache' = IF deleted THEN Forget(owner[j], Group(j, g)) ELSE cache
    /\ UNCHANGED <<meta, cells, prepVars, status, owner, plan, writing, got>>

FinishLoad(j) ==
    /\ status[j] = "load" /\ todo[j] = {}
    /\ Settle(j, good[j])
    /\ UNCHANGED <<dirVars, cache, prepVars>>

(* The scheduler polls the result; the job id may be used again.           *)
Poll(j) ==
    /\ status[j] \in {"ok", "failed"}
    /\ status' = [status EXCEPT ![j] = "free"]
    /\ owner' = [owner EXCEPT ![j] = NoProc]
    /\ good' = [good EXCEPT ![j] = TRUE]
    /\ got' = [got EXCEPT ![j] = [k \in Keys |-> NoData]]
    /\ UNCHANGED <<dirVars, cache, prepVars, plan, todo, writing>>

Delete(p, K) ==
    /\ lock = NoProc
    /\ index' = Unindexed(K)
    /\ cache' = Forget(p, K)
    /\ UNCHANGED <<meta, cells, prepVars, jobVars>>

(* Process p dies, or is closed, and starts again: its jobs, its cache and *)
(* its locks are gone; what it was writing stays torn.  (A restart with    *)
(* another number of shards is a process of Procs that was idle so far.)   *)
Restart(p) ==
    LET mine == {j \in Jobs : owner[j] = p}
    IN  /\ cache' = [cache EXCEPT ![p] = NoLocations]
        /\ lock' = IF lock = p THEN NoProc ELSE lock
        /\ wanted' = IF lock = p THEN {} ELSE wanted
        /\ pending' = IF lock = p THEN {} ELSE pending
        /\ alloc' = IF lock = p THEN meta ELSE alloc
        /\ status' = [j \in Jobs |-> IF j \in mine THEN "free" ELSE status[j]]
        /\ owner' = [j \in Jobs |-> IF j \in mine THEN NoProc ELSE owner[j]]
        /\ plan' = [j \in Jobs |-> IF j \in mine THEN NoLocations ELSE plan[j]]
        /\ todo' = [j \in Jobs |-> IF j \in mine THEN {} ELSE todo[j]]
        /\ writing' = [j \in Jobs |-> IF j \in mine THEN {} ELSE writing[j]]
        /\ good' = [j \in Jobs |-> IF j \in mine THEN TRUE ELSE good[j]]
        /\ got' = [j \in Jobs |-> IF j \in mine THEN [k \in Keys |-> NoData] ELSE got[j]]
        /\ UNCHANGED dirVars

-----------------------------------------------------------------------------
StoreStep(j) ==
    \/ \E p \in Procs, K \in (SUBSET Keys) \ {{}} : PrepareStore(p, j, K)
    \/ \E k \in Keys : AllocateEntry(j, k)
    \/ PrepareReturn(j)
    \/ PrepareAbort(j)
    \/ \E g \in Segments : WriteBegin(j, g) \/ WriteEnd(j, g) \/ WriteFail(j, g)
    \/ CompleteNothing(j)
    \/ CompleteStore(j)
    \/ \E committed \in BOOLEAN : CompleteFail(j, committed)

LoadStep(j) ==
    \/ \E p \in Procs, K \in (SUBSET Keys) \ {{}}, ok \in BOOLEAN : SubmitLoad(p, j, K, ok)
    \/ \E g \in Segments : LoadChunk(j, g)
    \/ \E g \in Segments, deleted \in BOOLEAN : LoadChunkFail(j, g, deleted)
    \/ FinishLoad(j)

Next ==
    \/ \E j \in Jobs : StoreStep(j) \/ LoadStep(j) \/ Poll(j)
    \/ \E p \in Procs, K \in (SUBSET Keys) \ {{}} : Lookup(p, K) \/ Delete(p, K)
    \/ \E p \in Procs : Restart(p)

Init == (\E d \in LegacyStores : Migrated(d) /\ DirInit(d)) /\ ProcInit

Spec == Init /\ [][Next]_vars

(* The same system in a directory whose index was never migrated.          *)
BareInit == (\E d \in LegacyStores : ~Migrated(d) /\ DirInit(d)) /\ ProcInit

BareSpec == BareInit /\ [][Next]_vars
-----------------------------------------------------------------------------
Phases == {"free", "preparing", "store", "load", "ok", "failed"}

(* Every variable has the shape the code gives it; in particular every     *)
(* location handed out lies inside a segment (the rollover test of         *)
(* prepare_store) and within the segments created.                         *)
TypeOK ==
    /\ index \in Locations
    /\ meta \in Metadata /\ alloc \in Metadata
    /\ cells \in [Slots -> Contents]
    /\ cache \in [Procs -> Locations]
    /\ lock \in Procs \cup {NoProc}
    /\ wanted \in SUBSET Keys /\ pending \in SUBSET Keys
    /\ status \in [Jobs -> Phases]
    /\ owner \in [Jobs -> Procs \cup {NoProc}]
    /\ plan \in [Jobs -> Locations]
    /\ todo \in [Jobs -> SUBSET Segments]
    /\ writing \in [Jobs -> SUBSET Segments]
    /\ good \in [Jobs -> BOOLEAN]
    /\ got \in [Jobs -> [Keys -> Contents \cup {NoData}]]

(* A location that a reader can follow, from the index, from some process's *)
(* cache (however stale) or captured by a load job in flight, leads to the  *)
(* complete block of its own key: no partial write, no other key's bytes,   *)
(* whatever the processes did in between (prepare_store, write_entries,     *)
(* complete_store, load_many, delete, restarts).                            *)
PublishedDataIntact ==
    \A k \in Keys :
        /\ index[k] # NoSlot => cells[index[k]] = k
        /\ \A p \in Procs : cache[p][k] # NoSlot => cells[cache[p][k]] = k
        /\ \A j \in Jobs : status[j] = "load" /\ plan[j][k] # NoSlot
                           => cells[plan[j][k]] = k

(* load_many never puts another block's bytes, or a torn block, into the    *)
(* buffer of a key, although deletes and stores run while the chunk waits.  *)
LoadsReturnOwnBlock == \A j \in Jobs, k \in Keys : got[j][k] \in {NoData, k}

(* The slots of a store in flight belong to it alone: no other plan, no row *)
(* of the index and no cache refers to them, so the workers of two          *)
(* processes write without a common lock (prepare_store's allocation).      *)
PlannedSlotsPrivate ==
    \A j \in Jobs, k \in Keys :
        status[j] \in {"preparing", "store"} /\ plan[j][k] # NoSlot =>
            /\ \A l \in Keys : index[l] # plan[j][k]
            /\ \A p \in Procs, l \in Keys : cache[p][l] # plan[j][k]
            /\ \A i \in Jobs, l \in Keys : plan[i][l] = plan[j][k] => i = j /\ l = k

(* Segments are append-only (the docstring of SegmentStore): a slot that    *)
(* was ever written successfully is never written again, even after its key *)
(* was deleted.                                                             *)
AppendOnly == [][\A x \in Slots : cells[x] \in Keys => cells'[x] = cells[x]]_vars

(* INSERT OR IGNORE: an indexed block never moves; two processes that store *)
(* the same key concurrently agree on the first one's location.             *)
IndexedBlockNeverMoves ==
    [][\A k \in Keys : index[k] # NoSlot => index'[k] \in {index[k], NoSlot}]_vars

(* SecondaryTierManager.submit_store (base.py): the blocks it filters out   *)
(* are the ones already present in the tier.                                *)
FilteredKeysPresent ==
    \A j \in Jobs, k \in wanted \ pending :
        status[j] = "preparing" /\ plan[j][k] = NoSlot => index[k] # NoSlot
-----------------------------------------------------------------------------
(* The inductive invariant behind the properties above.                    *)

(* Slots that an allocation from metadata m may still hand out.            *)
Free(m, x) ==
    \/ x.seg >= m.next
    \/ \E s \in Shards : s < m.n /\ x.seg = m.heads[s].seg /\ x.off >= m.heads[s].off

(* No two shards append to one segment, and no segment id is given twice.  *)
HeadsApart(m) ==
    \A s, t \in Shards : s < m.n =>
        /\ m.heads[s].seg < m.next
        /\ t < m.n /\ s # t => m.heads[s].seg # m.heads[t].seg

Unused(x) ==
    /\ cells[x] = Empty
    /\ \A k \in Keys : index[k] # x
    /\ \A p \in Procs, k \in Keys : cache[p][k] # x
    /\ \A j \in Jobs, k \in Keys : plan[j][k] = x => status[j] = "preparing"

(* prepare_store has read the allocation state.                            *)
Allocating(j) == status[j] = "preparing" /\ (pending # {} \/ Planned(j) # {})

JobsConsistent ==
    /\ \A j \in Jobs :
         /\ status[j] = "preparing" => lock \in Procs /\ owner[j] = lock
         /\ status[j] \in {"free", "ok", "failed"} => plan[j] = NoLocations
         /\ status[j] # "store" => writing[j] = {}
    /\ \A i, j \in Jobs : status[i] = "preparing" /\ status[j] = "preparing" => i = j

(* Whatever the durable metadata, or the allocation in progress, may hand  *)
(* out next has never been used.                                           *)
FreeSlotsUnused ==
    /\ meta.n > 0 => HeadsApart(meta)
    /\ meta.n = 0 /\ meta.legacy = NoSlot => index = NoLocations
    /\ \A x \in Slots : Free(BaseMetadata, x) => Unused(x)
    /\ \A j \in Jobs : Allocating(j) =>
         /\ HeadsApart(alloc)
         /\ ShardCount[lock] <= alloc.n /\ alloc.cursor < ShardCount[lock]
         /\ \A x \in Slots : Free(alloc, x) =>
              /\ Free(BaseMetadata, x)
              /\ \A i \in Jobs, k \in Keys : plan[i][k] # x

(* What a planned slot holds at every stage of its store job.              *)
PlannedSlotsProgress ==
    \A j \in Jobs, k \in Keys : plan[j][k] # NoSlot =>
        /\ status[j] = "preparing" => cells[plan[j][k]] = Empty
        /\ status[j] = "store" =>
             /\ plan[j][k].seg \in todo[j] => cells[plan[j][k]] = Empty
             /\ plan[j][k].seg \in writing[j] => cells[plan[j][k]] = Torn
             /\ plan[j][k].seg \notin todo[j] \cup writing[j] /\ good[j] => cells[plan[j][k]] = k

(* The allocator, the plans in flight and every published location agree   *)
(* on who may touch a slot.                                                *)
SlotInv ==
    /\ JobsConsistent
    /\ FreeSlotsUnused
    /\ PlannedSlotsPrivate
    /\ PlannedSlotsProgress
    /\ PublishedDataIntact
=============================================================================
