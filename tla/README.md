# TLA+ verification of vllm-hust-kv-tiering

This directory holds TLA+ models of the KV-cache tiering backend in
`src/vllm_hust_kv_tiering`, the TLC configurations that check them on small
instances and TLAPS proofs, for every instance, of the safety properties.
Line numbers below are those of the Python files in that package.

## 1. The system

vLLM keeps KV-cache blocks on the device, copies them to CPU memory (the primary
tier) and, through a *secondary tier*, to a shared directory on disk. This package
supplies the secondary tier and policies around it.

| component | state | operations | interacts with |
|---|---|---|---|
| segment store (`fs/segment_store.py`) | SQLite tables `blocks` and `metadata`, segment files, a cache of positive lookups per process, a thread lock and a file lock | `prepare_store`, `write_entries`, `complete_store`, `get_locations`, `load_many`, `delete`, `close` | called by the tier's scheduler thread, pool workers and lookup thread; shared with other processes through the directory |
| thread pool (`fs/thread_pool.py`) | load and store queue, `_finished_q`, `_inflight_jobs`, `_stop`, one `JobState` per job | `enqueue_load/store`, `_worker`, `task_done`, `get_finished`, `wait_idle`, `shutdown` | runs the store's tasks and its completion callback |
| asynchronous lookup (`async_lookup.py`) | `_lookup_state`, `_req_keys`, the step's batch, two queues | `lookup`, `flush`, `drain_results`, `cleanup`, `_worker`, `shutdown` | worker calls `contains_many` |
| filesystem tier manager (`fs/manager.py`) | composes the three | `lookup`, `submit_store/load`, `get_finished_jobs`, `drain_jobs`, `delete`, `on_schedule_end`, `shutdown` | vLLM's scheduler |
| per-block files (`fs/io.py`) | one file per block | `store_block`, `load_block` | the `file` layout, and blocks of older directories |
| session lifecycle (`lifecycle.py`) | sessions, request-to-session map, next TTL deadline | request events, expiration, pruning | owns a residency tracker |
| residency tracker (`residency.py`) | per-block residency, sessions, transfers in flight | access and transfer events, candidate selection, pruning | lifecycle, vLLM's manager |
| Ascend worker (`ascend_worker.py`) | pending and in-flight transfer jobs on a copy stream | `_submit`, `get_finished`, `wait`, `shutdown`; `copy_plan` | vLLM's worker |
| Ascend layout, connector, spec, registration | configuration | start-up only | vLLM |
| tier contract (`base.py`) | none | abstract methods | an abstract specification that both storage layouts implement |

What is hard here: several processes share one directory under an advisory lock,
but write the segment files without it; a store is spread over the scheduler
thread, several workers and a completion callback, and any of these steps can fail
or be cut by a crash; locations are cached and captured long before they are used;
the pool has one condition variable for two kinds of waiters; lookups cross two
queues without a lock and can outlive the request that asked; block files are
checked, replaced and removed by name while others do the same; transfers run on a
device stream that the host only sees through events. `PROJECT.json`
lists these hazards at their lines, with the properties that cover them.

What makes the components correct: a location never leads to the wrong bytes;
slots have one owner; a job completes exactly once and truthfully; drain means
quiet; nothing waits for ever; the lookup indexes agree and every key is answered;
sessions and tracker agree, no key in use is reported as unreferenced and blocks in
use leave CPU memory last; a tier reports each
job once and a success only for blocks it had; a transfer moves exactly the bytes
asked for, after the kernels that write them and before it is reported.

## 2. Modules

| module | models |
|---|---|
| `SegmentStore` | the segment store and the store and load jobs of the manager |
| `ThreadPool` | the dual-queue pool |
| `AsyncLookup` | the asynchronous lookup manager |
| `Residency` | the block residency tracker |
| `Lifecycle` | the session lifecycle manager, extending `Residency`: each of its actions contains the tracker's |
| `KVTier` | abstract: the contract of a secondary tier (`base.py`) |
| `SegmentTier` | `SegmentStore` with the history that maps it to `KVTier` |
| `FileTier` | the file layout: `io.py` and the manager's file branches, mapped to `KVTier` |
| `AscendPlan` | which bytes an Ascend transfer moves: `build_layout`, `copy_plan`, both `_spans` |
| `AscendWorker` | when they move: submissions, copy and compute streams, events, `wait`, `shutdown` |
| `MC*` | values of the constants for TLC |
| `*Proofs` | TLAPS theorems about the module of that name; `SegmentTierProofs` extends `SegmentStoreProofs`, and `LifecycleProofs` holds the theorems about `Residency` too |

Definitions whose comment starts with *Mutant* are variants of the definition that
follows them. They are not used by the specifications: `PROJECT.json` says which
property TLC sees fail when a definition is replaced by its mutant.

### SegmentStore

A *slot* is one block of a segment; offsets are counted in blocks, so `Capacity`
is `segment_size_bytes // block_size`. The content of a block is determined by its
key (keys are content hashes), so a slot holds a key, nothing, or unspecified bytes
(`Torn`).

| variable | code |
|---|---|
| `index`, `meta`, `cells` | table `blocks`; table `metadata`; the segment files |
| `cache` | `_location_cache` of each process |
| `lock` | holder of `_thread_lock` and the file lock while `prepare_store` runs (other holders keep it for one step only) |
| `wanted`, `pending`, `alloc` | its keys, the `unique` ones not placed yet, `shard_state`/`next_segment_id`/`cursor` |
| `status`, `owner`, `plan`, `todo`, `writing`, `good`, `got` | a job: phase, process, plan or captured locations, tasks not started, tasks writing, success so far, bytes read |

`PrepareStore`, `AllocateEntry` (one turn of the loop) and `PrepareReturn` or
`PrepareAbort` are `prepare_store`; `WriteBegin`, `WriteEnd`, `WriteFail` are a
task, two steps because the write is visible while under way; `CompleteStore`,
`CompleteNothing`, `CompleteFail` are the completion callback with its error paths
before and after the COMMIT; `SubmitLoad`, `LoadChunk`, `LoadChunkFail`,
`FinishLoad` are a load; `Restart` is a close or a crash anywhere. A failing
`load_many` deletes its keys within the same action, as the code does. A restart
with another `segment_shards` is a process of `Procs` that was idle until then.
`prepare_store` of no keys is omitted: it returns an empty plan like the case
where all keys are found.

`Init` ranges over `LegacyStores`, directories as earlier versions left them
(`Migrated`: empty, or with the single-stream metadata rows). `BareSpec` is the
same system on an index without metadata rows.

### ThreadPool

One step per `with self._condition` block. A thread in `wait_for` is `"asleep"`
until a notify makes it evaluate its predicate again. `Notify(n)` wakes any `n`
sleepers. A task and a callback may raise. One scheduler thread calls the pool, as
the manager does. It submits at least one task per job and nothing after
`shutdown`; the empty load is listed as a hazard.

### AsyncLookup

Every scheduler call is one step (there is no lock, and the threads share only the
queues); the worker takes a batch, checks it one request at a time, and posts. `left`
are the places of the batch not checked yet. The next request is that of the smallest
one (`Group`, the batch grouped by request in the order of first occurrence), and its
keys with their hits become one item of `results`. The
outcome of a check is arbitrary, since stores and deletes change the tier at any
time; an exception makes the group misses. `pending` is the concatenation of the
posted batches: `drain_results` always empties it. `last` is a history variable.

### Residency and Lifecycle

Both classes run on one thread and are driven by calls of a manager outside this
repository, so the models accept any call at any moment; the difficulty is the
sequences of calls, not threads. `Residency` has one action per mutating method.
`moving` and `onCpu` are history variables: what the caller started and reported,
against which the tracker's own records are compared. `Lifecycle` adds `sess`,
`reqSession` and `nextExp` (`_sessions`, `_req_to_session`,
`_next_expiration_at`), and its actions conjoin those of the tracker:
`OnNewRequest` contains `OnSessionActive`, expiration and pruning contain
`ReleaseSessions` of all sessions they delete (releasing them one after the other
gives the same blocks). `reclaimed` records the keys the last expiration or
pruning reported. Calls that return at once (a gate not due, nothing in excess)
are stuttering steps. The clock is a bounded counter (`Tick`) that starts at 1,
since `time.monotonic()` is not 0 and `idle_since or now` relies on it.

The queries change no state; they are operators that the properties ask.
`GetCpuPressureCandidates` gives every set of keys `get_cpu_pressure_candidates` can return
for a limit, an age and `include_active`: its order by use and sharing is modelled
(`PressureRank`), and candidates alike in these come in any order.
`ActiveBlocksLastResort` is the method's docstring made precise for its defaults,
where active sessions' blocks are candidates too: such a block is offered only
together with every movable block that no active session uses. With an age its
default filter does not look at sessions, so what keeps active blocks out is that
they have no idle time. `RunningBlocksLastResort` says the same from the manager's
side; its part about the order needs two keys, more than `lifecycle` can afford: it is proved.

Left out: a disabled manager (its calls return, or keep statistics only), request,
reuse and access counts, and the order among idle candidates.

### KVTier, SegmentTier and FileTier

`KVTier` has the blocks present in the tier and one record per job id. A job is
submitted, runs, ends with a result and is collected once. Blocks appear only
through a running store job that asked for them and may disappear at any moment. A
job may end with success only if each of its blocks was present at some moment
between submission and end. That is the strongest promise the code can keep: both
layouts skip a block they find present and do not look again.

`SegmentTier` adds `hist` to `SegmentStore` and maps `present` to the indexed keys,
and every phase of a job (`preparing`, `store`, `load`) to *running*. The mapping
holds for a process that has its directory to itself. With several processes a
stale cache entry makes a store succeed without its block ever being present, which
is finding 2. Directories that also hold block files of the file layout are outside
this refinement (`SubmitJob` fails loads of keys that have no location).

`FileTier` models `store_block` and `load_block` with one step per system call, on
threads of several processes over the same files. `file` and `tmp` are the
destination and temporary files, `thread` is where each worker is, `job` is the
`JobState` with its tasks. An open file keeps what it found, whatever replaces it;
removal goes by name. Every call may fail. `Restart` ends a process anywhere (a
crash, or a shutdown that drops the queue); the suffixes of the next process are
new, so its leftovers are never opened again. The tasks of a job are taken in any
order, which covers the queues of `ThreadPool`. `FileTier` implements `KVTier` for
any number of processes, since existence is asked of the directory itself.

### AscendPlan and AscendWorker

`AscendPlan` keeps device and host memory byte by byte: a byte is
`<<layer, logical block, index>>`. `GetWorker` registers caches, canonical (one
tensor per allocation, a prefix of its page used) or through `BuildLayout`; refused
configurations leave no worker. `Store` and `Load` take a request as vLLM makes it
(per group a run of logical blocks, flat lists of device and CPU blocks; external),
also one with a CPU block too few, and apply the spans of `CopyPlan`. `held` and
`saved` say what was asked for, `device` and `host` what the plan made of it. The
running offsets of `copy_plan` are the sums `Sum(.., g - 1)` over the groups before.

`AscendWorker` leaves the bytes out. `stream` is the queue of the copy stream:
`Barrier` (a `wait_stream`), the copies, the event. Submissions are numbered, so
that a job id can be used again. `inflight`, `pending` and `completed` are the
worker's fields; `call` is the call the single host thread is blocked in. A wait
takes one job at a time out of `_inflight` and blocks on its event. `StreamError`
drops what is queued and makes its events raise. `SubmitRaises` is a `copy_` that
raises in the middle: the copies before it stay queued and the worker has no record
of them (`orphans`); `CopiesHaveOwner` therefore excepts them, also after shutdown.
This is how the code behaves; the comment of `shutdown` promises a best effort only.
The hazard is listed without a property that would catch it.

## 3. What TLC checks

| run | instance | shows |
|---|---|---|
| `segment_race` | 2 processes (2 shards, 1 shard), 1 key, 2 jobs, segments of 2 blocks; new and legacy directory | published locations lead to complete blocks, loads deliver their own block, segments are append-only, rows never move |
| `segment_plan` | 1 process, 2 shards, 2 keys, 2 jobs, segments of 1 block | types, private slots, the inductive invariant; `SegmentStore` implements `KVTier` |
| `segment_stale_filter` | as `segment_race` | **finding** |
| `segment_bare_index` | 2 processes, 2 keys, index without metadata rows | **finding** |
| `thread_pool` | 1 reader, 1 writer, 3 jobs, one of up to 2 tasks | job accounting, drain, truthful results; every job finishes, drain and shutdown return |
| `thread_pool_shutdown` | the same with 2 jobs | **finding** |
| `async_lookup` | 2 keys, 2 requests, 2 checks under way | agreement of the indexes, no lost lookup, settled answers are the latest; every lookup is answered, shutdown returns |
| `residency` | 2 keys, 3 sessions, up to 2 transfers per block, a table of 1 entry, clock to 2 | ownership indexes agree, active blocks have no idle time, nothing under way is forgotten, active blocks are the last resort under CPU pressure |
| `lifecycle` | 1 key, a named session with 2 requests and an unnamed one with 1, TTL 1, at most 1 session kept, clock to 2 | manager and tracker agree, no orphan mapping, the deadline gate is never late, reclaimed keys are unused; idle sessions expire |
| `file_tier` | 2 processes with 2 and 1 threads, 2 keys, 2 jobs (of both keys, or of one), at most 1 leftover temporary file | no partial block under a key, every task belongs to one running job, the file layout implements `KVTier` |
| `ascend_plan` | 2 groups, 3 logical blocks, 2 per CPU block, 3 device and 4 CPU blocks; 2 accepted and 6 refused configurations | every byte is where its next reader looks |
| `ascend_worker` | 2 job ids, 3 submissions of 2 copies, 1 kernel | results exactly once, copies have an owner, stores read stable blocks; `wait` and `shutdown` return |

Why these bounds are enough to be interesting: two processes with different shard
counts and one key give every race for a key and every change of `segment_shards`;
two segments of two blocks give rollovers and a full store; one-block segments
force a rollover in each allocation, across two shards in turn. Job ids and keys
are reused without limit. With three jobs, two can keep the workers busy while the
third waits, so starvation would show. Two checks let an old and a new check of one
key overlap. One key shared by two sessions gives every order of leaving it; two
finish times give two different deadlines for the gate to cover, and one entry or
session more than the limit makes pruning happen. The third session of `residency`
lets one block be shared by idle sessions while another is in use. Transfers are exercised in
`residency` and left out of `lifecycle`, which does not start any. Two keys and two
threads in one process give a job whose last task ends while another is under way;
the second process races it for one of the files. Three logical blocks at two to a CPU block
give transfers that start, end or cross inside a CPU block, and the hybrid layout
has an allocation shared by two groups with rows of different widths. Three
submissions over two ids give an id used twice next to another transfer.
`Jobs` are symmetric in the segment-store and file runs, the two threads of one
process in the latter. `MaxSegments` (a guard of the allocation), `MaxTasks`, `MaxChecks` (a guard on new entries), `MaxInflight`
(a guard on new transfers), `MaxTime` (a guard of the clock), `MaxLeftovers` (a guard
of a failing cleanup), `MaxSubmits` and `MaxKernels` are the only bounds,
and the proofs hold for every value of them.

`CHECK_DEADLOCK FALSE` in the pool's configurations: after `shutdown` a drain can
hang, which is the finding; in `AsyncLookup.cfg` and
`AscendWorker.cfg` the system ends when it is closed.

### Fairness

`ThreadPool`: weak fairness of each worker thread (the OS schedules threads, tasks
are file operations that return) and of the scheduler thread once it is inside
`wait_idle` or `join`. The scheduler need not submit, poll or shut down.
`AsyncLookup`: the worker runs and `batch_lookup` returns; the engine keeps
stepping, so `flush` happens and a request that was told to retry asks again.
`Lifecycle`: the scheduler calls `expire_idle_sessions` while `has_expiration_due`
says so, sooner or later with nothing protected, because transfers end.
`AscendWorker`: the device runs the kernels and copies that are queued, and a host
call that is no longer blocked goes on; nobody need submit, wait or shut down. No
strong fairness is assumed. `SegmentStore` states no liveness: progress of the jobs
is the pool's.

### Findings

1. `thread_pool.py:170/202`: a job that finishes during `shutdown` drives
   `_inflight_jobs` to -1; a later `wait_idle` hangs, which the comment at 168 says
   the reset avoids.
2. `segment_store.py:287`: `prepare_store` filters by the cache and drops a block
   another process has deleted, while `base.py:128` asks for filtering blocks
   *present*. The store job reports success.
3. `segment_store.py:134`: on an index without metadata rows the append position
   is derived from the surviving rows, so deleted tail slots are written again
   although the store is documented as append-only.

## 4. What is proved

The proofs hold for every value of the constants: any sets of processes, threads,
keys, jobs, requests and sessions, any capacities, times and bounds, every
interleaving, failure and crash of the models.

| module | theorems (property) |
|---|---|
| `SegmentStoreProofs` | `InvHolds`, `TypeCorrect` (`TypeOK`), `SlotsOwned` (`SlotInv`), `DataIntact` (`PublishedDataIntact`), `SlotsPrivate` (`PlannedSlotsPrivate`), `LoadsCorrect` (`LoadsReturnOwnBlock`), `SegmentsAppendOnly` (`AppendOnly`), `IndexStable` (`IndexedBlockNeverMoves`) |
| `SegmentTierProofs` | `SegmentTierInvariant`, `SegmentTierRefinement` (`SegmentImplementsTier`) |
| `FileTierProofs` | `FileTierInvariant`, `FileTierTypeCorrect` (`FileTierTypeOK`), `FileTierNeverTorn` (`NeverPublishesTorn`), `FileTierRefinement` (`FileImplementsTier`) |
| `ThreadPoolProofs` | `PoolInvariant`, `PoolTypeCorrect` (`TypeOK`), `PoolJobsAccountedFor`, `PoolDrainedMeansQuiet`, `PoolSuccessIsHonest` |
| `AsyncLookupProofs` | `LookupInvariant`, `LookupTypeCorrect` (`TypeOK`), `LookupIndexesAgree`, `LookupNeverLost` (`NoLookupLost`), `LookupAnswerIsLatest` (`SettledAnswerIsLatest`) |
| `LifecycleProofs` (tracker) | `TrackerInvariant`, `TrackerTypeCorrect`, `TrackerOwnership` (`OwnershipAgrees`), `TrackerActiveBlocks` (`ActiveBlocksNotIdle`), `TrackerForgetsNothing` (`NothingForgotten`), `TrackerLastResort` (`ActiveBlocksLastResort`) |
| `LifecycleProofs` (manager) | `LifecycleInvariant`, `LifecycleTypeCorrect`, `LifecycleTrackerAgreement` (`SessionsMatchTracker`), `LifecycleNoOrphans` (`NoOrphanMapping`), `LifecycleGate` (`DeadlineGate`), `LifecycleReclaimsUnused` (`ReclaimedKeysUnused`), `LifecycleRunningBlocks` (`RunningBlocksLastResort`, which no run checks) |
| `AscendWorkerProofs` | `WorkerInvariant`, `WorkerCopiesOwned` (`CopiesHaveOwner`), `WorkerStoresReadStable` (`StoresReadStable`), `WorkerResultsAccountedFor` (`ResultsAccountedFor`) |
| `AscendPlanProofs` | `PlanInvariant`, `PlanTransfersExact` (`TransfersExact`) |

Assumptions. Each component module names what it assumes of its constants
(`ConstantsAssumption`, `LegacyAssumption`, `PoolAssumption`, `LookupAssumption`,
`ResidencyAssumption`, `LifecycleAssumption`, `FileTierAssumption`,
`WorkerAssumption`, `PlanAssumption`, `ConfigAssumption`): positive sizes as the constructors check them, sentinels that
differ from values, finite sets where something is counted or the earliest of them is
taken. `LegacyAssumption` says that what an older version left is consistent: no two
keys share a slot, the metadata row lies above every block. `LifecycleAssumption` says
that an unnamed session has one request, as its generated id does. `PlanAssumption` says
that the offloading manager gives different chunks different CPU blocks,
`ConfigAssumption` that it has one for every chunk and that what a runner registers is
well formed: sizes are natural numbers, groups name registered layers, a canonical
reference is a nonempty part of its page. What `build_layout` checks itself (layers
that fit their page, one layer of a group per allocation) is not assumed. The refinement of
the segment layout has one hypothesis more, `OneProcess`: `Procs` has at most one
element. It is needed, as finding 2 shows, and the instance of `segment_plan` meets it.

TLC finds every inductive invariant below to hold on the instance of its component's run.

**SegmentStore.** `PublishedDataIntact` is not inductive: one must know that a slot about
to be written is not published, that it is not planned by another job, and that the
allocator will not hand it out again. `Inv == TypeOK /\ SlotInv` adds
`FreeSlotsUnused` (whatever the durable metadata, or the allocation under way, may
still hand out was never written, planned or published), `PlannedSlotsPrivate`,
`PlannedSlotsProgress` (what a planned slot holds at each stage of its job: empty,
torn, the block) and `JobsConsistent`. `HeadsApart` says that shards append to
different segments. The delicate steps are `_allocation_state`
(`AllocationFacts`: filling in missing shards makes no used slot free), one turn of
the loop (`AllocateEntryFacts`), the commit, and `complete_store`. Steps that only
forget (failures, polls, deletes, restarts, lookups) share one lemma. The two
action properties follow from `Inv` in the state before the step.

**Segment layout implements the contract.** A store may report success only if each of
its blocks was present while it ran. The job itself remembers no such thing: it has its
plan, and it dropped the keys it found in the cache. `TierInv` therefore relates the
history to the plan: `StoresCovered` (each key of a store was indexed while it ran, is
planned, or waits for its slot), `LoadsSeen` (a load that is still good has located all
its keys), `JobsSee` (what is indexed now has been seen), and `CacheIndexed` (with one
process nobody else deletes, so the cache is not stale). Then `complete_store` is the
contract's `Finish` with the planned keys appearing, submissions are `Submit`, deletes
and failing loads are `Remove`, an abort or a restart abandons jobs, and all other steps
stutter (`RemoveRefines`, `AbandonRefines`, `SubmitRefines`, `CompleteRefines`).

**FileTier.** `FileInv` follows a task through the system calls: only whole blocks reach
`os.replace` (`WholeBlocks`), a thread that reads or has succeeded works on a file that
existed while the job ran, and as long as a job is good each of its keys was seen or its
task is left (`GoodJobs`). When the last task ends, that is the success condition of the
contract. No process is assumed to be alone: existence is asked of the directory.

**ThreadPool.** Counting is left to the end. `PoolInv` says with quantifiers that a task
is in one place (`QueuesOnce`, `OpenTasks`), that at most one worker completes a job and
that it has no task left (`Completions`), and that a report comes after both (`Reports`).
`NothingLost` adds, until shutdown, that every submitted job is in one of the three
places and that `_inflight_jobs` is their number; `AfterStop` bounds the counter that
finding 1 is about. Only the theorem `PoolJobsAccountedFor` turns places into
cardinalities.

**AsyncLookup.** An old check can answer a new entry, so `SettledAnswerIsLatest` needs to
know where the newest result is: with the worker (`ResultsLatest`), else among the posted
results (`PendingLatest`), else in the entry. `drain_results` takes the last place of a
key in the posted results. That a set of places has a last one is obtained from the
well-foundedness of the natural numbers (`LargestPlace`).

**Residency and Lifecycle.** No conjunct of `TrackerInv` is inductive alone: the events of
a session reach its blocks through its key set, so `ActiveBlocksNotIdle` needs
`OwnershipAgrees`, and the bound of a transfer count comes from the history
(`NothingForgotten`). The actions of `Lifecycle` contain those of the tracker, and the
proofs cite the tracker's lemmas for them. `SessionsMatchTracker`
is what lets a deleted session leave nothing behind. `ActiveBlocksLastResort` needs no
induction of its own but all of `TrackerInv`: `OwnershipAgrees` for which blocks are
used, `ActiveBlocksNotIdle` for queries with an age, and `NothingForgotten` for the
blocks that could go instead; `RunningBlocksLastResort` adds `SessionsMatchTracker`.

**AscendWorker.** `CopiesHaveOwner` follows from the order on the stream: a copy is
followed by the event of its submission unless that submission raised (`EventFollows`),
and a queued event belongs to a job in flight or to the one `wait` holds
(`EventsOwned`). For `StoresReadStable`, either the kernels a store depends on have run
or a barrier is still queued before its copy (`BarriersFirst`). `OnePlace` states as
disjoint sets where submissions are; `WorkerResultsAccountedFor` counts them.

**AscendPlan.** `PlanInv` adds to `TransfersExact` what a registered layout promises
(`LayoutOK`), the shape of both memories (`MemoryOK`) and that a logical block is in one
device block (`HoldersOK`). The argument has three parts. *Where the plan looks:* the
running offsets of `copy_plan` are sums over the groups before, and the request's lists
are concatenations over the same groups, so entry `i` of a group finds the block and the
chunk of logical block `i` of its run (`FlattenFacts`, `ChunkFacts`, `PlanEntryFacts`); a
request with a CPU block too few is refused (`VariantFacts`). *What the spans are:* parts
of one block's bytes that together make up the block (`EntrySpans`). *Why nothing is
overwritten:* two bytes with one place in host memory are the same byte, since chunks
have CPU blocks of their own, pages of a CPU block do not overlap, and layers of one
group share no allocation (`PlacesApart`; this is what the check in `build_layout` is
for); loads write only to the blocks they were given. Sums and concatenations are
recursive functions. What they compute is proved by induction over a set of numbers,
`NatSetInduction`, a first-order form of induction that follows from the
well-foundedness of the natural numbers.

Only model-checked:

- liveness (`EveryJobFinishes`, `DrainReturns`, `ShutdownReturns`, `EveryLookupAnswered`,
  `LookupShutdownReturns`, `IdleSessionsExpire`, `CallsReturn`): the proof system handles
  neither fairness nor ENABLED;
- the three findings, which are counterexamples.

## 5. Not modelled

Power failure (nothing is fsynced; the code promises nothing), processes with
different block or segment sizes in one directory, segment directories that also
hold block files, the vectored-I/O batching and coalescing of adjacent blocks,
partial reads of a failing load, metric definitions and statistics, configuration,
registration and the connector's logging, the hashes of the Ascend diagnostics, the
order in which the manager's `shutdown` stops its parts (the models of the store let
a process end anywhere, `ThreadPool` and `AsyncLookup` have shutdowns of their own),
how the runner lays the views of one device allocation over each other.

## 6. Plan

All safety properties the passing runs check are proved, and both refinements. What is
left: `SegmentStore` with several processes implements a weaker contract (a successful
store's blocks were present at some time before its end) that could be stated and proved
without `OneProcess`.
