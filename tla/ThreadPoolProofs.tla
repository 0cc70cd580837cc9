--------------------------- MODULE ThreadPoolProofs ---------------------------
(* Theorems about ThreadPool, for every value of its constants.            *)
EXTENDS ThreadPool, FiniteSetTheorems, SequenceTheorems, TLAPS

PoolTypes ==
    /\ loadQ \in Seq(Tasks) /\ storeQ \in Seq(Tasks)
    /\ pc \in [Workers -> {"check", "asleep", "run", "callback", "finish", "exited"}]
    /\ task \in [Workers -> Tasks \cup {NoTask}]
    /\ kind \in [Jobs -> {"none", "load", "store"}]
    /\ DOMAIN open = Jobs /\ \A j \in Jobs : open[j] \subseteq Numbers(j)
    /\ good \in [Jobs -> BOOLEAN] /\ broken \in SUBSET Jobs
    /\ inflight \in Int /\ finished \in Seq(Jobs \X BOOLEAN) /\ stop \in BOOLEAN
    /\ sched \in {"idle", "drain", "asleep", "drained", "joining"}

Runs(w) == pc[w] = "run"
Completes(w) == pc[w] \in {"callback", "finish"}
Resting == {w \in Workers : ~Runs(w) /\ ~Completes(w)}

(* What a sequence holds, and that it holds nothing twice.                 *)
In(q) == {q[i] : i \in DOMAIN q}
Once(q) == \A a, b \in DOMAIN q : q[a] = q[b] => a = b

QueuesOnce == Once(loadQ) /\ Once(storeQ) /\ In(loadQ) \cap In(storeQ) = {}

(* A task queued or held is open, and in one place.                        *)
OpenTasks ==
    /\ \A t \in Queued : t[2] \in open[t[1]]
    /\ \A w \in Workers : Runs(w) =>
         task[w] \in Tasks /\ task[w][2] \in open[Job(w)] /\ task[w] \notin Queued
    /\ \A v, w \in Workers : Runs(v) /\ Runs(w) /\ task[v] = task[w] => v = w

(* A worker completes a job without open tasks, alone.                     *)
Completions ==
    /\ \A w \in Workers : Completes(w) =>
         /\ task[w] \in Tasks /\ open[Job(w)] = {} /\ kind[Job(w)] # "none"
         /\ Job(w) \notin Reported
    /\ \A v, w \in Workers : Completes(v) /\ Completes(w) /\ Job(v) = Job(w) => v = w

(* A job is reported once, when nothing of it is open.                     *)
Reports ==
    /\ \A a, b \in DOMAIN finished : finished[a][1] = finished[b][1] => a = b
    /\ \A j \in Reported : open[j] = {} /\ kind[j] # "none"
    /\ \A j \in Jobs : open[j] # {} => kind[j] # "none"

(* Before shutdown nothing is lost, and the counter is right.              *)
NothingLost ==
    ~stop =>
        /\ \A t \in Tasks : t[2] \in open[t[1]] => t \in Queued \cup Held
        /\ \A j \in Jobs : kind[j] # "none" => open[j] # {} \/ Finishing(j) # {} \/ j \in Reported
        /\ inflight = Cardinality(Unfinished)

(* After shutdown the counter goes down once for every busy worker.        *)
AfterStop ==
    stop =>
        /\ loadQ = <<>> /\ storeQ = <<>>
        /\ inflight <= 0 /\ inflight >= -Cardinality(Resting)

(* shutdown has joined the workers before anything else is called.         *)
Joins == stop /\ sched # "joining" => \A w \in Workers : pc[w] = "exited"

(* JobState._success says that nothing raised, and results repeat it.      *)
HonestFlags ==
    /\ \A j \in Jobs : good[j] <=> j \notin broken
    /\ SuccessIsHonest

(* The inductive invariant.                                                *)
PoolInv ==
    /\ PoolTypes /\ QueuesOnce /\ OpenTasks /\ Completions /\ Reports
    /\ NothingLost /\ AfterStop /\ Joins /\ DrainedMeansQuiet /\ HonestFlags

-----------------------------------------------------------------------------
(* Tasks and queues.                                                       *)

(* A task is a job and the number of one of its tasks.                     *)
LEMMA TaskFacts ==
    /\ \A t \in Tasks : t[1] \in Jobs /\ t[2] \in Numbers(t[1]) /\ t = <<t[1], t[2]>>
    /\ \A j \in Jobs : \A n \in Numbers(j) : <<j, n>> \in Tasks
BY DEF Tasks

(* The contents of a queue to which tasks are added.                       *)
LEMMA ConcatQueue ==
    ASSUME NEW q \in Seq(Tasks), NEW r \in Seq(Tasks)
    PROVE  /\ q \o r \in Seq(Tasks) /\ In(q \o r) = In(q) \cup In(r)
           /\ Once(q) /\ Once(r) /\ In(q) \cap In(r) = {} => Once(q \o r)
<1>1. /\ q \o r \in Seq(Tasks) /\ Len(q) \in Nat /\ Len(r) \in Nat
      /\ DOMAIN q = 1 .. Len(q) /\ DOMAIN r = 1 .. Len(r)
      /\ DOMAIN (q \o r) = 1 .. Len(q) + Len(r)
  BY ConcatProperties, LenProperties
<1>2. /\ \A i \in DOMAIN q : i \in DOMAIN (q \o r) /\ (q \o r)[i] = q[i]
      /\ \A i \in DOMAIN r : Len(q) + i \in DOMAIN (q \o r) /\ (q \o r)[Len(q) + i] = r[i]
      /\ \A i \in DOMAIN (q \o r) :
           \/ i \in DOMAIN q /\ (q \o r)[i] = q[i]
           \/ i - Len(q) \in DOMAIN r /\ (q \o r)[i] = r[i - Len(q)]
  BY <1>1, ConcatProperties
<1>3. In(q \o r) = In(q) \cup In(r)
  <2>1. ASSUME NEW t \in In(q) \cup In(r)
        PROVE  t \in In(q \o r)
    <3>1. CASE t \in In(q)
      <4>1. PICK i \in DOMAIN q : t = q[i]
        BY <3>1 DEF In
      <4>2. QED
        BY <4>1, <1>2 DEF In
    <3>2. CASE t \in In(r)
      <4>1. PICK i \in DOMAIN r : t = r[i]
        BY <3>2 DEF In
      <4>2. QED
        BY <4>1, <1>2 DEF In
    <3>3. QED
      BY <3>1, <3>2
  <2>2. In(q \o r) \subseteq In(q) \cup In(r)
    BY <1>2 DEF In
  <2>3. QED
    BY <2>1, <2>2
<1>4. ASSUME Once(q), Once(r), In(q) \cap In(r) = {}
      PROVE  Once(q \o r)
  <2>1. SUFFICES ASSUME NEW a \in DOMAIN (q \o r), NEW b \in DOMAIN (q \o r), (q \o r)[a] = (q \o r)[b]
                 PROVE  a = b
    BY DEF Once
  <2>2. (\A x \in DOMAIN q : q[x] \in In(q)) /\ (\A x \in DOMAIN r : r[x] \in In(r))
    BY DEF In
  <2>3. CASE a \in DOMAIN q /\ b \in DOMAIN q /\ (q \o r)[a] = q[a] /\ (q \o r)[b] = q[b]
    BY <2>1, <2>3, <1>4 DEF Once
  <2>4. CASE /\ a - Len(q) \in DOMAIN r /\ b - Len(q) \in DOMAIN r
             /\ (q \o r)[a] = r[a - Len(q)] /\ (q \o r)[b] = r[b - Len(q)]
    <3>1. a - Len(q) = b - Len(q)
      BY <2>1, <2>4, <1>4 DEF Once
    <3>2. a \in Int /\ b \in Int
      BY <2>1, <1>1
    <3>3. QED
      BY <3>1, <3>2, <1>1
  <2>5. QED
    BY <2>1, <2>2, <2>3, <2>4, <1>2, <1>4
<1>5. QED
  BY <1>1, <1>3, <1>4

(* The contents of a queue from which a task is taken.                     *)
LEMMA TakenQueue ==
    ASSUME NEW q \in Seq(Tasks), q # <<>>, Once(q)
    PROVE  /\ Head(q) \in In(q) /\ Head(q) \in Tasks
           /\ Tail(q) \in Seq(Tasks) /\ In(Tail(q)) = In(q) \ {Head(q)} /\ Once(Tail(q))
<1>1. Len(q) \in Nat \ {0} /\ DOMAIN q = 1 .. Len(q) /\ Head(q) = q[1] /\ 1 \in DOMAIN q
  BY EmptySeq, LenProperties
<1>2. /\ Head(q) \in Tasks /\ Tail(q) \in Seq(Tasks) /\ Len(Tail(q)) = Len(q) - 1
      /\ \A i \in 1 .. Len(Tail(q)) : Tail(q)[i] = q[i + 1]
  BY HeadTailProperties
<1>3. DOMAIN Tail(q) = 1 .. Len(q) - 1
  BY <1>2, LenProperties
<1>4. /\ \A i \in DOMAIN Tail(q) : i \in Nat /\ i + 1 \in DOMAIN q /\ i + 1 # 1 /\ Tail(q)[i] = q[i + 1]
      /\ \A i \in DOMAIN q : i # 1 => i - 1 \in DOMAIN Tail(q) /\ Tail(q)[i - 1] = q[i]
  BY <1>1, <1>2, <1>3
<1>5. In(Tail(q)) \subseteq In(q) \ {Head(q)}
  BY <1>1, <1>4 DEF In, Once
<1>6. In(q) \ {Head(q)} \subseteq In(Tail(q))
  BY <1>1, <1>4 DEF In
<1>7. Once(Tail(q))
  <2>1. SUFFICES ASSUME NEW a \in DOMAIN Tail(q), NEW b \in DOMAIN Tail(q), Tail(q)[a] = Tail(q)[b]
                 PROVE  a = b
    BY DEF Once
  <2>2. a + 1 = b + 1 /\ a \in Nat /\ b \in Nat
    BY <2>1, <1>4 DEF Once
  <2>3. QED
    BY <2>2
<1>8. QED
  BY <1>1, <1>2, <1>5, <1>6, <1>7 DEF In

(* The tasks of a new job.                                                 *)
LEMMA NewTasks ==
    ASSUME NEW j \in Jobs, NEW n \in Numbers(j)
    PROVE  LET batch == [i \in 1 .. n |-> <<j, i>>]
           IN  /\ batch \in Seq(Tasks) /\ Once(batch) /\ In(batch) = {<<j, i>> : i \in 1 .. n}
               /\ 1 .. n \subseteq Numbers(j) /\ 1 \in 1 .. n
<1> DEFINE batch == [i \in 1 .. n |-> <<j, i>>]
<1>1. n \in Nat /\ 1 .. n \subseteq Numbers(j) /\ 1 \in 1 .. n
  BY PoolAssumption DEF Numbers
<1>2. \A i \in 1 .. n : <<j, i>> \in Tasks
  BY <1>1, TaskFacts
<1>3. batch \in [1 .. n -> Tasks] /\ batch \in Seq(Tasks)
  BY <1>1, <1>2
<1>4. Once(batch) /\ In(batch) = {<<j, i>> : i \in 1 .. n}
  BY DEF Once, In
<1>5. QED
  BY <1>1, <1>3, <1>4

(* Queued is what the two queues hold.                                     *)
LEMMA QueuedIn == Queued = In(loadQ) \cup In(storeQ) /\ Queued' = In(loadQ') \cup In(storeQ')
BY DEF Queued, In

-----------------------------------------------------------------------------
(* Steps that leave the busy workers alone.                                *)

PcStates == {"check", "asleep", "run", "callback", "finish", "exited"}

(* The same workers run or complete the same tasks as before.              *)
SameBusy ==
    \A w \in Workers :
        /\ Runs(w)' <=> Runs(w)
        /\ Completes(w)' <=> Completes(w)
        /\ Runs(w) \/ Completes(w) => task'[w] = task[w]

(* What the busy workers hold follows.                                     *)
LEMMA BusyViews ==
    ASSUME SameBusy
    PROVE  /\ Held' = Held /\ Resting' = Resting
           /\ \A j \in Jobs : Finishing(j)' = Finishing(j)
BY DEF SameBusy, Runs, Completes, Held, Resting, Finishing, Job

(* A notification changes no busy worker.                                  *)
LEMMA WakeFacts ==
    ASSUME PoolTypes, NEW W \in SUBSET Asleep, pc' = Wake(W), task' = task
    PROVE  pc' \in [Workers -> PcStates] /\ SameBusy
<1>1. \A w \in Workers : pc'[w] = IF pc[w] = "asleep" /\ w \in W THEN "check" ELSE pc[w]
  BY DEF Wake, Asleep
<1>2. pc' \in [Workers -> PcStates]
  BY DEF Wake, PoolTypes, PcStates
<1>3. QED
  BY <1>1, <1>2 DEF SameBusy, Runs, Completes

(* The queues, the jobs and the results stay as they are.                  *)
LEMMA QuietStep ==
    ASSUME PoolInv, SameBusy, UNCHANGED <<loadQ, storeQ, kind, open, inflight, finished, stop>>
    PROVE  QueuesOnce' /\ OpenTasks' /\ Completions' /\ Reports' /\ NothingLost' /\ AfterStop'
<1>1. Held' = Held /\ Resting' = Resting /\ \A j \in Jobs : Finishing(j)' = Finishing(j)
  BY BusyViews
<1>2. Queued' = Queued /\ Reported' = Reported /\ Unfinished' = Unfinished
  BY DEF Queued, Reported, Unfinished
<1>3. QueuesOnce' /\ AfterStop'
  BY <1>1 DEF PoolInv, QueuesOnce, AfterStop
<1>4. OpenTasks'
  BY <1>2 DEF PoolInv, OpenTasks, SameBusy, Job
<1>5. Completions'
  BY <1>2 DEF PoolInv, Completions, SameBusy, Job
<1>6. Reports'
  BY <1>2 DEF PoolInv, Reports
<1>7. NothingLost'
  BY <1>1, <1>2 DEF PoolInv, NothingLost
<1>8. QED
  BY <1>3, <1>4, <1>5, <1>6, <1>7

(* When wait_idle has returned no worker is busy.                          *)
LEMMA BusyNotDrained ==
    ASSUME PoolInv, NEW w \in Workers, Runs(w) \/ Completes(w)
    PROVE  sched # "drained" /\ (stop => sched = "joining")
BY DEF PoolInv, DrainedMeansQuiet, Joins, Runs, Completes

(* A counter of zero means that every job has been reported.               *)
LEMMA IdleMeansQuiet ==
    ASSUME PoolInv, ~stop, inflight = 0
    PROVE  /\ Unfinished = {} /\ Queued = {}
           /\ \A w \in Workers : pc[w] \notin {"run", "callback", "finish"}
<1>1. IsFiniteSet(Unfinished)
  <2>1. Unfinished \in SUBSET Jobs /\ IsFiniteSet(Jobs)
    BY PoolAssumption DEF Unfinished
  <2>2. QED
    BY <2>1, FS_Subset
<1>2. Unfinished = {}
  <2>1. Cardinality(Unfinished) = 0
    BY DEF PoolInv, NothingLost
  <2>2. QED
    BY <2>1, <1>1, FS_EmptySet
<1>3. \A j \in Jobs : open[j] = {}
  BY <1>2 DEF Unfinished, PoolInv, Reports
<1>4. Queued = {}
  <2>1. Queued \subseteq Tasks
    BY ElementOfSeq, LenProperties DEF PoolInv, PoolTypes, Queued
  <2>2. QED
    BY <2>1, <1>3, TaskFacts DEF PoolInv, OpenTasks
<1>5. ASSUME NEW w \in Workers
      PROVE  ~Runs(w) /\ ~Completes(w)
  <2>1. ~Runs(w)
    BY <1>3, TaskFacts DEF PoolInv, OpenTasks, Job
  <2>2. ~Completes(w)
    BY <1>2, TaskFacts DEF PoolInv, Completions, Job, Unfinished
  <2>3. QED
    BY <2>1, <2>2
<1>6. QED
  BY <1>2, <1>4, <1>5 DEF Runs, Completes

(* wait_idle and the end of shutdown's joins.                              *)
LEMMA WaitStep ==
    ASSUME PoolInv, WaitIdle \/ WaitIdleCheck \/ Joined
    PROVE  PoolInv'
<1>1. /\ UNCHANGED <<loadQ, storeQ, pc, task, kind, open, good, broken, inflight, finished, stop>>
      /\ sched' \in {"idle", "drain", "asleep", "drained"}
  BY DEF WaitIdle, WaitIdleCheck, Joined, jobVars
<1>2. SameBusy
  BY <1>1 DEF SameBusy, Runs, Completes
<1>3. QueuesOnce' /\ OpenTasks' /\ Completions' /\ Reports' /\ NothingLost' /\ AfterStop'
  BY <1>1, <1>2, QuietStep
<1>4. PoolTypes' /\ HonestFlags'
  BY <1>1 DEF PoolInv, PoolTypes, HonestFlags, SuccessIsHonest
<1>5. stop => \A w \in Workers : pc[w] = "exited"
  BY DEF WaitIdle, WaitIdleCheck, Joined, SchedulerFree, PoolInv, Joins
<1>6. Joins'
  BY <1>1, <1>5 DEF Joins
<1>7. DrainedMeansQuiet'
  <2>1. SUFFICES ASSUME sched' = "drained"
                 PROVE  /\ Queued = {}
                        /\ \A w \in Workers : pc[w] \notin {"run", "callback", "finish"}
                        /\ ~stop => Unfinished = {}
    BY <1>1 DEF DrainedMeansQuiet, Queued, Unfinished, Reported
  <2>2. inflight = 0
    BY <2>1 DEF WaitIdle, WaitIdleCheck, Joined
  <2>3. CASE ~stop
    BY <2>2, <2>3, IdleMeansQuiet
  <2>4. CASE stop
    BY <2>4, <1>5 DEF PoolInv, AfterStop, Queued
  <2>5. QED
    BY <2>3, <2>4
<1>8. QED
  BY <1>3, <1>4, <1>6, <1>7 DEF PoolInv

-----------------------------------------------------------------------------
(* The scheduler's steps.                                                  *)

(* get_finished reports jobs of which nothing is left.                     *)
LEMMA GetFinishedStep ==
    ASSUME PoolInv, GetFinished
    PROVE  PoolInv'
<1>1. /\ sched \in {"idle", "drained"} /\ sched' = "idle" /\ finished' = <<>>
      /\ kind' = [j \in Jobs |-> IF j \in Reported THEN "none" ELSE kind[j]]
      /\ UNCHANGED <<loadQ, storeQ, pc, task, open, good, broken, inflight, stop>>
  BY DEF GetFinished, SchedulerFree
<1>2. finished' \in Seq(Jobs \X BOOLEAN) /\ DOMAIN finished' = {} /\ Reported' = {}
  BY <1>1 DEF Reported
<1>3. PoolTypes'
  BY <1>1, <1>2 DEF PoolInv, PoolTypes
<1>4. SameBusy
  BY <1>1 DEF SameBusy, Runs, Completes
<1>5. Held' = Held /\ Resting' = Resting /\ \A j \in Jobs : Finishing(j)' = Finishing(j)
  BY <1>4, BusyViews
<1>6. Queued' = Queued /\ Unfinished' = Unfinished
  BY <1>1, <1>2 DEF Queued, Unfinished
<1>7. QueuesOnce' /\ AfterStop' /\ OpenTasks'
  BY <1>1, <1>5, <1>6 DEF PoolInv, QueuesOnce, AfterStop, OpenTasks, Job, Runs
<1>8. Completions'
  <2>1. ASSUME NEW w \in Workers, Completes(w)
        PROVE  /\ task[w] \in Tasks /\ open[Job(w)] = {} /\ kind'[Job(w)] # "none"
    BY <2>1, <1>1, TaskFacts DEF PoolInv, Completions, Job
  <2>2. QED
    BY <2>1, <1>1, <1>2 DEF PoolInv, Completions, Job, Completes
<1>9. Reports'
  <2>1. ASSUME NEW j \in Jobs, open[j] # {}
        PROVE  kind'[j] # "none"
    BY <2>1, <1>1 DEF PoolInv, Reports
  <2>2. QED
    BY <2>1, <1>1, <1>2 DEF Reports
<1>10. NothingLost'
  BY <1>1, <1>2, <1>5, <1>6 DEF PoolInv, NothingLost
<1>11. Joins' /\ DrainedMeansQuiet'
  BY <1>1 DEF PoolInv, Joins, DrainedMeansQuiet
<1>12. HonestFlags'
  BY <1>1, <1>2 DEF PoolInv, HonestFlags, SuccessIsHonest
<1>13. QED
  BY <1>3, <1>7, <1>8, <1>9, <1>10, <1>11, <1>12 DEF PoolInv

(* shutdown drops the queued tasks and starts counting anew.               *)
LEMMA ShutdownStep ==
    ASSUME PoolInv, Shutdown
    PROVE  PoolInv'
<1>1. /\ sched' = "joining" /\ stop' = TRUE /\ loadQ' = <<>> /\ storeQ' = <<>> /\ inflight' = 0
      /\ pc' = Wake(Asleep) /\ task' = task
      /\ UNCHANGED <<kind, open, good, broken, finished>>
  BY DEF Shutdown, jobVars
<1>2. pc' \in [Workers -> PcStates] /\ SameBusy
  BY <1>1, WakeFacts DEF PoolInv
<1>3. PoolTypes'
  BY <1>1, <1>2 DEF PoolInv, PoolTypes, PcStates
<1>4. Queued' = {} /\ Reported' = Reported
  BY <1>1 DEF Queued, Reported
<1>5. QueuesOnce'
  BY <1>1 DEF QueuesOnce, Once, In
<1>6. OpenTasks' /\ Completions' /\ Reports'
  BY <1>1, <1>2, <1>4 DEF PoolInv, OpenTasks, Completions, Reports, SameBusy, Job
<1>7. NothingLost' /\ Joins' /\ DrainedMeansQuiet'
  BY <1>1 DEF NothingLost, Joins, DrainedMeansQuiet
<1>8. AfterStop'
  <2>1. Resting \in SUBSET Workers /\ Resting' = Resting /\ IsFiniteSet(Workers)
    BY <1>2, BusyViews, PoolAssumption DEF Resting
  <2>2. Cardinality(Resting) \in Nat
    BY <2>1, FS_Subset, FS_CardinalityType
  <2>3. QED
    BY <2>1, <2>2, <1>1 DEF AfterStop
<1>9. HonestFlags'
  BY <1>1 DEF PoolInv, HonestFlags, SuccessIsHonest
<1>10. QED
  BY <1>3, <1>5, <1>6, <1>7, <1>8, <1>9 DEF PoolInv

(* Nothing is left of a job id that may be submitted.                      *)
LEMMA FreeJob ==
    ASSUME PoolInv, NEW j \in Jobs, kind[j] = "none"
    PROVE  /\ open[j] = {} /\ j \notin Reported /\ j \notin Unfinished
           /\ \A t \in Queued : t[1] # j
           /\ \A w \in Workers : Runs(w) \/ Completes(w) => task[w] \in Tasks /\ Job(w) # j
<1>1. open[j] = {} /\ j \notin Reported /\ j \notin Unfinished
  BY DEF PoolInv, Reports, Unfinished
<1>2. \A t \in Queued : t[1] # j
  BY <1>1 DEF PoolInv, OpenTasks
<1>3. \A w \in Workers : Runs(w) \/ Completes(w) => task[w] \in Tasks /\ Job(w) # j
  BY <1>1 DEF PoolInv, OpenTasks, Completions
<1>4. QED
  BY <1>1, <1>2, <1>3

(* enqueue_load and enqueue_store: new tasks of a new job, in one queue.   *)
LEMMA EnqueueStep ==
    ASSUME PoolInv, NEW j \in Jobs, NEW k \in {"load", "store"}, NEW n \in Numbers(j), Enqueue(j, n, k)
    PROVE  PoolInv'
<1> DEFINE batch == [i \in 1 .. n |-> <<j, i>>]
           N == {<<j, i>> : i \in 1 .. n}
<1>1. /\ ~stop /\ kind[j] = "none" /\ sched' = "idle"
      /\ kind' = [kind EXCEPT ![j] = k] /\ open' = [open EXCEPT ![j] = 1 .. n]
      /\ good' = [good EXCEPT ![j] = TRUE] /\ broken' = broken \ {j} /\ inflight' = inflight + 1
      /\ loadQ' = IF k = "load" THEN loadQ \o batch ELSE loadQ
      /\ storeQ' = IF k = "store" THEN storeQ \o batch ELSE storeQ
      /\ UNCHANGED <<task, finished, stop>>
  BY DEF Enqueue
<1>2. /\ batch \in Seq(Tasks) /\ Once(batch) /\ In(batch) = N
      /\ 1 .. n \subseteq Numbers(j) /\ 1 \in 1 .. n
  BY NewTasks
<1>3. \A t : t \in N <=> t \in Tasks /\ t[1] = j /\ t[2] \in 1 .. n
  BY <1>2, TaskFacts
<1> HIDE DEF batch, N
<1>4. PICK W \in SUBSET Asleep : pc' = Wake(W)
  BY DEF Enqueue, Notify
<1>5. pc' \in [Workers -> PcStates] /\ SameBusy
  BY <1>1, <1>4, WakeFacts DEF PoolInv
<1>6. Held' = Held /\ Resting' = Resting /\ \A i \in Jobs : Finishing(i)' = Finishing(i)
  BY <1>5, BusyViews
<1>7. /\ open[j] = {} /\ j \notin Reported /\ j \notin Unfinished
      /\ \A t \in Queued : t[1] # j
      /\ \A w \in Workers : Runs(w) \/ Completes(w) => task[w] \in Tasks /\ Job(w) # j
  BY <1>1, FreeJob
<1>8. /\ loadQ \in Seq(Tasks) /\ storeQ \in Seq(Tasks) /\ Once(loadQ) /\ Once(storeQ)
      /\ In(loadQ) \cap In(storeQ) = {} /\ Queued = In(loadQ) \cup In(storeQ)
      /\ Queued' = In(loadQ') \cup In(storeQ')
  BY QueuedIn DEF PoolInv, PoolTypes, QueuesOnce
<1>9. N \cap Queued = {}
  BY <1>3, <1>7
<1>10. /\ loadQ' \in Seq(Tasks) /\ storeQ' \in Seq(Tasks) /\ QueuesOnce' /\ Queued' = Queued \cup N
  <2>1. CASE k = "load"
    <3>1. loadQ' = loadQ \o batch /\ storeQ' = storeQ
      BY <2>1, <1>1
    <3>2. /\ loadQ \o batch \in Seq(Tasks) /\ In(loadQ \o batch) = In(loadQ) \cup N
          /\ Once(loadQ \o batch)
      BY <1>2, <1>8, <1>9, ConcatQueue
    <3>3. QED
      BY <3>1, <3>2, <1>8, <1>9 DEF QueuesOnce
  <2>2. CASE k = "store"
    <3>1. storeQ' = storeQ \o batch /\ loadQ' = loadQ
      BY <2>2, <1>1
    <3>2. /\ storeQ \o batch \in Seq(Tasks) /\ In(storeQ \o batch) = In(storeQ) \cup N
          /\ Once(storeQ \o batch)
      BY <1>2, <1>8, <1>9, ConcatQueue
    <3>3. QED
      BY <3>1, <3>2, <1>8, <1>9 DEF QueuesOnce
  <2>3. QED
    BY <2>1, <2>2
<1>11. /\ DOMAIN open' = Jobs /\ open'[j] = 1 .. n /\ \A i \in Jobs \ {j} : open'[i] = open[i]
       /\ kind'[j] = k /\ \A i \in Jobs \ {j} : kind'[i] = kind[i]
       /\ kind' \in [Jobs -> {"none", "load", "store"}]
  BY <1>1 DEF PoolInv, PoolTypes
<1>12. PoolTypes'
  <2>1. \A i \in Jobs : open'[i] \subseteq Numbers(i)
    BY <1>2, <1>11 DEF PoolInv, PoolTypes
  <2>2. good' \in [Jobs -> BOOLEAN] /\ broken' \in SUBSET Jobs /\ inflight' \in Int
    BY <1>1 DEF PoolInv, PoolTypes
  <2>3. QED
    BY <2>1, <2>2, <1>1, <1>5, <1>10, <1>11 DEF PoolInv, PoolTypes, PcStates
<1>13. OpenTasks'
  <2>1. \A t \in Queued' : t[2] \in open'[t[1]]
    <3>1. Queued \subseteq Tasks
      BY <1>8, ElementOfSeq, LenProperties DEF In
    <3>2. QED
      BY <3>1, <1>3, <1>7, <1>10, <1>11, TaskFacts DEF PoolInv, OpenTasks
  <2>2. ASSUME NEW w \in Workers, Runs(w)
        PROVE  task[w] \in Tasks /\ task[w][2] \in open'[Job(w)] /\ task[w] \notin Queued'
    <3>1. task[w] \in Tasks /\ task[w][2] \in open[Job(w)] /\ task[w] \notin Queued /\ Job(w) # j
      BY <2>2, <1>7 DEF PoolInv, OpenTasks
    <3>2. Job(w) \in Jobs /\ task[w] \notin N
      BY <3>1, <1>3, TaskFacts DEF Job
    <3>3. QED
      BY <3>1, <3>2, <1>10, <1>11
  <2>3. QED
    BY <2>1, <2>2, <1>1, <1>5 DEF PoolInv, OpenTasks, SameBusy, Job
<1>14. Reported' = Reported
  BY <1>1 DEF Reported
<1>15. Completions'
  <2>1. ASSUME NEW w \in Workers, Completes(w)
        PROVE  /\ task[w] \in Tasks /\ open'[Job(w)] = {} /\ kind'[Job(w)] # "none"
               /\ Job(w) \notin Reported
    <3>1. task[w] \in Tasks /\ Job(w) # j /\ Job(w) \in Jobs
      BY <2>1, <1>7, TaskFacts DEF Job
    <3>2. QED
      BY <2>1, <3>1, <1>11 DEF PoolInv, Completions
  <2>2. QED
    BY <2>1, <1>1, <1>5, <1>14 DEF PoolInv, Completions, SameBusy, Job
<1>16. Reported \subseteq Jobs
  BY ElementOfSeq, LenProperties DEF PoolInv, PoolTypes, Reported
<1>17. Reports'
  BY <1>1, <1>7, <1>11, <1>14, <1>16 DEF PoolInv, Reports
<1>18. NothingLost'
  <2>1. ASSUME NEW t \in Tasks, t[2] \in open'[t[1]]
        PROVE  t \in Queued' \cup Held'
    <3>1. t[1] \in Jobs
      BY TaskFacts
    <3>2. CASE t[1] = j
      BY <2>1, <3>2, <1>3, <1>10, <1>11
    <3>3. CASE t[1] # j
      <4>1. t \in Queued \cup Held
        BY <2>1, <3>1, <3>3, <1>1, <1>11 DEF PoolInv, NothingLost
      <4>2. QED
        BY <4>1, <1>6, <1>10
    <3>4. QED
      BY <3>2, <3>3
  <2>2. ASSUME NEW i \in Jobs, kind'[i] # "none"
        PROVE  open'[i] # {} \/ Finishing(i)' # {} \/ i \in Reported'
    BY <2>2, <1>1, <1>2, <1>6, <1>11, <1>14 DEF PoolInv, NothingLost
  <2>3. inflight' = Cardinality(Unfinished')
    <3>1. Unfinished' = Unfinished \cup {j}
      BY <1>7, <1>11, <1>14 DEF Unfinished
    <3>2. IsFiniteSet(Unfinished)
      <4>1. Unfinished \in SUBSET Jobs /\ IsFiniteSet(Jobs)
        BY PoolAssumption DEF Unfinished
      <4>2. QED
        BY <4>1, FS_Subset
    <3>3. Cardinality(Unfinished \cup {j}) = Cardinality(Unfinished) + 1
      BY <3>2, <1>7, FS_AddElement
    <3>4. QED
      BY <3>1, <3>3, <1>1 DEF PoolInv, NothingLost
  <2>4. QED
    BY <2>1, <2>2, <2>3 DEF NothingLost
<1>19. AfterStop' /\ Joins' /\ DrainedMeansQuiet'
  BY <1>1 DEF AfterStop, Joins, DrainedMeansQuiet
<1>20. HonestFlags'
  <2>1. \A i \in Jobs : good'[i] <=> i \notin broken'
    <3>1. good'[j] = TRUE /\ \A i \in Jobs \ {j} : good'[i] = good[i]
      BY <1>1 DEF PoolInv, PoolTypes
    <3>2. QED
      BY <3>1, <1>1 DEF PoolInv, HonestFlags
  <2>2. \A i \in DOMAIN finished : finished[i][1] # j
    BY <1>7 DEF Reported
  <2>3. SuccessIsHonest'
    BY <2>2, <1>1 DEF PoolInv, HonestFlags, SuccessIsHonest
  <2>4. QED
    BY <2>1, <2>3 DEF HonestFlags
<1>21. QED
  BY <1>10, <1>12, <1>13, <1>15, <1>17, <1>18, <1>19, <1>20 DEF PoolInv

-----------------------------------------------------------------------------
(* The workers' steps.                                                     *)

(* A worker that finds no task sleeps, or leaves after shutdown.           *)
LEMMA RestStep ==
    ASSUME PoolInv, NEW w \in Workers, NEW to \in {"asleep", "exited"},
           pc[w] = "check", pc' = [pc EXCEPT ![w] = to], task' = task,
           UNCHANGED <<loadQ, storeQ, kind, open, good, broken, inflight, finished, stop, sched>>
    PROVE  PoolInv'
<1>1. /\ pc' \in [Workers -> PcStates] /\ pc'[w] = to /\ \A v \in Workers \ {w} : pc'[v] = pc[v]
  BY DEF PoolInv, PoolTypes, PcStates
<1>2. SameBusy
  BY <1>1 DEF SameBusy, Runs, Completes
<1>3. QueuesOnce' /\ OpenTasks' /\ Completions' /\ Reports' /\ NothingLost' /\ AfterStop'
  BY <1>2, QuietStep
<1>4. PoolTypes' /\ HonestFlags'
  BY <1>1 DEF PoolInv, PoolTypes, PcStates, HonestFlags, SuccessIsHonest
<1>5. stop => sched = "joining"
  BY DEF PoolInv, Joins
<1>6. Joins'
  BY <1>5 DEF Joins
<1>7. DrainedMeansQuiet'
  <2>1. \A v \in Workers : pc[v] \notin {"run", "callback", "finish"} =>
           pc'[v] \notin {"run", "callback", "finish"}
    BY <1>1
  <2>2. QED
    BY <2>1 DEF PoolInv, DrainedMeansQuiet, Queued, Unfinished, Reported
<1>8. QED
  BY <1>3, <1>4, <1>6, <1>7 DEF PoolInv

(* A worker takes the head of a queue: the task has one owner before and   *)
(* one after.                                                              *)
LEMMA TakeTask ==
    ASSUME PoolInv, NEW w \in Workers, NEW t \in Queued, pc[w] = "check", ~stop,
           pc' = [pc EXCEPT ![w] = "run"], task' = [task EXCEPT ![w] = t],
           loadQ' \in Seq(Tasks), storeQ' \in Seq(Tasks), QueuesOnce', Queued' = Queued \ {t},
           UNCHANGED <<kind, open, good, broken, inflight, finished, stop, sched>>
    PROVE  PoolInv'
<1>1. Queued \subseteq Tasks
  BY ElementOfSeq, LenProperties DEF PoolInv, PoolTypes, Queued
<1>2. /\ pc' \in [Workers -> PcStates] /\ pc'[w] = "run" /\ \A v \in Workers \ {w} : pc'[v] = pc[v]
      /\ task' \in [Workers -> Tasks \cup {NoTask}] /\ task'[w] = t
      /\ \A v \in Workers \ {w} : task'[v] = task[v]
  BY <1>1 DEF PoolInv, PoolTypes, PcStates
<1>3. /\ Runs(w)' /\ ~Runs(w) /\ ~Completes(w) /\ ~Completes(w)'
      /\ \A v \in Workers \ {w} : (Runs(v)' <=> Runs(v)) /\ (Completes(v)' <=> Completes(v))
  BY <1>2 DEF Runs, Completes
<1>4. Reported' = Reported /\ Unfinished' = Unfinished
  BY DEF Reported, Unfinished
<1>5. PoolTypes'
  BY <1>2 DEF PoolInv, PoolTypes, PcStates
<1>6. OpenTasks'
  <2>1. \A s \in Queued' : s[2] \in open'[s[1]]
    BY DEF PoolInv, OpenTasks
  <2>2. ASSUME NEW v \in Workers, Runs(v)'
        PROVE  task'[v] \in Tasks /\ task'[v][2] \in open'[task'[v][1]] /\ task'[v] \notin Queued'
    <3>1. CASE v = w
      BY <3>1, <1>1, <1>2 DEF PoolInv, OpenTasks
    <3>2. CASE v # w
      BY <2>2, <3>2, <1>2, <1>3 DEF PoolInv, OpenTasks, Job
    <3>3. QED
      BY <3>1, <3>2
  <2>3. ASSUME NEW u \in Workers, NEW v \in Workers, Runs(u)', Runs(v)', task'[u] = task'[v]
        PROVE  u = v
    <3>1. \A x \in Workers \ {w} : Runs(x) => task[x] # t
      BY DEF PoolInv, OpenTasks
    <3>2. QED
      BY <2>3, <3>1, <1>2, <1>3 DEF PoolInv, OpenTasks
  <2>4. QED
    BY <2>1, <2>2, <2>3 DEF OpenTasks, Job
<1>7. Completions'
  BY <1>2, <1>3, <1>4 DEF PoolInv, Completions, Job
<1>8. Reports'
  BY <1>4 DEF PoolInv, Reports
<1>9. NothingLost'
  <2>1. Held' = Held \cup {t}
    BY <1>2, <1>3 DEF Held, Runs
  <2>2. Queued' \cup Held' = Queued \cup Held
    BY <2>1
  <2>3. \A j \in Jobs : Finishing(j)' = Finishing(j)
    BY <1>2, <1>3 DEF Finishing, Completes, Job
  <2>4. QED
    BY <2>2, <2>3, <1>4 DEF PoolInv, NothingLost
<1>10. AfterStop' /\ Joins'
  BY DEF AfterStop, Joins
<1>11. DrainedMeansQuiet'
  BY DEF PoolInv, DrainedMeansQuiet
<1>12. HonestFlags'
  BY DEF PoolInv, HonestFlags, SuccessIsHonest
<1>13. QED
  BY <1>5, <1>6, <1>7, <1>8, <1>9, <1>10, <1>11, <1>12 DEF PoolInv

(* _worker under the lock.                                                 *)
LEMMA TakeStep ==
    ASSUME PoolInv, NEW w \in Workers, Take(w)
    PROVE  PoolInv'
<1>1. pc[w] = "check" /\ UNCHANGED <<kind, open, good, broken, inflight, finished, stop, sched>>
  BY DEF Take, jobVars
<1>2. CASE \E to \in {"asleep", "exited"} :
             pc' = [pc EXCEPT ![w] = to] /\ UNCHANGED <<loadQ, storeQ, task>>
  BY <1>1, <1>2, RestStep
<1>3. CASE /\ ~stop /\ (loadQ # <<>> \/ storeQ # <<>>) /\ pc' = [pc EXCEPT ![w] = "run"]
           /\ IF FromLoadQ(w)
              THEN /\ task' = [task EXCEPT ![w] = Head(loadQ)]
                   /\ loadQ' = Tail(loadQ) /\ UNCHANGED storeQ
              ELSE /\ task' = [task EXCEPT ![w] = Head(storeQ)]
                   /\ storeQ' = Tail(storeQ) /\ UNCHANGED loadQ
  <2>1. /\ loadQ \in Seq(Tasks) /\ storeQ \in Seq(Tasks) /\ Once(loadQ) /\ Once(storeQ)
        /\ In(loadQ) \cap In(storeQ) = {}
        /\ Queued = In(loadQ) \cup In(storeQ) /\ Queued' = In(loadQ') \cup In(storeQ')
    BY QueuedIn DEF PoolInv, PoolTypes, QueuesOnce
  <2>2. CASE FromLoadQ(w)
    <3>1. loadQ # <<>> /\ task' = [task EXCEPT ![w] = Head(loadQ)] /\ loadQ' = Tail(loadQ) /\ storeQ' = storeQ
      BY <2>2, <1>3 DEF FromLoadQ
    <3>2. /\ Head(loadQ) \in In(loadQ) /\ Tail(loadQ) \in Seq(Tasks)
          /\ In(Tail(loadQ)) = In(loadQ) \ {Head(loadQ)} /\ Once(Tail(loadQ))
      BY <3>1, <2>1, TakenQueue
    <3>3. Head(loadQ) \in Queued /\ Queued' = Queued \ {Head(loadQ)} /\ QueuesOnce'
      BY <3>1, <3>2, <2>1 DEF QueuesOnce
    <3>4. QED
      BY <3>1, <3>2, <3>3, <2>1, <1>1, <1>3, TakeTask
  <2>3. CASE ~FromLoadQ(w)
    <3>1. storeQ # <<>> /\ task' = [task EXCEPT ![w] = Head(storeQ)] /\ storeQ' = Tail(storeQ) /\ loadQ' = loadQ
      BY <2>3, <1>3 DEF FromLoadQ
    <3>2. /\ Head(storeQ) \in In(storeQ) /\ Tail(storeQ) \in Seq(Tasks)
          /\ In(Tail(storeQ)) = In(storeQ) \ {Head(storeQ)} /\ Once(Tail(storeQ))
      BY <3>1, <2>1, TakenQueue
    <3>3. Head(storeQ) \in Queued /\ Queued' = Queued \ {Head(storeQ)} /\ QueuesOnce'
      BY <3>1, <3>2, <2>1 DEF QueuesOnce
    <3>4. QED
      BY <3>1, <3>2, <3>3, <2>1, <1>1, <1>3, TakeTask
  <2>4. QED
    BY <2>2, <2>3
<1>4. QED
  BY <1>2, <1>3 DEF Take

(* The flags of a job whose task or callback ended with `ok'.              *)
LEMMA FlagsFollow ==
    ASSUME PoolInv, NEW j \in Jobs, j \notin Reported, NEW ok \in BOOLEAN,
           good' = [good EXCEPT ![j] = @ /\ ok],
           broken' = IF ok THEN broken ELSE broken \cup {j}, finished' = finished
    PROVE  HonestFlags' /\ good' \in [Jobs -> BOOLEAN] /\ broken' \in SUBSET Jobs
<1>1. good \in [Jobs -> BOOLEAN] /\ broken \in SUBSET Jobs /\ \A i \in Jobs : good[i] <=> i \notin broken
  BY DEF PoolInv, PoolTypes, HonestFlags
<1>2. good' \in [Jobs -> BOOLEAN] /\ broken' \in SUBSET Jobs
  BY <1>1
<1>3. /\ good'[j] = (good[j] /\ ok) /\ \A i \in Jobs \ {j} : good'[i] = good[i]
      /\ \A i : i # j => (i \in broken' <=> i \in broken)
      /\ j \in broken' <=> (j \in broken \/ ~ok)
  BY <1>1
<1>4. \A i \in Jobs : good'[i] <=> i \notin broken'
  BY <1>1, <1>3
<1>5. \A i \in DOMAIN finished : finished[i][1] # j
  BY DEF Reported
<1>6. SuccessIsHonest'
  BY <1>3, <1>5 DEF PoolInv, HonestFlags, SuccessIsHonest
<1>7. QED
  BY <1>2, <1>4, <1>6 DEF HonestFlags

(* on_complete has returned or raised.                                     *)
LEMMA CallbackStep ==
    ASSUME PoolInv, NEW w \in Workers, NEW ok \in BOOLEAN, Callback(w, ok)
    PROVE  PoolInv'
<1>1. /\ pc[w] = "callback" /\ pc' = [pc EXCEPT ![w] = "finish"]
      /\ good' = [good EXCEPT ![Job(w)] = @ /\ ok]
      /\ broken' = IF ok THEN broken ELSE broken \cup {Job(w)}
      /\ UNCHANGED <<loadQ, storeQ, task, kind, open, inflight, finished, stop, sched>>
  BY DEF Callback
<1>2. Completes(w) /\ Job(w) \in Jobs /\ Job(w) \notin Reported
  BY <1>1, TaskFacts DEF PoolInv, Completions, Completes, Job
<1>3. /\ pc' \in [Workers -> PcStates] /\ pc'[w] = "finish" /\ \A v \in Workers \ {w} : pc'[v] = pc[v]
  BY <1>1 DEF PoolInv, PoolTypes, PcStates
<1>4. SameBusy
  BY <1>1, <1>3 DEF SameBusy, Runs, Completes
<1>5. QueuesOnce' /\ OpenTasks' /\ Completions' /\ Reports' /\ NothingLost' /\ AfterStop'
  BY <1>1, <1>4, QuietStep
<1>6. HonestFlags' /\ good' \in [Jobs -> BOOLEAN] /\ broken' \in SUBSET Jobs
  BY <1>1, <1>2, FlagsFollow
<1>7. PoolTypes'
  BY <1>1, <1>3, <1>6 DEF PoolInv, PoolTypes, PcStates
<1>8. sched # "drained" /\ (stop => sched = "joining")
  BY <1>2, BusyNotDrained
<1>9. Joins' /\ DrainedMeansQuiet'
  BY <1>1, <1>8 DEF Joins, DrainedMeansQuiet
<1>10. QED
  BY <1>5, <1>6, <1>7, <1>9 DEF PoolInv

(* task_done: the worker of a job's last task completes it, any other goes *)
(* back for more.                                                          *)
LEMMA TaskDoneStep ==
    ASSUME PoolInv, NEW w \in Workers, NEW ok \in BOOLEAN, TaskDone(w, ok)
    PROVE  PoolInv'
<1> DEFINE j == Job(w)
           n == task[w][2]
           to == IF ~LastTask(w) THEN "check" ELSE IF kind[j] = "store" THEN "callback" ELSE "finish"
           left == IF LastTask(w) THEN task[w] ELSE NoTask
<1>1. /\ Runs(w) /\ pc' = [pc EXCEPT ![w] = to] /\ task' = [task EXCEPT ![w] = left]
      /\ open' = [open EXCEPT ![j] = @ \ {n}]
      /\ good' = [good EXCEPT ![j] = @ /\ ok]
      /\ broken' = IF ok THEN broken ELSE broken \cup {j}
      /\ UNCHANGED <<loadQ, storeQ, kind, inflight, finished, stop, sched>>
  BY DEF TaskDone, Runs
<1>2. /\ task[w] \in Tasks /\ task[w] = <<j, n>> /\ j \in Jobs /\ n \in open[j] /\ task[w] \notin Queued
  BY <1>1, TaskFacts DEF PoolInv, OpenTasks, Job
<1>3. j \notin Reported /\ kind[j] # "none"
  BY <1>2 DEF PoolInv, Reports
<1>4. LastTask(w) <=> open[j] = {n}
  BY DEF LastTask
<1>5. /\ (LastTask(w) => to \in {"callback", "finish"} /\ left = task[w])
      /\ (~LastTask(w) => to = "check" /\ left = NoTask)
      /\ to \in PcStates /\ left \in Tasks \cup {NoTask}
  BY <1>2 DEF PcStates
<1> HIDE DEF j, n, to, left
<1>6. /\ pc' \in [Workers -> PcStates] /\ pc'[w] = to /\ \A v \in Workers \ {w} : pc'[v] = pc[v]
      /\ task' \in [Workers -> Tasks \cup {NoTask}] /\ task'[w] = left
      /\ \A v \in Workers \ {w} : task'[v] = task[v]
  BY <1>1, <1>5 DEF PoolInv, PoolTypes, PcStates
<1>7. /\ DOMAIN open' = Jobs /\ open'[j] = open[j] \ {n} /\ \A i \in Jobs \ {j} : open'[i] = open[i]
  BY <1>1, <1>2 DEF PoolInv, PoolTypes
<1>8. /\ ~Completes(w) /\ ~Runs(w)' /\ (Completes(w)' <=> LastTask(w))
      /\ \A v \in Workers \ {w} : (Runs(v)' <=> Runs(v)) /\ (Completes(v)' <=> Completes(v))
  BY <1>1, <1>5, <1>6 DEF Runs, Completes
<1>9. Queued' = Queued /\ Reported' = Reported /\ Unfinished' = Unfinished /\ QueuesOnce'
  BY <1>1 DEF Queued, Reported, Unfinished, PoolInv, QueuesOnce
<1>10. HonestFlags' /\ good' \in [Jobs -> BOOLEAN] /\ broken' \in SUBSET Jobs
  BY <1>1, <1>2, <1>3, FlagsFollow
<1>11. PoolTypes'
  <2>1. \A i \in Jobs : open'[i] \subseteq Numbers(i)
    BY <1>7 DEF PoolInv, PoolTypes
  <2>2. QED
    BY <2>1, <1>1, <1>6, <1>7, <1>10 DEF PoolInv, PoolTypes, PcStates
<1>12. \A t \in Tasks : t # task[w] /\ t[2] \in open[t[1]] => t[2] \in open'[t[1]]
  <2>1. \A t \in Tasks : t[1] \in Jobs /\ t = <<t[1], t[2]>>
    BY TaskFacts
  <2>2. QED
    BY <2>1, <1>2, <1>7
<1>13. OpenTasks'
  <2>1. Queued \subseteq Tasks
    BY ElementOfSeq, LenProperties DEF PoolInv, PoolTypes, Queued
  <2>2. \A t \in Queued' : t[2] \in open'[t[1]]
    BY <2>1, <1>2, <1>9, <1>12 DEF PoolInv, OpenTasks
  <2>3. ASSUME NEW v \in Workers, Runs(v)'
        PROVE  /\ v # w /\ Runs(v) /\ task'[v] = task[v] /\ task[v] \in Tasks
               /\ task[v][2] \in open'[task[v][1]] /\ task[v] \notin Queued
    <3>1. v # w /\ Runs(v) /\ task'[v] = task[v]
      BY <2>3, <1>6, <1>8
    <3>2. task[v] \in Tasks /\ task[v] # task[w] /\ task[v][2] \in open[task[v][1]] /\ task[v] \notin Queued
      BY <3>1, <1>1 DEF PoolInv, OpenTasks, Job
    <3>3. QED
      BY <3>1, <3>2, <1>12
  <2>4. QED
    BY <2>2, <2>3, <1>9 DEF PoolInv, OpenTasks, Job
<1>14. Completions'
  <2>1. ASSUME NEW v \in Workers, Completes(v)', v # w
        PROVE  /\ Completes(v) /\ task'[v] = task[v] /\ task[v] \in Tasks /\ Job(v) \in Jobs
               /\ Job(v) # j /\ open'[Job(v)] = {} /\ kind[Job(v)] # "none" /\ Job(v) \notin Reported
    <3>1. Completes(v) /\ task'[v] = task[v]
      BY <2>1, <1>6, <1>8
    <3>2. task[v] \in Tasks /\ open[Job(v)] = {} /\ kind[Job(v)] # "none" /\ Job(v) \notin Reported
      BY <3>1 DEF PoolInv, Completions
    <3>3. Job(v) \in Jobs
      BY <3>2, TaskFacts DEF Job
    <3>4. Job(v) # j
      BY <3>2, <1>2
    <3>5. QED
      BY <3>1, <3>2, <3>3, <3>4, <1>7
  <2>2. ASSUME Completes(w)'
        PROVE  /\ task'[w] = task[w] /\ task[w] \in Tasks /\ task[w][1] = j
               /\ open'[j] = {} /\ kind[j] # "none" /\ j \notin Reported
    BY <2>2, <1>2, <1>3, <1>4, <1>5, <1>6, <1>7, <1>8 DEF j, Job
  <2>3. \A v \in Workers : Completes(v)' =>
           /\ task'[v] \in Tasks /\ open'[task'[v][1]] = {} /\ kind[task'[v][1]] # "none"
           /\ task'[v][1] \notin Reported
    BY <2>1, <2>2 DEF Job
  <2>4. \A u, v \in Workers : Completes(u)' /\ Completes(v)' /\ task'[u][1] = task'[v][1] => u = v
    BY <2>1, <2>2 DEF PoolInv, Completions, Job
  <2>5. QED
    BY <2>3, <2>4, <1>1, <1>9 DEF Completions, Job
<1>15. Reports'
  BY <1>1, <1>2, <1>3, <1>7, <1>9 DEF PoolInv, Reports
<1>16. NothingLost'
  <2>1. SUFFICES ASSUME ~stop
                 PROVE  /\ \A t \in Tasks : t[2] \in open'[t[1]] => t \in Queued' \cup Held'
                        /\ \A i \in Jobs : kind[i] # "none" =>
                              open'[i] # {} \/ Finishing(i)' # {} \/ i \in Reported
                        /\ inflight = Cardinality(Unfinished)
    BY <1>1, <1>9 DEF NothingLost
  <2>2. ASSUME NEW t \in Tasks, t[2] \in open'[t[1]]
        PROVE  t \in Queued' \cup Held'
    <3>1. t # task[w] /\ t[2] \in open[t[1]]
      <4>1. t[1] \in Jobs /\ t = <<t[1], t[2]>>
        BY TaskFacts
      <4>2. QED
        BY <2>2, <4>1, <1>2, <1>7
    <3>2. t \in Queued \cup Held
      BY <3>1, <2>1 DEF PoolInv, NothingLost
    <3>3. t \in Held => t \in Held'
      BY <3>1, <1>6, <1>8 DEF Held, Runs
    <3>4. QED
      BY <3>2, <3>3, <1>9
  <2>3. ASSUME NEW i \in Jobs, kind[i] # "none"
        PROVE  open'[i] # {} \/ Finishing(i)' # {} \/ i \in Reported
    <3>1. CASE i = j /\ LastTask(w)
      <4>1. task'[w] = task[w] /\ Completes(w)'
        BY <3>1, <1>5, <1>6, <1>8
      <4>2. w \in Finishing(i)'
        BY <4>1, <3>1 DEF Finishing, Completes, Job, j
      <4>3. QED
        BY <4>2
    <3>2. CASE i = j /\ ~LastTask(w)
      BY <3>2, <1>2, <1>4, <1>7
    <3>3. CASE i # j
      <4>1. open[i] # {} \/ Finishing(i) # {} \/ i \in Reported
        BY <2>1, <2>3 DEF PoolInv, NothingLost
      <4>2. Finishing(i) \subseteq Finishing(i)'
        BY <1>6, <1>8 DEF Finishing, Completes, Job
      <4>3. QED
        BY <3>3, <4>1, <4>2, <1>7
    <3>4. QED
      BY <3>1, <3>2, <3>3
  <2>4. inflight = Cardinality(Unfinished)
    BY <2>1 DEF PoolInv, NothingLost
  <2>5. QED
    BY <2>2, <2>3, <2>4
<1>17. AfterStop'
  <2>1. SUFFICES ASSUME stop
                 PROVE  inflight >= -Cardinality(Resting')
    BY <1>1 DEF PoolInv, AfterStop
  <2>2. Resting \subseteq Resting' /\ Resting' \in SUBSET Workers /\ IsFiniteSet(Workers)
    BY <1>1, <1>8, PoolAssumption DEF Resting
  <2>3. IsFiniteSet(Resting') /\ Resting \in SUBSET Resting'
    BY <2>2, FS_Subset
  <2>4. IsFiniteSet(Resting) /\ Cardinality(Resting) <= Cardinality(Resting')
    BY <2>3, FS_Subset
  <2>5. Cardinality(Resting) \in Nat /\ Cardinality(Resting') \in Nat
    BY <2>3, <2>4, FS_CardinalityType
  <2>6. inflight >= -Cardinality(Resting) /\ inflight \in Int
    BY <2>1 DEF PoolInv, AfterStop, PoolTypes
  <2>7. QED
    BY <2>4, <2>5, <2>6
<1>18. sched # "drained" /\ (stop => sched = "joining")
  BY <1>1, BusyNotDrained
<1>19. Joins' /\ DrainedMeansQuiet'
  BY <1>1, <1>18 DEF Joins, DrainedMeansQuiet
<1>20. QED
  BY <1>9, <1>10, <1>11, <1>13, <1>14, <1>15, <1>16, <1>17, <1>19 DEF PoolInv

(* The result joins _finished_q and the counter goes down.                 *)
LEMMA FinishStep ==
    ASSUME PoolInv, NEW w \in Workers, Finish(w)
    PROVE  PoolInv'
<1> DEFINE j == Job(w)
           x == <<j, good[j]>>
<1>1. /\ pc[w] = "finish" /\ finished' = Append(finished, x) /\ inflight' = inflight - 1
      /\ pc' = [Wake(Asleep) EXCEPT ![w] = "check"]
      /\ sched' = IF sched = "asleep" THEN "drain" ELSE sched
      /\ task' = [task EXCEPT ![w] = NoTask]
      /\ UNCHANGED <<loadQ, storeQ, kind, open, good, broken, stop>>
  BY DEF Finish, jobVars
<1>2. /\ Completes(w) /\ task[w] \in Tasks /\ j \in Jobs /\ open[j] = {} /\ kind[j] # "none"
      /\ j \notin Reported
  BY <1>1, TaskFacts DEF PoolInv, Completions, Completes, Job
<1>3. x \in Jobs \X BOOLEAN /\ x[1] = j /\ x[2] = good[j]
  BY <1>2 DEF PoolInv, PoolTypes
<1>4. /\ finished \in Seq(Jobs \X BOOLEAN) /\ inflight \in Int
      /\ pc \in [Workers -> PcStates] /\ task \in [Workers -> Tasks \cup {NoTask}]
  BY DEF PoolInv, PoolTypes, PcStates
<1> HIDE DEF j, x
<1>5. /\ finished' \in Seq(Jobs \X BOOLEAN) /\ Len(finished) \in Nat
      /\ DOMAIN finished = 1 .. Len(finished) /\ DOMAIN finished' = 1 .. Len(finished) + 1
      /\ \A i \in DOMAIN finished : finished'[i] = finished[i]
      /\ finished'[Len(finished) + 1] = x
  BY <1>1, <1>3, <1>4, AppendProperties, LenProperties
<1>6. \A i \in DOMAIN finished' : i \in DOMAIN finished \/ i = Len(finished) + 1
  BY <1>5
<1>7. Reported' = Reported \cup {j}
  <2>1. Reported \cup {j} \subseteq Reported'
    BY <1>3, <1>5 DEF Reported
  <2>2. Reported' \subseteq Reported \cup {j}
    BY <1>3, <1>5, <1>6 DEF Reported
  <2>3. QED
    BY <2>1, <2>2
<1>8. /\ pc' \in [Workers -> PcStates] /\ pc'[w] = "check"
      /\ \A v \in Workers \ {w} : pc'[v] = IF pc[v] = "asleep" THEN "check" ELSE pc[v]
      /\ task' \in [Workers -> Tasks \cup {NoTask}]
      /\ \A v \in Workers \ {w} : task'[v] = task[v]
  BY <1>1, <1>4 DEF Wake, Asleep, PcStates
<1>9. /\ ~Runs(w) /\ ~Runs(w)' /\ ~Completes(w)'
      /\ \A v \in Workers \ {w} : (Runs(v)' <=> Runs(v)) /\ (Completes(v)' <=> Completes(v))
  BY <1>1, <1>8 DEF Runs, Completes
<1>10. PoolTypes'
  <2>1. sched' \in {"idle", "drain", "asleep", "drained", "joining"} /\ inflight' \in Int
    BY <1>1, <1>4 DEF PoolInv, PoolTypes
  <2>2. QED
    BY <2>1, <1>1, <1>5, <1>8 DEF PoolInv, PoolTypes, PcStates
<1>11. Queued' = Queued /\ Held' = Held /\ QueuesOnce'
  <2>1. Queued' = Queued /\ QueuesOnce'
    BY <1>1 DEF Queued, PoolInv, QueuesOnce
  <2>2. Held' = Held
    BY <1>8, <1>9 DEF Held, Runs
  <2>3. QED
    BY <2>1, <2>2
<1>12. OpenTasks'
  BY <1>1, <1>8, <1>9, <1>11 DEF PoolInv, OpenTasks, Job
<1>13. Completions'
  <2>1. ASSUME NEW v \in Workers, Completes(v)'
        PROVE  /\ v # w /\ Completes(v) /\ task'[v] = task[v] /\ Job(v) # j
    <3>1. v # w /\ Completes(v) /\ task'[v] = task[v]
      BY <2>1, <1>8, <1>9
    <3>2. QED
      BY <3>1, <1>2 DEF PoolInv, Completions, j
  <2>2. QED
    BY <2>1, <1>1, <1>7 DEF PoolInv, Completions, Job
<1>14. Reports'
  <2>1. ASSUME NEW a \in DOMAIN finished', NEW b \in DOMAIN finished', finished'[a][1] = finished'[b][1]
        PROVE  a = b
    <3>1. \A i \in DOMAIN finished : finished[i][1] # j
      BY <1>2 DEF Reported
    <3>2. QED
      BY <2>1, <3>1, <1>3, <1>5, <1>6 DEF PoolInv, Reports
  <2>2. QED
    BY <2>1, <1>1, <1>2, <1>7 DEF PoolInv, Reports
<1>15. NothingLost'
  <2>1. SUFFICES ASSUME ~stop
                 PROVE  /\ \A t \in Tasks : t[2] \in open[t[1]] => t \in Queued \cup Held
                        /\ \A i \in Jobs : kind[i] # "none" =>
                              open[i] # {} \/ Finishing(i)' # {} \/ i \in Reported'
                        /\ inflight' = Cardinality(Unfinished')
    BY <1>1, <1>11 DEF NothingLost
  <2>2. ASSUME NEW i \in Jobs, i # j
        PROVE  Finishing(i) \subseteq Finishing(i)'
    <3>1. w \notin Finishing(i)
      BY <2>2 DEF Finishing, j
    <3>2. QED
      BY <3>1, <1>8, <1>9 DEF Finishing, Completes, Job
  <2>3. \A i \in Jobs : kind[i] # "none" => open[i] # {} \/ Finishing(i)' # {} \/ i \in Reported'
    BY <2>1, <2>2, <1>7 DEF PoolInv, NothingLost
  <2>4. inflight' = Cardinality(Unfinished')
    <3>1. Unfinished' = Unfinished \ {j} /\ j \in Unfinished
      BY <1>1, <1>2, <1>7 DEF Unfinished
    <3>2. Unfinished \in SUBSET Jobs /\ IsFiniteSet(Jobs)
      BY PoolAssumption DEF Unfinished
    <3>3. IsFiniteSet(Unfinished)
      BY <3>2, FS_Subset
    <3>4. Cardinality(Unfinished \ {j}) = Cardinality(Unfinished) - 1
      BY <3>1, <3>3, FS_RemoveElement
    <3>5. QED
      BY <2>1, <3>1, <3>4, <1>1 DEF PoolInv, NothingLost
  <2>5. QED
    BY <2>1, <2>3, <2>4 DEF PoolInv, NothingLost
<1>16. AfterStop'
  <2>1. SUFFICES ASSUME stop
                 PROVE  inflight - 1 <= 0 /\ inflight - 1 >= -Cardinality(Resting')
    BY <1>1 DEF PoolInv, AfterStop
  <2>2. Resting' = Resting \cup {w} /\ w \notin Resting
    BY <1>2, <1>9 DEF Resting
  <2>3. Resting \in SUBSET Workers /\ IsFiniteSet(Workers)
    BY PoolAssumption DEF Resting
  <2>4. IsFiniteSet(Resting) /\ Cardinality(Resting) \in Nat
    BY <2>3, FS_Subset, FS_CardinalityType
  <2>5. Cardinality(Resting') = Cardinality(Resting) + 1
    BY <2>2, <2>4, FS_AddElement
  <2>6. inflight <= 0 /\ inflight >= -Cardinality(Resting)
    BY <2>1 DEF PoolInv, AfterStop
  <2>7. QED
    BY <2>4, <2>5, <2>6, <1>4
<1>17. sched # "drained" /\ (stop => sched = "joining")
  BY <1>2, BusyNotDrained
<1>18. Joins' /\ DrainedMeansQuiet'
  BY <1>1, <1>17 DEF Joins, DrainedMeansQuiet
<1>19. HonestFlags'
  <2>1. good[j] <=> j \notin broken
    BY <1>2 DEF PoolInv, HonestFlags
  <2>2. \A i \in DOMAIN finished' : finished'[i][2] <=> finished'[i][1] \notin broken
    BY <2>1, <1>3, <1>5, <1>6 DEF PoolInv, HonestFlags, SuccessIsHonest
  <2>3. QED
    BY <2>2, <1>1 DEF PoolInv, HonestFlags, SuccessIsHonest
<1>20. QED
  BY <1>10, <1>11, <1>12, <1>13, <1>14, <1>15, <1>16, <1>18, <1>19 DEF PoolInv

-----------------------------------------------------------------------------
(* Theorems of the specification.                                          *)

(* The invariant holds of a pool that has just been started.               *)
LEMMA PoolInvInit ==
    ASSUME Init
    PROVE  PoolInv
<1>1. /\ loadQ = <<>> /\ storeQ = <<>> /\ finished = <<>> /\ stop = FALSE /\ inflight = 0
      /\ sched = "idle" /\ broken = {}
      /\ pc = [w \in Workers |-> "check"] /\ task = [w \in Workers |-> NoTask]
      /\ kind = [j \in Jobs |-> "none"] /\ open = [j \in Jobs |-> {}] /\ good = [j \in Jobs |-> TRUE]
  BY DEF Init
<1>2. Queued = {} /\ Reported = {} /\ Unfinished = {}
  BY <1>1 DEF Queued, Reported, Unfinished
<1>3. \A w \in Workers : ~Runs(w) /\ ~Completes(w)
  BY <1>1 DEF Runs, Completes
<1>4. PoolTypes
  <2>1. /\ loadQ \in Seq(Tasks) /\ storeQ \in Seq(Tasks) /\ finished \in Seq(Jobs \X BOOLEAN)
    BY <1>1
  <2>2. /\ pc \in [Workers -> {"check", "asleep", "run", "callback", "finish", "exited"}]
        /\ task \in [Workers -> Tasks \cup {NoTask}]
        /\ kind \in [Jobs -> {"none", "load", "store"}]
    BY <1>1
  <2>3. /\ DOMAIN open = Jobs /\ \A j \in Jobs : open[j] \subseteq Numbers(j)
    BY <1>1
  <2>4. good \in [Jobs -> BOOLEAN]
    BY <1>1, Zenon
  <2>5. stop \in BOOLEAN
    BY <1>1, Zenon
  <2>6. broken \in SUBSET Jobs /\ inflight \in Int
    BY <1>1
  <2>7. sched \in {"idle", "drain", "asleep", "drained", "joining"}
    BY <1>1
  <2>8. QED
    BY <2>1, <2>2, <2>3, <2>4, <2>5, <2>6, <2>7 DEF PoolTypes
<1>5. QueuesOnce
  BY <1>1 DEF QueuesOnce, Once, In
<1>6. OpenTasks /\ Completions /\ Reports
  BY <1>1, <1>2, <1>3 DEF OpenTasks, Completions, Reports
<1>7. NothingLost
  <2>1. \A t \in Tasks : t[2] \notin open[t[1]]
    BY <1>1, TaskFacts
  <2>2. QED
    BY <2>1, <1>1, <1>2, FS_EmptySet DEF NothingLost
<1>8. AfterStop /\ Joins /\ DrainedMeansQuiet /\ HonestFlags
  BY <1>1 DEF AfterStop, Joins, DrainedMeansQuiet, HonestFlags, SuccessIsHonest
<1>9. QED
  BY <1>4, <1>5, <1>6, <1>7, <1>8 DEF PoolInv

(* Every step preserves the invariant.                                     *)
LEMMA PoolInvStep ==
    ASSUME PoolInv, [Next]_vars
    PROVE  PoolInv'
<1>1. CASE \E j \in Jobs, k \in {"load", "store"} : \E n \in Numbers(j) : Enqueue(j, n, k)
  BY <1>1, EnqueueStep
<1>2. CASE GetFinished
  BY <1>2, GetFinishedStep
<1>3. CASE WaitIdle \/ WaitIdleCheck \/ Joined
  BY <1>3, WaitStep
<1>4. CASE Shutdown
  BY <1>4, ShutdownStep
<1>5. CASE \E w \in Workers : Take(w)
  BY <1>5, TakeStep
<1>6. CASE \E w \in Workers : \E ok \in BOOLEAN : TaskDone(w, ok)
  BY <1>6, TaskDoneStep
<1>7. CASE \E w \in Workers : \E ok \in BOOLEAN : Callback(w, ok)
  BY <1>7, CallbackStep
<1>8. CASE \E w \in Workers : Finish(w)
  BY <1>8, FinishStep
<1>9. CASE UNCHANGED vars
  <2>1. UNCHANGED <<loadQ, storeQ, pc, task, kind, open, good, broken, inflight, finished, stop, sched>>
    BY <1>9 DEF vars, jobVars
  <2>2. SameBusy
    BY <2>1 DEF SameBusy, Runs, Completes
  <2>3. QueuesOnce' /\ OpenTasks' /\ Completions' /\ Reports' /\ NothingLost' /\ AfterStop'
    BY <2>1, <2>2, QuietStep
  <2>4. PoolTypes' /\ Joins' /\ HonestFlags'
    BY <2>1 DEF PoolInv, PoolTypes, Joins, HonestFlags, SuccessIsHonest
  <2>5. DrainedMeansQuiet'
    BY <2>1 DEF PoolInv, DrainedMeansQuiet, Queued, Unfinished, Reported
  <2>6. QED
    BY <2>3, <2>4, <2>5 DEF PoolInv
<1>10. QED
  BY <1>1, <1>2, <1>3, <1>4, <1>5, <1>6, <1>7, <1>8, <1>9 DEF Next, SchedulerStep, WorkerStep

(* In every reachable state of the pool a task is in one place, a job has    *)
(* one worker that completes it and one result, and _inflight_jobs counts    *)
(* the jobs without a result.                                                *)
THEOREM PoolInvariant == Spec => []PoolInv
<1>1. Init => PoolInv
  BY PoolInvInit
<1>2. PoolInv /\ [Next]_vars => PoolInv'
  BY PoolInvStep
<1>3. QED
  BY <1>1, <1>2, PTL DEF Spec

(* Types of the pool; _inflight_jobs is never above the number of jobs, and  *)
(* negative only after shutdown, by at most the number of workers.           *)
THEOREM PoolTypeCorrect == Spec => []TypeOK
<1>1. ASSUME PoolInv
      PROVE  TypeOK
  <2>1. inflight \in (IF stop THEN -Cardinality(Workers) ELSE 0) .. Cardinality(Jobs)
    <3>1. IsFiniteSet(Workers) /\ IsFiniteSet(Jobs) /\ Resting \in SUBSET Workers /\ Unfinished \in SUBSET Jobs
      BY PoolAssumption DEF Resting, Unfinished
    <3>2. /\ Cardinality(Workers) \in Nat /\ Cardinality(Jobs) \in Nat
          /\ IsFiniteSet(Resting) /\ IsFiniteSet(Unfinished)
          /\ Cardinality(Resting) <= Cardinality(Workers) /\ Cardinality(Unfinished) <= Cardinality(Jobs)
      BY <3>1, FS_Subset, FS_CardinalityType
    <3>3. Cardinality(Resting) \in Nat /\ Cardinality(Unfinished) \in Nat
      BY <3>2, FS_CardinalityType
    <3>4. CASE stop
      <4>1. inflight \in Int /\ inflight <= 0 /\ inflight >= -Cardinality(Resting)
        BY <1>1, <3>4 DEF PoolInv, PoolTypes, AfterStop
      <4>2. QED
        BY <4>1, <3>2, <3>3, <3>4
    <3>5. CASE ~stop
      <4>1. inflight = Cardinality(Unfinished)
        BY <1>1, <3>5 DEF PoolInv, NothingLost
      <4>2. QED
        BY <4>1, <3>2, <3>3, <3>5
    <3>6. QED
      BY <3>4, <3>5
  <2>2. QED
    BY <1>1, <2>1 DEF PoolInv, PoolTypes, TypeOK
<1>2. QED
  BY <1>1, PoolInvariant, PTL

(* When wait_idle has returned nothing is queued, running or unreported.   *)
THEOREM PoolDrainedMeansQuiet == Spec => []DrainedMeansQuiet
<1>1. PoolInv => DrainedMeansQuiet
  BY DEF PoolInv
<1>2. QED
  BY <1>1, PoolInvariant, PTL

(* A result says success if and only if no task and no callback raised.    *)
THEOREM PoolSuccessIsHonest == Spec => []SuccessIsHonest
<1>1. PoolInv => SuccessIsHonest
  BY DEF PoolInv, HonestFlags
<1>2. QED
  BY <1>1, PoolInvariant, PTL

(* A set with at most one element has that many elements.                  *)
LEMMA AtMostOne ==
    ASSUME NEW S, \A x, y \in S : x = y
    PROVE  Cardinality(S) = IF S = {} THEN 0 ELSE 1
<1>1. CASE S = {}
  BY <1>1, FS_EmptySet
<1>2. CASE S # {}
  <2>1. PICK x : S = {x}
    BY <1>2
  <2>2. QED
    BY <2>1, FS_Singleton
<1>3. QED
  BY <1>1, <1>2

(* The first n naturals are n.                                             *)
LEMMA CountTo ==
    ASSUME NEW n \in Nat
    PROVE  IsFiniteSet(1 .. n) /\ Cardinality(1 .. n) = n
<1>1. 1 \in Int /\ n \in Int
  OBVIOUS
<1>2. IsFiniteSet(1 .. n) /\ Cardinality(1 .. n) = IF 1 > n THEN 0 ELSE n - 1 + 1
  BY ONLY <1>1, FS_Interval
<1>3. (IF 1 > n THEN 0 ELSE n - 1 + 1) = n
  OBVIOUS
<1>4. QED
  BY <1>2, <1>3

(* The sizes of disjoint sets add up.                                      *)
LEMMA DisjointUnion ==
    ASSUME NEW S, NEW T, IsFiniteSet(S), IsFiniteSet(T), S \cap T = {}
    PROVE  /\ IsFiniteSet(S \cup T)
           /\ Cardinality(S \cup T) = Cardinality(S) + Cardinality(T)
<1>1. /\ IsFiniteSet(S \cup T)
      /\ Cardinality(S \cup T) = Cardinality(S) + Cardinality(T) - Cardinality(S \cap T)
  BY FS_Union
<1>2. Cardinality(S \cap T) = 0
  BY FS_EmptySet
<1>3. Cardinality(S) \in Nat /\ Cardinality(T) \in Nat
  BY FS_CardinalityType
<1>4. QED
  BY <1>1, <1>2, <1>3

(* A queue without repetitions has as many tasks as places.                *)
LEMMA QueueSize ==
    ASSUME NEW q \in Seq(Tasks), Once(q)
    PROVE  IsFiniteSet(In(q)) /\ Cardinality(In(q)) = Len(q)
<1>1. q \in [1 .. Len(q) -> In(q)] /\ Len(q) \in Nat /\ DOMAIN q = 1 .. Len(q)
  BY LenProperties DEF In
<1>2. q \in Injection(1 .. Len(q), In(q)) /\ q \in Surjection(1 .. Len(q), In(q))
  BY <1>1 DEF Injection, IsInjective, Surjection, Once, In
<1>3. IsFiniteSet(1 .. Len(q)) /\ Cardinality(1 .. Len(q)) = Len(q)
  BY <1>1, CountTo
<1>4. QED
  BY <1>2, <1>3, FS_Surjection

(* As many tasks are held as workers run.                                  *)
LEMMA HeldSize ==
    ASSUME PoolInv
    PROVE  /\ IsFiniteSet(Held) /\ Cardinality(Held) = Cardinality({w \in Workers : pc[w] = "run"})
           /\ Cardinality(Held) \in Nat
<1> DEFINE R == {w \in Workers : pc[w] = "run"}
           f == [w \in R |-> task[w]]
<1>1. f \in [R -> Held] /\ Held = {f[w] : w \in R}
  BY DEF Held
<1>2. \A v, w \in R : f[v] = f[w] => v = w
  BY DEF PoolInv, OpenTasks, Runs
<1>3. R \in SUBSET Workers /\ IsFiniteSet(Workers)
  BY PoolAssumption
<1> HIDE DEF f, R
<1>4. f \in Injection(R, Held) /\ f \in Surjection(R, Held)
  BY <1>1, <1>2 DEF Injection, IsInjective, Surjection
<1>5. IsFiniteSet(R)
  BY <1>3, FS_Subset
<1>6. IsFiniteSet(Held) /\ Cardinality(Held) = Cardinality(R)
  BY <1>4, <1>5, FS_Surjection
<1>7. QED
  BY <1>6, FS_CardinalityType DEF R

(* The accounting of the pool: until shutdown no task is lost or run twice,  *)
(* and a submitted job has open tasks, one worker in charge of its           *)
(* completion, or one result, and never two of these.                        *)
THEOREM PoolJobsAccountedFor == Spec => []JobsAccountedFor
<1>1. ASSUME PoolInv, ~stop
      PROVE  /\ inflight = Cardinality(Unfinished)
             /\ Queued \cup Held = {t \in Tasks : t[2] \in open[t[1]]}
             /\ Len(loadQ) + Len(storeQ) + Cardinality({w \in Workers : pc[w] = "run"})
                  = Cardinality(Queued \cup Held)
             /\ \A j \in Jobs :
                  (IF open[j] # {} THEN 1 ELSE 0) + Cardinality(Finishing(j))
                    + Cardinality({i \in DOMAIN finished : finished[i][1] = j})
                  = IF kind[j] = "none" THEN 0 ELSE 1
  <2>1. inflight = Cardinality(Unfinished)
    BY <1>1 DEF PoolInv, NothingLost
  <2>2. Queued \cup Held = {t \in Tasks : t[2] \in open[t[1]]}
    <3>1. Queued \subseteq Tasks
      BY <1>1, ElementOfSeq, LenProperties DEF PoolInv, PoolTypes, Queued
    <3>2. \A t \in Queued \cup Held : t \in Tasks /\ t[2] \in open[t[1]]
      BY <1>1, <3>1 DEF PoolInv, OpenTasks, Held, Runs, Job
    <3>3. \A t \in Tasks : t[2] \in open[t[1]] => t \in Queued \cup Held
      BY <1>1 DEF PoolInv, NothingLost
    <3>4. QED
      BY <3>2, <3>3
  <2>3. Len(loadQ) + Len(storeQ) + Cardinality({w \in Workers : pc[w] = "run"})
          = Cardinality(Queued \cup Held)
    <3>1. /\ loadQ \in Seq(Tasks) /\ storeQ \in Seq(Tasks) /\ Once(loadQ) /\ Once(storeQ)
          /\ In(loadQ) \cap In(storeQ) = {} /\ Queued = In(loadQ) \cup In(storeQ)
      BY <1>1, QueuedIn DEF PoolInv, PoolTypes, QueuesOnce
    <3>2. /\ IsFiniteSet(In(loadQ)) /\ Cardinality(In(loadQ)) = Len(loadQ)
          /\ IsFiniteSet(In(storeQ)) /\ Cardinality(In(storeQ)) = Len(storeQ)
          /\ Len(loadQ) \in Nat /\ Len(storeQ) \in Nat
      BY <3>1, QueueSize, LenProperties
    <3>3. IsFiniteSet(Queued) /\ Cardinality(Queued) = Len(loadQ) + Len(storeQ)
      BY <3>1, <3>2, DisjointUnion
    <3>4. /\ IsFiniteSet(Held) /\ Cardinality(Held) = Cardinality({w \in Workers : pc[w] = "run"})
          /\ Cardinality(Held) \in Nat
      BY <1>1, HeldSize
    <3>5. Queued \cap Held = {}
      BY <1>1 DEF PoolInv, OpenTasks, Held, Runs
    <3>6. Cardinality(Queued \cup Held) = Cardinality(Queued) + Cardinality(Held)
      BY <3>3, <3>4, <3>5, DisjointUnion
    <3>7. QED
      BY <3>3, <3>4, <3>6
  <2>4. ASSUME NEW j \in Jobs
        PROVE  (IF open[j] # {} THEN 1 ELSE 0) + Cardinality(Finishing(j))
                 + Cardinality({i \in DOMAIN finished : finished[i][1] = j})
               = IF kind[j] = "none" THEN 0 ELSE 1
    <3> DEFINE D == {i \in DOMAIN finished : finished[i][1] = j}
    <3>1. Cardinality(Finishing(j)) = IF Finishing(j) = {} THEN 0 ELSE 1
      <4>1. \A v, w \in Finishing(j) : v = w
        BY <1>1 DEF PoolInv, Completions, Completes, Finishing
      <4>2. QED
        BY <4>1, AtMostOne
    <3>2. D = {} <=> j \notin Reported
      BY DEF Reported
    <3>3. Cardinality(D) = IF j \notin Reported THEN 0 ELSE 1
      <4>1. \A a, b \in D : a = b
        BY <1>1 DEF PoolInv, Reports
      <4> HIDE DEF D
      <4>2. QED
        BY <4>1, <3>2, AtMostOne
    <3>4. /\ open[j] # {} => kind[j] # "none" /\ Finishing(j) = {} /\ j \notin Reported
          /\ Finishing(j) # {} => kind[j] # "none" /\ j \notin Reported
          /\ j \in Reported => kind[j] # "none"
      BY <1>1 DEF PoolInv, Reports, Completions, Completes, Finishing
    <3>5. kind[j] # "none" => open[j] # {} \/ Finishing(j) # {} \/ j \in Reported
      BY <1>1 DEF PoolInv, NothingLost
    <3> HIDE DEF D
    <3>6. (IF open[j] # {} THEN 1 ELSE 0) + Cardinality(Finishing(j)) + Cardinality(D)
            = IF kind[j] = "none" THEN 0 ELSE 1
      BY <3>1, <3>3, <3>4, <3>5
    <3>7. QED
      BY <3>6 DEF D
  <2>5. QED
    BY <2>1, <2>2, <2>3, <2>4
<1>2. PoolInv => JobsAccountedFor
  BY <1>1 DEF JobsAccountedFor
<1>3. QED
  BY <1>2, PoolInvariant, PTL
===============================================================================
