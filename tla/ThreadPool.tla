------------------------------ MODULE ThreadPool ------------------------------
(***************************************************************************)
(* The dual-queue thread pool of the filesystem tier (fs/thread_pool.py):  *)
(* one scheduler thread submits jobs, polls results, drains and shuts      *)
(* down; read- and write-priority workers take the tasks.  Every `with     *)
(* self._condition' block is one step.  A thread in wait_for is "asleep"   *)
(* until a notify; then it evaluates its predicate again.                  *)
(***************************************************************************)
EXTENDS Integers, FiniteSets, Sequences

CONSTANTS
    Readers, Writers,   \* worker threads by priority
    Jobs,               \* job ids in flight (reused once reported)
    MaxTasks,           \* bounds on the number of tasks of each job
    NoTask

VARIABLES
    loadQ, storeQ,  \* _load_q, _store_q: tasks <<job, number>>
    pc, task,       \* where a worker is and the task it holds
    kind,           \* "load" or "store" for a job submitted and not reported
    open,           \* tasks of a job not counted by task_done: n_tasks - completed
    good,           \* JobState._success
    broken,         \* history: jobs with a task or a callback that raised
    inflight,       \* _inflight_jobs
    finished,       \* _finished_q
    stop,           \* _stop
    sched           \* where the scheduler thread is

jobVars == <<kind, open, good, broken>>
vars == <<loadQ, storeQ, pc, task, jobVars, inflight, finished, stop, sched>>

Workers == Readers \cup Writers
Numbers(j) == 1 .. MaxTasks[j]
Tasks == UNION {{j} \X Numbers(j) : j \in Jobs}

ASSUME PoolAssumption ==
    /\ Readers # {} /\ Writers # {}    \* manager.py: at least one thread each
    /\ Readers \cap Writers = {}
    /\ IsFiniteSet(Workers) /\ IsFiniteSet(Jobs)
    /\ MaxTasks \in [Jobs -> Nat \ {0}]
    /\ NoTask \notin Tasks

Init ==
    /\ loadQ = <<>> /\ storeQ = <<>>
    /\ pc = [w \in Workers |-> "check"]
    /\ task = [w \in Workers |-> NoTask]
    /\ kind = [j \in Jobs |-> "none"]
    /\ open = [j \in Jobs |-> {}]
    /\ good = [j \in Jobs |-> TRUE]
    /\ broken = {}
    /\ inflight = 0 /\ finished = <<>> /\ stop = FALSE
    /\ sched = "idle"

-----------------------------------------------------------------------------
(* The scheduler thread.                                                   *)

Asleep == {w \in Workers : pc[w] = "asleep"}
Wake(W) == [w \in Workers |-> IF w \in W THEN "check" ELSE pc[w]]

(* Condition.notify(n) wakes n of the sleeping threads, or all of them.    *)
Notify(n) ==
    \E W \in SUBSET Asleep :
        /\ Cardinality(W) = IF Cardinality(Asleep) < n THEN Cardinality(Asleep) ELSE n
        /\ pc' = Wake(W)

SchedulerFree == sched \in {"idle", "drained"}

(* enqueue_load and enqueue_store: the job's n tasks join their queue.  The *)
(* scheduler submits at least one task, and nothing after shutdown.         *)
Enqueue(j, n, k) ==
    LET batch == [i \in 1 .. n |-> <<j, i>>]
    IN  /\ SchedulerFree /\ ~stop /\ kind[j] = "none"
        /\ sched' = "idle"
        /\ kind' = [kind EXCEPT ![j] = k]
        /\ open' = [open EXCEPT ![j] = 1 .. n]
        /\ good' = [good EXCEPT ![j] = TRUE]
        /\ broken' = broken \ {j}
        /\ inflight' = inflight + 1
        /\ loadQ' = IF k = "load" THEN loadQ \o batch ELSE loadQ
        /\ storeQ' = IF k = "store" THEN storeQ \o batch ELSE storeQ
        /\ Notify(n)
        /\ UNCHANGED <<task, finished, stop>>

(* get_finished: the manager is the only one that pops.                    *)
Reported == {finished[i][1] : i \in DOMAIN finished}

GetFinished ==
    /\ SchedulerFree /\ finished # <<>>
    /\ sched' = "idle"
    /\ kind' = [j \in Jobs |-> IF j \in Reported THEN "none" ELSE kind[j]]
    /\ finished' = <<>>
    /\ UNCHANGED <<loadQ, storeQ, pc, task, open, good, broken, inflight, stop>>

(* wait_idle, called by drain_jobs.                                        *)
WaitIdle ==
    /\ SchedulerFree
    /\ sched' = "drain"
    /\ UNCHANGED <<loadQ, storeQ, pc, task, jobVars, inflight, finished, stop>>

(* Mutant: waits for empty queues instead of finished jobs.                *)
WaitIdleCheckQueues ==
    /\ sched = "drain"
    /\ sched' = IF loadQ = <<>> /\ storeQ = <<>> THEN "drained" ELSE "asleep"
    /\ UNCHANGED <<loadQ, storeQ, pc, task, jobVars, inflight, finished, stop>>

WaitIdleCheck ==
    /\ sched = "drain"
    /\ sched' = IF inflight = 0 THEN "drained" ELSE "asleep"
    /\ UNCHANGED <<loadQ, storeQ, pc, task, jobVars, inflight, finished, stop>>

(* Mutant: shutdown forgets notify_all.                                    *)
ShutdownSilent ==
    /\ SchedulerFree /\ ~stop
    /\ stop' = TRUE
    /\ loadQ' = <<>> /\ storeQ' = <<>>
    /\ inflight' = 0
    /\ sched' = "joining"
    /\ UNCHANGED <<pc, task, jobVars, finished>>

(* shutdown(wait=True) up to the joins, and the joins.                     *)
Shutdown ==
    /\ SchedulerFree /\ ~stop
    /\ stop' = TRUE
    /\ loadQ' = <<>> /\ storeQ' = <<>>
    /\ inflight' = 0
    /\ pc' = Wake(Asleep)
    /\ sched' = "joining"
    /\ UNCHANGED <<task, jobVars, finished>>

Joined ==
    /\ sched = "joining" /\ \A w \in Workers : pc[w] = "exited"
    /\ sched' = "idle"
    /\ UNCHANGED <<loadQ, storeQ, pc, task, jobVars, inflight, finished, stop>>

-----------------------------------------------------------------------------
(* A worker.                                                               *)

(* Mutant: every worker prefers loads.                                     *)
FromLoadQAlways(w) == loadQ # <<>>

(* The queue a worker takes from, given the two queues.                    *)
FromLoadQ(w) == IF w \in Readers THEN loadQ # <<>> ELSE storeQ = <<>>

(* _worker under the lock: leave, sleep, or take a task.                   *)
Take(w) ==
    /\ pc[w] = "check"
    /\ \/ /\ stop
          /\ pc' = [pc EXCEPT ![w] = "exited"]
          /\ UNCHANGED <<loadQ, storeQ, task>>
       \/ /\ ~stop /\ loadQ = <<>> /\ storeQ = <<>>
          /\ pc' = [pc EXCEPT ![w] = "asleep"]
          /\ UNCHANGED <<loadQ, storeQ, task>>
       \/ /\ ~stop /\ (loadQ # <<>> \/ storeQ # <<>>)
          /\ pc' = [pc EXCEPT ![w] = "run"]
          /\ IF FromLoadQ(w)
             THEN /\ task' = [task EXCEPT ![w] = Head(loadQ)]
                  /\ loadQ' = Tail(loadQ) /\ UNCHANGED storeQ
             ELSE /\ task' = [task EXCEPT ![w] = Head(storeQ)]
                  /\ storeQ' = Tail(storeQ) /\ UNCHANGED loadQ
    /\ UNCHANGED <<jobVars, inflight, finished, stop, sched>>

Job(w) == task[w][1]

(* Mutant: the job counts as completed one task early.                     *)
LastTaskOffByOne(w) == Cardinality(open[Job(w)]) <= 2

(* JobState.task_done: this call completes the job.                        *)
LastTask(w) == open[Job(w)] = {task[w][2]}

(* Mutant: the job's success is that of its latest task.                   *)
TaskDoneLatestWins(w, ok) ==
    /\ pc[w] = "run"
    /\ open' = [open EXCEPT ![Job(w)] = @ \ {task[w][2]}]
    /\ good' = [good EXCEPT ![Job(w)] = ok]
    /\ broken' = IF ok THEN broken ELSE broken \cup {Job(w)}
    /\ pc' = [pc EXCEPT ![w] = IF ~LastTask(w) THEN "check"
                               ELSE IF kind[Job(w)] = "store" THEN "callback" ELSE "finish"]
    /\ task' = [task EXCEPT ![w] = IF LastTask(w) THEN @ ELSE NoTask]
    /\ UNCHANGED <<loadQ, storeQ, kind, inflight, finished, stop, sched>>

(* task() returned or raised; task_done counts it under the job's lock.    *)
(* Only store jobs have a completion callback.                             *)
TaskDone(w, ok) ==
    /\ pc[w] = "run"
    /\ open' = [open EXCEPT ![Job(w)] = @ \ {task[w][2]}]
    /\ good' = [good EXCEPT ![Job(w)] = @ /\ ok]
    /\ broken' = IF ok THEN broken ELSE broken \cup {Job(w)}
    /\ pc' = [pc EXCEPT ![w] = IF ~LastTask(w) THEN "check"
                               ELSE IF kind[Job(w)] = "store" THEN "callback" ELSE "finish"]
    /\ task' = [task EXCEPT ![w] = IF LastTask(w) THEN @ ELSE NoTask]
    /\ UNCHANGED <<loadQ, storeQ, kind, inflight, finished, stop, sched>>

(* on_complete, outside the job's lock; an exception fails the job.        *)
Callback(w, ok) ==
    /\ pc[w] = "callback"
    /\ good' = [good EXCEPT ![Job(w)] = @ /\ ok]
    /\ broken' = IF ok THEN broken ELSE broken \cup {Job(w)}
    /\ pc' = [pc EXCEPT ![w] = "finish"]
    /\ UNCHANGED <<loadQ, storeQ, task, kind, open, inflight, finished, stop, sched>>

(* Mutant: only the workers are notified.                                  *)
FinishWorkersOnly(w) ==
    /\ pc[w] = "finish"
    /\ finished' = Append(finished, <<Job(w), good[Job(w)]>>)
    /\ inflight' = inflight - 1
    /\ pc' = [Wake(Asleep) EXCEPT ![w] = "check"]
    /\ task' = [task EXCEPT ![w] = NoTask]
    /\ UNCHANGED <<loadQ, storeQ, jobVars, stop, sched>>

(* The result is queued and notify_all wakes workers and the scheduler.    *)
Finish(w) ==
    /\ pc[w] = "finish"
    /\ finished' = Append(finished, <<Job(w), good[Job(w)]>>)
    /\ inflight' = inflight - 1
    /\ pc' = [Wake(Asleep) EXCEPT ![w] = "check"]
    /\ sched' = IF sched = "asleep" THEN "drain" ELSE sched
    /\ task' = [task EXCEPT ![w] = NoTask]
    /\ UNCHANGED <<loadQ, storeQ, jobVars, stop>>

-----------------------------------------------------------------------------
WorkerStep(w) ==
    \/ Take(w)
    \/ \E ok \in BOOLEAN : TaskDone(w, ok) \/ Callback(w, ok)
    \/ Finish(w)

SchedulerStep ==
    \/ \E j \in Jobs, k \in {"load", "store"} : \E n \in Numbers(j) : Enqueue(j, n, k)
    \/ GetFinished
    \/ WaitIdle
    \/ WaitIdleCheck
    \/ Shutdown
    \/ Joined

Next == SchedulerStep \/ \E w \in Workers : WorkerStep(w)

(* Worker threads and the scheduler's blocking calls are scheduled by the  *)
(* OS and every task returns; the scheduler need not submit anything.      *)
Fairness ==
    /\ \A w \in Workers : WF_vars(WorkerStep(w))
    /\ WF_vars(WaitIdleCheck) /\ WF_vars(Joined)

Spec == Init /\ [][Next]_vars /\ Fairness

-----------------------------------------------------------------------------
(* Types; _inflight_jobs is a count of jobs, negative only after a          *)
(* shutdown, by at most the jobs the workers were finishing.                *)
TypeOK ==
    /\ loadQ \in Seq(Tasks) /\ storeQ \in Seq(Tasks)
    /\ pc \in [Workers -> {"check", "asleep", "run", "callback", "finish", "exited"}]
    /\ task \in [Workers -> Tasks \cup {NoTask}]
    /\ kind \in [Jobs -> {"none", "load", "store"}]
    /\ DOMAIN open = Jobs /\ \A j \in Jobs : open[j] \subseteq Numbers(j)
    /\ good \in [Jobs -> BOOLEAN]
    /\ broken \in SUBSET Jobs
    /\ inflight \in (IF stop THEN -Cardinality(Workers) ELSE 0) .. Cardinality(Jobs)
    /\ finished \in Seq(Jobs \X BOOLEAN)
    /\ stop \in BOOLEAN
    /\ sched \in {"idle", "drain", "asleep", "drained", "joining"}

Queued == {loadQ[i] : i \in DOMAIN loadQ} \cup {storeQ[i] : i \in DOMAIN storeQ}
Held == {task[w] : w \in {v \in Workers : pc[v] = "run"}}
Finishing(j) == {w \in Workers : pc[w] \in {"callback", "finish"} /\ Job(w) = j}
Unfinished == {j \in Jobs : kind[j] # "none" /\ j \notin Reported}

(* Until the shutdown no task is lost or run twice, and every submitted     *)
(* job is in exactly one of three places: tasks still open, one worker in   *)
(* charge of its completion, one entry in _finished_q.  _inflight_jobs      *)
(* counts the jobs of the first two.                                        *)
JobsAccountedFor ==
    ~stop =>
        /\ inflight = Cardinality(Unfinished)
        /\ Queued \cup Held = {t \in Tasks : t[2] \in open[t[1]]}
        /\ Len(loadQ) + Len(storeQ) + Cardinality({w \in Workers : pc[w] = "run"})
             = Cardinality(Queued \cup Held)
        /\ \A j \in Jobs :
             (IF open[j] # {} THEN 1 ELSE 0) + Cardinality(Finishing(j))
               + Cardinality({i \in DOMAIN finished : finished[i][1] = j})
             = IF kind[j] = "none" THEN 0 ELSE 1

(* When wait_idle has returned, no task is queued or running, so nothing    *)
(* touches the primary memory view, no completion callback is pending, and  *)
(* the result of every job is in _finished_q (drain_jobs in base.py).       *)
DrainedMeansQuiet ==
    sched = "drained" =>
        /\ Queued = {}
        /\ \A w \in Workers : pc[w] \notin {"run", "callback", "finish"}
        /\ ~stop => Unfinished = {}

(* A job is reported successful only if every task and its completion       *)
(* callback succeeded, in whatever order its tasks ended (task_done).       *)
SuccessIsHonest ==
    \A i \in DOMAIN finished : finished[i][2] <=> finished[i][1] \notin broken

(* Every submitted job is finished, or the pool is shut down: no wake-up is *)
(* lost, and neither queue starves although the other one is always fed     *)
(* (the docstring of FileSystemTierManager).                                *)
EveryJobFinishes == \A j \in Jobs : kind[j] # "none" ~> (j \in Reported \/ stop)

(* wait_idle returns when the workers have run what was submitted.          *)
DrainReturns == (sched = "drain" /\ ~stop) ~> sched = "drained"

(* shutdown(wait=True) returns: every worker leaves, wherever it was.       *)
ShutdownReturns == sched = "joining" ~> sched = "idle"

(* shutdown resets the counter "so a subsequent wait_idle() returns instead *)
(* of hanging" (thread_pool.py).                                            *)
DrainAfterShutdownReturns == (sched = "drain" /\ stop) ~> sched = "drained"
=============================================================================
