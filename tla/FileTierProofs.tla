---------------------------- MODULE FileTierProofs ----------------------------
(* Theorems about FileTier, for every value of its constants.              *)
EXTENDS FileTier, TLAPS

Running(j) == job[j].state \in {"store", "load"}

(* A thread is idle or holds a task of one job and one key.                *)
TaskShape ==
    \A w \in Threads : thread[w] # NoTask =>
        thread[w].job \in Jobs /\ thread[w].key \in Keys /\ thread[w].pc # "idle"

(* Only whole blocks are about to be published, by threads of store jobs.  *)
WholeBlocks ==
    \A w \in Threads :
        /\ thread[w].pc = "replace" => thread[w].data = "whole"
        /\ thread[w].pc \in {"create", "write", "replace", "cleanup"} =>
             job[thread[w].job].state = "store"

(* A running job has seen all its files that exist.                        *)
JobsSee ==
    \A j \in Jobs : Running(j) =>
        job[j].todo \subseteq job[j].keys /\ job[j].keys \cap Existing \subseteq job[j].seen

(* A thread that reads or has succeeded works on a file that was seen, and *)
(* while a job is good each of its keys was seen or has its task left.     *)
GoodJobs ==
    /\ \A w \in Threads : thread[w].pc \in {"ok", "read"} =>
         thread[w].key \in job[thread[w].job].seen
    /\ \A j \in Jobs : Running(j) /\ job[j].good =>
         \A k \in job[j].keys : \/ k \in job[j].todo \cup job[j].seen
                                \/ \E w \in Threads : thread[w].job = j /\ thread[w].key = k

(* The inductive invariant.                                                *)
FileInv == FileTierTypeOK /\ TaskShape /\ WholeBlocks /\ JobsSee /\ GoodJobs

-----------------------------------------------------------------------------
(* Facts about tasks and job states.                                       *)

Tasks == [pc : Pcs, job : Jobs \cup {NoJob}, key : Keys \cup {NoKey}, data : FileStates]
Task(pc, j, k, data) == [pc |-> pc, job |-> j, key |-> k, data |-> data]

(* An idle thread has no job.                                              *)
LEMMA TaskFacts ==
    /\ NoTask \in Tasks /\ NoTask.pc = "idle" /\ NoTask.job = NoJob /\ NoTask.key = NoKey
    /\ NoJob \notin Jobs /\ NoKey \notin Keys
    /\ \A pc \in Pcs, j \in Jobs, k \in Keys, d \in FileStates :
         /\ Task(pc, j, k, d) \in Tasks /\ Task(pc, j, k, d) # NoTask
         /\ Task(pc, j, k, d).pc = pc /\ Task(pc, j, k, d).job = j
         /\ Task(pc, j, k, d).key = k /\ Task(pc, j, k, d).data = d
    /\ \A t \in Tasks : t.pc \in Pcs /\ t.data \in FileStates
<1>1. NoTask \in Tasks /\ NoTask.pc = "idle" /\ NoTask.job = NoJob /\ NoTask.key = NoKey
  BY DEF Tasks, NoTask, Pcs, FileStates
<1>2. NoJob \notin Jobs /\ NoKey \notin Keys
  BY FileTierAssumption
<1>3. ASSUME NEW pc \in Pcs, NEW j \in Jobs, NEW k \in Keys, NEW d \in FileStates
      PROVE  /\ Task(pc, j, k, d) \in Tasks /\ Task(pc, j, k, d) # NoTask
             /\ Task(pc, j, k, d).pc = pc /\ Task(pc, j, k, d).job = j
             /\ Task(pc, j, k, d).key = k /\ Task(pc, j, k, d).data = d
  <2>1. /\ Task(pc, j, k, d) \in Tasks
        /\ Task(pc, j, k, d).pc = pc /\ Task(pc, j, k, d).job = j
        /\ Task(pc, j, k, d).key = k /\ Task(pc, j, k, d).data = d
    BY DEF Tasks, Task
  <2>2. QED
    BY <1>1, <1>2, <2>1
<1>4. \A t \in Tasks : t.pc \in Pcs /\ t.data \in FileStates
  BY DEF Tasks
<1>5. QED
  BY <1>1, <1>2, <1>3, <1>4

(* The fields of a job state.                                              *)
LEMMA JobFields ==
    ASSUME NEW x \in JobStates
    PROVE  /\ x.state \in {"idle", "store", "load", "done"} /\ x.proc \in Procs \cup {NoProc}
           /\ x.keys \in SUBSET Keys /\ x.todo \in SUBSET Keys
           /\ x.good \in BOOLEAN /\ x.seen \in SUBSET Keys
BY DEF JobStates

(* A job id that is free.                                                  *)
LEMMA NoWorkFacts ==
    /\ NoWork \in JobStates
    /\ NoWork.state = "idle" /\ NoWork.proc = NoProc /\ NoWork.keys = {} /\ NoWork.todo = {}
    /\ NoWork.good = TRUE /\ NoWork.seen = {}
BY DEF NoWork, JobStates

(* What the types say of a working thread.                                 *)
LEMMA WorkingFacts ==
    ASSUME FileInv, NEW w \in Threads, thread[w] # NoTask
    PROVE  /\ thread[w].job \in Jobs /\ thread[w].key \in Keys
           /\ thread[w].pc \in Pcs /\ thread[w].pc # "idle" /\ thread[w].data \in FileStates
           /\ Running(thread[w].job) /\ job[thread[w].job].proc = ProcessOf[w]
           /\ thread[w].key \in job[thread[w].job].keys \ job[thread[w].job].todo
           /\ \A v \in Threads \ {w} :
                thread[v].job = thread[w].job => thread[v].key # thread[w].key
<1>1. thread[w] \in Tasks
  BY DEF FileInv, FileTierTypeOK, Tasks
<1>2. thread[w].job \in Jobs /\ thread[w].key \in Keys /\ thread[w].pc # "idle"
  BY DEF FileInv, TaskShape
<1>3. thread[w].pc \in Pcs /\ thread[w].data \in FileStates
  BY <1>1, TaskFacts
<1>4. /\ job[thread[w].job].state \in {"store", "load"} /\ job[thread[w].job].proc = ProcessOf[w]
      /\ thread[w].key \in job[thread[w].job].keys \ job[thread[w].job].todo
      /\ \A v \in Threads \ {w} : <<thread[v].job, thread[v].key>> # <<thread[w].job, thread[w].key>>
  BY DEF FileInv, FileTierTypeOK
<1>5. QED
  BY <1>2, <1>3, <1>4 DEF Running

(* What a job sees of a step.                                              *)
LEMMA ObservedFacts ==
    ASSUME NEW J \in [Jobs -> JobStates], Existing' \in SUBSET Keys
    PROVE  /\ Observed(J) \in [Jobs -> JobStates]
           /\ \A j \in Jobs :
                /\ Observed(J)[j].state = J[j].state /\ Observed(J)[j].proc = J[j].proc
                /\ Observed(J)[j].keys = J[j].keys /\ Observed(J)[j].todo = J[j].todo
                /\ Observed(J)[j].good = J[j].good
                /\ J[j].state \in {"store", "load"} =>
                     Observed(J)[j].seen = J[j].seen \cup (J[j].keys \cap Existing')
                /\ J[j].state \notin {"store", "load"} => Observed(J)[j] = J[j]
<1>1. ASSUME NEW j \in Jobs
      PROVE  /\ Observed(J)[j] \in JobStates
             /\ Observed(J)[j].state = J[j].state /\ Observed(J)[j].proc = J[j].proc
             /\ Observed(J)[j].keys = J[j].keys /\ Observed(J)[j].todo = J[j].todo
             /\ Observed(J)[j].good = J[j].good
             /\ J[j].state \in {"store", "load"} =>
                  Observed(J)[j].seen = J[j].seen \cup (J[j].keys \cap Existing')
             /\ J[j].state \notin {"store", "load"} => Observed(J)[j] = J[j]
  <2>1. J[j] \in JobStates
    OBVIOUS
  <2>2. Observed(J)[j] = IF J[j].state \in {"store", "load"}
                         THEN [J[j] EXCEPT !.seen = @ \cup (J[j].keys \cap Existing')] ELSE J[j]
    BY DEF Observed
  <2>3. CASE J[j].state \in {"store", "load"}
    <3> DEFINE x == J[j]
               S == x.seen \cup (x.keys \cap Existing')
    <3>1. Observed(J)[j] = [x EXCEPT !.seen = S]
      BY <2>2, <2>3
    <3>2. x \in JobStates /\ S \in SUBSET Keys
      BY <2>1, JobFields
    <3> HIDE DEF x, S
    <3>3. /\ Observed(J)[j] \in JobStates
          /\ Observed(J)[j].state = x.state /\ Observed(J)[j].proc = x.proc
          /\ Observed(J)[j].keys = x.keys /\ Observed(J)[j].todo = x.todo
          /\ Observed(J)[j].good = x.good /\ Observed(J)[j].seen = S
      BY <3>1, <3>2 DEF JobStates
    <3>4. QED
      BY <2>3, <3>3 DEF x, S
  <2>4. CASE J[j].state \notin {"store", "load"}
    BY <2>1, <2>2, <2>4
  <2>5. QED
    BY <2>3, <2>4
<1>2. Observed(J) \in [Jobs -> JobStates]
  BY <1>1 DEF Observed
<1>3. QED
  BY <1>1, <1>2

(* A step that makes no file appear shows the jobs nothing new.            *)
LEMMA ObservedSame ==
    ASSUME FileInv, Existing' \subseteq Existing
    PROVE  Observed(job) = job
<1>1. job \in [Jobs -> JobStates] /\ Existing \in SUBSET Keys
  BY DEF FileInv, FileTierTypeOK, Existing
<1>2. ASSUME NEW j \in Jobs
      PROVE  Observed(job)[j] = job[j]
  <2>1. CASE job[j].state \in {"store", "load"}
    <3>1. job[j].seen \cup (job[j].keys \cap Existing') = job[j].seen
      BY <2>1 DEF FileInv, JobsSee, Running
    <3>2. Observed(job)[j] = [job[j] EXCEPT !.seen = job[j].seen]
      BY <2>1, <3>1 DEF Observed
    <3>3. job[j] \in JobStates
      BY <1>1
    <3>4. QED
      BY <3>2, <3>3 DEF JobStates
  <2>2. CASE job[j].state \notin {"store", "load"}
    BY <2>2 DEF Observed
  <2>3. QED
    BY <2>1, <2>2
<1>3. QED
  BY <1>1, <1>2 DEF Observed

-----------------------------------------------------------------------------
(* The parts of FileTierTypeOK.                                            *)
Types ==
    /\ file \in [Keys -> FileStates] /\ tmp \in [Threads -> SUBSET Keys]
    /\ job \in [Jobs -> JobStates] /\ thread \in [Threads -> Tasks]
TasksOwned ==
    \A w \in Threads : thread[w] # NoTask =>
        /\ Running(thread[w].job) /\ job[thread[w].job].proc = ProcessOf[w]
        /\ thread[w].key \in job[thread[w].job].keys \ job[thread[w].job].todo
        /\ \A v \in Threads \ {w} : thread[v].job = thread[w].job => thread[v].key # thread[w].key
JobsCanEnd ==
    \A j \in Jobs : Running(j) => job[j].todo # {} \/ \E w \in Threads : thread[w].job = j

(* FileTierTypeOK is the conjunction of these parts.                       *)
LEMMA TypeParts ==
    /\ FileTierTypeOK <=> Types /\ TasksOwned /\ JobsCanEnd
    /\ FileTierTypeOK' <=> Types' /\ TasksOwned' /\ JobsCanEnd'
BY DEF FileTierTypeOK, Types, Tasks, TasksOwned, JobsCanEnd, Running

(* The files that exist are keys.                                          *)
LEMMA ExistingFacts ==
    Existing \in SUBSET Keys /\ Existing' \in SUBSET Keys
BY DEF Existing

(* A working thread moves on to pc with data at hand, within its task,     *)
(* while files appear or disappear.                                        *)
LEMMA ThreadMove ==
    ASSUME FileInv, NEW w \in Threads, thread[w] # NoTask,
           NEW pc \in Pcs \ {"idle"}, NEW data \in FileStates,
           thread' = [thread EXCEPT ![w] = Task(pc, thread[w].job, thread[w].key, data)],
           file' \in [Keys -> FileStates], tmp' \in [Threads -> SUBSET Keys],
           job' = Observed(job),
           pc = "replace" => data = "whole",
           pc \in {"create", "write", "replace", "cleanup"} => job[thread[w].job].state = "store",
           pc \in {"ok", "read"} => thread[w].key \in job'[thread[w].job].seen
    PROVE  FileInv'
<1> DEFINE new == Task(pc, thread[w].job, thread[w].key, data)
<1>1. /\ thread[w].job \in Jobs /\ thread[w].key \in Keys /\ thread \in [Threads -> Tasks]
      /\ job \in [Jobs -> JobStates]
  BY WorkingFacts, TypeParts DEF FileInv, Types
<1>2. new \in Tasks /\ new # NoTask
      /\ new.pc = pc /\ new.job = thread[w].job /\ new.key = thread[w].key /\ new.data = data
  BY <1>1, TaskFacts
<1> HIDE DEF new
<1>3. /\ thread' \in [Threads -> Tasks]
      /\ \A v \in Threads : thread'[v] = IF v = w THEN new ELSE thread[v]
  BY <1>1, <1>2 DEF new
<1>4. \A v \in Threads : /\ thread'[v].job = thread[v].job /\ thread'[v].key = thread[v].key
                         /\ thread'[v] = NoTask <=> thread[v] = NoTask
  BY <1>2, <1>3
<1>5. /\ job' \in [Jobs -> JobStates]
      /\ \A j \in Jobs :
           /\ job'[j].state = job[j].state /\ job'[j].proc = job[j].proc
           /\ job'[j].keys = job[j].keys /\ job'[j].todo = job[j].todo /\ job'[j].good = job[j].good
           /\ Running(j) => job'[j].seen = job[j].seen \cup (job[j].keys \cap Existing')
  BY <1>1, ExistingFacts, ObservedFacts DEF Running
<1>6. \A j \in Jobs : Running(j)' <=> Running(j)
  BY <1>5 DEF Running
<1>7. FileTierTypeOK'
  <2>1. Types'
    BY <1>3, <1>5 DEF Types
  <2>2. TasksOwned'
    <3> SUFFICES ASSUME NEW v \in Threads, thread'[v] # NoTask
                 PROVE  /\ job'[thread'[v].job].state \in {"store", "load"}
                        /\ job'[thread'[v].job].proc = ProcessOf[v]
                        /\ thread'[v].key \in job'[thread'[v].job].keys \ job'[thread'[v].job].todo
                        /\ \A u \in Threads \ {v} :
                             thread'[u].job = thread'[v].job => thread'[u].key # thread'[v].key
      BY DEF TasksOwned, Running
    <3>1. thread[v] # NoTask
      BY <1>4
    <3>2. /\ thread[v].job \in Jobs
          /\ Running(thread[v].job) /\ job[thread[v].job].proc = ProcessOf[v]
          /\ thread[v].key \in job[thread[v].job].keys \ job[thread[v].job].todo
          /\ \A u \in Threads \ {v} : thread[u].job = thread[v].job => thread[u].key # thread[v].key
      BY <3>1, WorkingFacts
    <3>3. QED
      BY <3>2, <1>4, <1>5, <1>6 DEF Running
  <2>3. JobsCanEnd'
    BY <1>4, <1>5, <1>6, TypeParts DEF FileInv, JobsCanEnd
  <2>4. QED
    BY <2>1, <2>2, <2>3, TypeParts
<1>8. TaskShape'
  BY <1>2, <1>3, <1>4 DEF FileInv, TaskShape
<1>9. WholeBlocks'
  <2> SUFFICES ASSUME NEW v \in Threads
               PROVE  /\ thread'[v].pc = "replace" => thread'[v].data = "whole"
                      /\ thread'[v].pc \in {"create", "write", "replace", "cleanup"} =>
                           job'[thread'[v].job].state = "store"
    BY DEF WholeBlocks
  <2>1. CASE v = w
    BY <2>1, <1>1, <1>2, <1>3, <1>5
  <2>2. CASE v # w /\ thread[v] # NoTask
    BY <2>2, <1>3, <1>5, WorkingFacts DEF FileInv, WholeBlocks
  <2>3. CASE v # w /\ thread[v] = NoTask
    BY <2>3, <1>3, TaskFacts
  <2>4. QED
    BY <2>1, <2>2, <2>3
<1>10. JobsSee'
  <2> SUFFICES ASSUME NEW j \in Jobs, Running(j)'
               PROVE  job'[j].todo \subseteq job'[j].keys /\ job'[j].keys \cap Existing' \subseteq job'[j].seen
    BY DEF JobsSee, Running
  <2>1. QED
    BY <1>5, <1>6 DEF FileInv, JobsSee
<1>11. GoodJobs'
  <2>1. ASSUME NEW v \in Threads, thread'[v].pc \in {"ok", "read"}
        PROVE  thread'[v].key \in job'[thread'[v].job].seen
    <3>1. CASE v = w
      BY <2>1, <3>1, <1>2, <1>3
    <3>2. CASE v # w /\ thread[v] # NoTask
      <4>1. thread[v].job \in Jobs /\ Running(thread[v].job) /\ thread[v].key \in job[thread[v].job].seen
        BY <2>1, <3>2, <1>3, WorkingFacts DEF FileInv, GoodJobs
      <4>2. QED
        BY <4>1, <3>2, <1>3, <1>5
    <3>3. CASE v # w /\ thread[v] = NoTask
      BY <2>1, <3>3, <1>3, TaskFacts
    <3>4. QED
      BY <3>1, <3>2, <3>3
  <2>2. ASSUME NEW j \in Jobs, Running(j)', job'[j].good, NEW k \in job'[j].keys
        PROVE  \/ k \in job'[j].todo \cup job'[j].seen
               \/ \E v \in Threads : thread'[v].job = j /\ thread'[v].key = k
    <3>1. Running(j) /\ job[j].good /\ k \in job[j].keys
      BY <2>2, <1>5, <1>6
    <3>2. \/ k \in job[j].todo \cup job[j].seen
          \/ \E v \in Threads : thread[v].job = j /\ thread[v].key = k
      BY <3>1 DEF FileInv, GoodJobs
    <3>3. QED
      BY <3>1, <3>2, <1>4, <1>5
  <2>3. QED
    BY <2>1, <2>2 DEF GoodJobs, Running
<1>12. QED
  BY <1>7, <1>8, <1>9, <1>10, <1>11 DEF FileInv

-----------------------------------------------------------------------------
(* The steps of a working thread.                                          *)

(* A change of pc and data is a new task for the same job and key.         *)
Moves(w, pc, data) == thread' = [thread EXCEPT ![w].pc = pc, ![w].data = data]

(* The record a step of thread w leaves in thread[w].                      *)
LEMMA MoveFacts ==
    ASSUME FileInv, NEW w \in Threads, NEW pc \in Pcs, NEW data \in FileStates, Moves(w, pc, data)
    PROVE  thread' = [thread EXCEPT ![w] = Task(pc, thread[w].job, thread[w].key, data)]
<1> DEFINE t == thread[w]
           u == [pc |-> pc, job |-> t.job, key |-> t.key, data |-> t.data]
<1>1. thread \in [Threads -> Tasks] /\ t \in Tasks
  BY TypeParts DEF FileInv, Types
<1>2. /\ thread' \in [Threads -> {thread'[v] : v \in Threads}]
      /\ thread'[w] = [[t EXCEPT !.pc = pc] EXCEPT !.data = data]
      /\ \A v \in Threads : v # w => thread'[v] = thread[v]
  BY <1>1 DEF Moves
<1> HIDE DEF t
<1>3. [t EXCEPT !.pc = pc] = u
  BY <1>1 DEF Tasks
<1>4. [u EXCEPT !.data = data] = Task(pc, t.job, t.key, data)
  BY DEF Task
<1> HIDE DEF u
<1>5. thread'[w] = Task(pc, thread[w].job, thread[w].key, data)
  BY <1>2, <1>3, <1>4 DEF t
<1>6. QED
  BY <1>1, <1>2, <1>5

(* A thread with a pc other than idle has a task.                          *)
LEMMA PcFacts ==
    ASSUME NEW w \in Threads, thread[w].pc # "idle"
    PROVE  thread[w] # NoTask
BY TaskFacts

(* A thread that goes on while files do not change.                        *)
LEMMA QuietMove ==
    ASSUME FileInv, NEW w \in Threads, thread[w] # NoTask,
           NEW pc \in Pcs \ {"idle"}, NEW data \in FileStates,
           Moves(w, pc, data), file' = file, tmp' \in [Threads -> SUBSET Keys], job' = job,
           pc = "replace" => data = "whole",
           pc \in {"create", "write", "replace", "cleanup"} => job[thread[w].job].state = "store",
           pc \in {"ok", "read"} => thread[w].key \in job[thread[w].job].seen
    PROVE  FileInv'
<1>1. Existing' = Existing
  BY DEF Existing
<1>2. job' = Observed(job)
  BY <1>1, ObservedSame
<1>3. thread' = [thread EXCEPT ![w] = Task(pc, thread[w].job, thread[w].key, data)]
  BY MoveFacts
<1>4. file' \in [Keys -> FileStates]
  BY TypeParts DEF FileInv, Types
<1>5. pc \in {"ok", "read"} => thread[w].key \in job'[thread[w].job].seen
  OBVIOUS
<1>6. QED
  BY <1>2, <1>3, <1>4, <1>5, ThreadMove

(* Opening a temporary file, or failing to, touches no job and no final file.*)
LEMMA StoreCreateStep ==
    ASSUME FileInv, NEW w \in Threads, StoreCreate(w)
    PROVE  FileInv'
<1>1. /\ thread[w] # NoTask /\ thread[w].key \in Keys /\ tmp \in [Threads -> SUBSET Keys]
      /\ job[thread[w].job].state = "store" /\ file' = file /\ job' = job
  BY PcFacts, WorkingFacts, TypeParts DEF StoreCreate, FileInv, Types, WholeBlocks
<1>2. tmp' \in [Threads -> SUBSET Keys]
  BY <1>1 DEF StoreCreate
<1>3. PICK pc \in {"write", "cleanup", "failed"} : Goto(w, pc)
  BY DEF StoreCreate
<1>4. pc \in Pcs \ {"idle"} /\ "none" \in FileStates
  BY DEF Pcs, FileStates
<1>5. Moves(w, pc, "none")
  BY <1>3 DEF Goto, Moves
<1>6. QED
  BY <1>1, <1>2, <1>4, <1>5, QuietMove

(* Only an accepted write, of the whole block, reaches the replace.        *)
LEMMA StoreWriteStep ==
    ASSUME FileInv, NEW w \in Threads, NEW data \in {"whole", "damaged"}, StoreWrite(w, data)
    PROVE  FileInv'
<1>1. /\ thread[w] # NoTask /\ job[thread[w].job].state = "store"
      /\ file' = file /\ job' = job /\ tmp' \in [Threads -> SUBSET Keys]
  BY PcFacts, TypeParts DEF StoreWrite, FileInv, Types, WholeBlocks
<1>2. CASE Accepted(data) /\ thread' = [thread EXCEPT ![w].pc = "replace", ![w].data = data]
  <2>1. "replace" \in Pcs \ {"idle"} /\ data \in FileStates /\ data = "whole"
    BY <1>2 DEF Pcs, FileStates, Accepted
  <2>2. Moves(w, "replace", data)
    BY <1>2 DEF Moves
  <2>3. QED
    BY <1>1, <2>1, <2>2, QuietMove
<1>3. CASE Goto(w, "cleanup")
  <2>1. "cleanup" \in Pcs \ {"idle"} /\ "none" \in FileStates
    BY DEF Pcs, FileStates
  <2>2. Moves(w, "cleanup", "none")
    BY <1>3 DEF Goto, Moves
  <2>3. QED
    BY <1>1, <2>1, <2>2, QuietMove
<1>4. QED
  BY <1>2, <1>3 DEF StoreWrite

(* os.replace: the block appears for every job that waits for it.          *)
LEMMA StoreReplaceStep ==
    ASSUME FileInv, NEW w \in Threads, StoreReplace(w)
    PROVE  FileInv'
<1>1. /\ thread[w] # NoTask /\ thread[w].key \in Keys /\ thread[w].job \in Jobs
      /\ Running(thread[w].job) /\ thread[w].key \in job[thread[w].job].keys
      /\ job[thread[w].job].state = "store" /\ thread[w].data = "whole"
  BY PcFacts, WorkingFacts DEF StoreReplace, FileInv, WholeBlocks
<1>2. /\ job \in [Jobs -> JobStates] /\ file \in [Keys -> FileStates] /\ tmp \in [Threads -> SUBSET Keys]
      /\ "none" \in FileStates /\ "whole" \in FileStates
      /\ {"ok", "cleanup"} \subseteq Pcs \ {"idle"}
  BY TypeParts DEF FileInv, Types, FileStates, Pcs
<1>3. job' = Observed(job)
  BY DEF StoreReplace
<1>4. CASE /\ file' = [file EXCEPT ![thread[w].key] = thread[w].data]
           /\ tmp' = [tmp EXCEPT ![w] = @ \ {thread[w].key}]
           /\ Goto(w, "ok")
  <2>1. file' \in [Keys -> FileStates] /\ tmp' \in [Threads -> SUBSET Keys]
    BY <1>1, <1>2, <1>4
  <2>2. thread[w].key \in Existing'
    BY <1>1, <1>2, <1>4 DEF Existing
  <2>3. thread[w].key \in job'[thread[w].job].seen
    BY <1>1, <1>2, <1>3, <2>2, ExistingFacts, ObservedFacts DEF Running
  <2>4. thread' = [thread EXCEPT ![w] = Task("ok", thread[w].job, thread[w].key, "none")]
    BY <1>2, <1>4, MoveFacts DEF Goto, Moves
  <2>5. QED
    BY <1>1, <1>2, <1>3, <2>1, <2>3, <2>4, ThreadMove
<1>5. CASE Goto(w, "cleanup") /\ UNCHANGED <<file, tmp>>
  <2>1. thread' = [thread EXCEPT ![w] = Task("cleanup", thread[w].job, thread[w].key, "none")]
    BY <1>2, <1>5, MoveFacts DEF Goto, Moves
  <2>2. QED
    BY <1>1, <1>2, <1>3, <1>5, <2>1, ThreadMove
<1>6. QED
  BY <1>4, <1>5 DEF StoreReplace

(* A failed store removes its temporary file and reports a failure.        *)
LEMMA StoreCleanupStep ==
    ASSUME FileInv, NEW w \in Threads, NEW removed \in BOOLEAN, StoreCleanup(w, removed)
    PROVE  FileInv'
<1>1. thread[w] # NoTask /\ file' = file /\ job' = job /\ tmp \in [Threads -> SUBSET Keys]
  BY PcFacts, TypeParts DEF StoreCleanup, FileInv, Types
<1>2. tmp' \in [Threads -> SUBSET Keys]
  BY <1>1 DEF StoreCleanup
<1>3. "failed" \in Pcs \ {"idle"} /\ "none" \in FileStates
  BY DEF Pcs, FileStates
<1>4. Moves(w, "failed", "none")
  BY DEF StoreCleanup, Goto, Moves
<1>5. QED
  BY <1>1, <1>2, <1>3, <1>4, QuietMove

(* A load that read the block had found its file.                          *)
LEMMA LoadReadStep ==
    ASSUME FileInv, NEW w \in Threads, LoadRead(w)
    PROVE  FileInv'
<1>1. /\ thread[w] # NoTask /\ file' = file /\ job' = job /\ tmp' \in [Threads -> SUBSET Keys]
      /\ thread[w].key \in job[thread[w].job].seen
  BY PcFacts, TypeParts DEF LoadRead, FileInv, Types, GoodJobs
<1>2. PICK pc \in {"ok", "discard"} : Goto(w, pc)
  BY DEF LoadRead
<1>3. pc \in Pcs \ {"idle"} /\ "none" \in FileStates
  BY DEF Pcs, FileStates
<1>4. Moves(w, pc, "none")
  BY <1>2 DEF Goto, Moves
<1>5. QED
  BY <1>1, <1>3, <1>4, QuietMove

(* Removing an unreadable file makes no file appear.                       *)
LEMMA LoadDiscardStep ==
    ASSUME FileInv, NEW w \in Threads, NEW removed \in BOOLEAN, LoadDiscard(w, removed)
    PROVE  FileInv'
<1>1. /\ thread[w] # NoTask /\ thread[w].key \in Keys /\ job' = job
      /\ tmp' \in [Threads -> SUBSET Keys] /\ file \in [Keys -> FileStates]
  BY PcFacts, WorkingFacts, TypeParts DEF LoadDiscard, FileInv, Types
<1>2. "failed" \in Pcs \ {"idle"} /\ "none" \in FileStates
  BY DEF Pcs, FileStates
<1>3. file' \in [Keys -> FileStates] /\ Existing' \subseteq Existing
  BY <1>1, <1>2 DEF LoadDiscard, Existing
<1>4. job' = Observed(job)
  BY <1>1, <1>3, ObservedSame
<1>5. thread' = [thread EXCEPT ![w] = Task("failed", thread[w].job, thread[w].key, "none")]
  <2>1. Moves(w, "failed", "none")
    BY DEF LoadDiscard, Goto, Moves
  <2>2. QED
    BY <1>2, <2>1, MoveFacts
<1>6. QED
  BY <1>1, <1>2, <1>3, <1>4, <1>5, ThreadMove

-----------------------------------------------------------------------------
(* The steps that begin and end tasks and jobs.                            *)

(* A thread takes the task of key k of job j and stands at pc.             *)
LEMMA BeginStep ==
    ASSUME FileInv, NEW w \in Threads, NEW j \in Jobs, NEW k \in Keys, NEW kind \in {"store", "load"},
           NEW pc \in Pcs \ {"idle", "replace"}, NEW data \in FileStates,
           Begin(w, j, k, kind, pc, data),
           pc \in {"create", "write", "cleanup"} => kind = "store",
           pc \in {"ok", "read"} => file[k] # "none"
    PROVE  FileInv'
<1> DEFINE new == Task(pc, j, k, data)
<1>1. /\ thread[w] = NoTask /\ Running(j) /\ job[j].state = kind
      /\ job[j].proc = ProcessOf[w] /\ k \in job[j].todo
      /\ thread' = [thread EXCEPT ![w] = new]
      /\ job' = [job EXCEPT ![j].todo = @ \ {k}] /\ file' = file /\ tmp' = tmp
  BY DEF Begin, Running, Task
<1>2. /\ thread \in [Threads -> Tasks] /\ job \in [Jobs -> JobStates]
      /\ file \in [Keys -> FileStates] /\ tmp \in [Threads -> SUBSET Keys]
  BY TypeParts DEF FileInv, Types
<1>3. /\ new \in Tasks /\ new # NoTask
      /\ new.pc = pc /\ new.job = j /\ new.key = k /\ new.data = data
  BY TaskFacts
<1> HIDE DEF new
<1>4. thread' \in [Threads -> Tasks] /\ \A v \in Threads : thread'[v] = IF v = w THEN new ELSE thread[v]
  BY <1>1, <1>2, <1>3
<1>5. /\ job'[j] = [job[j] EXCEPT !.todo = @ \ {k}]
      /\ \A i \in Jobs : i # j => job'[i] = job[i]
  BY <1>1, <1>2
<1>6. /\ job'[j] \in JobStates /\ job'[j].todo = job[j].todo \ {k}
      /\ job'[j].state = job[j].state /\ job'[j].proc = job[j].proc /\ job'[j].keys = job[j].keys
      /\ job'[j].good = job[j].good /\ job'[j].seen = job[j].seen
  <2> DEFINE x == job[j]
  <2>1. x \in JobStates /\ job'[j] = [x EXCEPT !.todo = @ \ {k}]
    BY <1>2, <1>5
  <2> HIDE DEF x
  <2>2. QED
    BY <2>1 DEF JobStates, x
<1>7. \A i \in Jobs :
        /\ job'[i].state = job[i].state /\ job'[i].proc = job[i].proc /\ job'[i].keys = job[i].keys
        /\ job'[i].good = job[i].good /\ job'[i].seen = job[i].seen
        /\ job'[i].todo = IF i = j THEN job[i].todo \ {k} ELSE job[i].todo
  BY <1>5, <1>6
<1>8. job[j].todo \subseteq job[j].keys
  BY <1>1 DEF FileInv, JobsSee
<1>9. \A v \in Threads : thread[v].job = j => thread[v].key # k
  <2> SUFFICES ASSUME NEW v \in Threads, thread[v].job = j
               PROVE  thread[v].key # k
    OBVIOUS
  <2>1. thread[v] # NoTask
    BY TaskFacts
  <2>2. thread[v].key \in job[j].keys \ job[j].todo
    BY <2>1, WorkingFacts
  <2>3. QED
    BY <2>2, <1>1
<1>10. FileTierTypeOK'
  <2>1. Types'
    <3>1. job' \in [Jobs -> JobStates]
      BY <1>1, <1>2, <1>5, <1>6
    <3>2. QED
      BY <3>1, <1>1, <1>2, <1>4 DEF Types
  <2>2. TasksOwned'
    <3> SUFFICES ASSUME NEW v \in Threads, thread'[v] # NoTask
                 PROVE  /\ job'[thread'[v].job].state \in {"store", "load"}
                        /\ job'[thread'[v].job].proc = ProcessOf[v]
                        /\ thread'[v].key \in job'[thread'[v].job].keys \ job'[thread'[v].job].todo
                        /\ \A u \in Threads \ {v} :
                             thread'[u].job = thread'[v].job => thread'[u].key # thread'[v].key
      BY DEF TasksOwned, Running
    <3>1. CASE v = w
      BY <3>1, <1>1, <1>3, <1>4, <1>7, <1>8, <1>9
    <3>2. CASE v # w
      <4>1. thread'[v] = thread[v] /\ thread[v] # NoTask
        BY <3>2, <1>4
      <4>2. /\ thread[v].job \in Jobs
            /\ job[thread[v].job].state \in {"store", "load"} /\ job[thread[v].job].proc = ProcessOf[v]
            /\ thread[v].key \in job[thread[v].job].keys \ job[thread[v].job].todo
            /\ \A u \in Threads \ {v} : thread[u].job = thread[v].job => thread[u].key # thread[v].key
        BY <4>1, WorkingFacts DEF Running
      <4>3. /\ job'[thread[v].job].state = job[thread[v].job].state
            /\ job'[thread[v].job].proc = job[thread[v].job].proc
            /\ job'[thread[v].job].keys = job[thread[v].job].keys
            /\ job'[thread[v].job].todo \subseteq job[thread[v].job].todo
        BY <4>2, <1>7
      <4>4. ASSUME NEW u \in Threads \ {v}, thread'[u].job = thread[v].job
            PROVE  thread'[u].key # thread[v].key
        <5>1. CASE u = w
          BY <4>4, <5>1, <1>3, <1>4, <1>9
        <5>2. CASE u # w
          BY <4>2, <4>4, <5>2, <1>4
        <5>3. QED
          BY <5>1, <5>2
      <4>5. QED
        BY <4>1, <4>2, <4>3, <4>4
    <3>3. QED
      BY <3>1, <3>2
  <2>3. JobsCanEnd'
    <3> SUFFICES ASSUME NEW i \in Jobs, job'[i].state \in {"store", "load"}
                 PROVE  job'[i].todo # {} \/ \E v \in Threads : thread'[v].job = i
      BY DEF JobsCanEnd, Running
    <3>1. CASE i = j
      BY <3>1, <1>3, <1>4
    <3>2. CASE i # j
      <4>1. job[i].todo # {} \/ \E v \in Threads : thread[v].job = i
        BY <3>2, <1>7, TypeParts DEF FileInv, JobsCanEnd, Running
      <4>2. thread[w].job # i
        BY <1>1, TaskFacts
      <4>3. QED
        BY <3>2, <4>1, <4>2, <1>4, <1>7
    <3>3. QED
      BY <3>1, <3>2
  <2>4. QED
    BY <2>1, <2>2, <2>3, TypeParts
<1>11. TaskShape'
  BY <1>3, <1>4 DEF FileInv, TaskShape
<1>12. WholeBlocks'
  <2> SUFFICES ASSUME NEW v \in Threads
               PROVE  /\ thread'[v].pc = "replace" => thread'[v].data = "whole"
                      /\ thread'[v].pc \in {"create", "write", "replace", "cleanup"} =>
                           job'[thread'[v].job].state = "store"
    BY DEF WholeBlocks
  <2>1. CASE v = w
    BY <2>1, <1>1, <1>3, <1>4, <1>7
  <2>2. CASE v # w /\ thread[v] # NoTask
    <3>1. thread'[v] = thread[v] /\ thread[v].job \in Jobs
      BY <2>2, <1>4, WorkingFacts
    <3>2. job'[thread[v].job].state = job[thread[v].job].state
      BY <3>1, <1>7
    <3>3. QED
      BY <3>1, <3>2 DEF FileInv, WholeBlocks
  <2>3. CASE v # w /\ thread[v] = NoTask
    BY <2>3, <1>4, TaskFacts
  <2>4. QED
    BY <2>1, <2>2, <2>3
<1>13. Existing' = Existing
  BY <1>1 DEF Existing
<1>14. JobsSee'
  <2> SUFFICES ASSUME NEW i \in Jobs, job'[i].state \in {"store", "load"}
               PROVE  job'[i].todo \subseteq job'[i].keys /\ job'[i].keys \cap Existing \subseteq job'[i].seen
    BY <1>13 DEF JobsSee, Running
  <2>1. QED
    BY <1>7 DEF FileInv, JobsSee, Running
<1>15. GoodJobs'
  <2>1. ASSUME NEW v \in Threads, thread'[v].pc \in {"ok", "read"}
        PROVE  thread'[v].key \in job'[thread'[v].job].seen
    <3>1. CASE v = w
      <4>1. k \in Existing \cap job[j].keys
        BY <2>1, <3>1, <1>1, <1>3, <1>4, <1>8 DEF Existing
      <4>2. k \in job[j].seen
        BY <4>1, <1>1 DEF FileInv, JobsSee
      <4>3. QED
        BY <3>1, <4>2, <1>3, <1>4, <1>7
    <3>2. CASE v # w /\ thread[v] # NoTask
      <4>1. thread'[v] = thread[v] /\ thread[v].job \in Jobs
        BY <3>2, <1>4, WorkingFacts
      <4>2. job'[thread[v].job].seen = job[thread[v].job].seen
        BY <4>1, <1>7
      <4>3. QED
        BY <2>1, <4>1, <4>2 DEF FileInv, GoodJobs
    <3>3. CASE v # w /\ thread[v] = NoTask
      BY <2>1, <3>3, <1>4, TaskFacts
    <3>4. QED
      BY <3>1, <3>2, <3>3
  <2>2. ASSUME NEW i \in Jobs, job'[i].state \in {"store", "load"}, job'[i].good, NEW q \in job'[i].keys
        PROVE  \/ q \in job'[i].todo \cup job'[i].seen
               \/ \E v \in Threads : thread'[v].job = i /\ thread'[v].key = q
    <3>1. Running(i) /\ job[i].good /\ q \in job[i].keys
      BY <2>2, <1>7 DEF Running
    <3>2. \/ q \in job[i].todo \cup job[i].seen
          \/ \E v \in Threads : thread[v].job = i /\ thread[v].key = q
      BY <3>1 DEF FileInv, GoodJobs
    <3>3. thread[w].job # i
      BY <1>1, TaskFacts
    <3>4. CASE i = j /\ q = k
      BY <3>4, <1>3, <1>4
    <3>5. CASE ~(i = j /\ q = k)
      BY <3>2, <3>3, <3>5, <1>4, <1>7
    <3>6. QED
      BY <3>4, <3>5
  <2>3. QED
    BY <2>1, <2>2 DEF GoodJobs, Running
<1>16. QED
  BY <1>10, <1>11, <1>12, <1>14, <1>15 DEF FileInv

(* store_block begins with an existence check.                             *)
LEMMA StoreExistsStep ==
    ASSUME FileInv, NEW w \in Threads, NEW j \in Jobs, NEW k \in Keys, StoreExists(w, j, k)
    PROVE  FileInv'
<1> DEFINE pc == IF file[k] # "none" THEN "ok" ELSE "create"
<1>1. Begin(w, j, k, "store", pc, "none")
  BY DEF StoreExists
<1>2. pc \in Pcs \ {"idle", "replace"} /\ "none" \in FileStates /\ "store" \in {"store", "load"}
  BY DEF Pcs, FileStates
<1>3. pc \in {"ok", "read"} => file[k] # "none"
  OBVIOUS
<1> HIDE DEF pc
<1>4. QED
  BY <1>1, <1>2, <1>3, BeginStep

(* load_block begins with open.                                            *)
LEMMA LoadOpenStep ==
    ASSUME FileInv, NEW w \in Threads, NEW j \in Jobs, NEW k \in Keys, LoadOpen(w, j, k)
    PROVE  FileInv'
<1>1. file[k] \in FileStates /\ "none" \in FileStates
  BY TypeParts DEF FileInv, Types, FileStates
<1>2. {"read", "discard"} \subseteq Pcs \ {"idle", "replace"} /\ "load" \in {"store", "load"}
  BY DEF Pcs
<1>3. CASE file[k] # "none" /\ Begin(w, j, k, "load", "read", file[k])
  BY <1>1, <1>2, <1>3, BeginStep
<1>4. CASE Begin(w, j, k, "load", "discard", "none")
  BY <1>1, <1>2, <1>4, BeginStep
<1>5. QED
  BY <1>3, <1>4 DEF LoadOpen

(* The result of a task that is not the last, or of the job.               *)
Result(w) ==
    LET j == thread[w].job
        good == job[j].good /\ thread[w].pc = "ok"
    IN  IF LastTask(w) THEN [NoWork EXCEPT !.state = "done", !.proc = job[j].proc, !.good = good]
        ELSE [job[j] EXCEPT !.good = good]

(* The record of a job after one of its tasks has ended is well formed.    *)
LEMMA ResultFacts ==
    ASSUME FileInv, NEW w \in Threads, thread[w] # NoTask
    PROVE  LET j == thread[w].job IN
           /\ Result(w) \in JobStates
           /\ Result(w).good <=> job[j].good /\ thread[w].pc = "ok"
           /\ LastTask(w) => Result(w).state = "done"
           /\ ~LastTask(w) =>
                /\ Result(w).state = job[j].state /\ Result(w).proc = job[j].proc
                /\ Result(w).keys = job[j].keys /\ Result(w).todo = job[j].todo
                /\ Result(w).seen = job[j].seen
<1> DEFINE x == job[thread[w].job]
           good == x.good /\ thread[w].pc = "ok"
<1>1. x \in JobStates /\ good \in BOOLEAN
  BY WorkingFacts, TypeParts DEF FileInv, Types
<1>2. Result(w) = IF LastTask(w) THEN [NoWork EXCEPT !.state = "done", !.proc = x.proc, !.good = good]
                  ELSE [x EXCEPT !.good = good]
  BY DEF Result
<1> HIDE DEF x, good
<1>3. CASE LastTask(w)
  <2>1. Result(w) = [state |-> "done", proc |-> x.proc, keys |-> {}, todo |-> {}, good |-> good, seen |-> {}]
    BY <1>2, <1>3 DEF NoWork
  <2>2. /\ Result(w) \in JobStates /\ Result(w).good = good /\ Result(w).state = "done"
    BY <1>1, <2>1 DEF JobStates
  <2>3. QED
    BY <1>3, <2>2 DEF x, good
<1>4. CASE ~LastTask(w)
  <2>1. /\ Result(w) \in JobStates /\ Result(w).good = good
        /\ Result(w).state = x.state /\ Result(w).proc = x.proc
        /\ Result(w).keys = x.keys /\ Result(w).todo = x.todo /\ Result(w).seen = x.seen
    BY <1>1, <1>2, <1>4 DEF JobStates
  <2>2. QED
    BY <1>4, <2>1 DEF x, good
<1>5. QED
  BY <1>3, <1>4

(* What task_done does, job by job and thread by thread.                   *)
LEMMA TaskDoneFacts ==
    ASSUME FileInv, NEW w \in Threads, TaskDone(w)
    PROVE  /\ thread[w] # NoTask /\ thread[w].job \in Jobs
           /\ \A j \in Jobs : job'[j] = IF j = thread[w].job THEN Result(w) ELSE job[j]
           /\ \A v \in Threads : thread'[v] = IF v = w THEN NoTask ELSE thread[v]
           /\ file' = file /\ tmp' = tmp
           /\ job' \in [Jobs -> JobStates] /\ thread' \in [Threads -> Tasks]
<1>1. thread[w] # NoTask
  BY PcFacts DEF TaskDone
<1>2. /\ thread[w].job \in Jobs /\ thread \in [Threads -> Tasks] /\ job \in [Jobs -> JobStates]
      /\ Result(w) \in JobStates /\ NoTask \in Tasks
  BY <1>1, WorkingFacts, ResultFacts, TypeParts, TaskFacts DEF FileInv, Types
<1>3. job' = [job EXCEPT ![thread[w].job] = Result(w)]
  BY DEF TaskDone, Result
<1>4. thread' = [thread EXCEPT ![w] = NoTask] /\ file' = file /\ tmp' = tmp
  BY DEF TaskDone
<1>5. QED
  BY <1>1, <1>2, <1>3, <1>4

(* task_done: the other tasks of a job that goes on keep it running.       *)
LEMMA TaskDoneStep ==
    ASSUME FileInv, NEW w \in Threads, TaskDone(w)
    PROVE  FileInv'
<1> DEFINE j == thread[w].job
           r == Result(w)
<1>1. /\ thread[w] # NoTask /\ j \in Jobs
      /\ \A i \in Jobs : job'[i] = IF i = j THEN r ELSE job[i]
      /\ \A v \in Threads : thread'[v] = IF v = w THEN NoTask ELSE thread[v]
      /\ file' = file /\ tmp' = tmp
      /\ job' \in [Jobs -> JobStates] /\ thread' \in [Threads -> Tasks]
  BY TaskDoneFacts
<1>2. /\ r.good <=> job[j].good /\ thread[w].pc = "ok"
      /\ LastTask(w) => r.state = "done"
      /\ ~LastTask(w) =>
           /\ r.state = job[j].state /\ r.proc = job[j].proc /\ r.keys = job[j].keys
           /\ r.todo = job[j].todo /\ r.seen = job[j].seen
  BY <1>1, ResultFacts
<1>3. LastTask(w) <=> job[j].todo = {} /\ \A v \in Threads \ {w} : thread[v].job # j
  BY DEF LastTask
<1> HIDE DEF j, r
<1>4. Existing' = Existing
  BY <1>1 DEF Existing
<1>5. ASSUME NEW v \in Threads, thread'[v] # NoTask
      PROVE  /\ v # w /\ thread'[v] = thread[v] /\ thread[v] # NoTask /\ thread[v].job \in Jobs
             /\ job'[thread[v].job].state = job[thread[v].job].state
             /\ job'[thread[v].job].proc = job[thread[v].job].proc
             /\ job'[thread[v].job].keys = job[thread[v].job].keys
             /\ job'[thread[v].job].todo = job[thread[v].job].todo
             /\ job'[thread[v].job].seen = job[thread[v].job].seen
  <2>1. v # w /\ thread'[v] = thread[v] /\ thread[v] # NoTask
    BY <1>1, <1>5
  <2>2. thread[v].job \in Jobs
    BY <2>1, WorkingFacts
  <2>3. CASE thread[v].job = j
    <3>1. ~LastTask(w)
      BY <2>1, <2>3, <1>3
    <3>2. QED
      BY <2>1, <2>2, <2>3, <3>1, <1>1, <1>2
  <2>4. CASE thread[v].job # j
    BY <2>1, <2>2, <2>4, <1>1
  <2>5. QED
    BY <2>3, <2>4
<1>6. ASSUME NEW i \in Jobs, job'[i].state \in {"store", "load"}
      PROVE  /\ Running(i) /\ job'[i].keys = job[i].keys /\ job'[i].todo = job[i].todo
             /\ job'[i].seen = job[i].seen
             /\ job'[i].good => job[i].good /\ (i = j => thread[w].pc = "ok")
             /\ i = j => ~LastTask(w)
  BY <1>1, <1>2, <1>6 DEF Running
<1>7. FileTierTypeOK'
  <2>1. Types'
    BY <1>1, TypeParts DEF FileInv, Types
  <2>2. TasksOwned'
    <3> SUFFICES ASSUME NEW v \in Threads, thread'[v] # NoTask
                 PROVE  /\ job'[thread'[v].job].state \in {"store", "load"}
                        /\ job'[thread'[v].job].proc = ProcessOf[v]
                        /\ thread'[v].key \in job'[thread'[v].job].keys \ job'[thread'[v].job].todo
                        /\ \A u \in Threads \ {v} :
                             thread'[u].job = thread'[v].job => thread'[u].key # thread'[v].key
      BY DEF TasksOwned, Running
    <3>1. /\ job[thread[v].job].state \in {"store", "load"} /\ job[thread[v].job].proc = ProcessOf[v]
          /\ thread[v].key \in job[thread[v].job].keys \ job[thread[v].job].todo
          /\ \A u \in Threads \ {v} : thread[u].job = thread[v].job => thread[u].key # thread[v].key
      BY <1>5, WorkingFacts DEF Running
    <3>2. \A u \in Threads \ {v} : thread'[u].job = thread'[v].job => thread'[u].key # thread'[v].key
      <4> SUFFICES ASSUME NEW u \in Threads \ {v}, thread'[u].job = thread'[v].job
                   PROVE  thread'[u].key # thread'[v].key
        OBVIOUS
      <4>1. thread'[v].job \in Jobs
        BY <1>5
      <4>2. thread'[u] # NoTask
        BY <4>1, TaskFacts
      <4>3. QED
        BY <3>1, <4>2, <1>5
    <3>3. QED
      BY <3>1, <3>2, <1>5
  <2>3. JobsCanEnd'
    <3> SUFFICES ASSUME NEW i \in Jobs, job'[i].state \in {"store", "load"}
                 PROVE  job'[i].todo # {} \/ \E v \in Threads : thread'[v].job = i
      BY DEF JobsCanEnd, Running
    <3>1. CASE i = j
      <4>1. job[j].todo # {} \/ \E v \in Threads \ {w} : thread[v].job = j
        BY <3>1, <1>3, <1>6
      <4>2. QED
        BY <3>1, <4>1, <1>1, <1>6
    <3>2. CASE i # j
      <4>1. job[i].todo # {} \/ \E v \in Threads : thread[v].job = i
        BY <1>6, TypeParts DEF FileInv, JobsCanEnd
      <4>2. QED
        BY <3>2, <4>1, <1>1, <1>6 DEF j
    <3>3. QED
      BY <3>1, <3>2
  <2>4. QED
    BY <2>1, <2>2, <2>3, TypeParts
<1>8. TaskShape'
  BY <1>5 DEF FileInv, TaskShape
<1>9. \A v \in Threads : thread'[v] = NoTask => thread'[v].pc = "idle"
  BY TaskFacts
<1>10. WholeBlocks'
  <2> SUFFICES ASSUME NEW v \in Threads, thread'[v] # NoTask
               PROVE  /\ thread'[v].pc = "replace" => thread'[v].data = "whole"
                      /\ thread'[v].pc \in {"create", "write", "replace", "cleanup"} =>
                           job'[thread'[v].job].state = "store"
    BY <1>9 DEF WholeBlocks
  <2>1. QED
    BY <1>5 DEF FileInv, WholeBlocks
<1>11. JobsSee'
  <2> SUFFICES ASSUME NEW i \in Jobs, job'[i].state \in {"store", "load"}
               PROVE  job'[i].todo \subseteq job'[i].keys /\ job'[i].keys \cap Existing \subseteq job'[i].seen
    BY <1>4 DEF JobsSee, Running
  <2>1. QED
    BY <1>6 DEF FileInv, JobsSee
<1>12. GoodJobs'
  <2>1. ASSUME NEW v \in Threads, thread'[v].pc \in {"ok", "read"}
        PROVE  thread'[v].key \in job'[thread'[v].job].seen
    <3>1. thread'[v] # NoTask
      BY <2>1, <1>9
    <3>2. QED
      BY <2>1, <3>1, <1>5 DEF FileInv, GoodJobs
  <2>2. ASSUME NEW i \in Jobs, job'[i].state \in {"store", "load"}, job'[i].good, NEW q \in job'[i].keys
        PROVE  \/ q \in job'[i].todo \cup job'[i].seen
               \/ \E v \in Threads : thread'[v].job = i /\ thread'[v].key = q
    <3>1. Running(i) /\ job[i].good /\ q \in job[i].keys
      BY <2>2, <1>6
    <3>2. CASE q \in job[i].todo \cup job[i].seen
      BY <2>2, <3>2, <1>6
    <3>3. CASE q \notin job[i].todo \cup job[i].seen
      <4>1. PICK v \in Threads : thread[v].job = i /\ thread[v].key = q
        BY <3>1, <3>3 DEF FileInv, GoodJobs
      <4>2. CASE v = w
        <5>1. thread[w].pc = "ok" /\ i = j
          BY <2>2, <4>1, <4>2, <1>6 DEF j
        <5>2. q \in job[i].seen
          BY <4>1, <4>2, <5>1 DEF FileInv, GoodJobs
        <5>3. QED
          BY <3>3, <5>2
      <4>3. CASE v # w
        BY <4>1, <4>3, <1>1
      <4>4. QED
        BY <4>2, <4>3
    <3>4. QED
      BY <3>2, <3>3
  <2>3. QED
    BY <2>1, <2>2 DEF GoodJobs, Running
<1>13. QED
  BY <1>7, <1>8, <1>10, <1>11, <1>12 DEF FileInv

(* The manager begins jobs with all their tasks to do, forgets jobs, and   *)
(* the threads that work on are those of jobs it does not touch.           *)
LEMMA ManagerMove ==
    ASSUME FileInv, Types', Existing' \subseteq Existing,
           \A v \in Threads : \/ thread'[v] = NoTask
                              \/ thread'[v] = thread[v] /\ job'[thread[v].job] = job[thread[v].job],
           \A i \in Jobs : job'[i].state \in {"store", "load"} =>
             \/ job'[i] = job[i] /\ \A v \in Threads : thread[v].job = i => thread'[v] = thread[v]
             \/ /\ job'[i].todo = job'[i].keys /\ job'[i].keys # {}
                /\ job'[i].keys \cap Existing \subseteq job'[i].seen
    PROVE  FileInv'
<1>1. ASSUME NEW v \in Threads, thread'[v] # NoTask
      PROVE  /\ thread'[v] = thread[v] /\ thread[v] # NoTask /\ thread[v].job \in Jobs
             /\ job'[thread[v].job] = job[thread[v].job]
  BY <1>1, WorkingFacts
<1>2. FileTierTypeOK'
  <2>1. TasksOwned'
    <3> SUFFICES ASSUME NEW v \in Threads, thread'[v] # NoTask
                 PROVE  /\ job'[thread'[v].job].state \in {"store", "load"}
                        /\ job'[thread'[v].job].proc = ProcessOf[v]
                        /\ thread'[v].key \in job'[thread'[v].job].keys \ job'[thread'[v].job].todo
                        /\ \A u \in Threads \ {v} :
                             thread'[u].job = thread'[v].job => thread'[u].key # thread'[v].key
      BY DEF TasksOwned, Running
    <3>1. /\ job[thread[v].job].state \in {"store", "load"} /\ job[thread[v].job].proc = ProcessOf[v]
          /\ thread[v].key \in job[thread[v].job].keys \ job[thread[v].job].todo
          /\ \A u \in Threads \ {v} : thread[u].job = thread[v].job => thread[u].key # thread[v].key
      BY <1>1, WorkingFacts DEF Running
    <3>2. \A u \in Threads \ {v} : thread'[u].job = thread'[v].job => thread'[u].key # thread'[v].key
      <4> SUFFICES ASSUME NEW u \in Threads \ {v}, thread'[u].job = thread'[v].job
                   PROVE  thread'[u].key # thread'[v].key
        OBVIOUS
      <4>1. thread'[v].job \in Jobs
        BY <1>1
      <4>2. thread'[u] # NoTask
        BY <4>1, TaskFacts
      <4>3. QED
        BY <3>1, <4>2, <1>1
    <3>3. QED
      BY <3>1, <3>2, <1>1
  <2>2. JobsCanEnd'
    <3> SUFFICES ASSUME NEW i \in Jobs, job'[i].state \in {"store", "load"}
                 PROVE  job'[i].todo # {} \/ \E v \in Threads : thread'[v].job = i
      BY DEF JobsCanEnd, Running
    <3>1. CASE job'[i] = job[i] /\ \A v \in Threads : thread[v].job = i => thread'[v] = thread[v]
      <4>1. job[i].todo # {} \/ \E v \in Threads : thread[v].job = i
        BY <3>1, TypeParts DEF FileInv, JobsCanEnd, Running
      <4>2. QED
        BY <3>1, <4>1
    <3>2. QED
      BY <3>1
  <2>3. QED
    BY <2>1, <2>2, TypeParts
<1>3. TaskShape'
  BY <1>1 DEF FileInv, TaskShape
<1>4. \A v \in Threads : thread'[v] = NoTask => thread'[v].pc = "idle"
  BY TaskFacts
<1>5. WholeBlocks'
  <2> SUFFICES ASSUME NEW v \in Threads, thread'[v] # NoTask
               PROVE  /\ thread'[v].pc = "replace" => thread'[v].data = "whole"
                      /\ thread'[v].pc \in {"create", "write", "replace", "cleanup"} =>
                           job'[thread'[v].job].state = "store"
    BY <1>4 DEF WholeBlocks
  <2>1. QED
    BY <1>1 DEF FileInv, WholeBlocks
<1>6. JobsSee'
  <2> SUFFICES ASSUME NEW i \in Jobs, job'[i].state \in {"store", "load"}
               PROVE  job'[i].todo \subseteq job'[i].keys /\ job'[i].keys \cap Existing' \subseteq job'[i].seen
    BY DEF JobsSee, Running
  <2>1. QED
    BY DEF FileInv, JobsSee, Running
<1>7. GoodJobs'
  <2>1. ASSUME NEW v \in Threads, thread'[v].pc \in {"ok", "read"}
        PROVE  thread'[v].key \in job'[thread'[v].job].seen
    BY <2>1, <1>1, <1>4 DEF FileInv, GoodJobs
  <2>2. ASSUME NEW i \in Jobs, job'[i].state \in {"store", "load"}, job'[i].good, NEW q \in job'[i].keys
        PROVE  \/ q \in job'[i].todo \cup job'[i].seen
               \/ \E v \in Threads : thread'[v].job = i /\ thread'[v].key = q
    <3>1. CASE job'[i] = job[i] /\ \A v \in Threads : thread[v].job = i => thread'[v] = thread[v]
      <4>1. \/ q \in job[i].todo \cup job[i].seen
            \/ \E v \in Threads : thread[v].job = i /\ thread[v].key = q
        BY <2>2, <3>1 DEF FileInv, GoodJobs, Running
      <4>2. QED
        BY <3>1, <4>1
    <3>2. QED
      BY <2>2, <3>1
  <2>3. QED
    BY <2>1, <2>2 DEF GoodJobs, Running
<1>8. QED
  BY <1>2, <1>3, <1>5, <1>6, <1>7 DEF FileInv

(* What a submission does to the jobs.                                     *)
LEMMA SubmitFacts ==
    ASSUME FileInv, NEW p \in Procs, NEW j \in Jobs, NEW kind \in {"store", "load"},
           NEW K \in SUBSET Keys, Submit(p, j, kind, K)
    PROVE  /\ job[j] = NoWork /\ file' = file /\ tmp' = tmp /\ thread' = thread
           /\ job' \in [Jobs -> JobStates]
           /\ \A i \in Jobs \ {j} : job'[i] = job[i]
           /\ job'[j].state = kind /\ job'[j].keys = K /\ job'[j].todo = K
           /\ job'[j].seen = K \cap Existing
<1> DEFINE new == [NoWork EXCEPT !.state = kind, !.proc = p, !.keys = K, !.todo = K]
           J == [job EXCEPT ![j] = new]
<1>1. job[j] = NoWork /\ job' = Observed(J) /\ file' = file /\ tmp' = tmp /\ thread' = thread
  BY DEF Submit
<1>2. job \in [Jobs -> JobStates] /\ Existing' = Existing
  BY <1>1, TypeParts DEF FileInv, Types, Existing
<1>3. new \in JobStates /\ new.state = kind /\ new.keys = K /\ new.todo = K /\ new.seen = {}
  BY NoWorkFacts DEF JobStates
<1> HIDE DEF new
<1>4. J \in [Jobs -> JobStates] /\ J[j] = new /\ \A i \in Jobs \ {j} : J[i] = job[i]
  BY <1>2, <1>3
<1> HIDE DEF J
<1>5. job' \in [Jobs -> JobStates] /\ job'[j].state = kind /\ job'[j].keys = K /\ job'[j].todo = K
      /\ job'[j].seen = K \cap Existing
  BY <1>1, <1>2, <1>3, <1>4, ExistingFacts, ObservedFacts
<1>6. ASSUME NEW i \in Jobs \ {j}
      PROVE  job'[i] = job[i]
  <2>1. Observed(job) = job
    BY <1>2, ObservedSame
  <2>2. Observed(J)[i] = Observed(job)[i]
    BY <1>4 DEF Observed
  <2>3. QED
    BY <1>1, <2>1, <2>2
<1>7. QED
  BY <1>1, <1>5, <1>6

(* A new job starts with all its keys to do and the existing ones seen.    *)
LEMMA SubmitStep ==
    ASSUME FileInv, NEW p \in Procs, NEW j \in Jobs, NEW kind \in {"store", "load"},
           NEW K \in SUBSET Keys, K # {}, Submit(p, j, kind, K)
    PROVE  FileInv'
<1>1. /\ job[j] = NoWork /\ file' = file /\ tmp' = tmp /\ thread' = thread
      /\ job' \in [Jobs -> JobStates]
      /\ \A i \in Jobs \ {j} : job'[i] = job[i]
      /\ job'[j].state = kind /\ job'[j].keys = K /\ job'[j].todo = K
      /\ job'[j].seen = K \cap Existing
  BY SubmitFacts
<1>2. Types' /\ Existing' = Existing
  BY <1>1, TypeParts DEF FileInv, Types, Existing
<1>3. ASSUME NEW v \in Threads, thread[v] # NoTask
      PROVE  thread[v].job \in Jobs \ {j}
  BY <1>1, <1>3, WorkingFacts, NoWorkFacts DEF Running
<1>4. \A v \in Threads : \/ thread'[v] = NoTask
                         \/ thread'[v] = thread[v] /\ job'[thread[v].job] = job[thread[v].job]
  BY <1>1, <1>3
<1>5. \A i \in Jobs : job'[i].state \in {"store", "load"} =>
        \/ job'[i] = job[i] /\ \A v \in Threads : thread[v].job = i => thread'[v] = thread[v]
        \/ /\ job'[i].todo = job'[i].keys /\ job'[i].keys # {}
           /\ job'[i].keys \cap Existing \subseteq job'[i].seen
  BY <1>1
<1>6. QED
  BY <1>2, <1>4, <1>5, ManagerMove

(* A reported job leaves no task behind.                                   *)
LEMMA GetFinishedJobsStep ==
    ASSUME FileInv, NEW j \in Jobs, GetFinishedJobs(j)
    PROVE  FileInv'
<1>1. /\ job[j].state = "done" /\ job \in [Jobs -> JobStates]
      /\ file' = file /\ tmp' = tmp /\ thread' = thread
  BY TypeParts DEF GetFinishedJobs, FileInv, Types
<1>2. /\ job' \in [Jobs -> JobStates] /\ job'[j] = NoWork
      /\ \A i \in Jobs \ {j} : job'[i] = job[i]
  BY <1>1, NoWorkFacts DEF GetFinishedJobs
<1>3. Types' /\ Existing' = Existing
  BY <1>1, <1>2, TypeParts DEF FileInv, Types, Existing
<1>4. ASSUME NEW v \in Threads, thread[v] # NoTask
      PROVE  thread[v].job \in Jobs \ {j}
  BY <1>1, <1>4, WorkingFacts DEF Running
<1>5. \A v \in Threads : \/ thread'[v] = NoTask
                         \/ thread'[v] = thread[v] /\ job'[thread[v].job] = job[thread[v].job]
  BY <1>1, <1>2, <1>4
<1>6. \A i \in Jobs : job'[i].state \in {"store", "load"} =>
        job'[i] = job[i] /\ \A v \in Threads : thread[v].job = i => thread'[v] = thread[v]
  BY <1>1, <1>2, NoWorkFacts
<1>7. QED
  BY <1>3, <1>5, <1>6, ManagerMove

(* A delete makes no file appear, and the jobs keep what they have seen.   *)
LEMMA DeleteStep ==
    ASSUME FileInv, NEW k \in Keys, Delete(k)
    PROVE  FileInv'
<1>1. /\ file \in [Keys -> FileStates] /\ tmp' = tmp /\ thread' = thread /\ job' = job
      /\ "none" \in FileStates
  BY TypeParts DEF Delete, FileInv, Types, FileStates
<1>2. file' \in [Keys -> FileStates] /\ Existing' \subseteq Existing
  BY <1>1 DEF Delete, Existing
<1>3. Types'
  BY <1>1, <1>2, TypeParts DEF FileInv, Types
<1>4. QED
  BY <1>1, <1>2, <1>3, ManagerMove

(* A process ends with all its jobs and threads.                           *)
LEMMA RestartStep ==
    ASSUME FileInv, NEW p \in Procs, Restart(p)
    PROVE  FileInv'
<1>1. /\ \A i \in Jobs : job'[i] = IF job[i].proc = p THEN NoWork ELSE job[i]
      /\ \A v \in Threads : thread'[v] = IF ProcessOf[v] = p THEN NoTask ELSE thread[v]
      /\ file' = file
  BY DEF Restart
<1>2. Types' /\ Existing' = Existing
  <2>1. job \in [Jobs -> JobStates] /\ thread \in [Threads -> Tasks] /\ tmp \in [Threads -> SUBSET Keys]
        /\ file' \in [Keys -> FileStates]
    BY <1>1, TypeParts DEF FileInv, Types
  <2>2. job' \in [Jobs -> JobStates]
    BY <2>1, NoWorkFacts DEF Restart
  <2>3. thread' \in [Threads -> Tasks]
    BY <2>1, TaskFacts DEF Restart
  <2>4. tmp' \in [Threads -> SUBSET Keys]
    BY <2>1 DEF Restart
  <2>5. QED
    BY <2>1, <2>2, <2>3, <2>4, <1>1 DEF Types, Existing
<1>3. ASSUME NEW v \in Threads, thread[v] # NoTask
      PROVE  thread[v].job \in Jobs /\ job[thread[v].job].proc = ProcessOf[v]
  BY <1>3, WorkingFacts
<1>4. \A v \in Threads : \/ thread'[v] = NoTask
                         \/ thread'[v] = thread[v] /\ job'[thread[v].job] = job[thread[v].job]
  BY <1>1, <1>3
<1>5. \A i \in Jobs : job'[i].state \in {"store", "load"} =>
        job'[i] = job[i] /\ \A v \in Threads : thread[v].job = i => thread'[v] = thread[v]
  <2> SUFFICES ASSUME NEW i \in Jobs, job'[i].state \in {"store", "load"}
               PROVE  job'[i] = job[i] /\ \A v \in Threads : thread[v].job = i => thread'[v] = thread[v]
    OBVIOUS
  <2>1. job[i].proc # p /\ job'[i] = job[i]
    BY <1>1, NoWorkFacts
  <2>2. ASSUME NEW v \in Threads, thread[v].job = i
        PROVE  thread'[v] = thread[v]
    <3>1. thread[v] # NoTask
      BY <2>2, TaskFacts
    <3>2. QED
      BY <3>1, <2>1, <2>2, <1>1, <1>3
  <2>3. QED
    BY <2>1, <2>2
<1>6. QED
  BY <1>2, <1>4, <1>5, ManagerMove

-----------------------------------------------------------------------------
(* The types, and the invariant they rest on, hold in every behaviour.     *)
LEMMA FileInvStep ==
    ASSUME FileInv, [FileTierNext]_fileVars
    PROVE  FileInv'
<1>1. CASE ManagerStep
  <2>1. ASSUME NEW p \in Procs, NEW j \in Jobs, NEW kind \in {"store", "load"},
               NEW K \in Requests[p], Submit(p, j, kind, K)
        PROVE  FileInv'
    <3>1. K \in SUBSET Keys /\ K # {}
      <4>1. Requests[p] \in SUBSET ((SUBSET Keys) \ {{}})
        BY FileTierAssumption
      <4>2. QED
        BY <4>1
    <3>2. QED
      BY <2>1, <3>1, SubmitStep
  <2>2. QED
    BY <1>1, <2>1, GetFinishedJobsStep, DeleteStep, RestartStep DEF ManagerStep
<1>2. ASSUME NEW w \in Threads, ThreadStep(w)
      PROVE  FileInv'
  BY <1>2, StoreExistsStep, LoadOpenStep, StoreCreateStep, StoreWriteStep, StoreReplaceStep,
     LoadReadStep, StoreCleanupStep, LoadDiscardStep, TaskDoneStep DEF ThreadStep
<1>3. CASE UNCHANGED fileVars
  BY <1>3 DEF fileVars, FileInv, FileTierTypeOK, TaskShape, WholeBlocks, JobsSee, GoodJobs,
     Running, Existing
<1>4. QED
  BY <1>1, <1>2, <1>3 DEF FileTierNext

(* The invariant holds when nothing has been submitted.                    *)
LEMMA FileInvInit ==
    ASSUME FileTierInit
    PROVE  FileInv
<1>1. Types
  BY NoWorkFacts, TaskFacts DEF FileTierInit, Types
<1>2. TasksOwned /\ JobsCanEnd /\ TaskShape /\ WholeBlocks /\ JobsSee /\ GoodJobs
  BY NoWorkFacts, TaskFacts DEF FileTierInit, TasksOwned, JobsCanEnd, TaskShape, WholeBlocks,
     JobsSee, GoodJobs, Running
<1>3. QED
  BY <1>1, <1>2, TypeParts DEF FileInv

(* In every reachable state of the per-block layout every task has one      *)
(* owner, only whole blocks are about to be put under a final name,         *)
(* every running job has seen those of its keys that have a file,          *)
(* and a job that has had no failure has seen each key it is done with.     *)
THEOREM FileTierInvariant == FileTierSpec => []FileInv
<1>1. FileTierInit => FileInv
  BY FileInvInit
<1>2. FileInv /\ [FileTierNext]_fileVars => FileInv'
  BY FileInvStep
<1>3. QED
  BY <1>1, <1>2, PTL DEF FileTierSpec

(* Types; every task has one owner, of the right process and of a running  *)
(* job, and no job waits for a task that nobody will do.                   *)
THEOREM FileTierTypeCorrect == FileTierSpec => []FileTierTypeOK
<1>1. FileInv => FileTierTypeOK
  BY DEF FileInv
<1>2. QED
  BY <1>1, FileTierInvariant, PTL

-----------------------------------------------------------------------------
(* Partial blocks.                                                         *)

(* The only step that makes a file appear is os.replace of a whole one.    *)
LEMMA FileStep ==
    ASSUME FileInv, [FileTierNext]_fileVars, NEW k \in Keys, file'[k] # file[k]
    PROVE  \/ file'[k] = "none"
           \/ \E w \in Threads : StoreReplace(w) /\ file'[k] = "whole"
<1>1. file \in [Keys -> FileStates]
  BY TypeParts DEF FileInv, Types
<1>2. ASSUME NEW w \in Threads, StoreReplace(w)
      PROVE  file'[k] = "whole"
  <2>1. file' = [file EXCEPT ![thread[w].key] = thread[w].data] /\ thread[w].data = "whole"
    BY <1>2 DEF StoreReplace, FileInv, WholeBlocks
  <2>2. QED
    BY <1>1, <2>1
<1>3. ASSUME NEW w \in Threads, NEW removed \in BOOLEAN, LoadDiscard(w, removed)
      PROVE  file'[k] = "none"
  BY <1>1, <1>3 DEF LoadDiscard
<1>4. ASSUME NEW q \in Keys, Delete(q)
      PROVE  file'[k] = "none"
  BY <1>1, <1>4 DEF Delete
<1>5. CASE ManagerStep
  BY <1>4, <1>5 DEF ManagerStep, Submit, GetFinishedJobs, Restart
<1>6. ASSUME NEW w \in Threads, ThreadStep(w)
      PROVE  file'[k] = "none" \/ (StoreReplace(w) /\ file'[k] = "whole")
  BY <1>2, <1>3, <1>6 DEF ThreadStep, StoreExists, LoadOpen, Begin, StoreCreate, StoreWrite, LoadRead,
     StoreCleanup, TaskDone
<1>7. CASE UNCHANGED fileVars
  BY <1>7 DEF fileVars
<1>8. QED
  BY <1>5, <1>6, <1>7 DEF FileTierNext

(* No step of any thread of any process makes a file damaged.              *)
THEOREM FileTierNeverTorn == FileTierSpec => NeverPublishesTorn
<1>1. FileInv /\ [FileTierNext]_fileVars =>
        [\A k \in Keys : file'[k] = "damaged" => file[k] = "damaged"]_fileVars
  <2> SUFFICES ASSUME FileInv, [FileTierNext]_fileVars, NEW k \in Keys, file'[k] = "damaged"
               PROVE  file[k] = "damaged"
    OBVIOUS
  <2>1. QED
    BY FileStep
<1>2. QED
  BY <1>1, FileTierInvariant, PTL DEF FileTierSpec, NeverPublishesTorn

-----------------------------------------------------------------------------
(* The file layout implements the contract of a tier.                      *)

View == [j \in Jobs |-> JobView(j)]

(* What the contract sees of a job.                                        *)
LEMMA ViewFacts ==
    ASSUME NEW j \in Jobs
    PROVE  /\ job[j].state = "idle" => View[j] = Tier!Idle
           /\ job[j].state = "done" => View[j] = Tier!Done(job[j].good)
           /\ Running(j) => View[j] = Tier!Running(job[j].state, job[j].keys, job[j].seen)
BY DEF View, JobView, Running, Tier!Idle, Tier!Done, Tier!Running

(* The records of the contract.                                            *)
LEMMA PhaseFacts ==
    /\ Tier!Idle.phase = "idle"
    /\ \A ok : Tier!Done(ok).phase = "done"
    /\ \A kind, K, S : /\ Tier!Running(kind, K, S).phase = "running"
                      /\ Tier!Running(kind, K, S).kind = kind
                      /\ Tier!Running(kind, K, S).keys = K
                      /\ Tier!Running(kind, K, S).seen = S
    /\ \A kind, K, S, T : [Tier!Running(kind, K, S) EXCEPT !.seen = T] = Tier!Running(kind, K, T)
BY DEF Tier!Idle, Tier!Done, Tier!Running

(* The same of the next state.                                             *)
LEMMA ViewFactsPrimed ==
    ASSUME NEW j \in Jobs
    PROVE  /\ job'[j].state = "idle" => View'[j] = Tier!Idle
           /\ job'[j].state = "done" => View'[j] = Tier!Done(job'[j].good)
           /\ job'[j].state \in {"store", "load"} =>
                View'[j] = Tier!Running(job'[j].state, job'[j].keys, job'[j].seen)
BY DEF View, JobView, Running, Tier!Idle, Tier!Done, Tier!Running

(* A step that the contract does not see.                                  *)
LEMMA TierStutter ==
    ASSUME Existing' = Existing,
           \A j \in Jobs : /\ job'[j].state = job[j].state /\ job'[j].keys = job[j].keys
                           /\ job'[j].seen = job[j].seen
                           /\ job[j].state = "done" => job'[j].good = job[j].good
    PROVE  UNCHANGED Tier!tierVars
<1>1. \A j \in Jobs : JobView(j)' = JobView(j)
  BY DEF JobView
<1>2. View' = View
  BY <1>1 DEF View
<1>3. QED
  BY <1>2 DEF View, Tier!tierVars

(* submit_store and submit_load are the contract's Submit.                 *)
LEMMA SubmitRefines ==
    ASSUME FileInv, NEW p \in Procs, NEW j \in Jobs, NEW kind \in {"store", "load"},
           NEW K \in SUBSET Keys, Submit(p, j, kind, K)
    PROVE  Tier!TierNext
<1>1. /\ job[j] = NoWork /\ file' = file
      /\ \A i \in Jobs \ {j} : job'[i] = job[i]
      /\ job'[j].state = kind /\ job'[j].keys = K /\ job'[j].seen = K \cap Existing
  BY SubmitFacts
<1>2. View[j] = Tier!Idle
  BY <1>1, ViewFacts, NoWorkFacts
<1>3. View'[j] = Tier!Running(kind, K, K \cap Existing)
  BY <1>1, ViewFactsPrimed
<1>4. \A i \in Jobs \ {j} : View'[i] = View[i]
  BY <1>1 DEF View, JobView
<1>5. View' = [View EXCEPT ![j] = Tier!Running(kind, K, K \cap Existing)]
  BY <1>3, <1>4 DEF View
<1>6. Existing' = Existing
  BY <1>1 DEF Existing
<1>7. Tier!Submit(j, kind, K) /\ View[j].phase = "idle"
  BY <1>2, <1>5, <1>6 DEF Tier!Submit, Tier!Idle, View
<1>8. Tier!JobStep(j)
  BY <1>7 DEF Tier!JobStep, Tier!Kinds, View
<1>9. QED
  BY <1>8 DEF Tier!TierNext

(* get_finished_jobs is the contract's Collect.                            *)
LEMMA CollectRefines ==
    ASSUME FileInv, NEW j \in Jobs, GetFinishedJobs(j)
    PROVE  Tier!TierNext
<1>1. /\ job[j].state = "done" /\ job'[j] = NoWork /\ file' = file
      /\ \A i \in Jobs \ {j} : job'[i] = job[i]
  BY TypeParts DEF GetFinishedJobs, FileInv, Types
<1>2. View[j] = Tier!Done(job[j].good) /\ View'[j] = Tier!Idle
  BY <1>1, ViewFacts, ViewFactsPrimed, NoWorkFacts
<1>3. \A i \in Jobs \ {j} : View'[i] = View[i]
  BY <1>1 DEF View, JobView
<1>4. View' = [View EXCEPT ![j] = Tier!Idle]
  BY <1>2, <1>3 DEF View
<1>5. Tier!Collect(j)
  BY <1>1, <1>2, <1>4 DEF Tier!Collect, Tier!Done, View, Existing
<1>6. QED
  BY <1>5 DEF Tier!TierNext, Tier!JobStep

(* Files that disappear, by delete or by a load that failed.               *)
LEMMA RemoveRefines ==
    ASSUME FileInv, NEW k \in Keys, job' = job, file' = [file EXCEPT ![k] = "none"]
    PROVE  Tier!TierNext
<1>1. file \in [Keys -> FileStates]
  BY TypeParts DEF FileInv, Types
<1>2. Existing' = Existing \ {k}
  BY <1>1 DEF Existing
<1>3. View' = View
  BY DEF View, JobView
<1>4. Tier!Remove({k})
  BY <1>2, <1>3 DEF Tier!Remove, View
<1>5. QED
  BY <1>4 DEF Tier!TierNext

(* A restart abandons the jobs of its process.                             *)
LEMMA RestartRefines ==
    ASSUME FileInv, NEW p \in Procs, Restart(p)
    PROVE  Tier!TierNext
<1> DEFINE S == {j \in Jobs : job[j].proc = p}
<1>1. file' = file /\ \A j \in Jobs : job'[j] = IF j \in S THEN NoWork ELSE job[j]
  BY DEF Restart
<1>2. \A j \in Jobs : View'[j] = IF j \in S THEN Tier!Idle ELSE View[j]
  <2>1. \A j \in S : View'[j] = Tier!Idle
    BY <1>1, ViewFactsPrimed, NoWorkFacts
  <2>2. \A j \in Jobs \ S : View'[j] = View[j]
    BY <1>1 DEF View, JobView
  <2>3. QED
    BY <2>1, <2>2
<1>3. Existing' = Existing /\ S \in SUBSET Jobs
  BY <1>1 DEF Existing
<1> HIDE DEF S
<1>4. View' = [j \in Jobs |-> IF j \in S THEN Tier!Idle ELSE View[j]]
  BY <1>2 DEF View
<1>5. Tier!Abandon(S)
  BY <1>3, <1>4 DEF Tier!Abandon, View
<1>6. QED
  BY <1>3, <1>5 DEF Tier!TierNext

(* What the witnessing of the keys S does to the view y of one job. *)
Widened(y, S) == IF y.phase = "running" THEN [y EXCEPT !.seen = @ \cup (y.keys \cap S)] ELSE y

(* A running job that witnesses S has seen its keys in S as well. *)
LEMMA WidenedRunning ==
  ASSUME NEW kind, NEW K, NEW seen, NEW S, NEW y, y = Tier!Running(kind, K, seen)
  PROVE  Widened(y, S) = Tier!Running(kind, K, seen \cup (K \cap S))
<1>1. y.phase = "running" /\ y.keys = K
  BY DEF Tier!Running
<1>2. [y EXCEPT !.seen = @ \cup (K \cap S)] = Tier!Running(kind, K, seen \cup (K \cap S))
  BY DEF Tier!Running
<1>3. QED
  BY <1>1, <1>2, Zenon DEF Widened

(* os.replace publishes the block of a store job to all running jobs.      *)
LEMMA ReplaceRefines ==
    ASSUME FileInv, NEW w \in Threads, StoreReplace(w)
    PROVE  Tier!TierNext \/ UNCHANGED Tier!tierVars
<1> DEFINE j == thread[w].job
           k == thread[w].key
<1>1. /\ j \in Jobs /\ k \in Keys /\ Running(j) /\ k \in job[j].keys
      /\ job[j].state = "store" /\ thread[w].data = "whole"
  BY PcFacts, WorkingFacts DEF StoreReplace, FileInv, WholeBlocks
<1>2. job \in [Jobs -> JobStates] /\ file \in [Keys -> FileStates] /\ job' = Observed(job)
  BY TypeParts DEF FileInv, Types, StoreReplace
<1>3. CASE file' = file
  <2>1. Existing' = Existing
    BY <1>3 DEF Existing
  <2>2. job' = job
    BY <1>2, <2>1, ObservedSame
  <2>3. QED
    BY <2>1, <2>2, TierStutter
<1>4. CASE file' = [file EXCEPT ![k] = "whole"]
  <2> HIDE DEF j, k
  <2>1. Existing' = Existing \cup {k}
    BY <1>1, <1>2, <1>4 DEF Existing
  <2>2. ASSUME NEW i \in Jobs, Running(i)
        PROVE  /\ View[i] = Tier!Running(job[i].state, job[i].keys, job[i].seen)
               /\ View'[i] = Tier!Running(job[i].state, job[i].keys, job[i].seen \cup (job[i].keys \cap {k}))
    <3>1. View[i] = Tier!Running(job[i].state, job[i].keys, job[i].seen)
      BY <2>2, ViewFacts
    <3>2. /\ job'[i].state = job[i].state /\ job'[i].keys = job[i].keys
          /\ job'[i].seen = job[i].seen \cup (job[i].keys \cap Existing')
      BY <2>2, <1>2, ExistingFacts, ObservedFacts DEF Running
    <3>3. job[i].seen \cup (job[i].keys \cap Existing') = job[i].seen \cup (job[i].keys \cap {k})
      BY <2>1, <2>2 DEF FileInv, JobsSee
    <3>4. View'[i] = Tier!Running(job'[i].state, job'[i].keys, job'[i].seen)
      BY <2>2, <3>2, ViewFactsPrimed DEF Running
    <3>5. QED
      BY <3>1, <3>2, <3>3, <3>4
  <2>3. ASSUME NEW i \in Jobs, ~Running(i)
        PROVE  View'[i] = View[i] /\ View[i].phase # "running"
    <3>1. job'[i] = job[i]
      BY <2>3, <1>2, ExistingFacts, ObservedFacts DEF Running
    <3>2. job[i].state \in {"idle", "done"}
      BY <2>3, <1>2, JobFields DEF Running
    <3>3. View[i].phase # "running"
      BY <3>2, ViewFacts, PhaseFacts
    <3>4. QED
      BY <3>1, <3>3 DEF View, JobView
  <2>4. ASSUME NEW i \in Jobs
        PROVE  View'[i] = Widened(View[i], {k})
    <3>1. CASE Running(i)
      <4>1. View[i] = Tier!Running(job[i].state, job[i].keys, job[i].seen)
        BY <3>1, <2>2
      <4>2. View'[i] = Tier!Running(job[i].state, job[i].keys, job[i].seen \cup (job[i].keys \cap {k}))
        BY <3>1, <2>2
      <4>3. Widened(View[i], {k}) = Tier!Running(job[i].state, job[i].keys, job[i].seen \cup (job[i].keys \cap {k}))
        BY <4>1, WidenedRunning
      <4>4. QED
        BY <4>2, <4>3
    <3>2. CASE ~Running(i)
      BY <3>2, <2>3, Zenon DEF Widened
    <3>3. QED
      BY <3>1, <3>2
  <2>5. View' = Tier!Witnessed({k})
    BY <2>4, Zenon DEF Tier!Witnessed, View, Widened
  <2>6. View[j] = Tier!Running("store", job[j].keys, job[j].seen)
    BY <1>1, ViewFacts
  <2>7. View[j].phase = "running" /\ View[j].kind = "store" /\ {k} \in SUBSET View[j].keys
    BY <1>1, <2>6 DEF Tier!Running
  <2>8. Tier!Publish(j, {k})
    BY <2>1, <2>5, <2>7 DEF Tier!Publish, View
  <2>9. Tier!JobStep(j)
    BY <2>7, <2>8 DEF Tier!JobStep, View
  <2>10. QED
    BY <1>1, <2>9 DEF Tier!TierNext
<1>5. QED
  BY <1>1, <1>3, <1>4 DEF StoreReplace

(* The last task ends the job; a good one has seen all its blocks.         *)
LEMMA TaskDoneRefines ==
    ASSUME FileInv, NEW w \in Threads, TaskDone(w)
    PROVE  Tier!TierNext \/ UNCHANGED Tier!tierVars
<1> DEFINE j == thread[w].job
           r == Result(w)
<1>1. /\ thread[w] # NoTask /\ j \in Jobs /\ file' = file
      /\ \A i \in Jobs : job'[i] = IF i = j THEN r ELSE job[i]
  BY TaskDoneFacts
<1>2. /\ r \in JobStates
      /\ r.good <=> job[j].good /\ thread[w].pc = "ok"
      /\ LastTask(w) => r.state = "done"
      /\ ~LastTask(w) => r.state = job[j].state /\ r.keys = job[j].keys /\ r.seen = job[j].seen
  BY <1>1, ResultFacts
<1>3. Running(j) /\ Existing' = Existing
  BY <1>1, WorkingFacts DEF Existing
<1>4. CASE ~LastTask(w)
  <2>1. \A i \in Jobs : /\ job'[i].state = job[i].state /\ job'[i].keys = job[i].keys
                        /\ job'[i].seen = job[i].seen
                        /\ job[i].state = "done" => job'[i].good = job[i].good
    BY <1>1, <1>2, <1>3, <1>4 DEF Running
  <2>2. QED
    BY <1>3, <2>1, TierStutter
<1>5. CASE LastTask(w)
  <2>1. r.good => job[j].keys \subseteq job[j].seen
    <3> SUFFICES ASSUME job[j].good, thread[w].pc = "ok", NEW k \in job[j].keys
                 PROVE  k \in job[j].seen
      BY <1>2
    <3>1. job[j].todo = {} /\ \A v \in Threads \ {w} : thread[v].job # j
      BY <1>5 DEF LastTask
    <3>2. thread[w].key \in job[j].seen
      BY DEF FileInv, GoodJobs
    <3>3. \/ k \in job[j].todo \cup job[j].seen
          \/ \E v \in Threads : thread[v].job = j /\ thread[v].key = k
      BY <1>1, <1>3 DEF FileInv, GoodJobs
    <3>4. QED
      BY <3>1, <3>2, <3>3
  <2> HIDE DEF j, r
  <2>2. View[j] = Tier!Running(job[j].state, job[j].keys, job[j].seen)
    BY <1>1, <1>3, ViewFacts
  <2>3. View'[j] = Tier!Done(r.good)
    BY <1>1, <1>2, <1>5, ViewFactsPrimed
  <2>4. \A i \in Jobs \ {j} : View'[i] = View[i]
    BY <1>1 DEF View, JobView
  <2>5. View[j].phase = "running" /\ View[j].keys = job[j].keys /\ View[j].seen = job[j].seen
    BY <2>2 DEF Tier!Running
  <2>6. \A i \in Jobs : View[i].phase = "running" =>
          [View[i] EXCEPT !.seen = @ \cup (View[i].keys \cap {})] = View[i]
    <3> SUFFICES ASSUME NEW i \in Jobs, View[i].phase = "running"
                 PROVE  [View[i] EXCEPT !.seen = @ \cup (View[i].keys \cap {})] = View[i]
      OBVIOUS
    <3>1. job[i].state \notin {"idle", "done"}
      BY ViewFacts, PhaseFacts
    <3>2. Running(i)
      BY <3>1, JobFields, TypeParts DEF FileInv, Types, Running
    <3>3. View[i] = Tier!Running(job[i].state, job[i].keys, job[i].seen)
      BY <3>2, ViewFacts
    <3>4. QED
      BY <3>3 DEF Tier!Running
  <2>7. Tier!Witnessed({}) = View
    BY <2>6 DEF Tier!Witnessed, View
  <2>8. View' = [Tier!Witnessed({}) EXCEPT ![j] = Tier!Done(r.good)]
    BY <2>3, <2>4, <2>7 DEF View
  <2>9. Tier!Finish(j, r.good, {})
    BY <1>3, <2>1, <2>5, <2>8 DEF Tier!Finish, View
  <2>10. r.good \in BOOLEAN
    BY <1>2, JobFields
  <2>11. Tier!JobStep(j)
    BY <2>5, <2>9, <2>10 DEF Tier!JobStep, View
  <2>12. QED
    BY <1>1, <2>11 DEF Tier!TierNext
<1>6. QED
  BY <1>4, <1>5

(* A thread that takes a task.                                             *)
LEMMA BeginRefines ==
    ASSUME FileInv, NEW w \in Threads, NEW j \in Jobs, NEW k, NEW kind, NEW pc, NEW data,
           Begin(w, j, k, kind, pc, data)
    PROVE  UNCHANGED Tier!tierVars
<1>1. file' = file /\ job' = [job EXCEPT ![j].todo = @ \ {k}] /\ job \in [Jobs -> JobStates]
  BY TypeParts DEF Begin, FileInv, Types
<1>2. \A i \in Jobs : job'[i] = IF i = j THEN [job[j] EXCEPT !.todo = @ \ {k}] ELSE job[i]
  BY <1>1
<1>3. job'[j].state = job[j].state /\ job'[j].keys = job[j].keys
      /\ job'[j].seen = job[j].seen /\ job'[j].good = job[j].good
  BY <1>1, <1>2 DEF JobStates
<1>4. Existing' = Existing
  BY <1>1 DEF Existing
<1>5. QED
  BY <1>2, <1>3, <1>4, TierStutter

(* Every step of the detailed specification is one of the contract or none. *)
LEMMA FileStepRefines ==
    ASSUME FileInv, [FileTierNext]_fileVars
    PROVE  [Tier!TierNext]_(Tier!tierVars)
<1>1. ASSUME file' = file, job' = job
      PROVE  UNCHANGED Tier!tierVars
  BY <1>1, TierStutter DEF Existing
<1>2. CASE ManagerStep
  <2>1. ASSUME NEW p \in Procs, NEW j \in Jobs, NEW kind \in {"store", "load"},
               NEW K \in Requests[p], Submit(p, j, kind, K)
        PROVE  Tier!TierNext
    <3>1. Requests[p] \in SUBSET ((SUBSET Keys) \ {{}})
      BY FileTierAssumption
    <3>2. K \in SUBSET Keys
      BY <3>1
    <3>3. QED
      BY <2>1, <3>2, SubmitRefines
  <2>2. ASSUME NEW k \in Keys, Delete(k)
        PROVE  Tier!TierNext
    BY <2>2, RemoveRefines DEF Delete
  <2>3. QED
    BY <1>2, <2>1, <2>2, CollectRefines, RestartRefines DEF ManagerStep
<1>3. ASSUME NEW w \in Threads, ThreadStep(w)
      PROVE  [Tier!TierNext]_(Tier!tierVars)
  <2>1. ASSUME NEW j \in Jobs, NEW k \in Keys, StoreExists(w, j, k) \/ LoadOpen(w, j, k)
        PROVE  UNCHANGED Tier!tierVars
    BY <2>1, BeginRefines DEF StoreExists, LoadOpen
  <2>2. ASSUME NEW removed \in BOOLEAN, LoadDiscard(w, removed)
        PROVE  [Tier!TierNext]_(Tier!tierVars)
    <3>1. thread[w].key \in Keys /\ job' = job
      BY <2>2, PcFacts, WorkingFacts DEF LoadDiscard
    <3>2. CASE removed
      BY <2>2, <3>1, <3>2, RemoveRefines DEF LoadDiscard
    <3>3. CASE ~removed
      BY <2>2, <3>1, <3>3, <1>1 DEF LoadDiscard
    <3>4. QED
      BY <3>2, <3>3
  <2>3. CASE StoreCreate(w) \/ LoadRead(w)
    BY <2>3, <1>1 DEF StoreCreate, LoadRead
  <2>4. ASSUME NEW data, StoreWrite(w, data)
        PROVE  UNCHANGED Tier!tierVars
    BY <2>4, <1>1 DEF StoreWrite
  <2>5. ASSUME NEW removed, StoreCleanup(w, removed)
        PROVE  UNCHANGED Tier!tierVars
    BY <2>5, <1>1 DEF StoreCleanup
  <2>6. QED
    BY <1>3, <2>1, <2>2, <2>3, <2>4, <2>5, ReplaceRefines, TaskDoneRefines DEF ThreadStep
<1>4. CASE UNCHANGED fileVars
  BY <1>1, <1>4 DEF fileVars
<1>5. QED
  BY <1>2, <1>3, <1>4 DEF FileTierNext

(* The file layout implements the contract of a tier: with any number of   *)
(* processes and threads, a success is reported once, and only for blocks  *)
(* whose file existed while the job ran.                                   *)
THEOREM FileTierRefinement == FileTierSpec => FileImplementsTier
<1>1. FileTierInit => Tier!TierInit
  <2> SUFFICES ASSUME FileTierInit
               PROVE  Tier!TierInit
    OBVIOUS
  <2>1. \A j \in Jobs : View[j] = Tier!Idle
    BY ViewFacts, NoWorkFacts DEF FileTierInit
  <2>2. View = [j \in Jobs |-> Tier!Idle]
    BY <2>1 DEF View
  <2>3. QED
    BY <2>2, ExistingFacts DEF Tier!TierInit, View
<1>2. FileInv /\ [FileTierNext]_fileVars => [Tier!TierNext]_(Tier!tierVars)
  BY FileStepRefines
<1>3. QED
  BY <1>1, <1>2, FileTierInvariant, PTL DEF FileTierSpec, FileImplementsTier, Tier!TierSpec
================================================================================
