------------------------------- MODULE FileTier -------------------------------
(***************************************************************************)
(* The `file' layout of FileSystemTierManager: one file per block, written *)
(* and read by store_block and load_block (fs/io.py) on the threads of     *)
(* several processes that share the directory.  Every system call is one   *)
(* step.  The pool hands out the tasks of a job in any order (ThreadPool   *)
(* models it).  A file is whole, damaged (shorter than a block, as a power *)
(* failure or a foreign writer may leave it) or missing.                   *)
(***************************************************************************)
EXTENDS Integers, FiniteSets

CONSTANTS
    Procs, Threads,
    ProcessOf,      \* the process of every thread
    Keys, Jobs,
    Requests,       \* the sets of keys a process asks for in one job
    NoProc, NoJob, NoKey,
    MaxLeftovers    \* temporary files that a failed cleanup leaves behind

VARIABLES
    file,       \* destination file of every key
    tmp,        \* keys whose temporary file with the thread's suffix exists
    job,        \* JobState and what was asked
    thread      \* where every thread is

fileVars == <<file, tmp, job, thread>>

FileStates == {"none", "whole", "damaged"}
Pcs == {"idle", "create", "write", "replace", "cleanup", "read", "discard", "ok", "failed"}
NoTask == [pc |-> "idle", job |-> NoJob, key |-> NoKey, data |-> "none"]

(* `todo' are the tasks not started, `seen' (history) the keys whose file  *)
(* existed at some moment since the submission.                            *)
JobStates ==
    [state : {"idle", "store", "load", "done"}, proc : Procs \cup {NoProc}, keys : SUBSET Keys,
     todo : SUBSET Keys, good : BOOLEAN, seen : SUBSET Keys]
NoWork == [state |-> "idle", proc |-> NoProc, keys |-> {}, todo |-> {}, good |-> TRUE, seen |-> {}]

ASSUME FileTierAssumption ==
    /\ ProcessOf \in [Threads -> Procs]
    /\ Requests \in [Procs -> SUBSET ((SUBSET Keys) \ {{}})]
    /\ NoProc \notin Procs /\ NoJob \notin Jobs /\ NoKey \notin Keys

FileTierInit ==
    /\ file \in [Keys -> FileStates]
    /\ tmp = [w \in Threads |-> {}]
    /\ job = [j \in Jobs |-> NoWork]
    /\ thread = [w \in Threads |-> NoTask]

-----------------------------------------------------------------------------
Existing == {k \in Keys : file[k] # "none"}

(* The jobs J, which have seen the files that exist after the step.        *)
Observed(J) ==
    [j \in Jobs |-> IF J[j].state \in {"store", "load"}
                    THEN [J[j] EXCEPT !.seen = @ \cup (J[j].keys \cap Existing')] ELSE J[j]]

(* Temporary files that no thread is writing.                              *)
Leftovers ==
    {t \in Threads \X Keys : t[2] \in tmp[t[1]]
                             /\ ~(thread[t[1]].key = t[2] /\ thread[t[1]].pc \in {"write", "replace", "cleanup"})}

Goto(w, pc) == thread' = [thread EXCEPT ![w].pc = pc, ![w].data = "none"]

(* submit_store, submit_load: one task per key.                            *)
Submit(p, j, kind, K) ==
    /\ job[j] = NoWork
    /\ UNCHANGED <<file, tmp, thread>>
    /\ job' = Observed([job EXCEPT ![j] = [NoWork EXCEPT !.state = kind, !.proc = p,
                                                         !.keys = K, !.todo = K]])

(* A thread of the pool takes the task of key k and makes its first system *)
(* call, after which it is at pc with `data' at hand.                      *)
Begin(w, j, k, kind, pc, data) ==
    /\ thread[w] = NoTask
    /\ job[j].state = kind /\ job[j].proc = ProcessOf[w] /\ k \in job[j].todo
    /\ thread' = [thread EXCEPT ![w] = [pc |-> pc, job |-> j, key |-> k, data |-> data]]
    /\ job' = [job EXCEPT ![j].todo = @ \ {k}]
    /\ UNCHANGED <<file, tmp>>

-----------------------------------------------------------------------------
(* store_block                                                             *)

StoreExists(w, j, k) == Begin(w, j, k, "store", IF file[k] # "none" THEN "ok" ELSE "create", "none")

(* makedirs, then open with O_EXCL: a temporary file that this thread left *)
(* behind makes it fail.                                                   *)
StoreCreate(w) ==
    /\ thread[w].pc = "create"
    /\ \/ /\ thread[w].key \notin tmp[w]
          /\ tmp' = [tmp EXCEPT ![w] = @ \cup {thread[w].key}]
          /\ Goto(w, "write")
       \/ /\ Goto(w, "cleanup")     \* open raised
          /\ UNCHANGED tmp
       \/ /\ Goto(w, "failed")      \* makedirs raised
          /\ UNCHANGED tmp
    /\ UNCHANGED <<file, job>>

(* Mutant: a short write is not noticed.                                   *)
AcceptedAnyway(data) == TRUE

Accepted(data) == data = "whole"

(* The write puts the whole block, or less, into the temporary file.       *)
StoreWrite(w, data) ==
    /\ thread[w].pc = "write"
    /\ \/ Accepted(data) /\ thread' = [thread EXCEPT ![w].pc = "replace", ![w].data = data]
       \/ ~Accepted(data) /\ Goto(w, "cleanup")
    /\ UNCHANGED <<file, tmp, job>>

StoreReplace(w) ==
    /\ thread[w].pc = "replace"
    /\ \/ /\ file' = [file EXCEPT ![thread[w].key] = thread[w].data]
          /\ tmp' = [tmp EXCEPT ![w] = @ \ {thread[w].key}]
          /\ Goto(w, "ok")
       \/ /\ Goto(w, "cleanup")
          /\ UNCHANGED <<file, tmp>>
    /\ job' = Observed(job)

StoreCleanup(w, removed) ==
    /\ thread[w].pc = "cleanup"
    /\ removed \/ Cardinality(Leftovers \cup {<<w, thread[w].key>>}) <= MaxLeftovers
    /\ tmp' = IF removed THEN [tmp EXCEPT ![w] = @ \ {thread[w].key}] ELSE tmp
    /\ Goto(w, "failed")
    /\ UNCHANGED <<file, job>>

-----------------------------------------------------------------------------
(* load_block                                                              *)

(* An open descriptor keeps the file it found, whatever replaces it.       *)
LoadOpen(w, j, k) ==
    \/ file[k] # "none" /\ Begin(w, j, k, "load", "read", file[k])
    \/ Begin(w, j, k, "load", "discard", "none")

LoadRead(w) ==
    /\ thread[w].pc = "read"
    /\ \/ thread[w].data = "whole" /\ Goto(w, "ok")
       \/ Goto(w, "discard")
    /\ UNCHANGED <<file, tmp, job>>

(* The failed load removes the file under its name, which may be another   *)
(* one by now.                                                             *)
LoadDiscard(w, removed) ==
    /\ thread[w].pc = "discard"
    /\ file' = IF removed THEN [file EXCEPT ![thread[w].key] = "none"] ELSE file
    /\ Goto(w, "failed")
    /\ UNCHANGED <<tmp, job>>

-----------------------------------------------------------------------------
(* Mutant: the other tasks of the job are not waited for.                  *)
LastTaskStarted(w) == job[thread[w].job].todo = {}

LastTask(w) ==
    /\ job[thread[w].job].todo = {}
    /\ \A v \in Threads \ {w} : thread[v].job # thread[w].job

(* task_done: the last task ends the job.                                  *)
TaskDone(w) ==
    LET j == thread[w].job
        good == job[j].good /\ thread[w].pc = "ok"
    IN  /\ thread[w].pc \in {"ok", "failed"}
        /\ job' = [job EXCEPT ![j] = IF LastTask(w)
                                     THEN [NoWork EXCEPT !.state = "done", !.proc = job[j].proc, !.good = good]
                                     ELSE [@ EXCEPT !.good = good]]
        /\ thread' = [thread EXCEPT ![w] = NoTask]
        /\ UNCHANGED <<file, tmp>>

GetFinishedJobs(j) ==
    /\ job[j].state = "done"
    /\ job' = [job EXCEPT ![j] = NoWork]
    /\ UNCHANGED <<file, tmp, thread>>

(* One turn of delete: unlink succeeds.                                    *)
Delete(k) ==
    /\ file' = [file EXCEPT ![k] = "none"]
    /\ UNCHANGED <<tmp, job, thread>>

(* Mutant: the jobs are forgotten while the threads work on.               *)
RestartKeepingThreads(p) ==
    /\ job' = [j \in Jobs |-> IF job[j].proc = p THEN NoWork ELSE job[j]]
    /\ UNCHANGED <<file, tmp, thread>>

(* Process p dies or shuts down; the threads of the next one have suffixes *)
(* of their own, so its temporary files are never opened again.            *)
Restart(p) ==
    LET mine == {w \in Threads : ProcessOf[w] = p}
    IN  /\ job' = [j \in Jobs |-> IF job[j].proc = p THEN NoWork ELSE job[j]]
        /\ thread' = [w \in Threads |-> IF w \in mine THEN NoTask ELSE thread[w]]
        /\ tmp' = [w \in Threads |-> IF w \in mine THEN {} ELSE tmp[w]]
        /\ UNCHANGED file

-----------------------------------------------------------------------------
ThreadStep(w) ==
    \/ \E j \in Jobs, k \in Keys : StoreExists(w, j, k) \/ LoadOpen(w, j, k)
    \/ StoreCreate(w)
    \/ \E data \in {"whole", "damaged"} : StoreWrite(w, data)
    \/ StoreReplace(w)
    \/ LoadRead(w)
    \/ \E removed \in BOOLEAN : StoreCleanup(w, removed) \/ LoadDiscard(w, removed)
    \/ TaskDone(w)

ManagerStep ==
    \/ \E p \in Procs, j \in Jobs, kind \in {"store", "load"} :
         \E K \in Requests[p] : Submit(p, j, kind, K)
    \/ \E j \in Jobs : GetFinishedJobs(j)
    \/ \E k \in Keys : Delete(k)
    \/ \E p \in Procs : Restart(p)

FileTierNext == ManagerStep \/ \E w \in Threads : ThreadStep(w)

FileTierSpec == FileTierInit /\ [][FileTierNext]_fileVars

-----------------------------------------------------------------------------
(* Types of the tier's state; a thread that works holds a task of a running *)
(* job of its process, nobody else holds that task, and a running job has a *)
(* task that is still to be done: it can always end.                        *)
FileTierTypeOK ==
    /\ file \in [Keys -> FileStates]
    /\ tmp \in [Threads -> SUBSET Keys]
    /\ job \in [Jobs -> JobStates]
    /\ thread \in [Threads -> [pc : Pcs, job : Jobs \cup {NoJob}, key : Keys \cup {NoKey},
                               data : FileStates]]
    /\ \A w \in Threads : thread[w] # NoTask =>
         LET j == job[thread[w].job]
         IN  /\ j.state \in {"store", "load"} /\ j.proc = ProcessOf[w]
             /\ thread[w].key \in j.keys \ j.todo
             /\ \A v \in Threads \ {w} :
                  <<thread[v].job, thread[v].key>> # <<thread[w].job, thread[w].key>>
    /\ \A j \in Jobs : job[j].state \in {"store", "load"} =>
         job[j].todo # {} \/ \E w \in Threads : thread[w].job = j

(* store_block never shows a partial block under a key's name: no step of   *)
(* any thread, with short writes, failures and restarts at every point,     *)
(* makes a file damaged.                                                    *)
NeverPublishesTorn ==
    [][\A k \in Keys : file'[k] = "damaged" => file[k] = "damaged"]_fileVars

JobView(j) ==
    IF job[j].state = "idle" THEN [phase |-> "idle"]
    ELSE IF job[j].state = "done" THEN [phase |-> "done", ok |-> job[j].good]
    ELSE [phase |-> "running", kind |-> job[j].state, keys |-> job[j].keys, seen |-> job[j].seen]

Tier == INSTANCE KVTier WITH present <- Existing, job <- [j \in Jobs |-> JobView(j)]

(* The file layout keeps the contract of a tier for any number of processes *)
(* on the directory: although store_block trusts an existence check and     *)
(* load_block removes files by name, a success is reported only for blocks  *)
(* whose file existed while the job ran, and only once.                     *)
FileImplementsTier == Tier!TierSpec
================================================================================
