----------------------------- MODULE AscendWorker -----------------------------
(***************************************************************************)
(* AscendCopyWorker (ascend_worker.py): transfers are copies on a stream   *)
(* of their own, next to the runner's compute stream, and are known to be  *)
(* over by an event recorded after them.  One host thread calls the worker *)
(* (so nothing else is called while wait or shutdown blocks); the device   *)
(* runs both streams.  What a transfer copies is in AscendPlan: requests   *)
(* that its checks refuse, or whose job is pending, raise before anything  *)
(* is touched and leave no trace here.                                     *)
(***************************************************************************)
EXTENDS Integers, Sequences, FiniteSets, SequencesExt

CONSTANTS
    Jobs, NoJob,
    Copies,         \* spans of a transfer
    MaxSubmits,     \* bound: submissions
    MaxKernels      \* bound: kernels the runner launches

VARIABLES
    stream,     \* operations of the copy stream that have not run
    kernels,    \* kernels of the compute stream: launched and run
    submits,    \* submissions so far; a submission is named by its number
    inflight,   \* _inflight: the submission of a job, or 0
    pending,
    completed,  \* results not handed out yet
    failed,     \* submissions whose event raises
    orphans,    \* submissions that raised while copies were queued
    handed,     \* history: results that get_finished returned
    call        \* the call that blocks the host thread

workerVars == <<stream, kernels, submits, inflight, pending, completed, failed, orphans, handed, call>>

Submissions == 1 .. MaxSubmits
Results == [submission : Submissions, job : Jobs, ok : BOOLEAN]
Operations == [op : {"barrier", "copy", "event"}, submission : Submissions, store : BOOLEAN,
               after : 0 .. MaxKernels]      \* kernels launched before
NoCall == [op |-> "none", todo |-> {}, job |-> NoJob, at |-> 0]

ASSUME WorkerAssumption ==
    /\ Copies \in Nat \ {0} /\ MaxSubmits \in Nat /\ MaxKernels \in Nat
    /\ NoJob \notin Jobs

WorkerInit ==
    /\ stream = <<>> /\ kernels = [launched |-> 0, run |-> 0]
    /\ submits = 0 /\ inflight = [j \in Jobs |-> 0] /\ pending = {}
    /\ completed = <<>> /\ failed = {} /\ orphans = {} /\ handed = <<>>
    /\ call = NoCall

-----------------------------------------------------------------------------
(* Mutant: stores do not wait for the compute stream.                      *)
BarrierNever(s, store) == <<>>

(* wait_stream: a store's copies come after the kernels launched so far.   *)
Barrier(s, store) ==
    IF store
    THEN <<[op |-> "barrier", submission |-> s, store |-> store, after |-> kernels.launched]>>
    ELSE <<>>

CopyOps(s, store, n) ==
    [i \in 1 .. n |-> [op |-> "copy", submission |-> s, store |-> store, after |-> kernels.launched]]

EventOp(s, store) == <<[op |-> "event", submission |-> s, store |-> store, after |-> kernels.launched]>>

(* Mutant: the event is recorded before the copies.                        *)
OperationsEventFirst(s, store) == Barrier(s, store) \o EventOp(s, store) \o CopyOps(s, store, Copies)

OperationsOf(s, store) == Barrier(s, store) \o CopyOps(s, store, Copies) \o EventOp(s, store)

(* submit_store, submit_load                                               *)
Submit(j, store) ==
    LET s == submits + 1
    IN  /\ call.op = "none" /\ submits < MaxSubmits
        /\ j \notin pending
        /\ submits' = s
        /\ stream' = stream \o OperationsOf(s, store)
        /\ inflight' = [inflight EXCEPT ![j] = s]
        /\ pending' = pending \cup {j}
        /\ UNCHANGED <<kernels, completed, failed, orphans, handed, call>>

(* copy_ or the event raises after n copies: they stay on the stream, and  *)
(* the worker has no record of them.                                       *)
SubmitRaises(j, store, n) ==
    LET s == submits + 1
    IN  /\ call.op = "none" /\ submits < MaxSubmits
        /\ j \notin pending
        /\ submits' = s
        /\ stream' = stream \o Barrier(s, store) \o CopyOps(s, store, n)
        /\ orphans' = orphans \cup {s}
        /\ UNCHANGED <<kernels, inflight, pending, completed, failed, handed, call>>

-----------------------------------------------------------------------------
EventQueued(s) == \E i \in DOMAIN stream : stream[i].op = "event" /\ stream[i].submission = s
Result(j, s) == [submission |-> s, job |-> j, ok |-> s \notin failed]

(* get_finished reports the jobs S whose event is over or raises.  The     *)
(* stream runs during the call: an event may have been asked too early.    *)
GetFinished(S) ==
    /\ call.op = "none"
    /\ \A j \in S : inflight[j] # 0 /\ ~EventQueued(inflight[j])
    /\ inflight' = [j \in Jobs |-> IF j \in S THEN 0 ELSE inflight[j]]
    /\ pending' = pending \ S
    /\ handed' = handed \o completed \o SetToSeq({Result(j, inflight[j]) : j \in S})
    /\ completed' = <<>>
    /\ UNCHANGED <<stream, kernels, submits, failed, orphans, call>>

WaitCall(K) ==
    /\ call.op = "none"
    /\ call' = [NoCall EXCEPT !.op = "wait", !.todo = K]
    /\ UNCHANGED <<stream, kernels, submits, inflight, pending, completed, failed, orphans, handed>>

(* Mutant: the job is read from _inflight and stays there.                 *)
WaitNextKeeping(j) ==
    /\ call.op = "wait" /\ call.at = 0 /\ j \in call.todo
    /\ call' = [call EXCEPT !.todo = @ \ {j}, !.at = inflight[j],
                            !.job = IF inflight[j] = 0 THEN NoJob ELSE j]
    /\ UNCHANGED <<stream, kernels, submits, inflight, pending, completed, failed, orphans, handed>>

(* The next job of the call is taken out of _inflight, if it is there.     *)
WaitNext(j) ==
    /\ call.op = "wait" /\ call.at = 0 /\ j \in call.todo
    /\ call' = [call EXCEPT !.todo = @ \ {j}, !.at = inflight[j],
                            !.job = IF inflight[j] = 0 THEN NoJob ELSE j]
    /\ inflight' = [inflight EXCEPT ![j] = 0]
    /\ UNCHANGED <<stream, kernels, submits, pending, completed, failed, orphans, handed>>

(* Mutant: an event that raises is waited for.                             *)
SettledUnlessRaised(s) == ~EventQueued(s) /\ s \notin failed

(* event.synchronize comes back, normally or with an exception.            *)
Settled(s) == ~EventQueued(s)

WaitSettled ==
    /\ call.op = "wait" /\ call.at # 0 /\ Settled(call.at)
    /\ completed' = Append(completed, Result(call.job, call.at))
    /\ pending' = pending \ {call.job}
    /\ call' = [call EXCEPT !.at = 0, !.job = NoJob]
    /\ UNCHANGED <<stream, kernels, submits, inflight, failed, orphans, handed>>

WaitReturn ==
    /\ call.op = "wait" /\ call.at = 0 /\ call.todo = {}
    /\ call' = NoCall
    /\ UNCHANGED <<stream, kernels, submits, inflight, pending, completed, failed, orphans, handed>>

ShutdownCall ==
    /\ call.op = "none"
    /\ call' = [NoCall EXCEPT !.op = "shutdown"]
    /\ UNCHANGED <<stream, kernels, submits, inflight, pending, completed, failed, orphans, handed>>

(* Mutant: the region is torn down without waiting.                        *)
CleanupAtOnce ==
    /\ call.op = "shutdown"
    /\ inflight' = [j \in Jobs |-> 0] /\ pending' = {} /\ completed' = <<>>
    /\ call' = [NoCall EXCEPT !.op = "closed"]
    /\ UNCHANGED <<stream, kernels, submits, failed, orphans, handed>>

(* Every event of _inflight has been synchronized with: the worker drops   *)
(* all it knows and cleans up the region.                                  *)
Cleanup ==
    /\ call.op = "shutdown"
    /\ \A j \in Jobs : inflight[j] # 0 => ~EventQueued(inflight[j])
    /\ inflight' = [j \in Jobs |-> 0] /\ pending' = {} /\ completed' = <<>>
    /\ call' = [NoCall EXCEPT !.op = "closed"]
    /\ UNCHANGED <<stream, kernels, submits, failed, orphans, handed>>

-----------------------------------------------------------------------------
(* The device (external)                                                   *)

LaunchKernel ==
    /\ kernels.launched < MaxKernels
    /\ kernels' = [kernels EXCEPT !.launched = @ + 1]
    /\ UNCHANGED <<stream, submits, inflight, pending, completed, failed, orphans, handed, call>>

RunKernel ==
    /\ kernels.run < kernels.launched
    /\ kernels' = [kernels EXCEPT !.run = @ + 1]
    /\ UNCHANGED <<stream, submits, inflight, pending, completed, failed, orphans, handed, call>>

RunStream ==
    /\ stream # <<>>
    /\ Head(stream).op = "barrier" => kernels.run >= Head(stream).after
    /\ stream' = Tail(stream)
    /\ UNCHANGED <<kernels, submits, inflight, pending, completed, failed, orphans, handed, call>>

(* An asynchronous error: nothing queued will run, its events raise.       *)
StreamError ==
    /\ stream # <<>>
    /\ failed' = failed \cup {s \in Submissions : EventQueued(s)}
    /\ stream' = <<>>
    /\ UNCHANGED <<kernels, submits, inflight, pending, completed, orphans, handed, call>>

HostContinues == (\E j \in Jobs : WaitNext(j)) \/ WaitSettled \/ WaitReturn \/ Cleanup

WorkerNext ==
    \/ \E j \in Jobs, store \in BOOLEAN :
         Submit(j, store) \/ \E n \in 0 .. Copies : SubmitRaises(j, store, n)
    \/ \E K \in SUBSET Jobs : GetFinished(K) \/ WaitCall(K)
    \/ ShutdownCall
    \/ HostContinues
    \/ LaunchKernel \/ RunKernel \/ RunStream \/ StreamError

(* The device runs what is queued, and a call that can go on does.         *)
WorkerSpec ==
    /\ WorkerInit /\ [][WorkerNext]_workerVars
    /\ WF_workerVars(RunKernel) /\ WF_workerVars(RunStream) /\ WF_workerVars(HostContinues)

-----------------------------------------------------------------------------
(* How often submission s is among the results r.                          *)
Times(r, s) == Cardinality({i \in DOMAIN r : r[i].submission = s})

(* Types of the worker's state; and until shutdown every accepted transfer  *)
(* is in exactly one place: in flight, in the hands of wait, among the      *)
(* results, or handed out, once, with success only if its copies ran;       *)
(* `pending' are the jobs of the first two.                                 *)
ResultsAccountedFor ==
    /\ stream \in Seq(Operations) /\ completed \in Seq(Results) /\ handed \in Seq(Results)
    /\ pending = {j \in Jobs : inflight[j] # 0} \cup ({call.job} \ {NoJob})
    /\ call.op # "closed" => \A s \in (1 .. submits) \ orphans :
         Cardinality({j \in Jobs : inflight[j] = s}) + (IF call.at = s THEN 1 ELSE 0)
           + Times(completed, s) + Times(handed, s) = 1
    /\ \A i \in DOMAIN handed : handed[i].ok => handed[i].submission \notin failed

(* A copy reads or writes blocks only while the worker still answers for    *)
(* them: the copies on the stream belong to transfers that are not reported *)
(* and, after shutdown, that the worker never accepted.                     *)
CopiesHaveOwner ==
    \A i \in DOMAIN stream : stream[i].op = "copy" =>
        stream[i].submission \in {inflight[j] : j \in Jobs} \cup {call.at} \cup orphans

(* A store's copy never runs while a kernel launched before the submission  *)
(* may still write the blocks it reads.                                     *)
StoresReadStable ==
    [][\A head \in {stream[i] : i \in (DOMAIN stream) \cap {1}} :
         (head.op = "copy" /\ head.store /\ stream' = Tail(stream) /\ failed' = failed)
            => kernels.run >= head.after]_workerVars

(* wait and shutdown return, whatever fails on the device meanwhile.        *)
CallsReturn == call.op \in {"wait", "shutdown"} ~> call.op \in {"none", "closed"}
===============================================================================
