-------------------------- MODULE AscendWorkerProofs --------------------------
(* Theorems about AscendWorker, for every value of its constants.          *)
EXTENDS AscendWorker, FiniteSetTheorems, SequenceTheorems, TLAPS

CallStates == [op : {"none", "wait", "shutdown", "closed"}, todo : SUBSET Jobs,
               job : Jobs \cup {NoJob}, at : 0 .. MaxSubmits]

WorkerTypes ==
    /\ stream \in Seq(Operations)
    /\ kernels \in [launched : 0 .. MaxKernels, run : 0 .. MaxKernels]
    /\ submits \in 0 .. MaxSubmits
    /\ inflight \in [Jobs -> 0 .. MaxSubmits]
    /\ pending \in SUBSET Jobs
    /\ completed \in Seq(Results) /\ handed \in Seq(Results)
    /\ failed \in SUBSET Submissions /\ orphans \in SUBSET Submissions
    /\ call \in CallStates

(* Only wait holds a job, and it has taken that job out of _inflight.      *)
CallShape ==
    /\ call.op # "wait" => call.at = 0
    /\ call.at = 0 <=> call.job = NoJob
    /\ call.job # NoJob => inflight[call.job] = 0

(* `pending' are the jobs in flight and the one wait holds.                *)
PendingMatches == pending = {j \in Jobs : inflight[j] # 0} \cup ({call.job} \ {NoJob})

(* The submissions in each place.                                          *)
Flying == {inflight[j] : j \in Jobs} \ {0}
Waited == {call.at} \ {0}
Subs(q) == {q[i].submission : i \in DOMAIN q}

Distinct(q) == \A a, b \in DOMAIN q : q[a].submission = q[b].submission => a = b

(* No submission is in two places, or twice in one; until shutdown every   *)
(* accepted one is in one.                                                 *)
OnePlace ==
    /\ \A i, j \in Jobs : inflight[i] = inflight[j] /\ inflight[i] # 0 => i = j
    /\ Distinct(completed) /\ Distinct(handed)
    /\ Flying \cap Waited = {}
    /\ (Flying \cup Waited) \cap (Subs(completed) \cup Subs(handed)) = {}
    /\ Subs(completed) \cap Subs(handed) = {}
    /\ Flying \cup Waited \cup Subs(completed) \cup Subs(handed) \subseteq (1 .. submits) \ orphans
    /\ call.op # "closed" =>
         (1 .. submits) \ orphans \subseteq Flying \cup Waited \cup Subs(completed) \cup Subs(handed)
    /\ orphans \subseteq 1 .. submits

(* A result says success only if the submission's event does not raise.    *)
HonestLog(q, F) == \A i \in DOMAIN q : q[i].ok => q[i].submission \notin F
Honest == HonestLog(completed, failed) /\ HonestLog(handed, failed)

(* The worker knows every submission whose event is queued, and the event  *)
(* comes after the copies.                                                 *)
EventsOwned == \A i \in DOMAIN stream : stream[i].op = "event" =>
                  stream[i].submission \in Flying \cup Waited
EventFollows ==
    \A i \in DOMAIN stream : stream[i].op = "copy" =>
        \/ stream[i].submission \in orphans
        \/ \E e \in DOMAIN stream : /\ e > i /\ stream[e].op = "event"
                                    /\ stream[e].submission = stream[i].submission

(* The kernels a store's copy must come after have run, or the barrier is  *)
(* still before it.                                                        *)
Guarded(q, run) ==
    \A i \in DOMAIN q : q[i].op = "copy" /\ q[i].store =>
        \/ run >= q[i].after
        \/ \E b \in DOMAIN q : b < i /\ q[b].op = "barrier" /\ q[b].after >= q[i].after
BarriersFirst == kernels.run <= kernels.launched /\ Guarded(stream, kernels.run)

(* The inductive invariant.                                                *)
WorkerInv ==
    /\ WorkerTypes /\ CallShape /\ PendingMatches /\ OnePlace /\ Honest
    /\ EventsOwned /\ EventFollows /\ BarriersFirst

-----------------------------------------------------------------------------
(* Logs of results.                                                        *)

(* The positions of a concatenation.                                       *)
LEMMA ConcatAt ==
    ASSUME NEW S, NEW q \in Seq(S), NEW r \in Seq(S)
    PROVE  /\ q \o r \in Seq(S) /\ Len(q) \in Nat /\ Len(r) \in Nat
           /\ DOMAIN q = 1 .. Len(q) /\ DOMAIN r = 1 .. Len(r)
           /\ DOMAIN (q \o r) = 1 .. Len(q) + Len(r)
           /\ \A i \in DOMAIN q : i \in DOMAIN (q \o r) /\ (q \o r)[i] = q[i]
           /\ \A i \in DOMAIN r : Len(q) + i \in DOMAIN (q \o r) /\ (q \o r)[Len(q) + i] = r[i]
           /\ \A i \in DOMAIN (q \o r) :
                \/ i \in DOMAIN q /\ (q \o r)[i] = q[i]
                \/ /\ i \notin DOMAIN q
                   /\ i - Len(q) \in DOMAIN r /\ (q \o r)[i] = r[i - Len(q)]
<1>1. /\ q \o r \in Seq(S) /\ Len(q) \in Nat /\ Len(r) \in Nat
      /\ DOMAIN q = 1 .. Len(q) /\ DOMAIN r = 1 .. Len(r)
      /\ DOMAIN (q \o r) = 1 .. Len(q) + Len(r)
  BY ConcatProperties, LenProperties
<1>2. QED
  BY <1>1, ConcatProperties

(* What a log made of two logs holds.                                      *)
LEMMA ConcatLogs ==
    ASSUME NEW q \in Seq(Results), NEW r \in Seq(Results), NEW F
    PROVE  /\ q \o r \in Seq(Results)
           /\ Subs(q \o r) = Subs(q) \cup Subs(r)
           /\ Distinct(q) /\ Distinct(r) /\ Subs(q) \cap Subs(r) = {} => Distinct(q \o r)
           /\ HonestLog(q, F) /\ HonestLog(r, F) => HonestLog(q \o r, F)
<1>1. q \o r \in Seq(Results) /\ Len(q) \in Nat /\ DOMAIN (q \o r) = 1 .. Len(q) + Len(r)
  BY ConcatAt
<1>2. /\ \A i \in DOMAIN q : i \in DOMAIN (q \o r) /\ (q \o r)[i] = q[i]
      /\ \A i \in DOMAIN r : Len(q) + i \in DOMAIN (q \o r) /\ (q \o r)[Len(q) + i] = r[i]
  BY ConcatAt
<1>3. \A i \in DOMAIN (q \o r) :
         \/ i \in DOMAIN q /\ (q \o r)[i] = q[i]
         \/ i - Len(q) \in DOMAIN r /\ (q \o r)[i] = r[i - Len(q)]
  BY ConcatAt
<1>4. Subs(q \o r) = Subs(q) \cup Subs(r)
  <2>1. Subs(q) \cup Subs(r) \subseteq Subs(q \o r)
    BY <1>2 DEF Subs
  <2>2. Subs(q \o r) \subseteq Subs(q) \cup Subs(r)
    BY <1>3 DEF Subs
  <2>3. QED
    BY <2>1, <2>2
<1>5. ASSUME Distinct(q), Distinct(r), Subs(q) \cap Subs(r) = {}
      PROVE  Distinct(q \o r)
  <2>1. SUFFICES ASSUME NEW a \in DOMAIN (q \o r), NEW b \in DOMAIN (q \o r),
                        (q \o r)[a].submission = (q \o r)[b].submission
                 PROVE  a = b
    BY DEF Distinct
  <2>2. /\ \A x \in DOMAIN q : q[x].submission \in Subs(q)
        /\ \A x \in DOMAIN r : r[x].submission \in Subs(r)
    BY DEF Subs
  <2>3. CASE a \in DOMAIN q /\ b \in DOMAIN q /\ (q \o r)[a] = q[a] /\ (q \o r)[b] = q[b]
    BY <2>1, <2>3, <1>5 DEF Distinct
  <2>4. CASE /\ a - Len(q) \in DOMAIN r /\ b - Len(q) \in DOMAIN r
             /\ (q \o r)[a] = r[a - Len(q)] /\ (q \o r)[b] = r[b - Len(q)]
    <3>1. a - Len(q) = b - Len(q)
      BY <2>1, <2>4, <1>5 DEF Distinct
    <3>2. a \in Int /\ b \in Int
      BY <1>1, <2>1, LenProperties
    <3>3. QED
      BY <3>1, <3>2, <1>1
  <2>5. QED
    BY <2>1, <2>2, <2>3, <2>4, <1>3, <1>5
<1>6. ASSUME HonestLog(q, F), HonestLog(r, F)
      PROVE  HonestLog(q \o r, F)
  BY <1>3, <1>6 DEF HonestLog
<1>7. QED
  BY <1>1, <1>4, <1>5, <1>6

(* A log of one result, and the empty log.                                 *)
LEMMA SmallLogs ==
    ASSUME NEW F
    PROVE  /\ <<>> \in Seq(Results) /\ Subs(<<>>) = {} /\ Distinct(<<>>) /\ HonestLog(<<>>, F)
           /\ \A x \in Results :
                /\ <<x>> \in Seq(Results) /\ Subs(<<x>>) = {x.submission} /\ Distinct(<<x>>)
                /\ (x.ok => x.submission \notin F) => HonestLog(<<x>>, F)
<1>1. <<>> \in Seq(Results) /\ Subs(<<>>) = {} /\ Distinct(<<>>) /\ HonestLog(<<>>, F)
  BY EmptySeq DEF Subs, Distinct, HonestLog
<1>2. ASSUME NEW x \in Results
      PROVE  /\ <<x>> \in Seq(Results) /\ Subs(<<x>>) = {x.submission} /\ Distinct(<<x>>)
             /\ (x.ok => x.submission \notin F) => HonestLog(<<x>>, F)
  <2>1. <<x>> \in Seq(Results) /\ DOMAIN <<x>> = {1} /\ <<x>>[1] = x
    OBVIOUS
  <2>2. QED
    BY <2>1 DEF Subs, Distinct, HonestLog
<1>3. QED
  BY <1>1, <1>2

(* SetToSeq lists a finite set, each element once.                         *)
LEMMA SetToSeqFacts ==
    ASSUME NEW S, IsFiniteSet(S)
    PROVE  /\ SetToSeq(S) \in Seq(S)
           /\ \A a, b \in DOMAIN SetToSeq(S) : SetToSeq(S)[a] = SetToSeq(S)[b] => a = b
           /\ \A x \in S : \E a \in DOMAIN SetToSeq(S) : SetToSeq(S)[a] = x
<1> DEFINE n == Cardinality(S)
           q == SetToSeq(S)
<1>1. n \in Nat /\ ExistsBijection(1 .. n, S)
  BY FS_CardinalityType
<1>2. \E f \in [1 .. n -> S] : IsInjective(f)
  BY <1>1 DEF ExistsBijection, Bijection, Injection
<1>3. q \in [1 .. n -> S] /\ IsInjective(q)
  BY <1>2 DEF SetToSeq
<1>4. q \in Injection(1 .. n, S)
  BY <1>3 DEF Injection
<1>5. IsFiniteSet(1 .. n) /\ Cardinality(1 .. n) = n
  BY <1>1, FS_Interval
<1>6. q \in Surjection(1 .. n, S)
  BY <1>4, <1>5, FS_Injection
<1>7. \A x \in S : \E a \in 1 .. n : q[a] = x
  BY <1>6 DEF Surjection
<1>8. q \in Seq(S) /\ DOMAIN q = 1 .. n
  BY <1>1, <1>3
<1>9. QED
  BY <1>3, <1>7, <1>8 DEF IsInjective

-----------------------------------------------------------------------------
(* The copy stream.                                                        *)

(* The operations of a stream.                                             *)
LEMMA OperationFacts ==
    ASSUME NEW q \in Seq(Operations)
    PROVE  \A i \in DOMAIN q : q[i].submission \in Submissions /\ q[i].after \in Int
<1>1. SUFFICES ASSUME NEW i \in DOMAIN q
               PROVE  q[i].submission \in Submissions /\ q[i].after \in Int
  OBVIOUS
<1>2. q[i] \in Operations
  BY ElementOfSeq, LenProperties
<1>3. \A x \in Operations : x.submission \in Submissions /\ x.after \in 0 .. MaxKernels
  BY DEF Operations
<1>4. QED
  BY <1>2, <1>3, WorkerAssumption

(* Streams are put together in any order.                                  *)
LEMMA StreamAssociative ==
    ASSUME NEW a \in Seq(Operations), NEW b \in Seq(Operations), NEW c \in Seq(Operations)
    PROVE  (a \o b) \o c = a \o (b \o c)
BY ConcatAssociative

(* Barriers guard the copies of a concatenation if they do in each part.   *)
LEMMA GuardedConcat ==
    ASSUME NEW q \in Seq(Operations), NEW r \in Seq(Operations), NEW run \in Nat,
           Guarded(q, run), Guarded(r, run)
    PROVE  Guarded(q \o r, run)
<1>1. SUFFICES ASSUME NEW i \in DOMAIN (q \o r), (q \o r)[i].op = "copy", (q \o r)[i].store,
                      ~(run >= (q \o r)[i].after)
               PROVE  \E b \in DOMAIN (q \o r) : /\ b < i /\ (q \o r)[b].op = "barrier"
                                                 /\ (q \o r)[b].after >= (q \o r)[i].after
  BY DEF Guarded
<1>2. CASE i \in DOMAIN q /\ (q \o r)[i] = q[i]
  <2>1. PICK b \in DOMAIN q : b < i /\ q[b].op = "barrier" /\ q[b].after >= q[i].after
    BY <1>1, <1>2 DEF Guarded
  <2>2. b \in DOMAIN (q \o r) /\ (q \o r)[b] = q[b]
    BY <2>1, ConcatAt
  <2>3. QED
    BY <1>2, <2>1, <2>2
<1>3. CASE i - Len(q) \in DOMAIN r /\ (q \o r)[i] = r[i - Len(q)]
  <2>1. PICK b \in DOMAIN r : /\ b < i - Len(q) /\ r[b].op = "barrier"
                              /\ r[b].after >= r[i - Len(q)].after
    BY <1>1, <1>3 DEF Guarded
  <2>2. Len(q) + b \in DOMAIN (q \o r) /\ (q \o r)[Len(q) + b] = r[b]
    BY <2>1, ConcatAt
  <2>3. Len(q) + b < i
    <3>1. i \in Int /\ Len(q) \in Int /\ b \in Int
      BY <1>1, <2>1, ConcatAt
    <3>2. QED
      BY <3>1, <2>1
  <2>4. QED
    BY <1>3, <2>1, <2>2, <2>3
<1>4. QED
  BY <1>2, <1>3, ConcatAt

(* They go on doing so when more kernels have run.                         *)
LEMMA GuardedMore ==
    ASSUME NEW q \in Seq(Operations), NEW run \in Nat, NEW more \in Nat, more >= run, Guarded(q, run)
    PROVE  Guarded(q, more)
BY OperationFacts DEF Guarded

(* The positions of the rest of a stream.                                  *)
LEMMA TailAt ==
    ASSUME NEW q \in Seq(Operations), q # <<>>
    PROVE  /\ Tail(q) \in Seq(Operations)
           /\ \A i \in DOMAIN Tail(q) : i \in Nat /\ i + 1 \in DOMAIN q /\ Tail(q)[i] = q[i + 1]
           /\ \A i \in DOMAIN q : i > 1 => i - 1 \in DOMAIN Tail(q) /\ Tail(q)[i - 1] = q[i]
<1>1. Len(q) \in Nat \ {0} /\ DOMAIN q = 1 .. Len(q)
  BY EmptySeq, LenProperties
<1>2. Tail(q) \in Seq(Operations) /\ Len(Tail(q)) = Len(q) - 1
      /\ \A i \in 1 .. Len(Tail(q)) : Tail(q)[i] = q[i + 1]
  BY HeadTailProperties
<1>3. DOMAIN Tail(q) = 1 .. Len(Tail(q))
  BY <1>2, LenProperties
<1>4. QED
  BY <1>1, <1>2, <1>3

(* A barrier leaves the stream when its kernels have run, any other        *)
(* operation guards nothing.                                               *)
LEMMA GuardedTail ==
    ASSUME NEW q \in Seq(Operations), q # <<>>, NEW run \in Nat, Guarded(q, run),
           Head(q).op = "barrier" => run >= Head(q).after
    PROVE  Guarded(Tail(q), run)
<1>1. /\ Head(q) = q[1]
      /\ \A i \in DOMAIN Tail(q) : i \in Nat /\ i + 1 \in DOMAIN q /\ Tail(q)[i] = q[i + 1]
      /\ \A i \in DOMAIN q : i > 1 => i - 1 \in DOMAIN Tail(q) /\ Tail(q)[i - 1] = q[i]
      /\ \A i \in DOMAIN q : i \in Nat /\ i >= 1
  BY TailAt, LenProperties
<1>2. SUFFICES ASSUME NEW i \in DOMAIN Tail(q), Tail(q)[i].op = "copy", Tail(q)[i].store,
                      ~(run >= Tail(q)[i].after)
               PROVE  \E b \in DOMAIN Tail(q) : /\ b < i /\ Tail(q)[b].op = "barrier"
                                                /\ Tail(q)[b].after >= Tail(q)[i].after
  BY DEF Guarded
<1>3. i + 1 \in DOMAIN q /\ Tail(q)[i] = q[i + 1]
  BY <1>1, <1>2
<1>4. PICK b \in DOMAIN q : b < i + 1 /\ q[b].op = "barrier" /\ q[b].after >= q[i + 1].after
  BY <1>2, <1>3 DEF Guarded
<1>5. q[b].after \in Int /\ q[i + 1].after \in Int
  BY <1>3, <1>4, OperationFacts
<1>6. b # 1
  <2>1. SUFFICES ASSUME b = 1
                 PROVE  FALSE
    OBVIOUS
  <2>2. q[1].op = "barrier" /\ q[1].after >= q[i + 1].after /\ q[1].after \in Int
    BY <2>1, <1>4, <1>5
  <2>3. run >= q[1].after
    BY <2>2, <1>1
  <2>4. QED
    BY <2>2, <2>3, <1>2, <1>3, <1>5
<1>7. b - 1 \in DOMAIN Tail(q) /\ Tail(q)[b - 1] = q[b] /\ b - 1 < i
  BY <1>1, <1>2, <1>4, <1>6
<1>8. QED
  BY <1>3, <1>4, <1>7

(* What a submission puts on the stream before its event.                  *)
LEMMA PrefixFacts ==
    ASSUME WorkerInv, NEW s \in Submissions, NEW store \in BOOLEAN, NEW n \in 0 .. Copies,
           NEW run \in Nat
    PROVE  LET q == Barrier(s, store) \o CopyOps(s, store, n)
           IN  /\ Barrier(s, store) \in Seq(Operations) /\ CopyOps(s, store, n) \in Seq(Operations)
               /\ q \in Seq(Operations) /\ Guarded(q, run)
               /\ \A i \in DOMAIN q : q[i].submission = s /\ q[i].op # "event"
<1> DEFINE b == [op |-> "barrier", submission |-> s, store |-> store, after |-> kernels.launched]
           c == [op |-> "copy", submission |-> s, store |-> store, after |-> kernels.launched]
           B == Barrier(s, store)
           C == CopyOps(s, store, n)
<1>1. n \in Nat /\ kernels.launched \in 0 .. MaxKernels /\ kernels.launched \in Int
  BY WorkerAssumption DEF WorkerInv, WorkerTypes
<1>2. b \in Operations /\ c \in Operations
  BY <1>1 DEF Operations
<1>3. /\ b.op = "barrier" /\ b.submission = s /\ b.after = kernels.launched
      /\ c.op = "copy" /\ c.submission = s /\ c.store = store /\ c.after = kernels.launched
  OBVIOUS
<1>4. B = IF store THEN <<b>> ELSE <<>>
  BY DEF Barrier
<1>5. C = [i \in 1 .. n |-> c]
  BY DEF CopyOps
<1> HIDE DEF b, c, B, C
<1>6. C \in Seq(Operations) /\ Len(C) = n /\ DOMAIN C = 1 .. n /\ \A i \in DOMAIN C : C[i] = c
  BY <1>1, <1>2, <1>5
<1>7. /\ B \in Seq(Operations) /\ \A i \in DOMAIN B : B[i] = b
      /\ store => 1 \in DOMAIN B /\ Len(B) = 1
  BY <1>2, <1>4
<1>8. B \o C \in Seq(Operations)
  BY <1>6, <1>7, ConcatAt
<1>9. \A i \in DOMAIN (B \o C) : (B \o C)[i] = b \/ (B \o C)[i] = c
  BY <1>6, <1>7, ConcatAt
<1>10. Guarded(B \o C, run)
  <2>1. SUFFICES ASSUME NEW i \in DOMAIN (B \o C), (B \o C)[i].op = "copy", (B \o C)[i].store
                 PROVE  \E h \in DOMAIN (B \o C) : /\ h < i /\ (B \o C)[h].op = "barrier"
                                                   /\ (B \o C)[h].after >= (B \o C)[i].after
    BY DEF Guarded
  <2>2. (B \o C)[i] = c /\ store
    BY <2>1, <1>3, <1>9
  <2>3. 1 \in DOMAIN B /\ B[1] = b /\ Len(B) = 1 /\ DOMAIN B = 1 .. 1
    BY <2>2, <1>7, LenProperties
  <2>4. 1 \in DOMAIN (B \o C) /\ (B \o C)[1] = b
    BY <2>3, <1>6, <1>7, ConcatAt
  <2>5. i \in Nat /\ i > 1
    BY <2>1, <2>2, <2>4, <1>3, <1>8, LenProperties
  <2>6. QED
    BY <2>2, <2>4, <2>5, <1>1, <1>3
<1>11. \A i \in DOMAIN (B \o C) : (B \o C)[i].submission = s /\ (B \o C)[i].op # "event"
  BY <1>3, <1>9
<1>12. QED
  BY <1>6, <1>7, <1>8, <1>10, <1>11 DEF B, C

-----------------------------------------------------------------------------
(* The steps of the device.                                                *)

(* What the worker knows does not change while the device runs.            *)
LEMMA HostSame ==
    ASSUME WorkerInv, UNCHANGED <<submits, inflight, pending, completed, orphans, handed, call>>
    PROVE  CallShape' /\ PendingMatches' /\ OnePlace' /\ Flying' = Flying /\ Waited' = Waited
<1>1. Flying' = Flying /\ Waited' = Waited
  BY DEF Flying, Waited
<1>2. OnePlace'
  BY <1>1 DEF WorkerInv, OnePlace
<1>3. QED
  BY <1>1, <1>2 DEF WorkerInv, CallShape, PendingMatches

(* Kernels only make progress.                                             *)
LEMMA KernelStep ==
    ASSUME WorkerInv, LaunchKernel \/ RunKernel
    PROVE  WorkerInv'
<1>1. /\ UNCHANGED <<stream, submits, inflight, pending, completed, failed, orphans, handed, call>>
      /\ kernels \in [launched : 0 .. MaxKernels, run : 0 .. MaxKernels]
      /\ kernels.run <= kernels.launched /\ MaxKernels \in Nat
  BY WorkerAssumption DEF LaunchKernel, RunKernel, WorkerInv, WorkerTypes, BarriersFirst
<1>2. /\ kernels' \in [launched : 0 .. MaxKernels, run : 0 .. MaxKernels]
      /\ kernels'.run <= kernels'.launched /\ kernels'.run >= kernels.run
  BY <1>1 DEF LaunchKernel, RunKernel
<1>3. WorkerTypes'
  BY <1>1, <1>2 DEF WorkerInv, WorkerTypes
<1>4. stream \in Seq(Operations) /\ kernels.run \in Nat /\ kernels'.run \in Nat
  BY <1>1, <1>2 DEF WorkerInv, WorkerTypes
<1>5. Guarded(stream, kernels'.run)
  BY <1>2, <1>4, GuardedMore DEF WorkerInv, BarriersFirst
<1>6. BarriersFirst'
  BY <1>1, <1>2, <1>5 DEF BarriersFirst
<1>7. CallShape' /\ PendingMatches' /\ OnePlace' /\ Flying' = Flying /\ Waited' = Waited
  BY <1>1, HostSame
<1>8. Honest' /\ EventsOwned' /\ EventFollows'
  BY <1>1, <1>7 DEF WorkerInv, Honest, EventsOwned, EventFollows
<1>9. QED
  BY <1>3, <1>6, <1>7, <1>8 DEF WorkerInv

(* The head of the stream runs; events stay behind their copies.           *)
LEMMA RunStreamStep ==
    ASSUME WorkerInv, RunStream
    PROVE  WorkerInv'
<1>1. /\ stream \in Seq(Operations) /\ stream # <<>> /\ stream' = Tail(stream)
      /\ UNCHANGED <<kernels, submits, inflight, pending, completed, failed, orphans, handed, call>>
      /\ kernels.run \in Nat
  BY WorkerAssumption DEF RunStream, WorkerInv, WorkerTypes
<1>2. /\ stream' \in Seq(Operations)
      /\ \A i \in DOMAIN stream' : /\ i \in Nat /\ i + 1 \in DOMAIN stream
                                   /\ stream'[i] = stream[i + 1]
      /\ \A i \in DOMAIN stream : i > 1 => i - 1 \in DOMAIN stream' /\ stream'[i - 1] = stream[i]
  BY <1>1, TailAt
<1>3. WorkerTypes'
  BY <1>1, <1>2 DEF WorkerInv, WorkerTypes
<1>4. CallShape' /\ PendingMatches' /\ OnePlace' /\ Flying' = Flying /\ Waited' = Waited
  BY <1>1, HostSame
<1>5. Honest'
  BY <1>1 DEF WorkerInv, Honest
<1>6. EventsOwned'
  BY <1>2, <1>4 DEF WorkerInv, EventsOwned
<1>7. EventFollows'
  <2>1. SUFFICES ASSUME NEW i \in DOMAIN stream', stream'[i].op = "copy",
                        stream'[i].submission \notin orphans
                 PROVE  \E e \in DOMAIN stream' : /\ e > i /\ stream'[e].op = "event"
                                                  /\ stream'[e].submission = stream'[i].submission
    BY <1>1 DEF EventFollows
  <2>2. PICK e \in DOMAIN stream : /\ e > i + 1 /\ stream[e].op = "event"
                                   /\ stream[e].submission = stream[i + 1].submission
    BY <2>1, <1>2 DEF WorkerInv, EventFollows
  <2>3. e \in Int /\ i \in Nat
    BY <2>1, <2>2, <1>1, <1>2, LenProperties
  <2>4. e - 1 \in DOMAIN stream' /\ stream'[e - 1] = stream[e] /\ e - 1 > i
    BY <2>2, <2>3, <1>2
  <2>5. QED
    BY <2>1, <2>2, <2>4, <1>2
<1>8. Guarded(Tail(stream), kernels.run)
  BY <1>1, GuardedTail DEF RunStream, WorkerInv, BarriersFirst
<1>9. BarriersFirst'
  BY <1>1, <1>8 DEF WorkerInv, BarriersFirst
<1>10. QED
  BY <1>3, <1>4, <1>5, <1>6, <1>7, <1>9 DEF WorkerInv

(* An error empties the stream and fails only submissions without a result. *)
LEMMA StreamErrorStep ==
    ASSUME WorkerInv, StreamError
    PROVE  WorkerInv'
<1>1. /\ stream' = <<>> /\ failed' = failed \cup {s \in Submissions : EventQueued(s)}
      /\ UNCHANGED <<kernels, submits, inflight, pending, completed, orphans, handed, call>>
  BY DEF StreamError
<1>2. stream' \in Seq(Operations) /\ DOMAIN stream' = {}
  BY <1>1
<1>3. WorkerTypes'
  BY <1>1, <1>2 DEF WorkerInv, WorkerTypes
<1>4. CallShape' /\ PendingMatches' /\ OnePlace' /\ Flying' = Flying /\ Waited' = Waited
  BY <1>1, HostSame
<1>5. ASSUME NEW q, HonestLog(q, failed), (Flying \cup Waited) \cap Subs(q) = {}
      PROVE  HonestLog(q, failed')
  <2>1. \A s \in failed' : s \in failed \/ s \in Flying \cup Waited
    BY <1>1 DEF EventQueued, WorkerInv, EventsOwned
  <2>2. \A i \in DOMAIN q : q[i].submission \in Subs(q)
    BY DEF Subs
  <2>3. QED
    BY <1>5, <2>1, <2>2 DEF HonestLog
<1>6. HonestLog(completed, failed') /\ HonestLog(handed, failed')
  BY <1>5 DEF WorkerInv, Honest, OnePlace
<1>7. Honest'
  BY <1>1, <1>6 DEF Honest
<1>8. EventsOwned' /\ EventFollows' /\ BarriersFirst'
  BY <1>1, <1>2 DEF EventsOwned, EventFollows, BarriersFirst, Guarded, WorkerInv
<1>9. QED
  BY <1>3, <1>4, <1>7, <1>8 DEF WorkerInv

-----------------------------------------------------------------------------
(* The steps of the host thread.                                           *)

(* A call that leaves the streams alone keeps their order.                 *)
LEMMA StreamSame ==
    ASSUME WorkerInv, UNCHANGED <<stream, kernels, orphans>>
    PROVE  EventFollows' /\ BarriersFirst'
BY DEF WorkerInv, EventFollows, BarriersFirst

(* The next submission is not known to anybody yet.                        *)
LEMMA FreshSubmission ==
    ASSUME WorkerInv, submits < MaxSubmits
    PROVE  LET s == submits + 1
           IN  /\ s \in Submissions /\ s # 0 /\ s \in Nat
               /\ 1 .. s = (1 .. submits) \cup {s} /\ s \notin orphans
               /\ s \notin Flying \cup Waited \cup Subs(completed) \cup Subs(handed)
<1>1. submits \in 0 .. MaxSubmits /\ MaxSubmits \in Nat
  BY WorkerAssumption DEF WorkerInv, WorkerTypes
<1>2. /\ submits + 1 \in Submissions /\ submits + 1 # 0 /\ submits + 1 \in Nat
      /\ 1 .. submits + 1 = (1 .. submits) \cup {submits + 1} /\ submits + 1 \notin 1 .. submits
  BY <1>1 DEF Submissions
<1>3. QED
  BY <1>2 DEF WorkerInv, OnePlace

(* A submission that is accepted is in flight, its event after its copies. *)
LEMMA SubmitStep ==
    ASSUME WorkerInv, NEW j \in Jobs, NEW store \in BOOLEAN, Submit(j, store)
    PROVE  WorkerInv'
<1> DEFINE s == submits + 1
           p == Barrier(s, store) \o CopyOps(s, store, Copies)
           e == EventOp(s, store)
<1>1. /\ call.op = "none" /\ submits < MaxSubmits /\ j \notin pending
      /\ submits' = s /\ stream' = stream \o (p \o e)
      /\ inflight' = [inflight EXCEPT ![j] = s] /\ pending' = pending \cup {j}
      /\ UNCHANGED <<kernels, completed, failed, orphans, handed, call>>
  BY DEF Submit, OperationsOf
<1>2. /\ s \in Submissions /\ s # 0 /\ s \in Nat
      /\ 1 .. s = (1 .. submits) \cup {s} /\ s \notin orphans
      /\ s \notin Flying \cup Waited \cup Subs(completed) \cup Subs(handed)
  BY <1>1, FreshSubmission
<1>3. /\ inflight \in [Jobs -> 0 .. MaxSubmits] /\ inflight[j] = 0
      /\ call.at = 0 /\ call.job = NoJob
  BY <1>1 DEF WorkerInv, WorkerTypes, CallShape, PendingMatches
<1>4. /\ stream \in Seq(Operations) /\ kernels.run \in Nat /\ Copies \in 0 .. Copies
      /\ kernels.launched \in 0 .. MaxKernels
  BY WorkerAssumption DEF WorkerInv, WorkerTypes
<1>5. /\ p \in Seq(Operations) /\ Guarded(p, kernels.run)
      /\ \A i \in DOMAIN p : p[i].submission = s /\ p[i].op # "event"
  BY <1>2, <1>4, PrefixFacts
<1>6. /\ e \in Seq(Operations) /\ Len(e) = 1 /\ DOMAIN e = {1}
      /\ e[1].op = "event" /\ e[1].submission = s
  <2> DEFINE x == [op |-> "event", submission |-> s, store |-> store, after |-> kernels.launched]
  <2>1. x \in Operations /\ x.op = "event" /\ x.submission = s
    BY <1>2, <1>4 DEF Operations
  <2>2. e = <<x>>
    BY DEF EventOp
  <2> HIDE DEF x, e
  <2>3. QED
    BY <2>1, <2>2
<1> HIDE DEF s, p, e
<1>7. /\ p \o e \in Seq(Operations) /\ Len(p) \in Nat /\ Len(p) + 1 \in DOMAIN (p \o e)
      /\ (p \o e)[Len(p) + 1].op = "event"
      /\ \A i \in DOMAIN (p \o e) : /\ i \in Nat /\ i <= Len(p) + 1
                                    /\ (p \o e)[i].submission = s
                                    /\ (p \o e)[i].op = "event" <=> i = Len(p) + 1
  <2>1. /\ p \o e \in Seq(Operations) /\ Len(p) \in Nat /\ DOMAIN p = 1 .. Len(p)
        /\ DOMAIN (p \o e) = 1 .. Len(p) + 1
        /\ Len(p) + 1 \in DOMAIN (p \o e) /\ (p \o e)[Len(p) + 1] = e[1]
        /\ \A i \in DOMAIN p : (p \o e)[i] = p[i]
    BY <1>5, <1>6, ConcatAt
  <2>2. \A i \in DOMAIN (p \o e) : i \in DOMAIN p \/ i = Len(p) + 1
    BY <2>1
  <2>3. QED
    BY <2>1, <2>2, <1>5, <1>6
<1>8. /\ stream' \in Seq(Operations)
      /\ \A i \in DOMAIN stream' :
           \/ i \in DOMAIN stream /\ stream'[i] = stream[i]
           \/ i - Len(stream) \in DOMAIN (p \o e) /\ stream'[i] = (p \o e)[i - Len(stream)]
  <2> DEFINE r == p \o e
  <2>1. r \in Seq(Operations) /\ stream' = stream \o r
    BY <1>1, <1>7
  <2> HIDE DEF r
  <2>2. /\ stream' \in Seq(Operations)
        /\ \A i \in DOMAIN stream' :
             \/ i \in DOMAIN stream /\ stream'[i] = stream[i]
             \/ i - Len(stream) \in DOMAIN r /\ stream'[i] = r[i - Len(stream)]
    BY <2>1, <1>4, ConcatAt
  <2>3. QED
    BY <2>2 DEF r
<1>9. WorkerTypes'
  <2>1. submits' \in 0 .. MaxSubmits
    BY <1>1, <1>2 DEF Submissions
  <2>2. inflight' \in [Jobs -> 0 .. MaxSubmits] /\ pending' \in SUBSET Jobs
    BY <1>1, <1>2, <1>3 DEF Submissions, WorkerInv, WorkerTypes
  <2>3. QED
    BY <2>1, <2>2, <1>1, <1>8 DEF WorkerInv, WorkerTypes
<1>10. /\ inflight'[j] = s /\ \A i \in Jobs \ {j} : inflight'[i] = inflight[i]
  BY <1>1, <1>3
<1>11. Flying' = Flying \cup {s} /\ Waited' = Waited
  BY <1>1, <1>2, <1>3, <1>10 DEF Flying, Waited
<1>12. CallShape' /\ PendingMatches'
  BY <1>1, <1>2, <1>3, <1>10, WorkerAssumption DEF WorkerInv, CallShape, PendingMatches
<1>13. OnePlace'
  <2>1. \A i, k \in Jobs : inflight'[i] = inflight'[k] /\ inflight'[i] # 0 => i = k
    <3>1. \A i \in Jobs : inflight[i] # s
      BY <1>2 DEF Flying
    <3>2. QED
      BY <3>1, <1>10 DEF WorkerInv, OnePlace
  <2>2. /\ (Flying \cup {s}) \cap Waited = {}
        /\ (Flying \cup {s} \cup Waited) \cap (Subs(completed) \cup Subs(handed)) = {}
        /\ Flying \cup {s} \cup Waited \cup Subs(completed) \cup Subs(handed) \subseteq (1 .. s) \ orphans
        /\ call.op # "closed" =>
             (1 .. s) \ orphans \subseteq Flying \cup {s} \cup Waited \cup Subs(completed) \cup Subs(handed)
        /\ orphans \subseteq 1 .. s
    BY <1>2 DEF WorkerInv, OnePlace
  <2>3. QED
    BY <2>1, <2>2, <1>1, <1>11 DEF WorkerInv, OnePlace
<1>14. Honest'
  BY <1>1 DEF WorkerInv, Honest
<1>15. EventsOwned'
  <2>1. \A i \in DOMAIN stream' : \/ i \in DOMAIN stream /\ stream'[i] = stream[i]
                                  \/ stream'[i].submission = s
    BY <1>7, <1>8
  <2>2. QED
    BY <2>1, <1>11 DEF WorkerInv, EventsOwned
<1>16. EventFollows'
  <2>1. SUFFICES ASSUME NEW i \in DOMAIN stream', stream'[i].op = "copy",
                        stream'[i].submission \notin orphans
                 PROVE  \E v \in DOMAIN stream' : /\ v > i /\ stream'[v].op = "event"
                                                  /\ stream'[v].submission = stream'[i].submission
    BY <1>1 DEF EventFollows
  <2>2. CASE i \in DOMAIN stream /\ stream'[i] = stream[i]
    <3>1. PICK v \in DOMAIN stream : /\ v > i /\ stream[v].op = "event"
                                     /\ stream[v].submission = stream[i].submission
      BY <2>1, <2>2 DEF WorkerInv, EventFollows
    <3>2. v \in DOMAIN stream' /\ stream'[v] = stream[v]
      BY <1>1, <1>4, <1>7, ConcatAt
    <3>3. QED
      BY <2>2, <3>1, <3>2
  <2>3. CASE i - Len(stream) \in DOMAIN (p \o e) /\ stream'[i] = (p \o e)[i - Len(stream)]
    <3> DEFINE v == Len(stream) + (Len(p) + 1)
    <3>1. v \in DOMAIN stream' /\ stream'[v] = (p \o e)[Len(p) + 1]
      BY <1>1, <1>4, <1>7, ConcatAt
    <3>2. i - Len(stream) < Len(p) + 1
      BY <2>1, <2>3, <1>7
    <3>3. i \in Int /\ Len(stream) \in Int
      BY <2>1, <1>4, <1>8, LenProperties
    <3>4. v > i
      BY <3>2, <3>3, <1>7
    <3>5. QED
      BY <2>3, <3>1, <3>4, <1>7
  <2>4. QED
    BY <2>1, <2>2, <2>3, <1>8
<1>17. BarriersFirst'
  <2>1. Guarded(e, kernels.run)
    BY <1>6 DEF Guarded
  <2>2. Guarded(p \o e, kernels.run)
    BY <2>1, <1>4, <1>5, <1>6, GuardedConcat
  <2>3. Guarded(stream \o (p \o e), kernels.run)
    BY <2>2, <1>4, <1>7, GuardedConcat DEF WorkerInv, BarriersFirst
  <2>4. QED
    BY <2>3, <1>1 DEF WorkerInv, BarriersFirst
<1>18. QED
  BY <1>9, <1>12, <1>13, <1>14, <1>15, <1>16, <1>17 DEF WorkerInv

(* A submission that raises leaves copies of its own behind, and no event. *)
LEMMA SubmitRaisesStep ==
    ASSUME WorkerInv, NEW j \in Jobs, NEW store \in BOOLEAN, NEW n \in 0 .. Copies,
           SubmitRaises(j, store, n)
    PROVE  WorkerInv'
<1> DEFINE s == submits + 1
           p == Barrier(s, store) \o CopyOps(s, store, n)
<1>1. /\ call.op = "none" /\ submits < MaxSubmits
      /\ submits' = s /\ stream' = (stream \o Barrier(s, store)) \o CopyOps(s, store, n)
      /\ orphans' = orphans \cup {s}
      /\ UNCHANGED <<kernels, inflight, pending, completed, failed, handed, call>>
  BY DEF SubmitRaises
<1>2. /\ s \in Submissions /\ s # 0 /\ s \in Nat
      /\ 1 .. s = (1 .. submits) \cup {s} /\ s \notin orphans
      /\ s \notin Flying \cup Waited \cup Subs(completed) \cup Subs(handed)
  BY <1>1, FreshSubmission
<1>3. stream \in Seq(Operations) /\ kernels.run \in Nat
  BY WorkerAssumption DEF WorkerInv, WorkerTypes
<1>4. /\ Barrier(s, store) \in Seq(Operations) /\ CopyOps(s, store, n) \in Seq(Operations)
      /\ p \in Seq(Operations) /\ Guarded(p, kernels.run)
      /\ \A i \in DOMAIN p : p[i].submission = s /\ p[i].op # "event"
  BY <1>2, <1>3, PrefixFacts
<1>5. stream' = stream \o p
  <2>1. (stream \o Barrier(s, store)) \o CopyOps(s, store, n)
          = stream \o (Barrier(s, store) \o CopyOps(s, store, n))
    BY <1>3, <1>4, StreamAssociative
  <2>2. QED
    BY <2>1, <1>1
<1> HIDE DEF s, p
<1>6. /\ stream' \in Seq(Operations)
      /\ \A i \in DOMAIN stream : i \in DOMAIN stream' /\ stream'[i] = stream[i]
      /\ \A i \in DOMAIN stream' : \/ i \in DOMAIN stream /\ stream'[i] = stream[i]
                                   \/ stream'[i].submission = s /\ stream'[i].op # "event"
  BY <1>3, <1>4, <1>5, ConcatAt
<1>7. Flying' = Flying /\ Waited' = Waited
  BY <1>1 DEF Flying, Waited
<1>8. WorkerTypes'
  <2>1. submits' \in 0 .. MaxSubmits /\ orphans' \in SUBSET Submissions
    BY <1>1, <1>2 DEF Submissions, WorkerInv, WorkerTypes
  <2>2. QED
    BY <2>1, <1>1, <1>6 DEF WorkerInv, WorkerTypes
<1>9. CallShape' /\ PendingMatches' /\ Honest'
  BY <1>1 DEF WorkerInv, CallShape, PendingMatches, Honest
<1>10. OnePlace'
  <2>1. /\ Flying \cup Waited \cup Subs(completed) \cup Subs(handed) \subseteq (1 .. s) \ (orphans \cup {s})
        /\ call.op # "closed" =>
             (1 .. s) \ (orphans \cup {s}) \subseteq Flying \cup Waited \cup Subs(completed) \cup Subs(handed)
        /\ orphans \cup {s} \subseteq 1 .. s
    BY <1>2 DEF WorkerInv, OnePlace
  <2>2. QED
    BY <2>1, <1>1, <1>7 DEF WorkerInv, OnePlace
<1>11. EventsOwned'
  BY <1>6, <1>7 DEF WorkerInv, EventsOwned
<1>12. EventFollows'
  <2>1. SUFFICES ASSUME NEW i \in DOMAIN stream', stream'[i].op = "copy",
                        stream'[i].submission \notin orphans'
                 PROVE  \E v \in DOMAIN stream' : /\ v > i /\ stream'[v].op = "event"
                                                  /\ stream'[v].submission = stream'[i].submission
    BY DEF EventFollows
  <2>2. i \in DOMAIN stream /\ stream'[i] = stream[i] /\ stream[i].submission \notin orphans
    BY <2>1, <1>1, <1>6
  <2>3. PICK v \in DOMAIN stream : /\ v > i /\ stream[v].op = "event"
                                   /\ stream[v].submission = stream[i].submission
    BY <2>1, <2>2 DEF WorkerInv, EventFollows
  <2>4. QED
    BY <2>2, <2>3, <1>6
<1>13. BarriersFirst'
  <2>1. Guarded(stream \o p, kernels.run)
    BY <1>3, <1>4, GuardedConcat DEF WorkerInv, BarriersFirst
  <2>2. QED
    BY <2>1, <1>1, <1>5 DEF WorkerInv, BarriersFirst
<1>14. QED
  BY <1>8, <1>9, <1>10, <1>11, <1>12, <1>13 DEF WorkerInv

(* The result of a submission whose event is over.                         *)
LEMMA ResultFacts ==
    ASSUME NEW j \in Jobs, NEW s \in Submissions
    PROVE  /\ Result(j, s) \in Results /\ Result(j, s).submission = s /\ Result(j, s).job = j
           /\ Result(j, s).ok => s \notin failed
BY DEF Result, Results

(* The results get_finished lists, for distinct jobs in flight.            *)
LEMMA ListedResults ==
    ASSUME WorkerInv, NEW S \in SUBSET Jobs, \A j \in S : inflight[j] # 0
    PROVE  LET q == SetToSeq({Result(j, inflight[j]) : j \in S})
           IN  /\ q \in Seq(Results) /\ Distinct(q) /\ HonestLog(q, failed)
               /\ Subs(q) = {inflight[j] : j \in S}
<1> DEFINE R == {Result(j, inflight[j]) : j \in S}
           q == SetToSeq(R)
<1>1. \A j \in S : j \in Jobs /\ inflight[j] \in Submissions
  BY WorkerAssumption DEF WorkerInv, WorkerTypes, Submissions
<1>2. \A x \in R : \E j \in S : x = Result(j, inflight[j]) /\ x.submission = inflight[j]
  BY <1>1, ResultFacts
<1>3. R \subseteq Results /\ \A x \in R : x.submission \in Submissions /\ (x.ok => x.submission \notin failed)
  BY <1>1, ResultFacts
<1>4. \A j \in S : Result(j, inflight[j]) \in R /\ Result(j, inflight[j]).submission = inflight[j]
  BY <1>1, ResultFacts
<1> HIDE DEF R, q
<1>5. \A x, y \in R : x.submission = y.submission => x = y
  <2>1. SUFFICES ASSUME NEW x \in R, NEW y \in R, x.submission = y.submission
                 PROVE  x = y
    OBVIOUS
  <2>2. PICK i \in S : x = Result(i, inflight[i]) /\ x.submission = inflight[i]
    BY <1>2
  <2>3. PICK k \in S : y = Result(k, inflight[k]) /\ y.submission = inflight[k]
    BY <1>2
  <2>4. inflight[i] = inflight[k] /\ inflight[i] # 0
    BY <2>1, <2>2, <2>3
  <2>5. i = k
    BY <2>4 DEF WorkerInv, OnePlace
  <2>6. QED
    BY <2>2, <2>3, <2>5
<1>6. IsFiniteSet(R)
  <2> DEFINE f == [x \in R |-> x.submission]
  <2>1. f \in [R -> Submissions] /\ \A x, y \in R : f[x] = f[y] => x = y
    BY <1>3, <1>5
  <2>2. f \in Injection(R, Submissions)
    BY <2>1 DEF Injection, IsInjective
  <2>3. IsFiniteSet(Submissions)
    BY WorkerAssumption, FS_Interval DEF Submissions
  <2> HIDE DEF f
  <2>4. QED
    BY <2>2, <2>3, FS_Injection
<1>7. /\ q \in Seq(R)
      /\ \A a, b \in DOMAIN q : q[a] = q[b] => a = b
      /\ \A x \in R : \E a \in DOMAIN q : q[a] = x
  BY <1>6, SetToSeqFacts DEF q
<1>8. \A a \in DOMAIN q : q[a] \in R
  BY <1>7, ElementOfSeq, LenProperties
<1>9. q \in Seq(Results)
  BY <1>3, <1>7, SeqMonotonic
<1>10. Distinct(q)
  BY <1>5, <1>7, <1>8 DEF Distinct
<1>11. HonestLog(q, failed)
  BY <1>3, <1>8 DEF HonestLog
<1>12. Subs(q) = {inflight[j] : j \in S}
  <2>1. Subs(q) \subseteq {inflight[j] : j \in S}
    BY <1>2, <1>8 DEF Subs
  <2>2. ASSUME NEW j \in S
        PROVE  inflight[j] \in Subs(q)
    <3>1. PICK a \in DOMAIN q : q[a] = Result(j, inflight[j])
      BY <1>4, <1>7
    <3>2. QED
      BY <3>1, <1>4 DEF Subs
  <2>3. QED
    BY <2>1, <2>2
<1>13. QED
  BY <1>9, <1>10, <1>11, <1>12 DEF q, R

(* get_finished moves submissions from flight to the results handed out.   *)
LEMMA GetFinishedStep ==
    ASSUME WorkerInv, NEW S \in SUBSET Jobs, GetFinished(S)
    PROVE  WorkerInv'
<1> DEFINE q == SetToSeq({Result(j, inflight[j]) : j \in S})
           T == {inflight[j] : j \in S}
<1>1. /\ call.op = "none" /\ \A j \in S : inflight[j] # 0 /\ ~EventQueued(inflight[j])
      /\ inflight' = [j \in Jobs |-> IF j \in S THEN 0 ELSE inflight[j]]
      /\ pending' = pending \ S
      /\ handed' = (handed \o completed) \o q /\ completed' = <<>>
      /\ UNCHANGED <<stream, kernels, submits, failed, orphans, call>>
  BY DEF GetFinished
<1>2. q \in Seq(Results) /\ Distinct(q) /\ HonestLog(q, failed) /\ Subs(q) = T
  BY <1>1, ListedResults
<1> HIDE DEF q
<1>3. /\ inflight \in [Jobs -> 0 .. MaxSubmits] /\ completed \in Seq(Results) /\ handed \in Seq(Results)
      /\ call.at = 0 /\ call.job = NoJob /\ MaxSubmits \in Nat
  BY <1>1, WorkerAssumption DEF WorkerInv, WorkerTypes, CallShape
<1>4. T \subseteq Flying /\ Flying' = Flying \ T /\ Waited' = Waited
  <2>1. T \subseteq Flying /\ Waited' = Waited
    BY <1>1 DEF Flying, Waited
  <2>2. \A i, k \in Jobs : inflight[i] = inflight[k] /\ inflight[i] # 0 => i = k
    BY DEF WorkerInv, OnePlace
  <2>3. Flying' = Flying \ T
    BY <1>1, <1>3, <2>2 DEF Flying
  <2>4. QED
    BY <2>1, <2>3
<1> HIDE DEF T
<1>5. /\ Distinct(completed) /\ Distinct(handed)
      /\ Flying \cap Waited = {}
      /\ (Flying \cup Waited) \cap (Subs(completed) \cup Subs(handed)) = {}
      /\ Subs(completed) \cap Subs(handed) = {}
  BY DEF WorkerInv, OnePlace
<1>6. /\ handed \o completed \in Seq(Results) /\ Distinct(handed \o completed)
      /\ Subs(handed \o completed) = Subs(handed) \cup Subs(completed)
      /\ HonestLog(handed \o completed, failed)
  BY <1>3, <1>5, ConcatLogs DEF WorkerInv, Honest
<1>7. /\ handed' \in Seq(Results) /\ Distinct(handed') /\ HonestLog(handed', failed)
      /\ Subs(handed') = Subs(handed) \cup Subs(completed) \cup T
  <2>1. Subs(handed \o completed) \cap Subs(q) = {}
    BY <1>2, <1>4, <1>5, <1>6
  <2> DEFINE h == handed \o completed
  <2>2. h \in Seq(Results) /\ Distinct(h) /\ HonestLog(h, failed) /\ Subs(h) \cap Subs(q) = {}
    BY <2>1, <1>6
  <2> HIDE DEF h
  <2>3. /\ h \o q \in Seq(Results) /\ Distinct(h \o q) /\ HonestLog(h \o q, failed)
        /\ Subs(h \o q) = Subs(h) \cup Subs(q)
    BY <2>2, <1>2, ConcatLogs
  <2>4. handed' = h \o q /\ Subs(h) = Subs(handed) \cup Subs(completed)
    BY <1>1, <1>6 DEF h
  <2>5. QED
    BY <2>3, <2>4, <1>2
<1>8. completed' \in Seq(Results) /\ Distinct(completed') /\ HonestLog(completed', failed) /\ Subs(completed') = {}
  BY <1>1, SmallLogs
<1>9. WorkerTypes'
  <2>1. inflight' \in [Jobs -> 0 .. MaxSubmits] /\ pending' \in SUBSET Jobs
    BY <1>1, <1>3 DEF WorkerInv, WorkerTypes
  <2>2. QED
    BY <2>1, <1>1, <1>7, <1>8 DEF WorkerInv, WorkerTypes
<1>10. CallShape' /\ PendingMatches'
  BY <1>1, <1>3 DEF WorkerInv, CallShape, PendingMatches
<1>11. OnePlace'
  <2>1. \A i, k \in Jobs : inflight'[i] = inflight'[k] /\ inflight'[i] # 0 => i = k
    BY <1>1 DEF WorkerInv, OnePlace
  <2>2. /\ Flying' \cap Waited' = {} /\ (Flying' \cup Waited') \cap (Subs(completed') \cup Subs(handed')) = {}
        /\ Subs(completed') \cap Subs(handed') = {}
        /\ Flying' \cup Waited' \cup Subs(completed') \cup Subs(handed')
             = Flying \cup Waited \cup Subs(completed) \cup Subs(handed)
    BY <1>4, <1>5, <1>7, <1>8
  <2>3. QED
    BY <2>1, <2>2, <1>1, <1>7, <1>8 DEF WorkerInv, OnePlace
<1>12. Honest'
  BY <1>1, <1>7, <1>8 DEF Honest
<1>13. EventsOwned'
  <2>1. \A i \in DOMAIN stream : stream[i].op = "event" => stream[i].submission \notin T
    BY <1>1 DEF EventQueued, T
  <2>2. QED
    BY <2>1, <1>1, <1>4 DEF WorkerInv, EventsOwned
<1>14. EventFollows' /\ BarriersFirst'
  BY <1>1, StreamSame
<1>15. QED
  BY <1>9, <1>10, <1>11, <1>12, <1>13, <1>14 DEF WorkerInv

(* The calls begin and wait returns with no job in hand.                   *)
LEMMA CallStep ==
    ASSUME WorkerInv, ShutdownCall \/ WaitReturn \/ \E K \in SUBSET Jobs : WaitCall(K)
    PROVE  WorkerInv'
<1>1. /\ UNCHANGED <<stream, kernels, submits, inflight, pending, completed, failed, orphans, handed>>
      /\ call.op \in {"none", "wait"} /\ call.at = 0
      /\ call \in CallStates
  BY DEF ShutdownCall, WaitReturn, WaitCall, WorkerInv, WorkerTypes, CallShape
<1>2. /\ call'.at = 0 /\ call'.job = NoJob /\ call'.op # "closed"
      /\ call' \in CallStates
  <2>1. NoCall \in CallStates /\ NoCall.at = 0 /\ NoCall.job = NoJob /\ NoCall.op = "none"
    BY WorkerAssumption DEF NoCall, CallStates
  <2>2. CASE ShutdownCall
    BY <2>2, WorkerAssumption DEF ShutdownCall, NoCall, CallStates
  <2>3. CASE WaitReturn
    BY <2>1, <2>3 DEF WaitReturn
  <2>4. CASE \E K \in SUBSET Jobs : WaitCall(K)
    <3>1. PICK K \in SUBSET Jobs : call' = [NoCall EXCEPT !.op = "wait", !.todo = K]
      BY <2>4 DEF WaitCall
    <3>2. QED
      BY <3>1, <2>1 DEF CallStates
  <2>5. QED
    BY <2>2, <2>3, <2>4
<1>3. call.job = NoJob
  BY <1>1 DEF WorkerInv, CallShape
<1>4. Flying' = Flying /\ Waited' = Waited
  BY <1>1, <1>2 DEF Flying, Waited
<1>5. WorkerTypes'
  BY <1>1, <1>2 DEF WorkerInv, WorkerTypes
<1>6. CallShape' /\ PendingMatches' /\ Honest'
  BY <1>1, <1>2, <1>3 DEF WorkerInv, CallShape, PendingMatches, Honest
<1>7. OnePlace'
  BY <1>1, <1>2, <1>4 DEF WorkerInv, OnePlace
<1>8. EventsOwned'
  BY <1>1, <1>4 DEF WorkerInv, EventsOwned
<1>9. EventFollows' /\ BarriersFirst'
  BY <1>1, StreamSame
<1>10. QED
  BY <1>5, <1>6, <1>7, <1>8, <1>9 DEF WorkerInv

(* wait takes a submission out of flight into its own hands.               *)
LEMMA WaitNextStep ==
    ASSUME WorkerInv, NEW j \in Jobs, WaitNext(j)
    PROVE  WorkerInv'
<1>1. /\ call.op = "wait" /\ call.at = 0
      /\ call' = [call EXCEPT !.todo = @ \ {j}, !.at = inflight[j],
                              !.job = IF inflight[j] = 0 THEN NoJob ELSE j]
      /\ inflight' = [inflight EXCEPT ![j] = 0]
      /\ UNCHANGED <<stream, kernels, submits, pending, completed, failed, orphans, handed>>
  BY DEF WaitNext
<1>2. /\ inflight \in [Jobs -> 0 .. MaxSubmits] /\ inflight[j] \in 0 .. MaxSubmits
      /\ MaxSubmits \in Nat /\ NoJob \notin Jobs
      /\ call \in CallStates
      /\ call.job = NoJob
  BY <1>1, WorkerAssumption DEF WorkerInv, WorkerTypes, CallShape
<1>3. /\ call' \in CallStates
      /\ call'.op = "wait" /\ call'.at = inflight[j]
      /\ call'.job = IF inflight[j] = 0 THEN NoJob ELSE j
  BY <1>1, <1>2 DEF CallStates
<1>4. /\ inflight' \in [Jobs -> 0 .. MaxSubmits] /\ inflight'[j] = 0
      /\ \A i \in Jobs \ {j} : inflight'[i] = inflight[i]
  BY <1>1, <1>2
<1>5. \A i, k \in Jobs : inflight[i] = inflight[k] /\ inflight[i] # 0 => i = k
  BY DEF WorkerInv, OnePlace
<1>6. Flying' = Flying \ {inflight[j]} /\ Waited = {} /\ Waited' = {inflight[j]} \ {0}
  BY <1>1, <1>3, <1>4, <1>5 DEF Flying, Waited
<1>7. {inflight[j]} \ {0} \subseteq Flying /\ 0 \notin Flying
  BY DEF Flying
<1>8. WorkerTypes'
  BY <1>1, <1>3, <1>4 DEF WorkerInv, WorkerTypes
<1>9. CallShape'
  BY <1>2, <1>3, <1>4 DEF CallShape
<1>10. PendingMatches'
  BY <1>1, <1>2, <1>3, <1>4 DEF WorkerInv, PendingMatches
<1>11. OnePlace'
  <2>1. \A i, k \in Jobs : inflight'[i] = inflight'[k] /\ inflight'[i] # 0 => i = k
    BY <1>4, <1>5
  <2>2. Flying' \cup Waited' = Flying \cup Waited /\ Flying' \cap Waited' = {}
    BY <1>6, <1>7
  <2>3. QED
    BY <2>1, <2>2, <1>1, <1>3 DEF WorkerInv, OnePlace
<1>12. Honest'
  BY <1>1 DEF WorkerInv, Honest
<1>13. EventsOwned'
  BY <1>1, <1>6, <1>7 DEF WorkerInv, EventsOwned
<1>14. EventFollows' /\ BarriersFirst'
  BY <1>1, StreamSame
<1>15. QED
  BY <1>8, <1>9, <1>10, <1>11, <1>12, <1>13, <1>14 DEF WorkerInv

(* wait turns the submission it holds into a result.                       *)
LEMMA WaitSettledStep ==
    ASSUME WorkerInv, WaitSettled
    PROVE  WorkerInv'
<1> DEFINE s == call.at
           x == Result(call.job, call.at)
<1>1. /\ call.op = "wait" /\ s # 0 /\ ~EventQueued(s)
      /\ completed' = Append(completed, x)
      /\ pending' = pending \ {call.job}
      /\ call' = [call EXCEPT !.at = 0, !.job = NoJob]
      /\ UNCHANGED <<stream, kernels, submits, inflight, failed, orphans, handed>>
  BY DEF WaitSettled, Settled
<1>2. /\ call \in CallStates
      /\ call.job \in Jobs /\ inflight[call.job] = 0 /\ s \in Submissions
      /\ completed \in Seq(Results) /\ MaxSubmits \in Nat
  BY <1>1, WorkerAssumption DEF WorkerInv, WorkerTypes, CallStates, CallShape, Submissions
<1>3. x \in Results /\ x.submission = s /\ (x.ok => x.submission \notin failed)
  BY <1>2, ResultFacts
<1> HIDE DEF x
<1>4. /\ call' \in CallStates
      /\ call'.op = "wait" /\ call'.at = 0 /\ call'.job = NoJob
  <2>1. call' = [call EXCEPT !.at = 0, !.job = NoJob] /\ call.op = "wait"
    BY <1>1
  <2>2. call \in CallStates /\ 0 \in 0 .. MaxSubmits
    BY <1>2
  <2>3. QED
    BY <2>1, <2>2 DEF CallStates
<1>5. Flying' = Flying /\ Waited' = {} /\ Waited = {s}
  BY <1>1, <1>4 DEF Flying, Waited
<1>6. /\ Distinct(completed) /\ Distinct(handed) /\ s \notin Flying /\ s \notin Subs(completed) \cup Subs(handed)
      /\ Flying \cap (Subs(completed) \cup Subs(handed)) = {}
      /\ Subs(completed) \cap Subs(handed) = {}
  BY <1>5 DEF WorkerInv, OnePlace
<1>7. /\ completed' \in Seq(Results) /\ Distinct(completed') /\ HonestLog(completed', failed)
      /\ Subs(completed') = Subs(completed) \cup {s}
  <2>1. completed' = completed \o <<x>>
    BY <1>1, <1>2, <1>3, AppendIsConcat
  <2>2. <<x>> \in Seq(Results) /\ Distinct(<<x>>) /\ HonestLog(<<x>>, failed) /\ Subs(<<x>>) = {s}
    BY <1>3, SmallLogs
  <2>3. HonestLog(completed, failed) /\ Subs(completed) \cap {s} = {}
    BY <1>6 DEF WorkerInv, Honest
  <2>4. QED
    BY <2>1, <2>2, <2>3, <1>2, <1>6, ConcatLogs
<1>8. WorkerTypes'
  BY <1>1, <1>4, <1>7 DEF WorkerInv, WorkerTypes
<1>9. CallShape' /\ PendingMatches'
  BY <1>1, <1>2, <1>4 DEF WorkerInv, CallShape, PendingMatches
<1>10. OnePlace'
  <2>1. /\ Flying' \cap Waited' = {} /\ (Flying' \cup Waited') \cap (Subs(completed') \cup Subs(handed')) = {}
        /\ Subs(completed') \cap Subs(handed') = {}
        /\ Flying' \cup Waited' \cup Subs(completed') \cup Subs(handed')
             = Flying \cup Waited \cup Subs(completed) \cup Subs(handed)
    BY <1>1, <1>5, <1>6, <1>7
  <2>2. QED
    BY <2>1, <1>1, <1>4, <1>7 DEF WorkerInv, OnePlace
<1>11. Honest'
  BY <1>1, <1>7 DEF WorkerInv, Honest
<1>12. EventsOwned'
  <2>1. \A i \in DOMAIN stream : stream[i].op = "event" => stream[i].submission # s
    BY <1>1 DEF EventQueued
  <2>2. QED
    BY <2>1, <1>1, <1>5 DEF WorkerInv, EventsOwned
<1>13. EventFollows' /\ BarriersFirst'
  BY <1>1, StreamSame
<1>14. QED
  BY <1>8, <1>9, <1>10, <1>11, <1>12, <1>13 DEF WorkerInv

(* shutdown forgets everything, and no event is left.                      *)
LEMMA CleanupStep ==
    ASSUME WorkerInv, Cleanup
    PROVE  WorkerInv'
<1>1. /\ call.op = "shutdown" /\ \A j \in Jobs : inflight[j] # 0 => ~EventQueued(inflight[j])
      /\ inflight' = [j \in Jobs |-> 0] /\ pending' = {} /\ completed' = <<>>
      /\ call' = [NoCall EXCEPT !.op = "closed"]
      /\ UNCHANGED <<stream, kernels, submits, failed, orphans, handed>>
  BY DEF Cleanup
<1>2. /\ call' \in CallStates
      /\ call'.op = "closed" /\ call'.at = 0 /\ call'.job = NoJob
  BY <1>1, WorkerAssumption DEF NoCall, CallStates
<1>3. completed' \in Seq(Results) /\ Distinct(completed') /\ HonestLog(completed', failed) /\ Subs(completed') = {}
  BY <1>1, SmallLogs
<1>4. Flying' = {} /\ Waited' = {} /\ Waited = {}
  BY <1>1, <1>2 DEF Flying, Waited, WorkerInv, CallShape
<1>5. WorkerTypes'
  BY <1>1, <1>2, <1>3, WorkerAssumption DEF WorkerInv, WorkerTypes
<1>6. CallShape' /\ PendingMatches'
  BY <1>1, <1>2, WorkerAssumption DEF CallShape, PendingMatches
<1>7. OnePlace'
  BY <1>1, <1>2, <1>3, <1>4 DEF WorkerInv, OnePlace
<1>8. Honest'
  BY <1>1, <1>3 DEF WorkerInv, Honest
<1>9. EventsOwned'
  <2>1. \A i \in DOMAIN stream : stream[i].op = "event" => stream[i].submission \notin Flying
    BY <1>1 DEF EventQueued, Flying
  <2>2. QED
    BY <2>1, <1>1, <1>4 DEF WorkerInv, EventsOwned
<1>10. EventFollows' /\ BarriersFirst'
  BY <1>1, StreamSame
<1>11. QED
  BY <1>5, <1>6, <1>7, <1>8, <1>9, <1>10 DEF WorkerInv

-----------------------------------------------------------------------------
(* Theorems of the specification.                                          *)

(* The invariant holds of a new worker.                                    *)
LEMMA WorkerInvInit ==
    ASSUME WorkerInit
    PROVE  WorkerInv
<1>1. /\ stream = <<>> /\ completed = <<>> /\ handed = <<>>
      /\ Subs(completed) = {} /\ Subs(handed) = {}
      /\ completed \in Seq(Results) /\ handed \in Seq(Results) /\ stream \in Seq(Operations)
      /\ Distinct(completed) /\ Distinct(handed)
      /\ HonestLog(completed, failed) /\ HonestLog(handed, failed)
  BY SmallLogs DEF WorkerInit
<1>2. WorkerTypes /\ CallShape /\ PendingMatches
  BY <1>1, WorkerAssumption DEF WorkerInit, NoCall, CallStates, WorkerTypes, CallShape, PendingMatches
<1>3. Flying = {} /\ Waited = {}
  BY DEF WorkerInit, NoCall, Flying, Waited
<1>4. 1 .. submits = {} /\ \A i, j \in Jobs : inflight[i] = inflight[j] /\ inflight[i] # 0 => i = j
  BY DEF WorkerInit
<1>5. OnePlace /\ Honest
  BY <1>1, <1>3, <1>4 DEF WorkerInit, OnePlace, Honest
<1>6. EventsOwned /\ EventFollows /\ BarriersFirst
  BY <1>1 DEF WorkerInit, EventsOwned, EventFollows, BarriersFirst, Guarded
<1>7. QED
  BY <1>2, <1>5, <1>6 DEF WorkerInv

(* Every step preserves the invariant.                                     *)
LEMMA WorkerInvStep ==
    ASSUME WorkerInv, [WorkerNext]_workerVars
    PROVE  WorkerInv'
<1>1. CASE \E j \in Jobs, store \in BOOLEAN :
             Submit(j, store) \/ \E n \in 0 .. Copies : SubmitRaises(j, store, n)
  BY <1>1, SubmitStep, SubmitRaisesStep
<1>2. CASE \E K \in SUBSET Jobs : GetFinished(K)
  BY <1>2, GetFinishedStep
<1>3. CASE ShutdownCall \/ WaitReturn \/ \E K \in SUBSET Jobs : WaitCall(K)
  BY <1>3, CallStep
<1>4. CASE \E j \in Jobs : WaitNext(j)
  BY <1>4, WaitNextStep
<1>5. CASE WaitSettled
  BY <1>5, WaitSettledStep
<1>6. CASE Cleanup
  BY <1>6, CleanupStep
<1>7. CASE LaunchKernel \/ RunKernel
  BY <1>7, KernelStep
<1>8. CASE RunStream
  BY <1>8, RunStreamStep
<1>9. CASE StreamError
  BY <1>9, StreamErrorStep
<1>10. CASE UNCHANGED workerVars
  <2>1. UNCHANGED <<stream, kernels, submits, inflight, pending, completed, failed, orphans, handed, call>>
    BY <1>10 DEF workerVars
  <2>2. CallShape' /\ PendingMatches' /\ OnePlace' /\ Flying' = Flying /\ Waited' = Waited
    BY <2>1, HostSame
  <2>3. EventFollows' /\ BarriersFirst'
    BY <2>1, StreamSame
  <2>4. QED
    BY <2>1, <2>2, <2>3 DEF WorkerInv, WorkerTypes, Honest, EventsOwned
<1>11. QED
  BY <1>1, <1>2, <1>3, <1>4, <1>5, <1>6, <1>7, <1>8, <1>9, <1>10 DEF WorkerNext, HostContinues

(* In every reachable state of the copy worker a submission is in one place, *)
(* its event is queued behind its copies and only while the worker knows it, *)
(* and a store's copies wait behind their barrier.                           *)
THEOREM WorkerInvariant == WorkerSpec => []WorkerInv
<1>1. WorkerInit => WorkerInv
  BY WorkerInvInit
<1>2. WorkerInv /\ [WorkerNext]_workerVars => WorkerInv'
  BY WorkerInvStep
<1>3. QED
  BY <1>1, <1>2, PTL DEF WorkerSpec

(* No copy runs on blocks the worker no longer answers for: get_finished,  *)
(* wait and shutdown let go of a transfer only behind its event.           *)
THEOREM WorkerCopiesOwned == WorkerSpec => []CopiesHaveOwner
<1>1. ASSUME WorkerInv
      PROVE  CopiesHaveOwner
  <2>1. SUFFICES ASSUME NEW i \in DOMAIN stream, stream[i].op = "copy",
                        stream[i].submission \notin orphans
                 PROVE  stream[i].submission \in {inflight[j] : j \in Jobs} \cup {call.at}
    BY DEF CopiesHaveOwner
  <2>2. PICK e \in DOMAIN stream : /\ stream[e].op = "event"
                                   /\ stream[e].submission = stream[i].submission
    BY <2>1, <1>1 DEF WorkerInv, EventFollows
  <2>3. stream[e].submission \in Flying \cup Waited
    BY <2>2, <1>1 DEF WorkerInv, EventsOwned
  <2>4. QED
    BY <2>2, <2>3 DEF Flying, Waited
<1>2. QED
  BY <1>1, WorkerInvariant, PTL

(* A store's copy runs only after the kernels launched before submit_store: *)
(* wait_stream orders it behind the runner's compute stream.                *)
THEOREM WorkerStoresReadStable == WorkerSpec => StoresReadStable
<1>1. ASSUME WorkerInv
      PROVE  \A head \in {stream[i] : i \in (DOMAIN stream) \cap {1}} :
                head.op = "copy" /\ head.store => kernels.run >= head.after
  <2>1. SUFFICES ASSUME 1 \in DOMAIN stream, stream[1].op = "copy", stream[1].store
                 PROVE  kernels.run >= stream[1].after
    OBVIOUS
  <2>2. \A b \in DOMAIN stream : ~(b < 1)
    BY <1>1, LenProperties DEF WorkerInv, WorkerTypes
  <2>3. QED
    BY <1>1, <2>1, <2>2 DEF WorkerInv, BarriersFirst, Guarded
<1>2. WorkerInv => [\A head \in {stream[i] : i \in (DOMAIN stream) \cap {1}} :
         (head.op = "copy" /\ head.store /\ stream' = Tail(stream) /\ failed' = failed)
            => kernels.run >= head.after]_workerVars
  BY <1>1
<1>3. QED
  BY <1>2, WorkerInvariant, PTL DEF StoresReadStable

(* A set with at most one element has that many elements.                  *)
LEMMA AtMostOne ==
    ASSUME NEW S, \A x, y \in S : x = y
    PROVE  Cardinality(S) = IF S = {} THEN 0 ELSE 1
<1>1. CASE S = {}
  BY <1>1, FS_EmptySet
<1>2. CASE S # {}
  <2>1. PICK x : S = {x}
    BY <1>2
  <2>2. QED
    BY <2>1, FS_Singleton
<1>3. QED
  BY <1>1, <1>2

(* The worker's accounting: until shutdown every accepted transfer is in    *)
(* flight, held by wait, among the results or handed out, exactly once, and *)
(* handed out as a success only if no error hit its copies.                 *)
THEOREM WorkerResultsAccountedFor == WorkerSpec => []ResultsAccountedFor
<1>1. ASSUME WorkerInv
      PROVE  ResultsAccountedFor
  <2>1. ASSUME NEW q, Distinct(q), NEW s
        PROVE  Times(q, s) = IF s \in Subs(q) THEN 1 ELSE 0
    <3> DEFINE S == {i \in DOMAIN q : q[i].submission = s}
    <3>1. \A x, y \in S : x = y
      BY <2>1 DEF Distinct
    <3>2. S = {} <=> s \notin Subs(q)
      BY DEF Subs
    <3> HIDE DEF S
    <3>3. Cardinality(S) = IF S = {} THEN 0 ELSE 1
      BY <3>1, AtMostOne
    <3>4. QED
      BY <3>2, <3>3 DEF Times, S
  <2>2. ASSUME call.op # "closed", NEW s \in (1 .. submits) \ orphans
        PROVE  Cardinality({j \in Jobs : inflight[j] = s}) + (IF call.at = s THEN 1 ELSE 0)
                 + Times(completed, s) + Times(handed, s) = 1
    <3> DEFINE S == {j \in Jobs : inflight[j] = s}
    <3>1. s # 0
      BY <2>2
    <3>2. \A x, y \in S : x = y
      BY <1>1, <3>1 DEF WorkerInv, OnePlace
    <3>3. (S = {} <=> s \notin Flying) /\ (call.at = s <=> s \in Waited)
      BY <3>1 DEF Flying, Waited
    <3> HIDE DEF S
    <3>4. Cardinality(S) = IF s \in Flying THEN 1 ELSE 0
      BY <3>2, <3>3, AtMostOne
    <3>5. /\ Times(completed, s) = IF s \in Subs(completed) THEN 1 ELSE 0
          /\ Times(handed, s) = IF s \in Subs(handed) THEN 1 ELSE 0
      BY <1>1, <2>1 DEF WorkerInv, OnePlace
    <3>6. /\ s \in Flying \cup Waited \cup Subs(completed) \cup Subs(handed)
          /\ Flying \cap Waited = {} /\ Subs(completed) \cap Subs(handed) = {}
          /\ (Flying \cup Waited) \cap (Subs(completed) \cup Subs(handed)) = {}
      BY <1>1, <2>2 DEF WorkerInv, OnePlace
    <3>7. QED
      BY <3>3, <3>4, <3>5, <3>6 DEF S
  <2>3. QED
    BY <1>1, <2>2 DEF ResultsAccountedFor, WorkerInv, WorkerTypes, PendingMatches, Honest, HonestLog
<1>2. QED
  BY <1>1, WorkerInvariant, PTL
===============================================================================
