--------------------------- MODULE AsyncLookupProofs ---------------------------
(* Theorems about AsyncLookup, for every value of its constants. *)
EXTENDS AsyncLookup, SequenceTheorems, WellFoundedInduction, TLAPS

(* What the results s say of key k last.                                   *)
Latest(s, k) == k \in s[Max(Places(s, k))].hits

(* The worker that waits for a batch has nothing left of the last one.     *)
WorkerAtRest == worker # "check" => left = {} /\ results = <<>>

(* The last result of a key on its way to the scheduler is that of the     *)
(* latest check: the worker's own results are newer than the posted ones.  *)
ResultsLatest == \A k \in Keys : Places(results, k) # {} => Latest(results, k) = last[k]
PendingLatest ==
    \A k \in Keys : Places(results, k) = {} /\ Places(pending, k) # {} => Latest(pending, k) = last[k]

LookupInv ==
    /\ TypeOK /\ IndexesAgree /\ NoLookupLost /\ SettledAnswerIsLatest
    /\ WorkerAtRest /\ ResultsLatest /\ PendingLatest

-----------------------------------------------------------------------------
(* A non-empty set of places of a sequence has a largest element.  The     *)
(* distances to the end of the sequence have a smallest one.               *)
LEMMA LargestPlace ==
    ASSUME NEW n \in Nat, NEW T \in SUBSET (1 .. n), T # {}
    PROVE  Max(T) \in T /\ \A i \in T : i <= Max(T)
<1> DEFINE R == OpToRel(<, Nat)
           D == {n - i : i \in T}
<1>1. IsWellFoundedOn(R, Nat)
  BY NatLessThanWellFounded
<1>2. \A a, b \in Nat : <<a, b>> \in R <=> a < b
  BY DEF OpToRel
<1> HIDE DEF R
<1>3. \A i \in T : i \in Nat /\ n - i \in Nat
  OBVIOUS
<1>4. D \subseteq Nat
  BY <1>3
<1>5. D # {}
  OBVIOUS
<1>6. \A i \in T : n - i \in D
  OBVIOUS
<1>7. \A e \in D : \E i \in T : e = n - i
  OBVIOUS
<1> HIDE DEF D
<1>8. PICK d \in D : \A e \in D : ~(<<e, d>> \in R)
  BY <1>1, <1>4, <1>5, WFMin
<1>9. PICK m \in T : d = n - m
  BY <1>7
<1>10. \A i \in T : ~(n - i < n - m)
  BY <1>2, <1>3, <1>6, <1>8, <1>9
<1>11. \A i \in T : m >= i
  BY <1>3, <1>10
<1>12. \A x \in T : (\A y \in T : x >= y) => x = m
  BY <1>3, <1>11
<1>13. Max(T) = m
  BY <1>11, <1>12 DEF Max
<1>14. QED
  BY <1>3, <1>11, <1>13

(* The largest place is the one that no other exceeds.                     *)
LEMMA LargestIs ==
    ASSUME NEW T \in SUBSET Nat, NEW m \in T, \A i \in T : i <= m
    PROVE  Max(T) = m
<1>1. \A x \in T : (\A y \in T : x >= y) => x = m
  OBVIOUS
<1>2. \A y \in T : m >= y
  OBVIOUS
<1>3. QED
  BY <1>1, <1>2 DEF Max

(* The last result of a key among results that speak of it.                *)
LEMMA LastPlace ==
    ASSUME NEW s \in Seq(Found), NEW k, Places(s, k) # {}
    PROVE  /\ Max(Places(s, k)) \in Places(s, k)
           /\ \A i \in Places(s, k) : i <= Max(Places(s, k))
<1>1. Len(s) \in Nat /\ Places(s, k) \in SUBSET (1 .. Len(s))
  BY LenProperties DEF Places
<1>2. QED
  BY <1>1, LargestPlace

(* Results recorded behind others.                                         *)
LEMMA LatestAppend ==
    ASSUME NEW s \in Seq(Found), NEW e \in Found, NEW k
    PROVE  /\ k \in e.keys => /\ Places(Append(s, e), k) # {}
                              /\ Latest(Append(s, e), k) = (k \in e.hits)
           /\ k \notin e.keys => /\ Places(Append(s, e), k) = Places(s, k)
                                 /\ Places(s, k) # {} => Latest(Append(s, e), k) = Latest(s, k)
<1> DEFINE t == Append(s, e)
<1>1. /\ t \in Seq(Found) /\ Len(s) \in Nat /\ Len(t) = Len(s) + 1
      /\ DOMAIN t = 1 .. Len(t) /\ DOMAIN s = 1 .. Len(s)
      /\ \A i \in 1 .. Len(s) : t[i] = s[i]
      /\ t[Len(s) + 1] = e
  BY AppendProperties, LenProperties
<1> HIDE DEF t
<1>2. ASSUME k \in e.keys
      PROVE  Places(t, k) # {} /\ Latest(t, k) = (k \in e.hits)
  <2>1. Len(s) + 1 \in Places(t, k) /\ Places(t, k) \in SUBSET Nat
    BY <1>1, <1>2 DEF Places
  <2>2. \A i \in Places(t, k) : i <= Len(s) + 1
    BY <1>1 DEF Places
  <2>3. Max(Places(t, k)) = Len(s) + 1
    BY <2>1, <2>2, LargestIs
  <2>4. t[Max(Places(t, k))] = e
    BY <2>3, <1>1
  <2>5. Latest(t, k) = (k \in e.hits)
    BY <2>4, Zenon DEF Latest
  <2>6. QED
    BY <2>1, <2>5
<1>3. ASSUME k \notin e.keys
      PROVE  /\ Places(t, k) = Places(s, k)
             /\ Places(s, k) # {} => Latest(t, k) = Latest(s, k)
  <2>1. Places(t, k) = Places(s, k)
    BY <1>1, <1>3 DEF Places
  <2>2. ASSUME Places(s, k) # {}
        PROVE  Latest(t, k) = Latest(s, k)
    <3>1. Max(Places(s, k)) \in 1 .. Len(s)
      BY <2>2, <1>1, LastPlace DEF Places
    <3>2. t[Max(Places(t, k))] = s[Max(Places(s, k))]
      BY <3>1, <2>1, <1>1
    <3>3. QED
      BY <3>2, Zenon DEF Latest
  <2>3. QED
    BY <2>1, <2>2
<1>4. QED
  BY <1>2, <1>3 DEF t

(* Results posted behind others.                                           *)
LEMMA LatestConcat ==
    ASSUME NEW s \in Seq(Found), NEW r \in Seq(Found), NEW k
    PROVE  /\ Places(r, k) # {} => /\ Places(s \o r, k) # {}
                                   /\ Latest(s \o r, k) = Latest(r, k)
           /\ Places(r, k) = {} => /\ Places(s \o r, k) = Places(s, k)
                                   /\ Places(s, k) # {} => Latest(s \o r, k) = Latest(s, k)
<1> DEFINE t == s \o r
<1>1. /\ t \in Seq(Found) /\ Len(s) \in Nat /\ Len(r) \in Nat /\ Len(t) = Len(s) + Len(r)
      /\ DOMAIN t = 1 .. Len(t) /\ DOMAIN s = 1 .. Len(s) /\ DOMAIN r = 1 .. Len(r)
      /\ \A i \in 1 .. Len(s) : t[i] = s[i]
      /\ \A i \in 1 .. Len(r) : t[Len(s) + i] = r[i]
  BY ConcatProperties, LenProperties
<1> HIDE DEF t
<1>2. ASSUME Places(r, k) # {}
      PROVE  Places(t, k) # {} /\ Latest(t, k) = Latest(r, k)
  <2> DEFINE m == Max(Places(r, k))
  <2>1. m \in Places(r, k) /\ \A i \in Places(r, k) : i <= m
    BY <1>2, LastPlace
  <2> HIDE DEF m
  <2>2. m \in 1 .. Len(r) /\ k \in r[m].keys
    BY <2>1, <1>1 DEF Places
  <2>3. t[Len(s) + m] = r[m] /\ Len(s) + m \in 1 .. Len(t)
    BY <2>2, <1>1
  <2>4. Len(s) + m \in Places(t, k) /\ Places(t, k) \in SUBSET Nat
    BY <2>2, <2>3, <1>1 DEF Places
  <2>5. ASSUME NEW i \in Places(t, k)
        PROVE  i <= Len(s) + m
    <3>1. i \in 1 .. Len(s) + Len(r) /\ k \in t[i].keys
      BY <2>5, <1>1 DEF Places
    <3>2. CASE i > Len(s)
      <4>1. i - Len(s) \in 1 .. Len(r) /\ i = Len(s) + (i - Len(s))
        BY <3>1, <3>2, <1>1
      <4>2. t[i] = r[i - Len(s)]
        BY <4>1, <1>1
      <4>3. i - Len(s) \in Places(r, k)
        BY <3>1, <4>1, <4>2, <1>1 DEF Places
      <4>4. QED
        BY <4>3, <2>1, <2>2, <3>1, <1>1
    <3>3. CASE ~(i > Len(s))
      BY <3>1, <3>3, <2>2, <1>1
    <3>4. QED
      BY <3>2, <3>3
  <2>6. Max(Places(t, k)) = Len(s) + m
    BY <2>4, <2>5, LargestIs
  <2>7. t[Max(Places(t, k))] = r[Max(Places(r, k))]
    BY <2>3, <2>6 DEF m
  <2>8. Latest(t, k) = Latest(r, k)
    BY <2>7, Zenon DEF Latest
  <2>9. QED
    BY <2>4, <2>8
<1>3. ASSUME Places(r, k) = {}
      PROVE  /\ Places(t, k) = Places(s, k)
             /\ Places(s, k) # {} => Latest(t, k) = Latest(s, k)
  <2>1. \A i \in Places(t, k) : i \in Places(s, k)
    <3> SUFFICES ASSUME NEW i \in Places(t, k)
                 PROVE  i \in Places(s, k)
      OBVIOUS
    <3>1. i \in 1 .. Len(s) + Len(r) /\ k \in t[i].keys
      BY <1>1 DEF Places
    <3>2. CASE i > Len(s)
      <4>1. i - Len(s) \in 1 .. Len(r) /\ i = Len(s) + (i - Len(s))
        BY <3>1, <3>2, <1>1
      <4>2. t[i] = r[i - Len(s)]
        BY <4>1, <1>1
      <4>3. i - Len(s) \in Places(r, k)
        BY <3>1, <4>1, <4>2, <1>1 DEF Places
      <4>4. QED
        BY <4>3, <1>3
    <3>3. CASE ~(i > Len(s))
      BY <3>1, <3>3, <1>1 DEF Places
    <3>4. QED
      BY <3>2, <3>3
  <2>2. \A i \in Places(s, k) : i \in Places(t, k)
    BY <1>1 DEF Places
  <2>3. Places(t, k) = Places(s, k)
    BY <2>1, <2>2
  <2>4. ASSUME Places(s, k) # {}
        PROVE  Latest(t, k) = Latest(s, k)
    <3>1. Max(Places(s, k)) \in 1 .. Len(s)
      BY <2>4, <1>1, LastPlace DEF Places
    <3>2. t[Max(Places(t, k))] = s[Max(Places(s, k))]
      BY <3>1, <2>3, <1>1
    <3>3. QED
      BY <3>2, Zenon DEF Latest
  <2>5. QED
    BY <2>3, <2>4
<1>4. QED
  BY <1>2, <1>3 DEF t

-----------------------------------------------------------------------------
(* What drain_results does to the entries.                                 *)

(* The fields of an entry.                                                 *)
LEMMA EntryFacts ==
    ASSUME NEW e \in LookupState
    PROVE  e.result \in BOOLEAN \cup {None} /\ e.ids \in SUBSET Reqs
BY DEF LookupState

(* An entry that takes a result.                                           *)
LEMMA EntryAnswered ==
    ASSUME NEW e \in LookupState, NEW v \in BOOLEAN \cup {None}
    PROVE  /\ [e EXCEPT !.result = v] \in LookupState
           /\ [e EXCEPT !.result = v].result = v /\ [e EXCEPT !.result = v].ids = e.ids
<1> DEFINE V == BOOLEAN \cup {None}
<1>1. LookupState = [result : V, ids : SUBSET Reqs] /\ v \in V
  BY DEF LookupState
<1> HIDE DEF V
<1>2. QED
  BY <1>1

(* An entry whose requests change.                                         *)
LEMMA EntryAsked ==
    ASSUME NEW e \in LookupState, NEW I \in SUBSET Reqs
    PROVE  /\ [e EXCEPT !.ids = I] \in LookupState
           /\ [e EXCEPT !.ids = I].ids = I /\ [e EXCEPT !.ids = I].result = e.result
<1> DEFINE V == BOOLEAN \cup {None}
<1>1. LookupState = [result : V, ids : SUBSET Reqs]
  BY DEF LookupState
<1> HIDE DEF V
<1>2. QED
  BY <1>1

(* What the scheduler knows of a key once it has drained the results.      *)
LEMMA AnswerFacts ==
    ASSUME TypeOK, NEW k \in Keys, Tracked(k)
    PROVE  /\ Answer(k) \in BOOLEAN \cup {None}
           /\ Places(pending, k) # {} => Answer(k) = Latest(pending, k) /\ Answer(k) # None
           /\ Places(pending, k) = {} => Answer(k) = state[k].result
<1>1. state[k] \in LookupState
  BY DEF TypeOK, Tracked
<1>2. state[k].result \in BOOLEAN \cup {None}
  BY <1>1, EntryFacts
<1>3. ASSUME Places(pending, k) # {}
      PROVE  Answer(k) = Latest(pending, k)
  BY <1>3, Zenon DEF Answer, Latest
<1>4. Latest(pending, k) \in BOOLEAN
  BY DEF Latest
<1>5. ASSUME Places(pending, k) = {}
      PROVE  Answer(k) = state[k].result
  BY <1>5, Zenon DEF Answer
<1>6. None \notin BOOLEAN
  BY LookupAssumption
<1>7. CASE Places(pending, k) # {}
  <2>1. Answer(k) \in BOOLEAN
    BY <1>7, <1>3, <1>4, Zenon
  <2>2. QED
    BY <1>7, <2>1, <1>3, <1>6, Zenon
<1>8. CASE Places(pending, k) = {}
  BY <1>8, <1>5, <1>2, Zenon
<1>9. QED
  BY <1>7, <1>8

(* The entries after drain_results.                                        *)
LEMMA DrainedFacts ==
    ASSUME TypeOK
    PROVE  /\ Drained \in [Keys -> LookupState \cup {NoState}]
           /\ \A k \in Keys : /\ Tracked(k) => /\ Drained[k] \in LookupState
                                               /\ Drained[k].result = Answer(k)
                                               /\ Drained[k].ids = state[k].ids
                              /\ ~Tracked(k) => Drained[k] = NoState
<1>1. DOMAIN Drained = Keys
  BY DEF Drained
<1>2. ASSUME NEW k \in Keys
      PROVE  /\ Tracked(k) => /\ Drained[k] \in LookupState
                              /\ Drained[k].result = Answer(k)
                              /\ Drained[k].ids = state[k].ids
             /\ ~Tracked(k) => Drained[k] = NoState
  <2>1. CASE Tracked(k)
    <3>1. state[k] \in LookupState /\ state[k].ids \in SUBSET Reqs
      BY <2>1, EntryFacts DEF TypeOK, Tracked
    <3>2. Answer(k) \in BOOLEAN \cup {None}
      BY <2>1, AnswerFacts
    <3>3. Drained[k] = [state[k] EXCEPT !.result = Answer(k)]
      BY <2>1, Zenon DEF Drained
    <3> DEFINE e == state[k]
               v == Answer(k)
               V == BOOLEAN \cup {None}
    <3>4. e \in LookupState /\ v \in V
      BY <3>1, <3>2
    <3> HIDE DEF e, v
    <3>5. /\ [e EXCEPT !.result = v] \in LookupState
          /\ [e EXCEPT !.result = v].result = v /\ [e EXCEPT !.result = v].ids = e.ids
      BY <3>4, EntryAnswered
    <3>6. Drained[k] = [e EXCEPT !.result = v]
      BY <3>3 DEF e, v
    <3>7. QED
      BY <2>1, <3>5, <3>6, Zenon DEF e, v
  <2>2. CASE ~Tracked(k)
    BY <2>2, Zenon DEF Drained
  <2>3. QED
    BY <2>1, <2>2
<1>3. Drained = [k \in Keys |-> Drained[k]]
  BY DEF Drained
<1>4. \A k \in Keys : Drained[k] \in LookupState \cup {NoState}
  BY <1>2
<1>5. QED
  BY <1>2, <1>3, <1>4

(* The places of an empty sequence, and of an unchanged one.               *)
LEMMA NoPlaces ==
    ASSUME NEW k
    PROVE  Places(<<>>, k) = {}
BY DEF Places

-----------------------------------------------------------------------------
(* The steps of the scheduler thread.                                      *)

(* What lookup(k, r) does to the entries: every entry has taken its        *)
(* results, r has joined the requests of k, and a new entry has its check   *)
(* in the batch.                                                           *)
LEMMA LookupEntries ==
    ASSUME LookupInv, NEW k \in Keys, NEW r \in Reqs, Lookup(k, r)
    PROVE  /\ state' \in [Keys -> LookupState \cup {NoState}] /\ batch' \in Seq(Pairs)
           /\ \A h \in Keys : Checking(h) => Checking(h)'
           /\ \A h \in Keys : Tracked(h)' <=> Tracked(h) \/ h = k
           /\ \A h \in Keys : Tracked(h) => state'[h].result = Answer(h)
           /\ \A h \in Keys : Tracked(h) /\ h # k => state'[h].ids = state[h].ids
           /\ Tracked(k) => state'[k].ids = state[k].ids \cup {r}
           /\ ~Tracked(k) => /\ state'[k].result = None /\ state'[k].ids = {r}
                             /\ Checking(k)'
<1> DEFINE D == Drained
<1>1. /\ D \in [Keys -> LookupState \cup {NoState}]
      /\ \A h \in Keys : /\ Tracked(h) => /\ D[h] \in LookupState
                                          /\ D[h].result = Answer(h)
                                          /\ D[h].ids = state[h].ids
                         /\ ~Tracked(h) => D[h] = NoState
  BY DrainedFacts DEF LookupInv
<1>2. NoState \notin LookupState
  BY LookupAssumption
<1>3. /\ queue' = queue /\ work' = work /\ left' = left /\ batch \in Seq(Pairs)
      /\ Tracked(k) => state' = [D EXCEPT ![k].ids = @ \cup {r}] /\ batch' = batch
      /\ ~Tracked(k) => /\ state' = [D EXCEPT ![k] = [result |-> None, ids |-> {r}]]
                        /\ batch' = Append(batch, <<k, r>>)
  BY DEF Lookup, LookupInv, TypeOK, thread
<1> HIDE DEF D
<1>4. CASE Tracked(k)
  <2> DEFINE e == D[k]
             I == e.ids \cup {r}
             f == [e EXCEPT !.ids = I]
  <2>1. e \in LookupState /\ e.ids \in SUBSET Reqs /\ I \in SUBSET Reqs
    BY <1>1, <1>4, EntryFacts
  <2>2. state' = [D EXCEPT ![k] = f]
    BY <1>1, <1>3, <1>4
  <2> HIDE DEF I, e
  <2>3. f \in LookupState /\ f.ids = I /\ f.result = e.result
    BY <2>1, EntryAsked
  <2> HIDE DEF f
  <2>4. state'[k] = f /\ \A h \in Keys : h # k => state'[h] = D[h]
    BY <1>1, <2>2
  <2>5. state' \in [Keys -> LookupState \cup {NoState}]
    BY <1>1, <2>2, <2>3
  <2>6. \A h \in Keys : Tracked(h)' <=> Tracked(h)
    BY <1>1, <1>2, <1>4, <2>3, <2>4 DEF Tracked
  <2>7. \A h \in Keys : Tracked(h) => state'[h].result = Answer(h)
    BY <1>1, <1>4, <2>3, <2>4 DEF e
  <2>8. state'[k].ids = state[k].ids \cup {r}
    BY <1>1, <1>4, <2>3, <2>4 DEF e, I
  <2>9. \A h \in Keys : Checking(h) => Checking(h)'
    BY <1>3, <1>4 DEF Checking
  <2>10. QED
    BY <1>1, <1>3, <1>4, <2>4, <2>5, <2>6, <2>7, <2>8, <2>9
<1>5. CASE ~Tracked(k)
  <2> DEFINE f == [result |-> None, ids |-> {r}]
  <2>1. f \in LookupState /\ f.result = None /\ f.ids = {r}
    <3>1. f.result = None /\ f.ids = {r}
      OBVIOUS
    <3>2. f \in LookupState
      <4> DEFINE V == BOOLEAN \cup {None}
      <4>1. LookupState = [result : V, ids : SUBSET Reqs] /\ None \in V
        BY DEF LookupState
      <4> HIDE DEF V
      <4>2. QED
        BY <4>1
    <3>3. QED
      BY <3>1, <3>2
  <2>2. state' = [D EXCEPT ![k] = f]
    BY <1>3, <1>5
  <2> HIDE DEF f
  <2>3. state'[k] = f /\ \A h \in Keys : h # k => state'[h] = D[h]
    BY <1>1, <2>2
  <2>4. state' \in [Keys -> LookupState \cup {NoState}]
    BY <1>1, <2>1, <2>2
  <2>5. \A h \in Keys : Tracked(h)' <=> Tracked(h) \/ h = k
    BY <1>1, <1>2, <1>5, <2>1, <2>3 DEF Tracked
  <2>6. \A h \in Keys : Tracked(h) => h # k /\ state'[h].result = Answer(h) /\ state'[h].ids = state[h].ids
    BY <1>1, <1>5, <2>3
  <2>7. batch' \in Seq(Pairs) /\ Checking(k)' /\ \A h \in Keys : Checking(h) => Checking(h)'
    <3>1. <<k, r>> \in Pairs
      BY DEF Pairs
    <3> DEFINE u == <<k, r>>
    <3>2. u \in Pairs /\ u[1] = k /\ batch' = Append(batch, u)
      BY <3>1, <1>3, <1>5
    <3> HIDE DEF u
    <3>3. /\ batch' \in Seq(Pairs) /\ Len(batch) \in Nat /\ DOMAIN batch = 1 .. Len(batch)
          /\ DOMAIN batch' = 1 .. Len(batch) + 1
          /\ \A i \in 1 .. Len(batch) : batch'[i] = batch[i]
          /\ batch'[Len(batch) + 1] = u
      BY <1>3, <3>2, AppendProperties, LenProperties
    <3>4. \A i \in DOMAIN batch : i \in DOMAIN batch' /\ batch'[i] = batch[i]
      BY <3>3
    <3>5. Len(batch) + 1 \in DOMAIN batch' /\ batch'[Len(batch) + 1][1] = k
      BY <3>2, <3>3
    <3>6. Checking(k)'
      BY <3>5 DEF Checking
    <3>7. \A h \in Keys : Checking(h) => Checking(h)'
      BY <1>3, <3>4 DEF Checking
    <3>8. QED
      BY <3>3, <3>6, <3>7
  <2>8. QED
    BY <1>5, <2>1, <2>3, <2>4, <2>5, <2>6, <2>7
<1>6. QED
  BY <1>4, <1>5

(* lookup keeps the invariant: a drained result is the latest unless a     *)
(* newer one is still with the worker.                                     *)
LEMMA LookupStep ==
    ASSUME LookupInv, NEW k \in Keys, NEW r \in Reqs, Lookup(k, r)
    PROVE  LookupInv'
<1>1. /\ state' \in [Keys -> LookupState \cup {NoState}] /\ batch' \in Seq(Pairs)
      /\ \A h \in Keys : Checking(h) => Checking(h)'
      /\ \A h \in Keys : Tracked(h)' <=> Tracked(h) \/ h = k
      /\ \A h \in Keys : Tracked(h) => state'[h].result = Answer(h)
      /\ \A h \in Keys : Tracked(h) /\ h # k => state'[h].ids = state[h].ids
      /\ Tracked(k) => state'[k].ids = state[k].ids \cup {r}
      /\ ~Tracked(k) => /\ state'[k].result = None /\ state'[k].ids = {r}
                        /\ Checking(k)'
  BY LookupEntries
<1>2. /\ queue' = queue /\ worker' = worker /\ work' = work /\ left' = left /\ results' = results
      /\ last' = last /\ sched' = sched /\ pending' = <<>>
      /\ reqKeys' = [reqKeys EXCEPT ![r] = @ \cup {k}]
  BY DEF Lookup, thread
<1>3. reqKeys \in [Reqs -> SUBSET Keys] /\ reqKeys' \in [Reqs -> SUBSET Keys]
  BY <1>2 DEF LookupInv, TypeOK
<1>4. TypeOK'
  <2>1. pending' \in Seq(Found)
    BY <1>2
  <2>2. QED
    BY <1>1, <1>2, <1>3, <2>1 DEF LookupInv, TypeOK
<1>5. IndexesAgree'
  <2> SUFFICES ASSUME NEW h \in Keys
               PROVE  IF Tracked(h)'
                      THEN state'[h].ids = {q \in Reqs : h \in reqKeys'[q]} /\ {q \in Reqs : h \in reqKeys'[q]} # {}
                      ELSE {q \in Reqs : h \in reqKeys'[q]} = {}
    BY DEF IndexesAgree, Tracked
  <2> DEFINE A == {q \in Reqs : h \in reqKeys[q]}
             B == {q \in Reqs : h \in reqKeys'[q]}
  <2>1. IF Tracked(h) THEN state[h].ids = A /\ A # {} ELSE A = {}
    BY DEF LookupInv, IndexesAgree
  <2>2. CASE h = k
    <3>1. B = A \cup {r}
      BY <1>2, <1>3, <2>2
    <3> HIDE DEF A, B
    <3>2. QED
      BY <1>1, <2>1, <2>2, <3>1 DEF B
  <2>3. CASE h # k
    <3>1. B = A
      BY <1>2, <1>3, <2>3
    <3> HIDE DEF A, B
    <3>2. QED
      BY <1>1, <2>1, <2>3, <3>1 DEF B
  <2>4. QED
    BY <2>2, <2>3
<1>6. \A h \in Keys : Checking(h) \/ Places(results, h) # {} => InFlight(h)'
  BY <1>1, <1>2 DEF InFlight
<1>7. \A h \in Keys : Tracked(h) =>
        /\ Places(pending, h) # {} => Answer(h) = Latest(pending, h) /\ Answer(h) # None
        /\ Places(pending, h) = {} => Answer(h) = state[h].result
  BY AnswerFacts DEF LookupInv
<1>8. NoLookupLost'
  <2> SUFFICES ASSUME NEW h \in Keys, Tracked(h)', state'[h].result = None
               PROVE  InFlight(h)'
    BY DEF NoLookupLost
  <2>1. CASE Tracked(h)
    <3>1. Answer(h) = None
      BY <1>1, <2>1
    <3>2. Places(pending, h) = {} /\ state[h].result = None
      BY <3>1, <1>7, <2>1
    <3>3. InFlight(h)
      BY <2>1, <3>2 DEF LookupInv, NoLookupLost
    <3>4. QED
      BY <3>2, <3>3, <1>6 DEF InFlight
  <2>2. CASE ~Tracked(h)
    BY <1>1, <2>2 DEF InFlight
  <2>3. QED
    BY <2>1, <2>2
<1>9. SettledAnswerIsLatest'
  <2> SUFFICES ASSUME NEW h \in Keys, Tracked(h)', ~InFlight(h)'
               PROVE  state'[h].result = last'[h]
    BY DEF SettledAnswerIsLatest
  <2>1. Tracked(h) /\ ~Checking(h) /\ Places(results, h) = {}
    BY <1>1, <1>6 DEF InFlight
  <2>2. CASE Places(pending, h) # {}
    <3>1. Latest(pending, h) = last[h]
      BY <2>1, <2>2, Zenon DEF LookupInv, PendingLatest
    <3>2. QED
      BY <1>1, <1>2, <1>7, <2>1, <2>2, <3>1, Zenon
  <2>3. CASE Places(pending, h) = {}
    <3>1. state[h].result = last[h]
      BY <2>1, <2>3 DEF InFlight, LookupInv, SettledAnswerIsLatest
    <3>2. QED
      BY <1>1, <1>2, <1>7, <2>1, <2>3, <3>1, Zenon
  <2>4. QED
    BY <2>2, <2>3
<1>10. WorkerAtRest' /\ ResultsLatest'
  BY <1>2, Zenon DEF LookupInv, WorkerAtRest, ResultsLatest, Latest, Places
<1>11. PendingLatest'
  BY <1>2, NoPlaces DEF PendingLatest
<1>12. QED
  BY <1>4, <1>5, <1>8, <1>9, <1>10, <1>11 DEF LookupInv

(* A step that answers no key, makes no check and loses none keeps what    *)
(* the invariant says of the answers.                                      *)
LEMMA AnswersKept ==
    ASSUME LookupInv, TypeOK', IndexesAgree', WorkerAtRest',
           \A h \in Keys : Tracked(h)' => Tracked(h) /\ state'[h].result = state[h].result,
           \A h \in Keys : Checking(h) => Checking(h)',
           results' = results, pending' = pending, last' = last
    PROVE  LookupInv'
<1>1. \A h \in Keys : InFlight(h) => InFlight(h)'
  BY DEF InFlight
<1>2. NoLookupLost'
  BY <1>1 DEF LookupInv, NoLookupLost
<1>3. SettledAnswerIsLatest'
  BY <1>1, Zenon DEF LookupInv, SettledAnswerIsLatest
<1>4. ResultsLatest' /\ PendingLatest'
  BY Zenon DEF LookupInv, ResultsLatest, PendingLatest, Latest, Places
<1>5. QED
  BY <1>2, <1>3, <1>4 DEF LookupInv

(* flush keeps the invariant.                                              *)
LEMMA FlushStep ==
    ASSUME LookupInv, Flush
    PROVE  LookupInv'
<1>1. /\ queue' = Append(queue, batch) /\ batch' = <<>>
      /\ UNCHANGED <<state, reqKeys, sched, worker, work, left, results, last, pending>>
  BY DEF Flush, thread
<1> DEFINE Q == Seq(Pairs) \cup {Stop}
<1>2. queue \in Seq(Q) /\ batch \in Q /\ batch \in Seq(Pairs) /\ batch # Stop
  BY LookupAssumption DEF LookupInv, TypeOK
<1> HIDE DEF Q
<1>3. /\ queue' \in Seq(Q) /\ Len(queue) \in Nat /\ DOMAIN queue = 1 .. Len(queue)
      /\ DOMAIN queue' = 1 .. Len(queue) + 1
      /\ \A i \in 1 .. Len(queue) : queue'[i] = queue[i]
      /\ queue'[Len(queue) + 1] = batch
  BY <1>1, <1>2, AppendProperties, LenProperties
<1>4. TypeOK'
  <2>1. batch' \in Seq(Pairs) /\ queue' \in Seq(Seq(Pairs) \cup {Stop})
    BY <1>1, <1>3 DEF Q
  <2>2. QED
    BY <1>1, <2>1 DEF LookupInv, TypeOK
<1>5. \A h \in Keys : Checking(h) => Checking(h)'
  <2>1. \A i \in DOMAIN queue : i \in DOMAIN queue' /\ queue'[i] = queue[i]
    BY <1>3
  <2>2. Len(queue) + 1 \in DOMAIN queue'
    BY <1>3
  <2>3. QED
    BY <1>1, <1>2, <1>3, <2>1, <2>2 DEF Checking
<1>6. IndexesAgree' /\ WorkerAtRest'
  BY <1>1 DEF LookupInv, IndexesAgree, WorkerAtRest, Tracked
<1>7. \A h \in Keys : Tracked(h)' => Tracked(h) /\ state'[h].result = state[h].result
  BY <1>1 DEF Tracked
<1>8. QED
  BY <1>1, <1>4, <1>5, <1>6, <1>7, AnswersKept

(* cleanup keeps the invariant: it meets an entry for each of the request's *)
(* keys, and removes those nobody else asked for.                          *)
LEMMA CleanupStep ==
    ASSUME LookupInv, NEW r \in Reqs, Cleanup(r)
    PROVE  LookupInv'
<1>1. /\ reqKeys' = [reqKeys EXCEPT ![r] = {}]
      /\ state' = [k \in Keys |-> IF k \notin reqKeys[r] THEN state[k]
                                  ELSE IF state[k].ids \subseteq {r} THEN NoState
                                  ELSE [state[k] EXCEPT !.ids = @ \ {r}]]
      /\ UNCHANGED <<batch, sched, worker, work, left, results, last, queue, pending>>
  BY DEF Cleanup, thread
<1>2. /\ state \in [Keys -> LookupState \cup {NoState}] /\ reqKeys \in [Reqs -> SUBSET Keys]
      /\ NoState \notin LookupState
  BY LookupAssumption DEF LookupInv, TypeOK
<1>3. ASSUME NEW h \in Keys
      PROVE  /\ state'[h] \in LookupState \cup {NoState}
             /\ Tracked(h)' => Tracked(h) /\ state'[h].result = state[h].result
             /\ IF Tracked(h)'
                THEN state'[h].ids = {q \in Reqs : h \in reqKeys'[q]} /\ {q \in Reqs : h \in reqKeys'[q]} # {}
                ELSE {q \in Reqs : h \in reqKeys'[q]} = {}
  <2> DEFINE A == {q \in Reqs : h \in reqKeys[q]}
             B == {q \in Reqs : h \in reqKeys'[q]}
  <2>1. IF Tracked(h) THEN state[h].ids = A /\ A # {} ELSE A = {}
    BY DEF LookupInv, IndexesAgree
  <2>2. B = A \ {r}
    BY <1>1, <1>2
  <2>3. h \in reqKeys[r] <=> r \in A
    OBVIOUS
  <2> HIDE DEF A, B
  <2>4. state[h] \in LookupState \cup {NoState}
    BY <1>2
  <2>5. CASE h \notin reqKeys[r]
    <3>1. state'[h] = state[h] /\ B = A
      BY <1>1, <2>2, <2>3, <2>5
    <3>2. QED
      BY <2>1, <2>4, <3>1 DEF B, Tracked
  <2>6. CASE h \in reqKeys[r] /\ state[h].ids \subseteq {r}
    <3>1. state'[h] = NoState
      BY <1>1, <2>6
    <3>2. state[h].ids = A
      BY <2>1, <2>3, <2>6
    <3>3. B = {}
      BY <2>2, <2>6, <3>2
    <3>4. QED
      BY <3>1, <3>3 DEF B, Tracked
  <2>7. CASE h \in reqKeys[r] /\ ~(state[h].ids \subseteq {r})
    <3> DEFINE e == state[h]
               I == e.ids \ {r}
               f == [e EXCEPT !.ids = I]
    <3>1. Tracked(h) /\ e.ids = A
      BY <2>1, <2>3, <2>7
    <3>2. e \in LookupState
      BY <2>4, <3>1 DEF Tracked
    <3>3. I \in SUBSET Reqs
      BY <3>2, EntryFacts
    <3>4. state'[h] = f
      BY <1>1, <2>7
    <3>5. I = B /\ I # {}
      BY <2>2, <2>7, <3>1
    <3>6. Tracked(h) /\ e.result = state[h].result
      BY <3>1
    <3> HIDE DEF I, e
    <3>7. f \in LookupState /\ f.ids = I /\ f.result = e.result
      BY <3>2, <3>3, EntryAsked
    <3> HIDE DEF f
    <3>8. QED
      BY <1>2, <3>4, <3>5, <3>6, <3>7 DEF B, Tracked
  <2>8. QED
    BY <2>5, <2>6, <2>7
<1>4. TypeOK'
  <2>1. DOMAIN state' = Keys /\ state' = [k \in Keys |-> state'[k]]
    BY <1>1
  <2>2. state' \in [Keys -> LookupState \cup {NoState}]
    BY <1>3, <2>1
  <2>3. reqKeys' \in [Reqs -> SUBSET Keys]
    BY <1>1, <1>2
  <2>4. QED
    BY <1>1, <2>2, <2>3 DEF LookupInv, TypeOK
<1>5. IndexesAgree'
  BY <1>3 DEF IndexesAgree
<1>6. WorkerAtRest' /\ \A h \in Keys : Checking(h) => Checking(h)'
  BY <1>1 DEF LookupInv, WorkerAtRest, Checking
<1>7. QED
  BY <1>1, <1>3, <1>4, <1>5, <1>6, AnswersKept

(* shutdown keeps the invariant.                                           *)
LEMMA ShutdownStep ==
    ASSUME LookupInv, Shutdown \/ Joined
    PROVE  LookupInv'
<1>1. /\ queue' = Append(queue, Stop) \/ queue' = queue
      /\ sched' \in {"open", "joining", "closed"}
      /\ UNCHANGED <<state, reqKeys, batch, worker, work, left, results, last, pending>>
  BY DEF Shutdown, Joined, thread
<1> DEFINE Q == Seq(Pairs) \cup {Stop}
<1>2. queue \in Seq(Q) /\ Stop \in Q
  BY DEF LookupInv, TypeOK
<1> HIDE DEF Q
<1>3. queue' \in Seq(Q) /\ \A i \in DOMAIN queue : i \in DOMAIN queue' /\ queue'[i] = queue[i]
  <2>1. CASE queue' = queue
    BY <1>2, <2>1
  <2>2. CASE queue' = Append(queue, Stop)
    <3>1. /\ queue' \in Seq(Q) /\ Len(queue) \in Nat /\ DOMAIN queue = 1 .. Len(queue)
          /\ DOMAIN queue' = 1 .. Len(queue) + 1
          /\ \A i \in 1 .. Len(queue) : queue'[i] = queue[i]
      BY <2>2, <1>2, AppendProperties, LenProperties
    <3>2. QED
      BY <3>1
  <2>3. QED
    BY <1>1, <2>1, <2>2
<1>4. TypeOK'
  <2>1. queue' \in Seq(Seq(Pairs) \cup {Stop})
    BY <1>3 DEF Q
  <2>2. QED
    BY <1>1, <2>1 DEF LookupInv, TypeOK
<1>5. \A h \in Keys : Checking(h) => Checking(h)'
  BY <1>1, <1>3 DEF Checking
<1>6. IndexesAgree' /\ WorkerAtRest'
  BY <1>1 DEF LookupInv, IndexesAgree, WorkerAtRest, Tracked
<1>7. \A h \in Keys : Tracked(h)' => Tracked(h) /\ state'[h].result = state[h].result
  BY <1>1 DEF Tracked
<1>8. QED
  BY <1>1, <1>4, <1>5, <1>6, <1>7, AnswersKept

-----------------------------------------------------------------------------
(* The steps of the background thread.                                     *)

(* Taking a batch keeps the invariant: all its places are left to check.   *)
LEMMA WorkerGetStep ==
    ASSUME LookupInv, WorkerGet
    PROVE  LookupInv'
<1>1. /\ worker = "get" /\ queue # <<>> /\ queue' = Tail(queue)
      /\ \/ Head(queue) = Stop /\ worker' = "exited" /\ work' = work /\ left' = left
         \/ /\ Head(queue) # Stop /\ worker' = "check"
            /\ work' = Head(queue) /\ left' = DOMAIN Head(queue)
      /\ UNCHANGED <<state, reqKeys, batch, sched, results, last, pending>>
  BY DEF WorkerGet, scheduler
<1> DEFINE Q == Seq(Pairs) \cup {Stop}
<1>2. queue \in Seq(Q)
  BY DEF LookupInv, TypeOK
<1>3. left = {} /\ results = <<>>
  BY <1>1 DEF LookupInv, WorkerAtRest
<1> HIDE DEF Q
<1>4. /\ queue' \in Seq(Q) /\ Len(queue) \in Nat /\ DOMAIN queue = 1 .. Len(queue)
      /\ DOMAIN queue' = 1 .. Len(queue) - 1
      /\ \A i \in 1 .. Len(queue) - 1 : queue'[i] = queue[i + 1]
      /\ Head(queue) = queue[1] /\ Head(queue) \in Q
  BY <1>1, <1>2, HeadTailProperties, LenProperties, EmptySeq
<1>5. TypeOK'
  <2>1. queue' \in Seq(Seq(Pairs) \cup {Stop})
    BY <1>4 DEF Q
  <2>2. work' \in Seq(Pairs) /\ left' \subseteq DOMAIN work'
    BY <1>1, <1>4 DEF Q, LookupInv, TypeOK
  <2>3. worker' \in {"get", "check", "exited"}
    BY <1>1
  <2>4. QED
    BY <1>1, <2>1, <2>2, <2>3 DEF LookupInv, TypeOK
<1>6. ASSUME NEW h \in Keys, Checking(h)
      PROVE  Checking(h)'
  <2>1. CASE \E i \in DOMAIN batch : batch[i][1] = h
    BY <1>1, <2>1 DEF Checking
  <2>2. CASE \E q \in DOMAIN queue : queue[q] # Stop /\ \E i \in DOMAIN queue[q] : queue[q][i][1] = h
    <3>1. PICK q \in DOMAIN queue : queue[q] # Stop /\ \E i \in DOMAIN queue[q] : queue[q][i][1] = h
      BY <2>2
    <3>2. CASE q = 1
      <4>1. Head(queue) = queue[q] /\ left' = DOMAIN queue[q] /\ work' = queue[q]
        BY <1>1, <1>4, <3>1, <3>2
      <4>2. QED
        BY <3>1, <4>1 DEF Checking
    <3>3. CASE q # 1
      <4>1. q - 1 \in DOMAIN queue' /\ queue'[q - 1] = queue[q]
        BY <1>4, <3>1, <3>3
      <4>2. QED
        BY <3>1, <4>1 DEF Checking
    <3>4. QED
      BY <3>2, <3>3
  <2>3. CASE \E i \in left : work[i][1] = h
    BY <1>3, <2>3
  <2>4. QED
    BY <1>6, <2>1, <2>2, <2>3 DEF Checking
<1>7. IndexesAgree' /\ WorkerAtRest'
  BY <1>1, <1>3 DEF LookupInv, IndexesAgree, WorkerAtRest, Tracked
<1>8. \A h \in Keys : Tracked(h)' => Tracked(h) /\ state'[h].result = state[h].result
  BY <1>1 DEF Tracked
<1>9. QED
  BY <1>1, <1>5, <1>6, <1>7, <1>8, AnswersKept

(* Recording the answers of one group keeps the invariant: they are the    *)
(* latest of its keys, and no other key loses its place.                   *)
LEMMA RecordStep ==
    ASSUME LookupInv, NEW hits \in SUBSET GroupKeys, Record(hits)
    PROVE  LookupInv'
<1> DEFINE e == [keys |-> GroupKeys, hits |-> hits]
<1>1. /\ worker = "check" /\ left' = left \ Group
      /\ results' = Append(results, e)
      /\ last' = [k \in Keys |-> IF k \in GroupKeys THEN k \in hits ELSE last[k]]
      /\ UNCHANGED <<state, reqKeys, batch, sched, worker, work, queue, pending>>
  BY DEF Record, scheduler
<1>2. GroupKeys \in SUBSET Keys
  <2>1. \A i \in left : work[i] \in Pairs
    BY ElementOfSeq, LenProperties DEF LookupInv, TypeOK
  <2>2. \A i \in left : work[i][1] \in Keys
    BY <2>1 DEF Pairs
  <2>3. QED
    BY <2>2 DEF GroupKeys, Group
<1>3. e \in Found /\ e.keys = GroupKeys /\ e.hits = hits
  BY <1>2 DEF Found
<1> HIDE DEF e
<1>4. results \in Seq(Found) /\ results' \in Seq(Found)
  BY <1>1, <1>3, AppendProperties DEF LookupInv, TypeOK
<1>5. /\ \A k \in Keys : k \in GroupKeys =>
           Places(results', k) # {} /\ Latest(results', k) = (k \in hits)
      /\ \A k \in Keys : k \notin GroupKeys =>
           /\ Places(results', k) = Places(results, k)
           /\ Places(results, k) # {} => Latest(results', k) = Latest(results, k)
  BY <1>1, <1>3, <1>4, LatestAppend
<1>6. \A k \in Keys : /\ k \in GroupKeys => last'[k] = (k \in hits)
                      /\ k \notin GroupKeys => last'[k] = last[k]
  BY <1>1, Zenon
<1>7. TypeOK'
  <2>1. last' \in [Keys -> BOOLEAN \cup {None}]
    <3>1. \A k \in Keys : (k \in hits) \in BOOLEAN
      OBVIOUS
    <3>2. last \in [Keys -> BOOLEAN \cup {None}]
      BY DEF LookupInv, TypeOK
    <3>3. \A k \in Keys : last'[k] \in BOOLEAN \cup {None}
      BY <1>6, <3>1, <3>2, Zenon
    <3>4. last' = [k \in Keys |-> last'[k]]
      BY <1>1, Zenon
    <3>5. QED
      BY <3>3, <3>4, Zenon
  <2>2. left' \subseteq DOMAIN work
    BY <1>1 DEF LookupInv, TypeOK
  <2>3. QED
    BY <1>1, <1>4, <2>1, <2>2 DEF LookupInv, TypeOK
<1>8. IndexesAgree' /\ WorkerAtRest'
  BY <1>1 DEF LookupInv, IndexesAgree, WorkerAtRest, Tracked
<1>9. \A k \in Keys : InFlight(k) => InFlight(k)'
  <2> SUFFICES ASSUME NEW k \in Keys, InFlight(k), k \notin GroupKeys
               PROVE  InFlight(k)'
    BY <1>5 DEF InFlight
  <2>1. \A i \in left : work[i][1] = k => i \in left'
    BY <1>1 DEF GroupKeys
  <2>2. Checking(k) => Checking(k)'
    BY <1>1, <2>1 DEF Checking
  <2>3. Places(results', k) = Places(results, k)
    BY <1>5
  <2>4. QED
    BY <1>1, <2>2, <2>3 DEF InFlight
<1>10. NoLookupLost'
  BY <1>1, <1>9 DEF LookupInv, NoLookupLost, Tracked
<1>11. SettledAnswerIsLatest'
  <2> SUFFICES ASSUME NEW k \in Keys, Tracked(k)', ~InFlight(k)'
               PROVE  state'[k].result = last'[k]
    BY DEF SettledAnswerIsLatest
  <2>1. k \notin GroupKeys /\ ~InFlight(k) /\ Tracked(k)
    BY <1>1, <1>5, <1>9 DEF InFlight, Tracked
  <2>2. QED
    BY <1>1, <1>6, <2>1, Zenon DEF LookupInv, SettledAnswerIsLatest
<1>12. ResultsLatest'
  <2> SUFFICES ASSUME NEW k \in Keys, Places(results', k) # {}
               PROVE  Latest(results', k) = last'[k]
    BY Zenon DEF ResultsLatest
  <2>1. CASE k \in GroupKeys
    BY <1>5, <1>6, <2>1, Zenon
  <2>2. CASE k \notin GroupKeys
    BY <1>5, <1>6, <2>2, Zenon DEF LookupInv, ResultsLatest
  <2>3. QED
    BY <2>1, <2>2
<1>13. PendingLatest'
  <2> SUFFICES ASSUME NEW k \in Keys, Places(results', k) = {}, Places(pending', k) # {}
               PROVE  Latest(pending', k) = last'[k]
    BY Zenon DEF PendingLatest
  <2>1. k \notin GroupKeys /\ Places(results, k) = {} /\ Places(pending, k) # {}
    BY <1>1, <1>5
  <2>2. Latest(pending, k) = last[k]
    BY <2>1, Zenon DEF LookupInv, PendingLatest
  <2>3. QED
    BY <1>1, <1>6, <2>1, <2>2, Zenon
<1>14. QED
  BY <1>7, <1>8, <1>10, <1>11, <1>12, <1>13 DEF LookupInv

(* Posting the results keeps the invariant: behind the older results they  *)
(* are still the latest.                                                   *)
LEMMA WorkerPostStep ==
    ASSUME LookupInv, WorkerPost
    PROVE  LookupInv'
<1>1. /\ left = {} /\ left' = {} /\ pending' = pending \o results
      /\ worker' = "get" /\ work' = <<>> /\ results' = <<>>
      /\ UNCHANGED <<state, reqKeys, batch, sched, last, queue>>
  BY DEF WorkerPost, scheduler
<1>2. pending \in Seq(Found) /\ results \in Seq(Found) /\ pending' \in Seq(Found)
  BY <1>1, ConcatProperties DEF LookupInv, TypeOK
<1>3. \A k \in Keys :
        /\ Places(results, k) # {} => Places(pending', k) # {} /\ Latest(pending', k) = Latest(results, k)
        /\ Places(results, k) = {} => /\ Places(pending', k) = Places(pending, k)
                                      /\ Places(pending, k) # {} => Latest(pending', k) = Latest(pending, k)
  BY <1>1, <1>2, LatestConcat
<1>4. TypeOK'
  <2>1. work' \in Seq(Pairs) /\ left' \subseteq DOMAIN work' /\ results' \in Seq(Found)
    BY <1>1
  <2>2. QED
    BY <1>1, <1>2, <2>1 DEF LookupInv, TypeOK
<1>5. IndexesAgree' /\ WorkerAtRest'
  BY <1>1 DEF LookupInv, IndexesAgree, WorkerAtRest, Tracked
<1>6. \A k \in Keys : Checking(k) => Checking(k)'
  BY <1>1 DEF Checking
<1>7. \A k \in Keys : InFlight(k) => InFlight(k)'
  BY <1>3, <1>6 DEF InFlight
<1>8. NoLookupLost'
  BY <1>1, <1>7 DEF LookupInv, NoLookupLost, Tracked
<1>9. SettledAnswerIsLatest'
  <2> SUFFICES ASSUME NEW k \in Keys, Tracked(k)', ~InFlight(k)'
               PROVE  state'[k].result = last'[k]
    BY DEF SettledAnswerIsLatest
  <2>1. ~InFlight(k) /\ Tracked(k)
    BY <1>1, <1>7 DEF Tracked
  <2>2. QED
    BY <1>1, <2>1, Zenon DEF LookupInv, SettledAnswerIsLatest
<1>10. ResultsLatest'
  BY <1>1, NoPlaces DEF ResultsLatest
<1>11. PendingLatest'
  <2> SUFFICES ASSUME NEW k \in Keys, Places(pending', k) # {}
               PROVE  Latest(pending', k) = last[k]
    BY <1>1, Zenon DEF PendingLatest
  <2>1. CASE Places(results, k) # {}
    BY <1>3, <2>1, Zenon DEF LookupInv, ResultsLatest
  <2>2. CASE Places(results, k) = {}
    BY <1>3, <2>2, Zenon DEF LookupInv, PendingLatest
  <2>3. QED
    BY <2>1, <2>2
<1>12. QED
  BY <1>4, <1>5, <1>8, <1>9, <1>10, <1>11 DEF LookupInv

-----------------------------------------------------------------------------
(* The invariant holds of a manager that has just been started.            *)
LEMMA LookupInvInit ==
    ASSUME Init
    PROVE  LookupInv
<1>1. /\ state = [k \in Keys |-> NoState] /\ reqKeys = [r \in Reqs |-> {}]
      /\ batch = <<>> /\ queue = <<>> /\ pending = <<>> /\ work = <<>> /\ left = {} /\ results = <<>>
      /\ worker = "get" /\ sched = "open" /\ last = [k \in Keys |-> None]
  BY DEF Init
<1>2. \A k \in Keys : ~Tracked(k)
  BY <1>1 DEF Tracked
<1>3. TypeOK
  <2>1. state \in [Keys -> LookupState \cup {NoState}] /\ reqKeys \in [Reqs -> SUBSET Keys]
    BY <1>1
  <2>2. /\ batch \in Seq(Pairs) /\ work \in Seq(Pairs) /\ left \subseteq DOMAIN work
        /\ queue \in Seq(Seq(Pairs) \cup {Stop}) /\ results \in Seq(Found) /\ pending \in Seq(Found)
    BY <1>1
  <2>3. last \in [Keys -> BOOLEAN \cup {None}]
    BY <1>1, Zenon
  <2>4. QED
    BY <1>1, <2>1, <2>2, <2>3 DEF TypeOK
<1>4. IndexesAgree
  BY <1>1, <1>2 DEF IndexesAgree
<1>5. NoLookupLost /\ SettledAnswerIsLatest
  BY <1>2 DEF NoLookupLost, SettledAnswerIsLatest
<1>6. WorkerAtRest /\ ResultsLatest /\ PendingLatest
  BY <1>1, NoPlaces DEF WorkerAtRest, ResultsLatest, PendingLatest
<1>7. QED
  BY <1>3, <1>4, <1>5, <1>6 DEF LookupInv

(* Every step keeps the invariant.                                         *)
LEMMA LookupInvStep ==
    ASSUME LookupInv, [Next]_vars
    PROVE  LookupInv'
<1>1. CASE \E k \in Keys, r \in Reqs : Lookup(k, r)
  BY <1>1, LookupStep
<1>2. CASE Flush
  BY <1>2, FlushStep
<1>3. CASE \E r \in Reqs : Cleanup(r)
  BY <1>3, CleanupStep
<1>4. CASE Shutdown \/ Joined
  BY <1>4, ShutdownStep
<1>5. CASE WorkerGet
  BY <1>5, WorkerGetStep
<1>6. CASE WorkerCheck \/ WorkerRaised
  BY <1>6, RecordStep DEF WorkerCheck, WorkerRaised
<1>7. CASE WorkerPost
  BY <1>7, WorkerPostStep
<1>8. CASE UNCHANGED vars
  <2>1. UNCHANGED <<state, reqKeys, batch, sched, worker, work, left, results, last, queue, pending>>
    BY <1>8 DEF vars, scheduler, thread
  <2>2. TypeOK' /\ IndexesAgree' /\ WorkerAtRest'
    BY <2>1 DEF LookupInv, TypeOK, IndexesAgree, WorkerAtRest, Tracked
  <2>3. \A h \in Keys : Checking(h) => Checking(h)'
    BY <2>1 DEF Checking
  <2>4. \A h \in Keys : Tracked(h)' => Tracked(h) /\ state'[h].result = state[h].result
    BY <2>1 DEF Tracked
  <2>5. QED
    BY <2>1, <2>2, <2>3, <2>4, AnswersKept
<1>9. QED
  BY <1>1, <1>2, <1>3, <1>4, <1>5, <1>6, <1>7, <1>8 DEF Next, WorkerStep

(* The inductive invariant of the lookup manager, for any number of keys   *)
(* and requests and any interleaving of the two threads.                   *)
THEOREM LookupInvariant == Spec => []LookupInv
<1>1. Init => LookupInv
  BY LookupInvInit
<1>2. LookupInv /\ [Next]_vars => LookupInv'
  BY LookupInvStep
<1>3. QED
  BY <1>1, <1>2, PTL DEF Spec

(* The state of the manager has its types.                                 *)
THEOREM LookupTypeCorrect == Spec => []TypeOK
<1>1. LookupInv => TypeOK
  BY DEF LookupInv
<1>2. QED
  BY <1>1, LookupInvariant, PTL

(* The two indexes agree: cleanup never meets a missing entry, and no      *)
(* entry outlives its last request.                                        *)
THEOREM LookupIndexesAgree == Spec => []IndexesAgree
<1>1. LookupInv => IndexesAgree
  BY DEF LookupInv
<1>2. QED
  BY <1>1, LookupInvariant, PTL

(* A key told to retry has its check or its result on the way, whatever    *)
(* batch_lookup does and whoever removes and creates the entry.            *)
THEOREM LookupNeverLost == Spec => []NoLookupLost
<1>1. LookupInv => NoLookupLost
  BY DEF LookupInv
<1>2. QED
  BY <1>1, LookupInvariant, PTL

(* A settled entry has the answer of the latest check of its key, although *)
(* results made for an older entry are applied to it.                      *)
THEOREM LookupAnswerIsLatest == Spec => []SettledAnswerIsLatest
<1>1. LookupInv => SettledAnswerIsLatest
  BY DEF LookupInv
<1>2. QED
  BY <1>1, LookupInvariant, PTL
================================================================================
