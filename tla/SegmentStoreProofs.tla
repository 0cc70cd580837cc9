-------------------------- MODULE SegmentStoreProofs --------------------------
(* Theorems about SegmentStore, for every value of its constants. *)
EXTENDS SegmentStore, TLAPS

Inv == TypeOK /\ SlotInv

-----------------------------------------------------------------------------
(* Facts about slots, heads and the operators of the allocation.           *)

(* Slots and heads are pairs of numbers, a slot is also a head, and NoSlot  *)
(* is neither.                                                             *)
LEMMA SlotFacts ==
    /\ NoSlot \notin Slots /\ NoSlot \notin Heads
    /\ NoLocations \in Locations
    /\ Slots \subseteq Heads
    /\ \A x \in Slots : x.seg \in Segments /\ x.off \in 0 .. Capacity - 1
    /\ \A h \in Heads : h.seg \in Segments /\ h.off \in 0 .. Capacity
    /\ \A h \in Heads : h.seg \in Nat /\ h.off \in Nat
    /\ \A x \in Slots : x.seg \in Nat /\ x.off \in Nat
BY ConstantsAssumption DEF NoSlot, Slots, Heads, Locations, NoLocations, Segments

(* Max of a set of integers is its upper bound, if it contains one.        *)
LEMMA MaxIsBound ==
    ASSUME NEW S \in SUBSET Int, NEW m \in S, \A y \in S : m >= y
    PROVE  Max(S) = m
<1>1. \A x \in S : (\A y \in S : x >= y) => x = m
  OBVIOUS
<1>2. QED
  BY <1>1 DEF Max

(* The fields of a metadata record.                                        *)
LEMMA MetadataFacts ==
    ASSUME NEW m \in Metadata
    PROVE  /\ m.n \in 0 .. MaxShards /\ m.next \in 0 .. MaxSegments
           /\ m.cursor \in Shards /\ m.heads \in [Shards -> Heads]
           /\ m.legacy \in Heads \cup {NoSlot}
BY DEF Metadata

(* The next segment id is the recorded one, when the heads lie below it.   *)
LEMMA NextSegmentIdIsNext ==
    ASSUME NEW m \in Metadata, HeadsApart(m)
    PROVE  NextSegmentId(m) = m.next
<1> DEFINE S == {m.next} \cup {m.heads[s].seg + 1 : s \in {t \in Shards : t < m.n}}
<1>1. \A s \in Shards : s < m.n => m.heads[s].seg \in Nat /\ m.heads[s].seg < m.next
  BY SlotFacts, MetadataFacts DEF HeadsApart
<1>2. m.next \in Nat
  BY MetadataFacts
<1>3. S \in SUBSET Int
  BY <1>1, <1>2
<1>4. \A y \in S : m.next >= y
  BY <1>1, <1>2
<1> HIDE DEF S
<1>5. m.next \in S
  BY DEF S
<1>6. Max(S) = m.next
  BY <1>3, <1>4, <1>5, MaxIsBound
<1>7. QED
  BY <1>6 DEF NextSegmentId, S

(* The metadata an allocation starts from is well formed, also in a        *)
(* directory without shard rows.                                           *)
LEMMA BaseFacts ==
    ASSUME TypeOK, FreeSlotsUnused
    PROVE  /\ BaseMetadata \in Metadata
           /\ BaseMetadata.n >= 1
           /\ HeadsApart(BaseMetadata)
<1>1. CASE meta.n > 0
  BY <1>1, MetadataFacts DEF TypeOK, BaseMetadata, FreeSlotsUnused
<1>2. CASE ~(meta.n > 0)
  <2>1. meta.n = 0 /\ meta \in Metadata
    BY <1>2, MetadataFacts DEF TypeOK
  <2>2. LatestSegment \in Heads
    <3>1. CASE meta.legacy # NoSlot
      BY <3>1, <2>1, MetadataFacts DEF LatestSegment
    <3>2. CASE meta.legacy = NoSlot
      <4>1. index = NoLocations
        BY <3>2, <2>1 DEF FreeSlotsUnused
      <4>2. {index[k] : k \in Keys} \ {NoSlot} = {}
        BY <4>1 DEF NoLocations
      <4>3. [seg |-> 0, off |-> 0] \in Heads
        BY ConstantsAssumption DEF Heads, Segments
      <4>4. QED
        BY <3>2, <4>2, <4>3 DEF LatestSegment
    <3>3. QED
      BY <3>1, <3>2
  <2> DEFINE L == LatestSegment
             B == [legacy |-> meta.legacy, n |-> 1, heads |-> [meta.heads EXCEPT ![0] = L],
                   next |-> L.seg + 1, cursor |-> meta.cursor]
  <2>3. BaseMetadata = B
    BY <2>1 DEF BaseMetadata
  <2> HIDE DEF L
  <2>4. L \in Heads /\ L.seg \in Segments
    BY <2>2, SlotFacts DEF L
  <2>5. 0 \in Shards /\ 1 \in 0 .. MaxShards
    BY ConstantsAssumption DEF Shards
  <2>6. L.seg + 1 \in 0 .. MaxSegments
    BY <2>4, ConstantsAssumption DEF Segments
  <2>7. B \in Metadata
    BY <2>1, <2>4, <2>5, <2>6, MetadataFacts DEF Metadata
  <2>8. HeadsApart(B)
    <3>1. \A s \in Shards : s < 1 => s = 0
      BY ConstantsAssumption DEF Shards
    <3>2. B.heads[0] = L /\ B.next = L.seg + 1 /\ B.n = 1
      BY <2>1, <2>5, MetadataFacts
    <3>3. L.seg < L.seg + 1
      BY <2>4, SlotFacts
    <3> HIDE DEF B
    <3>4. QED
      BY <3>1, <3>2, <3>3 DEF HeadsApart
  <2>9. QED
    BY <2>3, <2>7, <2>8
<1>3. QED
  BY <1>1, <1>2

(* _allocation_state gives shards without a row segments of their own and  *)
(* never makes a slot free that was not.                                   *)
LEMMA AllocationFacts ==
    ASSUME TypeOK, FreeSlotsUnused, NEW c \in 1 .. MaxShards,
           AllocationState(c).next <= MaxSegments
    PROVE  /\ AllocationState(c) \in Metadata
           /\ HeadsApart(AllocationState(c))
           /\ c <= AllocationState(c).n /\ AllocationState(c).cursor < c
           /\ \A x \in Slots : Free(AllocationState(c), x) => Free(BaseMetadata, x)
<1> DEFINE m == BaseMetadata
           added == IF c > m.n THEN c - m.n ELSE 0
           heads == [s \in Shards |-> IF s < m.n \/ s >= c THEN m.heads[s]
                                      ELSE [seg |-> m.next + (s - m.n), off |-> 0]]
           A == [legacy |-> m.legacy, n |-> m.n + added, heads |-> heads,
                 next |-> m.next + added, cursor |-> m.cursor % c]
<1>1. m \in Metadata /\ m.n >= 1 /\ HeadsApart(m)
  BY BaseFacts
<1> HIDE DEF m
<1>2. AllocationState(c) = A
  BY <1>1, NextSegmentIdIsNext DEF AllocationState, m
<1>3. /\ m.n \in 1 .. MaxShards /\ m.next \in Nat /\ m.cursor \in Shards
      /\ m.heads \in [Shards -> Heads] /\ m.legacy \in Heads \cup {NoSlot}
      /\ c \in Nat \ {0} /\ c <= MaxShards /\ MaxShards \in Nat /\ MaxSegments \in Nat
      /\ Capacity \in Nat
  BY <1>1, MetadataFacts, ConstantsAssumption
<1>4. added \in Nat /\ m.n + added \in 0 .. MaxShards /\ c <= m.n + added
  BY <1>3
<1>5. m.next + added <= MaxSegments
  BY <1>2
<1>6. m.cursor % c \in 0 .. c - 1
  BY <1>3 DEF Shards
<1>7. \A s \in Shards : /\ heads[s] \in Heads
                        /\ s < m.n => heads[s] = m.heads[s]
                        /\ ~(s < m.n) /\ s < m.n + added =>
                              heads[s] = [seg |-> m.next + (s - m.n), off |-> 0]
  <2> TAKE s \in Shards
  <2>1. s \in Nat /\ s < MaxShards
    BY <1>3 DEF Shards
  <2>2. CASE s < m.n \/ s >= c
    BY <2>1, <2>2, <1>3
  <2>3. CASE ~(s < m.n \/ s >= c)
    <3>1. added = c - m.n /\ m.next + (s - m.n) \in Segments
      BY <2>1, <2>3, <1>3, <1>5 DEF Segments
    <3>2. [seg |-> m.next + (s - m.n), off |-> 0] \in Heads
      BY <3>1, <1>3 DEF Heads
    <3>3. QED
      BY <2>3, <3>1, <3>2
  <2>4. QED
    BY <2>2, <2>3
<1> HIDE DEF heads, added
<1>8. A \in Metadata
  <2>1. heads \in [Shards -> Heads]
    BY <1>7 DEF heads
  <2>2. m.next + added \in 0 .. MaxSegments
    BY <1>3, <1>4, <1>5
  <2>3. m.cursor % c \in Shards
    BY <1>3, <1>6 DEF Shards
  <2>4. QED
    BY <2>1, <2>2, <2>3, <1>3, <1>4 DEF Metadata
<1>9. \A s \in Shards : s \in Nat /\ heads[s].seg \in Nat /\ heads[s].off \in Nat
                        /\ m.heads[s].seg \in Nat /\ m.heads[s].off \in Nat
  <2>1. \A s \in Shards : heads[s] \in Heads /\ m.heads[s] \in Heads
    BY <1>3, <1>7
  <2>2. Shards \subseteq Nat
    BY <1>3 DEF Shards
  <2>3. QED
    BY <2>1, <2>2, SlotFacts
<1>10. \A s \in Shards : /\ s < m.n => heads[s].seg < m.next
                         /\ ~(s < m.n) /\ s < m.n + added =>
                               heads[s].seg = m.next + (s - m.n) /\ heads[s].off = 0
  <2> TAKE s \in Shards
  <2>1. ASSUME s < m.n PROVE heads[s].seg < m.next
    BY <2>1, <1>1, <1>7 DEF HeadsApart
  <2>2. ASSUME ~(s < m.n), s < m.n + added
        PROVE  heads[s].seg = m.next + (s - m.n) /\ heads[s].off = 0
    <3>1. heads[s] = [seg |-> m.next + (s - m.n), off |-> 0]
      BY <2>2, <1>7
    <3>2. QED
      BY <3>1
  <2>3. QED
    BY <2>1, <2>2
<1>11. HeadsApart(A)
  <2> SUFFICES ASSUME NEW s \in Shards, NEW t \in Shards, s < m.n + added
               PROVE  /\ heads[s].seg < m.next + added
                      /\ t < m.n + added /\ s # t => heads[s].seg # heads[t].seg
    BY DEF HeadsApart
  <2>1. heads[s].seg < m.next + added
    BY <1>3, <1>4, <1>9, <1>10
  <2>2. ASSUME t < m.n + added, s # t PROVE heads[s].seg # heads[t].seg
    <3>1. CASE s < m.n /\ t < m.n
      BY <2>2, <3>1, <1>1, <1>7 DEF HeadsApart
    <3>2. CASE ~(s < m.n /\ t < m.n)
      BY <2>2, <3>2, <1>3, <1>4, <1>9, <1>10
    <3>3. QED
      BY <3>1, <3>2
  <2>3. QED
    BY <2>1, <2>2
<1>12. ASSUME NEW x \in Slots, Free(A, x) PROVE Free(m, x)
  <2>1. x.seg \in Nat
    BY SlotFacts
  <2>2. CASE x.seg >= m.next + added
    BY <2>1, <2>2, <1>3, <1>4 DEF Free
  <2>3. ASSUME NEW s \in Shards, s < m.n + added, x.seg = heads[s].seg, x.off >= heads[s].off
        PROVE  Free(m, x)
    <3>1. CASE s < m.n
      BY <2>3, <3>1, <1>7 DEF Free
    <3>2. CASE ~(s < m.n)
      BY <2>3, <3>2, <1>3, <1>9, <1>10 DEF Free
    <3>3. QED
      BY <3>1, <3>2
  <2>4. QED
    BY <2>2, <2>3, <1>12 DEF Free
<1>13. QED
  BY <1>2, <1>4, <1>6, <1>8, <1>11, <1>12, <1>3 DEF m

(* In a new directory every slot is free.                                  *)
LEMMA NewDirectoryAllFree ==
    ASSUME TypeOK, FreeSlotsUnused, meta.n = 0, meta.legacy = NoSlot, NEW x \in Slots
    PROVE  Free(BaseMetadata, x)
<1>1. index = NoLocations
  BY DEF FreeSlotsUnused
<1>2. {index[k] : k \in Keys} \ {NoSlot} = {}
  BY <1>1 DEF NoLocations
<1>3. LatestSegment = [seg |-> 0, off |-> 0]
  BY <1>2 DEF LatestSegment
<1>4. 0 \in Shards
  BY ConstantsAssumption DEF Shards
<1>5. meta.heads \in [Shards -> Heads]
  BY MetadataFacts DEF TypeOK
<1>6. BaseMetadata.n = 1 /\ BaseMetadata.next = 1 /\ BaseMetadata.heads[0] = [seg |-> 0, off |-> 0]
  BY <1>3, <1>4, <1>5 DEF BaseMetadata
<1>7. x.seg \in Nat /\ x.off \in Nat
  BY SlotFacts
<1>8. QED
  BY <1>4, <1>6, <1>7 DEF Free

(* The base of the next allocation changes with the metadata only.         *)
LEMMA BaseStable ==
    ASSUME meta' = meta,
           meta.n > 0 \/ meta.legacy # NoSlot \/ index' = index
    PROVE  BaseMetadata' = BaseMetadata
<1>1. CASE meta.n > 0
  BY <1>1 DEF BaseMetadata
<1>2. CASE meta.legacy # NoSlot
  BY <1>2 DEF BaseMetadata, LatestSegment
<1>3. CASE index' = index
  BY <1>3 DEF BaseMetadata, LatestSegment
<1>4. QED
  BY <1>1, <1>2, <1>3

(* Rows, cache entries and planned entries are slots or NoSlot.            *)
LEMMA LocationFacts ==
    ASSUME TypeOK
    PROVE  /\ \A k \in Keys : index[k] \in Slots \cup {NoSlot}
           /\ \A p \in Procs, k \in Keys : /\ cache[p][k] \in Slots \cup {NoSlot}
                                          /\ Located(p, k) \in Slots \cup {NoSlot}
           /\ \A j \in Jobs, k \in Keys : plan[j][k] \in Slots \cup {NoSlot}
           /\ \A j \in Jobs : plan[j] \in Locations
BY DEF TypeOK, Locations, Located

(* get_locations keeps the caches well typed.                              *)
LEMMA RememberType ==
    ASSUME TypeOK, NEW p, NEW K, NEW rows \in Locations
    PROVE  Remember(p, K, rows) \in [Procs -> Locations]
<1>1. CASE p \in Procs
  <2>1. [k \in Keys |-> IF k \in K /\ cache[p][k] = NoSlot THEN rows[k] ELSE cache[p][k]]
          \in Locations
    BY <1>1, LocationFacts DEF Locations
  <2>2. QED
    BY <2>1 DEF Remember, TypeOK
<1>2. CASE p \notin Procs
  BY <1>2 DEF Remember, TypeOK
<1>3. QED
  BY <1>1, <1>2

(* delete keeps the index and the caches well typed.                       *)
LEMMA ForgetType ==
    ASSUME TypeOK, NEW p, NEW K
    PROVE  Forget(p, K) \in [Procs -> Locations] /\ Unindexed(K) \in Locations
<1>1. Unindexed(K) \in Locations
  BY LocationFacts DEF Locations, Unindexed
<1>2. CASE p \in Procs
  <2>1. [k \in Keys |-> IF k \in K /\ index[k] # NoSlot THEN NoSlot ELSE cache[p][k]]
          \in Locations
    BY <1>2, LocationFacts DEF Locations
  <2>2. QED
    BY <1>1, <2>1 DEF Forget, TypeOK
<1>3. CASE p \notin Procs
  BY <1>1, <1>3 DEF Forget, TypeOK
<1>4. QED
  BY <1>2, <1>3

(* Writing, or tearing, part of a plan keeps the segments well typed.      *)
LEMMA ContentsType ==
    ASSUME TypeOK, NEW j \in Jobs, NEW K \in SUBSET Keys
    PROVE  /\ Stored(j, K) \in [Slots -> Contents]
           /\ Scratched(j, K) \in [Slots -> Contents]
<1>1. \A x \in Slots : (\E k \in K : plan[j][k] = x) => (CHOOSE k \in K : plan[j][k] = x) \in Contents
  BY DEF Contents
<1>2. \A x \in Slots : cells[x] \in Contents
  BY DEF TypeOK
<1>3. QED
  BY <1>1, <1>2 DEF Stored, Scratched, Contents

(* The tasks of a plan are for segments that exist.                        *)
LEMMA GroupFacts ==
    ASSUME TypeOK, NEW j \in Jobs
    PROVE  /\ Groups(j) \in SUBSET Segments
           /\ Planned(j) \in SUBSET Keys
           /\ \A g : Group(j, g) \in SUBSET Keys
<1>1. \A k \in Planned(j) : plan[j][k] \in Slots
  BY LocationFacts DEF Planned
<1>2. QED
  BY <1>1, SlotFacts DEF Groups, Planned, Group

-----------------------------------------------------------------------------
(* The type invariant.                                                     *)

(* SegmentStore.__init__ on any migrated directory is well typed.          *)
LEMMA TypeInit == Init => TypeOK
<1> SUFFICES ASSUME NEW d \in LegacyStores, Migrated(d), DirInit(d), ProcInit
             PROVE  TypeOK
  BY DEF Init
<1>1. d \in LegacyDirs
  BY LegacyAssumption
<1>2. index \in Locations /\ meta.legacy \in Heads \cup {NoSlot}
  BY <1>1 DEF DirInit, LegacyDirs
<1>3. meta \in Metadata
  <2>1. [seg |-> 0, off |-> 0] \in Heads /\ 0 \in Shards
    BY ConstantsAssumption DEF Heads, Segments, Shards
  <2>2. QED
    BY <1>1, <2>1, ConstantsAssumption DEF DirInit, LegacyDirs, Metadata
<1>4. cells \in [Slots -> Contents]
  <2>1. \A x \in Slots : (\E k \in Keys : d.index[k] = x)
                           => (CHOOSE k \in Keys : d.index[k] = x) \in Contents
    BY DEF Contents
  <2>2. QED
    BY <2>1 DEF DirInit, Contents
<1>5. QED
  BY <1>2, <1>3, <1>4, SlotFacts, ConstantsAssumption DEF ProcInit, TypeOK, Phases, Contents

(* Every step keeps the types.                                             *)
LEMMA TypeStep == Inv /\ [Next]_vars => TypeOK'
<1> SUFFICES ASSUME Inv, [Next]_vars PROVE TypeOK'
  OBVIOUS
<1> USE DEF Inv
<1>1. ASSUME NEW p \in Procs, NEW K \in SUBSET Keys, Lookup(p, K) PROVE TypeOK'
  BY <1>1, RememberType DEF Lookup, TypeOK, dirVars, prepVars, jobVars
<1>2. ASSUME NEW p \in Procs, NEW j \in Jobs, NEW K \in SUBSET Keys, PrepareStore(p, j, K)
      PROVE  TypeOK'
  <2>1. alloc' \in Metadata
    BY <1>2, AllocationFacts, ConstantsAssumption DEF PrepareStore, SlotInv, TypeOK
  <2>2. {k \in K : Located(p, k) = NoSlot} \in SUBSET Keys
    OBVIOUS
  <2>3. QED
    BY <1>2, <2>1, <2>2, RememberType DEF PrepareStore, TypeOK, dirVars, Phases
<1>3. ASSUME NEW j \in Jobs, NEW k \in Keys, AllocateEntry(j, k) PROVE TypeOK'
  <2> DEFINE s == alloc.cursor
             head == alloc.heads[s]
             full == SegmentFull(head)
             slot == IF full THEN [seg |-> alloc.next, off |-> 0] ELSE head
  <2>1. alloc \in Metadata /\ s \in Shards /\ head \in Heads /\ alloc.next \in 0 .. MaxSegments
    BY MetadataFacts DEF TypeOK
  <2>2. slot \in Slots
    BY <2>1, <1>3, ConstantsAssumption DEF AllocateEntry, SegmentFull, Heads, Slots, Segments
  <2>3. [seg |-> slot.seg, off |-> slot.off + 1] \in Heads
    BY <2>2, ConstantsAssumption DEF Heads, Slots
  <2>4. (IF full THEN alloc.next + 1 ELSE alloc.next) \in 0 .. MaxSegments
    BY <2>1, <1>3, ConstantsAssumption DEF AllocateEntry
  <2>5. lock \in Procs /\ owner[j] = lock
    BY <1>3 DEF AllocateEntry, SlotInv, JobsConsistent
  <2>6. (s + 1) % ShardCount[owner[j]] \in Shards
    BY <2>1, <2>5, ConstantsAssumption DEF Shards
  <2>7. alloc' \in Metadata
    <3>1. alloc.heads \in [Shards -> Heads] /\ alloc.n \in 0 .. MaxShards
          /\ alloc.legacy \in Heads \cup {NoSlot}
      BY <2>1, MetadataFacts
    <3>2. [alloc.heads EXCEPT ![s] = [seg |-> slot.seg, off |-> slot.off + 1]] \in [Shards -> Heads]
      BY <3>1, <2>3
    <3>3. alloc' = [legacy |-> alloc.legacy, n |-> alloc.n,
                    heads |-> [alloc.heads EXCEPT ![s] = [seg |-> slot.seg, off |-> slot.off + 1]],
                    next |-> IF full THEN alloc.next + 1 ELSE alloc.next,
                    cursor |-> (s + 1) % ShardCount[owner[j]]]
      BY <1>3 DEF AllocateEntry
    <3> HIDE DEF s, head, full, slot
    <3>4. QED
      BY <3>1, <3>2, <3>3, <2>4, <2>6 DEF Metadata
  <2>8. plan' \in [Jobs -> Locations]
    <3>1. plan' = [plan EXCEPT ![j] = [@ EXCEPT ![k] = slot]]
      BY <1>3 DEF AllocateEntry
    <3> HIDE DEF slot
    <3>2. QED
      BY <3>1, <2>2 DEF TypeOK, Locations
  <2>9. pending' \in SUBSET Keys
    BY <1>3 DEF AllocateEntry, TypeOK
  <2>10. QED
    BY <1>3, <2>7, <2>8, <2>9 DEF AllocateEntry, TypeOK, dirVars
<1>4. ASSUME NEW j \in Jobs, PrepareReturn(j) PROVE TypeOK'
  BY <1>4, GroupFacts DEF PrepareReturn, Release, TypeOK, Phases
<1>5. ASSUME NEW j \in Jobs, PrepareAbort(j) PROVE TypeOK'
  BY <1>5, SlotFacts DEF PrepareAbort, Release, TypeOK, Phases, dirVars
<1>6. ASSUME NEW j \in Jobs, NEW g \in Segments, WriteBegin(j, g) PROVE TypeOK'
  BY <1>6, ContentsType, GroupFacts DEF WriteBegin, TypeOK, prepVars
<1>7. ASSUME NEW j \in Jobs, NEW g \in Segments, WriteEnd(j, g) PROVE TypeOK'
  BY <1>7, ContentsType, GroupFacts DEF WriteEnd, TypeOK, prepVars
<1>8. ASSUME NEW j \in Jobs, NEW g \in Segments, WriteFail(j, g) PROVE TypeOK'
  BY <1>8 DEF WriteFail, TypeOK, prepVars, dirVars
<1>9. ASSUME NEW j \in Jobs, CompleteNothing(j) PROVE TypeOK'
  BY <1>9, SlotFacts DEF CompleteNothing, Settle, TypeOK, prepVars, dirVars, Phases
<1>10. \A j \in Jobs : Inserted(j) \in Locations
  BY LocationFacts DEF Inserted, Locations
<1>11. ASSUME NEW j \in Jobs, CompleteStore(j) PROVE TypeOK'
  BY <1>11, <1>10, SlotFacts, RememberType DEF CompleteStore, Settle, TypeOK, prepVars, Phases
<1>12. ASSUME NEW j \in Jobs, NEW c \in BOOLEAN, CompleteFail(j, c) PROVE TypeOK'
  BY <1>12, <1>10, SlotFacts DEF CompleteFail, Settle, TypeOK, prepVars, Phases
<1>13. ASSUME NEW p \in Procs, NEW j \in Jobs, NEW K \in SUBSET Keys, NEW ok \in BOOLEAN,
              SubmitLoad(p, j, K, ok)
       PROVE  TypeOK'
  <2> DEFINE at == [k \in Keys |-> IF k \in K THEN Located(p, k) ELSE NoSlot]
             segs == {at[k].seg : k \in {l \in K : at[l] # NoSlot}}
  <2>1. at \in Locations
    BY LocationFacts DEF Locations
  <2>2. segs \in SUBSET Segments
    BY <2>1, SlotFacts DEF Locations
  <2>3. plan' = [plan EXCEPT ![j] = at] /\ todo' = [todo EXCEPT ![j] = segs]
    BY <1>13 DEF SubmitLoad
  <2> HIDE DEF at, segs
  <2>4. plan' \in [Jobs -> Locations] /\ todo' \in [Jobs -> SUBSET Segments]
    BY <2>1, <2>2, <2>3 DEF TypeOK
  <2>5. QED
    BY <1>13, <2>4, RememberType DEF SubmitLoad, TypeOK, dirVars, prepVars, Phases
<1>14. ASSUME NEW j \in Jobs, NEW g \in Segments, LoadChunk(j, g) PROVE TypeOK'
  <2>1. \A k \in Group(j, g) : cells[plan[j][k]] \in Contents
    BY LocationFacts DEF TypeOK, Group, Planned
  <2>2. got' \in [Jobs -> [Keys -> Contents \cup {NoData}]]
    BY <1>14, <2>1 DEF LoadChunk, TypeOK
  <2>3. QED
    BY <1>14, <2>2 DEF LoadChunk, TypeOK, dirVars, prepVars
<1>15. ASSUME NEW j \in Jobs, NEW g \in Segments, NEW b \in BOOLEAN, LoadChunkFail(j, g, b)
       PROVE  TypeOK'
  BY <1>15, ForgetType DEF LoadChunkFail, TypeOK, prepVars
<1>16. ASSUME NEW j \in Jobs, FinishLoad(j) PROVE TypeOK'
  BY <1>16, SlotFacts DEF FinishLoad, Settle, TypeOK, prepVars, dirVars, Phases
<1>17. ASSUME NEW j \in Jobs, Poll(j) PROVE TypeOK'
  BY <1>17 DEF Poll, TypeOK, prepVars, dirVars, Phases
<1>18. ASSUME NEW p \in Procs, NEW K \in SUBSET Keys, Delete(p, K) PROVE TypeOK'
  BY <1>18, ForgetType DEF Delete, TypeOK, prepVars, jobVars
<1>19. ASSUME NEW p \in Procs, Restart(p) PROVE TypeOK'
  BY <1>19, SlotFacts DEF Restart, TypeOK, dirVars, Phases
<1>20. ASSUME UNCHANGED vars PROVE TypeOK'
  BY <1>20 DEF TypeOK, vars, dirVars, prepVars, jobVars
<1>21. QED
  BY <1>1, <1>2, <1>3, <1>4, <1>5, <1>6, <1>7, <1>8, <1>9, <1>11, <1>12, <1>13, <1>14,
     <1>15, <1>16, <1>17, <1>18, <1>19, <1>20
  DEF Next, StoreStep, LoadStep

-----------------------------------------------------------------------------
(* The slot invariant.                                                     *)

(* What a process may learn about a key was in its cache or in the index.  *)
LEMMA RememberFacts ==
    ASSUME TypeOK, NEW p \in Procs, NEW K \in SUBSET Keys, NEW rows \in Locations,
           cache' = Remember(p, K, rows)
    PROVE  \A q \in Procs, k \in Keys : cache'[q][k] \in {cache[q][k], rows[k]}
BY DEF TypeOK, Remember

(* delete removes cache entries and adds none.                             *)
LEMMA ForgetFacts ==
    ASSUME TypeOK, NEW p \in Procs \cup {NoProc}, NEW K \in SUBSET Keys, cache' = Forget(p, K)
    PROVE  \A q \in Procs, k \in Keys : cache'[q][k] \in {cache[q][k], NoSlot}
BY DEF TypeOK, Forget

(* delete removes rows and adds none.                                      *)
LEMMA UnindexedFacts ==
    ASSUME TypeOK, NEW K \in SUBSET Keys, index' = Unindexed(K)
    PROVE  /\ \A k \in Keys : index'[k] \in {index[k], NoSlot}
           /\ index = NoLocations => index' = NoLocations
BY DEF TypeOK, Unindexed, NoLocations

(* Job j goes on, at most failing some of its writes ...                   *)
Kept(j) ==
    /\ status'[j] = status[j] /\ owner'[j] = owner[j] /\ plan'[j] = plan[j]
    /\ status[j] # "store" => writing'[j] = writing[j]
    /\ status[j] = "store" =>
         /\ todo'[j] = todo[j]
         /\ \/ writing'[j] = writing[j] /\ good'[j] = good[j]
            \/ writing'[j] \subseteq writing[j] /\ ~good'[j]

(* ... or it is over.                                                      *)
Dropped(j) ==
    /\ status'[j] \in {"free", "ok", "failed"}
    /\ plan'[j] = NoLocations /\ writing'[j] = {}

(* A step that hands out no slot and publishes no location, but may forget *)
(* rows, cache entries and jobs, keeps the invariant.                      *)
LEMMA ForgettingKeepsSlotInv ==
    ASSUME Inv, TypeOK',
           \A k \in Keys : index'[k] \in {index[k], NoSlot},
           index = NoLocations => index' = NoLocations,
           \A q \in Procs, k \in Keys : cache'[q][k] \in {cache[q][k], NoSlot, index[k]},
           UNCHANGED <<meta, cells>>,
           \A j \in Jobs : Kept(j) \/ Dropped(j),
           \A j \in Jobs : status'[j] = "preparing" => UNCHANGED <<lock, pending, alloc>>
    PROVE  SlotInv'
<1> USE DEF Inv, SlotInv
<1>1. BaseMetadata' = BaseMetadata
  <2>1. meta.n > 0 \/ meta.legacy # NoSlot \/ index' = index
    BY MetadataFacts DEF FreeSlotsUnused, TypeOK
  <2>2. QED
    BY <2>1, BaseStable
<1>2. \A j \in Jobs, k \in Keys : plan'[j][k] # NoSlot => Kept(j) /\ plan'[j][k] = plan[j][k]
  BY DEF Kept, Dropped, NoLocations
<1>3. \A x \in Slots : Unused(x) => Unused(x)'
  BY <1>2, SlotFacts DEF Unused, Kept
<1>4. \A j \in Jobs : status'[j] = "preparing" => Kept(j)
  BY DEF Dropped
<1>5. \A j \in Jobs : Allocating(j)' => Allocating(j) /\ UNCHANGED <<lock, pending, alloc>>
  BY <1>4 DEF Planned, Allocating, Kept
<1>6. JobsConsistent'
  <2>1. ASSUME NEW j \in Jobs
        PROVE  /\ status'[j] = "preparing" => lock' \in Procs /\ owner'[j] = lock'
               /\ status'[j] \in {"free", "ok", "failed"} => plan'[j] = NoLocations
               /\ status'[j] # "store" => writing'[j] = {}
    BY <1>4 DEF JobsConsistent, Kept, Dropped
  <2>2. \A i, j \in Jobs : status'[i] = "preparing" /\ status'[j] = "preparing" => i = j
    BY <1>4 DEF JobsConsistent, Kept
  <2>3. QED
    BY <2>1, <2>2 DEF JobsConsistent
<1>7. FreeSlotsUnused'
  <2>1. \A x \in Slots : Free(BaseMetadata, x)' = Free(BaseMetadata, x)
    BY <1>1 DEF Free
  <2>2. \A x \in Slots : Free(BaseMetadata, x)' => Unused(x)'
    BY <1>3, <2>1 DEF FreeSlotsUnused
  <2>3. /\ meta'.n > 0 => HeadsApart(meta)'
        /\ meta'.n = 0 /\ meta'.legacy = NoSlot => index' = NoLocations
    BY DEF FreeSlotsUnused, HeadsApart
  <2>4. ASSUME NEW j \in Jobs, Allocating(j)'
        PROVE  /\ HeadsApart(alloc)'
               /\ ShardCount[lock'] <= alloc'.n /\ alloc'.cursor < ShardCount[lock']
               /\ \A x \in Slots : Free(alloc, x)' =>
                    /\ Free(BaseMetadata, x)'
                    /\ \A i \in Jobs, k \in Keys : plan'[i][k] # x
    <3>1. Allocating(j) /\ UNCHANGED <<lock, pending, alloc>>
      BY <1>5, <2>4
    <3>2. \A x \in Slots : Free(alloc, x)' = Free(alloc, x)
      BY <3>1 DEF Free
    <3>3. HeadsApart(alloc)'
      BY <3>1 DEF FreeSlotsUnused, HeadsApart
    <3>4. QED
      BY <1>2, <2>1, <3>1, <3>2, <3>3, SlotFacts DEF FreeSlotsUnused
  <2>5. QED
    BY <2>2, <2>3, <2>4 DEF FreeSlotsUnused
<1>8. PlannedSlotsPrivate'
  <2> SUFFICES ASSUME NEW j \in Jobs, NEW k \in Keys,
                      status'[j] \in {"preparing", "store"}, plan'[j][k] # NoSlot
               PROVE  /\ \A l \in Keys : index'[l] # plan'[j][k]
                      /\ \A p \in Procs, l \in Keys : cache'[p][l] # plan'[j][k]
                      /\ \A i \in Jobs, l \in Keys : plan'[i][l] = plan'[j][k] => i = j /\ l = k
    BY DEF PlannedSlotsPrivate
  <2>1. plan'[j][k] = plan[j][k] /\ status[j] \in {"preparing", "store"}
    BY <1>2 DEF Kept
  <2>2. QED
    BY <1>2, <2>1 DEF PlannedSlotsPrivate
<1>9. PlannedSlotsProgress'
  BY <1>2 DEF PlannedSlotsProgress, Kept
<1>10. PublishedDataIntact'
  BY <1>2 DEF PublishedDataIntact, Kept
<1>11. QED
  BY <1>6, <1>7, <1>8, <1>9, <1>10

(* The steps that only forget: lookups, failures, polls, deletes,          *)
(* restarts.                                                               *)
LEMMA SlotInvForgetting ==
    ASSUME Inv, TypeOK',
           \/ \E p \in Procs, K \in SUBSET Keys : Lookup(p, K) \/ Delete(p, K)
           \/ \E p \in Procs : Restart(p)
           \/ \E j \in Jobs : \/ PrepareAbort(j) \/ CompleteNothing(j) \/ CompleteFail(j, FALSE)
                             \/ FinishLoad(j) \/ Poll(j)
           \/ \E j \in Jobs, g \in Segments : WriteFail(j, g) \/ LoadChunk(j, g)
           \/ \E j \in Jobs, g \in Segments, b \in BOOLEAN : LoadChunkFail(j, g, b)
           \/ UNCHANGED vars
    PROVE  SlotInv'
<1> USE DEF Inv, SlotInv
<1>a. \A i \in Jobs : status[i] = "preparing" => owner[i] = lock /\ lock \in Procs
  BY DEF JobsConsistent
<1>b. index \in Locations /\ \A i \in Jobs : owner[i] \in Procs \cup {NoProc}
  BY DEF TypeOK
<1>1. ASSUME NEW p \in Procs, NEW K \in SUBSET Keys, Lookup(p, K)
       PROVE  SlotInv'
  <2>1. \A q \in Procs, k \in Keys : cache'[q][k] \in {cache[q][k], index[k]}
    BY <1>1, <1>b, RememberFacts DEF Lookup
  <2>2. \A i \in Jobs : Kept(i)
    BY <1>1 DEF Lookup, jobVars, Kept
  <2>3. QED
    BY <1>1, <2>1, <2>2, ForgettingKeepsSlotInv DEF Lookup, dirVars, prepVars
<1>2. ASSUME NEW j \in Jobs, PrepareAbort(j)
       PROVE  SlotInv'
  <2>1. \A i \in Jobs \ {j} : Kept(i) /\ status'[i] # "preparing"
    BY <1>2 DEF PrepareAbort, Kept, TypeOK, JobsConsistent
  <2>2. Dropped(j)
    BY <1>2 DEF PrepareAbort, Dropped, TypeOK, JobsConsistent
  <2>3. QED
    BY <1>2, <2>1, <2>2, ForgettingKeepsSlotInv DEF PrepareAbort, dirVars, Dropped
<1>3. ASSUME NEW j \in Jobs, NEW g \in Segments, WriteFail(j, g)
       PROVE  SlotInv'
  <2>1. \A i \in Jobs : Kept(i)
    BY <1>3 DEF WriteFail, Kept, TypeOK, JobsConsistent
  <2>2. QED
    BY <1>3, <2>1, ForgettingKeepsSlotInv DEF WriteFail, dirVars, prepVars
<1>4. ASSUME NEW j \in Jobs, CompleteNothing(j)
       PROVE  SlotInv'
  <2>1. \A i \in Jobs \ {j} : Kept(i)
    BY <1>4 DEF CompleteNothing, Settle, Kept, TypeOK
  <2>2. Dropped(j)
    BY <1>4 DEF CompleteNothing, Settle, TasksDone, Dropped, TypeOK
  <2>3. QED
    BY <1>4, <2>1, <2>2, ForgettingKeepsSlotInv DEF CompleteNothing, dirVars, prepVars
<1>5. ASSUME NEW j \in Jobs, CompleteFail(j, FALSE)
       PROVE  SlotInv'
  <2>1. \A i \in Jobs \ {j} : Kept(i)
    BY <1>5 DEF CompleteFail, Settle, Kept, TypeOK
  <2>2. Dropped(j)
    BY <1>5 DEF CompleteFail, Settle, TasksDone, Dropped, TypeOK
  <2>3. QED
    BY <1>5, <2>1, <2>2, ForgettingKeepsSlotInv DEF CompleteFail, prepVars
<1>6. ASSUME NEW j \in Jobs, NEW g \in Segments, LoadChunk(j, g)
       PROVE  SlotInv'
  <2>1. \A i \in Jobs : Kept(i)
    BY <1>6 DEF LoadChunk, Kept, TypeOK
  <2>2. QED
    BY <1>6, <2>1, ForgettingKeepsSlotInv DEF LoadChunk, dirVars, prepVars
<1>7. ASSUME NEW j \in Jobs, NEW g \in Segments, NEW b \in BOOLEAN, LoadChunkFail(j, g, b)
       PROVE  SlotInv'
  <2>1. \A i \in Jobs : Kept(i)
    BY <1>7 DEF LoadChunkFail, Kept, TypeOK
  <2>2. \A q \in Procs, k \in Keys : cache'[q][k] \in {cache[q][k], NoSlot}
    BY <1>7, <1>b, ForgetFacts, GroupFacts DEF LoadChunkFail
  <2>3. /\ \A k \in Keys : index'[k] \in {index[k], NoSlot}
        /\ index = NoLocations => index' = NoLocations
    BY <1>7, UnindexedFacts, GroupFacts DEF LoadChunkFail
  <2>4. QED
    BY <1>7, <2>1, <2>2, <2>3, ForgettingKeepsSlotInv DEF LoadChunkFail, prepVars
<1>8. ASSUME NEW j \in Jobs, FinishLoad(j)
       PROVE  SlotInv'
  <2>1. \A i \in Jobs \ {j} : Kept(i)
    BY <1>8 DEF FinishLoad, Settle, Kept, TypeOK
  <2>2. Dropped(j)
    BY <1>8 DEF FinishLoad, Settle, Dropped, TypeOK, JobsConsistent
  <2>3. QED
    BY <1>8, <2>1, <2>2, ForgettingKeepsSlotInv DEF FinishLoad, dirVars, prepVars
<1>9. ASSUME NEW j \in Jobs, Poll(j)
       PROVE  SlotInv'
  <2>1. \A i \in Jobs \ {j} : Kept(i)
    BY <1>9 DEF Poll, Kept, TypeOK
  <2>2. Dropped(j)
    BY <1>9 DEF Poll, Dropped, TypeOK, JobsConsistent
  <2>3. QED
    BY <1>9, <2>1, <2>2, ForgettingKeepsSlotInv DEF Poll, dirVars, prepVars
<1>10. ASSUME NEW p \in Procs, NEW K \in SUBSET Keys, Delete(p, K)
       PROVE  SlotInv'
  <2>1. \A i \in Jobs : Kept(i)
    BY <1>10 DEF Delete, jobVars, Kept
  <2>2. \A q \in Procs, k \in Keys : cache'[q][k] \in {cache[q][k], NoSlot}
    BY <1>10, ForgetFacts DEF Delete
  <2>3. /\ \A k \in Keys : index'[k] \in {index[k], NoSlot}
        /\ index = NoLocations => index' = NoLocations
    BY <1>10, UnindexedFacts DEF Delete
  <2>4. QED
    BY <1>10, <2>1, <2>2, <2>3, ForgettingKeepsSlotInv DEF Delete, prepVars
<1>11. ASSUME NEW p \in Procs, Restart(p)
       PROVE  SlotInv'
  <2>1. \A i \in Jobs : owner[i] = p => Dropped(i)
    BY <1>11 DEF Restart, Dropped
  <2>2. \A i \in Jobs : owner[i] # p => Kept(i)
    BY <1>11 DEF Restart, Kept
  <2>3. \A i \in Jobs : status'[i] = "preparing" => UNCHANGED <<lock, pending, alloc>>
    BY <1>11, <1>a, <2>1, <2>2 DEF Restart, Dropped, Kept
  <2>4. \A q \in Procs, k \in Keys : cache'[q][k] \in {cache[q][k], NoSlot}
    BY <1>11 DEF Restart, TypeOK, NoLocations
  <2>5. UNCHANGED <<index, meta, cells>>
    BY <1>11 DEF Restart, dirVars
  <2>6. QED
    BY <2>1, <2>2, <2>3, <2>4, <2>5, ForgettingKeepsSlotInv
<1>12. CASE UNCHANGED vars
  <2>1. \A i \in Jobs : Kept(i)
    BY <1>12 DEF vars, jobVars, Kept
  <2>2. QED
    BY <1>12, <2>1, ForgettingKeepsSlotInv DEF vars, dirVars, prepVars
<1>13. QED
  BY <1>1, <1>2, <1>3, <1>4, <1>5, <1>6, <1>7, <1>8, <1>9, <1>10, <1>11, <1>12

(* prepare_store reads an allocation state whose free slots are unused.    *)
LEMMA SlotInvPrepareStore ==
    ASSUME Inv, TypeOK', NEW p \in Procs, NEW j \in Jobs, NEW K \in SUBSET Keys,
           PrepareStore(p, j, K)
    PROVE  SlotInv'
<1> USE DEF Inv, SlotInv
<1>1. /\ status[j] = "free" /\ lock = NoProc /\ lock' = p
      /\ status' = [status EXCEPT ![j] = "preparing"]
      /\ owner' = [owner EXCEPT ![j] = p]
      /\ pending' = {k \in K : Located(p, k) = NoSlot}
      /\ alloc' = IF pending' = {} THEN meta ELSE AllocationState(ShardCount[p])
      /\ pending' # {} => AllocationState(ShardCount[p]).next <= MaxSegments
      /\ UNCHANGED <<index, meta, cells, plan, todo, writing, good>>
  BY DEF PrepareStore, dirVars
<1>2. /\ plan[j] = NoLocations /\ writing[j] = {}
      /\ \A i \in Jobs : status[i] # "preparing"
  BY <1>1, ConstantsAssumption DEF JobsConsistent
<1>3. /\ status'[j] = "preparing" /\ owner'[j] = p
      /\ \A i \in Jobs \ {j} : status'[i] = status[i] /\ owner'[i] = owner[i]
  BY <1>1 DEF TypeOK
<1>4. \A q \in Procs, k \in Keys : cache'[q][k] \in {cache[q][k], index[k]}
  BY RememberFacts DEF PrepareStore, TypeOK
<1>5. BaseMetadata' = BaseMetadata
  BY <1>1, BaseStable
<1>6. JobsConsistent'
  BY <1>1, <1>2, <1>3 DEF JobsConsistent
<1>7. FreeSlotsUnused'
  <2>1. \A x \in Slots : Free(BaseMetadata, x)' = Free(BaseMetadata, x)
    BY <1>5 DEF Free
  <2>2. \A x \in Slots : Unused(x) => Unused(x)'
    BY <1>1, <1>3, <1>4 DEF Unused
  <2>3. /\ meta'.n > 0 => HeadsApart(meta)'
        /\ meta'.n = 0 /\ meta'.legacy = NoSlot => index' = NoLocations
    BY <1>1 DEF FreeSlotsUnused, HeadsApart
  <2>4. ASSUME NEW i \in Jobs, Allocating(i)'
        PROVE  /\ HeadsApart(alloc)'
               /\ ShardCount[lock'] <= alloc'.n /\ alloc'.cursor < ShardCount[lock']
               /\ \A x \in Slots : Free(alloc, x)' =>
                    /\ Free(BaseMetadata, x)'
                    /\ \A h \in Jobs, k \in Keys : plan'[h][k] # x
    <3>1. i = j
      BY <1>2, <1>3, <2>4 DEF Allocating
    <3>2. pending' # {}
      BY <1>1, <1>2, <2>4, <3>1 DEF Allocating, Planned, NoLocations
    <3>3. /\ alloc' = AllocationState(ShardCount[p])
          /\ ShardCount[p] \in 1 .. MaxShards
          /\ AllocationState(ShardCount[p]).next <= MaxSegments
      BY <1>1, <3>2, ConstantsAssumption
    <3>4. /\ HeadsApart(AllocationState(ShardCount[p]))
          /\ ShardCount[p] <= AllocationState(ShardCount[p]).n
          /\ AllocationState(ShardCount[p]).cursor < ShardCount[p]
          /\ \A x \in Slots : Free(AllocationState(ShardCount[p]), x) => Free(BaseMetadata, x)
      BY <3>3, AllocationFacts
    <3> DEFINE A == AllocationState(ShardCount[p])
    <3> HIDE DEF A
    <3>5. alloc' = A /\ HeadsApart(A) /\ \A x \in Slots : Free(A, x) => Free(BaseMetadata, x)
      BY <3>3, <3>4 DEF A
    <3>6. HeadsApart(alloc)' /\ \A x \in Slots : Free(alloc, x)' => Free(BaseMetadata, x)
      BY <3>5 DEF HeadsApart, Free
    <3>7. \A x \in Slots, h \in Jobs, k \in Keys : Free(BaseMetadata, x) => plan[h][k] # x
      BY <1>2 DEF FreeSlotsUnused, Unused
    <3>8. QED
      BY <1>1, <2>1, <3>3, <3>4, <3>6, <3>7
  <2>5. QED
    BY <2>1, <2>2, <2>3, <2>4 DEF FreeSlotsUnused
<1>8. \A k \in Keys : plan'[j][k] = NoSlot
  BY <1>1, <1>2 DEF NoLocations
<1>9. PlannedSlotsPrivate'
  BY <1>1, <1>3, <1>4, <1>8 DEF PlannedSlotsPrivate
<1>10. PlannedSlotsProgress'
  BY <1>1, <1>3, <1>8 DEF PlannedSlotsProgress
<1>11. PublishedDataIntact'
  BY <1>1, <1>3, <1>4, <1>8 DEF PublishedDataIntact
<1>12. QED
  BY <1>6, <1>7, <1>9, <1>10, <1>11

(* The slot that one turn of the allocation loop takes was free and is not *)
(* free any more; nothing else becomes free.                               *)
LEMMA AllocateEntryFacts ==
    ASSUME Inv, NEW j \in Jobs, NEW k \in Keys, AllocateEntry(j, k)
    PROVE  \E slot \in Slots :
             /\ plan' = [plan EXCEPT ![j] = [@ EXCEPT ![k] = slot]]
             /\ Free(alloc, slot)
             /\ HeadsApart(alloc)'
             /\ alloc'.n = alloc.n
             /\ alloc'.cursor < ShardCount[lock]
             /\ \A x \in Slots : Free(alloc, x)' => Free(alloc, x) /\ x # slot
<1> USE DEF Inv, SlotInv
<1> DEFINE s == alloc.cursor
           head == alloc.heads[s]
           full == SegmentFull(head)
           slot == IF full THEN [seg |-> alloc.next, off |-> 0] ELSE head
           heads == [alloc.heads EXCEPT ![s] = [seg |-> slot.seg, off |-> slot.off + 1]]
           next == IF full THEN alloc.next + 1 ELSE alloc.next
<1>1. /\ alloc \in Metadata /\ s \in Shards /\ head \in Heads
      /\ alloc.next \in 0 .. MaxSegments /\ alloc.n \in 0 .. MaxShards
      /\ alloc.heads \in [Shards -> Heads]
  BY MetadataFacts DEF TypeOK
<1>2. slot \in Slots
  BY <1>1, ConstantsAssumption DEF AllocateEntry, SegmentFull, Heads, Slots, Segments
<1>3. Allocating(j) /\ lock \in Procs /\ owner[j] = lock
  BY DEF AllocateEntry, Allocating, JobsConsistent
<1>4. HeadsApart(alloc) /\ s < ShardCount[lock] /\ ShardCount[lock] <= alloc.n
  BY <1>3 DEF FreeSlotsUnused
<1>5. s < alloc.n
  BY <1>1, <1>3, <1>4, ConstantsAssumption DEF Shards
<1>6. /\ alloc' = [legacy |-> alloc.legacy, n |-> alloc.n, heads |-> heads, next |-> next,
                   cursor |-> (s + 1) % ShardCount[owner[j]]]
      /\ plan' = [plan EXCEPT ![j] = [@ EXCEPT ![k] = slot]]
  BY DEF AllocateEntry
<1>7. (s + 1) % ShardCount[lock] < ShardCount[lock]
  BY <1>1, <1>3, ConstantsAssumption DEF Shards
<1>8. ASSUME NEW t \in Shards, t < alloc.n
      PROVE  /\ alloc.heads[t].seg \in Nat /\ alloc.heads[t].seg < alloc.next
             /\ t # s => alloc.heads[t].seg # head.seg
  BY <1>1, <1>4, <1>5, <1>8, SlotFacts DEF HeadsApart
<1>9. /\ slot.seg \in Nat /\ slot.off \in Nat /\ head.seg \in Nat /\ head.off \in Nat
      /\ alloc.next \in Nat /\ Capacity \in Nat /\ head.seg < alloc.next
  <2>1. slot.seg \in Nat /\ slot.off \in Nat
    BY <1>2, SlotFacts
  <2>2. head.seg \in Nat /\ head.off \in Nat
    BY <1>1, SlotFacts
  <2>3. head.seg < alloc.next
    BY <1>1, <1>5, <1>8
  <2>4. QED
    BY <1>1, <2>1, <2>2, <2>3, ConstantsAssumption
<1>10. /\ full => slot.seg = alloc.next /\ slot.off = 0 /\ next = alloc.next + 1
       /\ ~full => slot = head /\ slot.seg = head.seg /\ slot.off = head.off /\ next = alloc.next
  OBVIOUS
<1>11. /\ heads[s].seg = slot.seg /\ heads[s].off = slot.off + 1
       /\ \A t \in Shards : t # s => /\ heads[t].seg = alloc.heads[t].seg
                                      /\ heads[t].off = alloc.heads[t].off
  <2> HIDE DEF slot
  <2>1. QED
    BY <1>1
<1>12. Free(alloc, slot)
  <2>1. CASE full
    BY <2>1, <1>9, <1>10 DEF Free
  <2>2. CASE ~full
    BY <2>2, <1>1, <1>5, <1>9, <1>10 DEF Free
  <2>3. QED
    BY <2>1, <2>2
<1> HIDE DEF slot, full, heads, next, head
<1>13. HeadsApart(alloc)'
  <2> SUFFICES ASSUME NEW t \in Shards, NEW u \in Shards, t < alloc.n
               PROVE  /\ heads[t].seg < next
                      /\ u < alloc.n /\ t # u => heads[t].seg # heads[u].seg
    BY <1>6 DEF HeadsApart
  <2>1. heads[t].seg < next
    <3>1. CASE t = s
      BY <3>1, <1>9, <1>10, <1>11
    <3>2. CASE t # s
      BY <3>2, <1>8, <1>9, <1>10, <1>11
    <3>3. QED
      BY <3>1, <3>2
  <2>2. ASSUME u < alloc.n, t # u PROVE heads[t].seg # heads[u].seg
    <3>1. CASE t # s /\ u # s
      BY <2>2, <3>1, <1>4, <1>11 DEF HeadsApart
    <3>2. ASSUME NEW v \in Shards, v < alloc.n, v # s PROVE heads[v].seg # heads[s].seg
      <4>1. alloc.heads[v].seg # head.seg /\ alloc.heads[v].seg < alloc.next
        BY <3>2, <1>8
      <4>2. alloc.heads[v].seg # slot.seg
        BY <3>2, <4>1, <1>8, <1>9, <1>10
      <4>3. QED
        BY <3>2, <4>2, <1>11
    <3>3. CASE t = s \/ u = s
      BY <2>2, <3>2, <3>3
    <3>4. QED
      BY <3>1, <3>2, <3>3
  <2>3. QED
    BY <2>1, <2>2
<1>14. ASSUME NEW x \in Slots, Free(alloc, x)' PROVE Free(alloc, x) /\ x # slot
  <2>1. x.seg \in Nat /\ x.off \in Nat
    BY SlotFacts
  <2>2. CASE x.seg >= next
    <3>1. x.seg >= alloc.next
      BY <2>1, <2>2, <1>9, <1>10
    <3>2. x.seg # slot.seg
      BY <2>1, <2>2, <1>9, <1>10
    <3>3. QED
      BY <3>1, <3>2 DEF Free
  <2>3. ASSUME NEW t \in Shards, t < alloc.n, x.seg = heads[t].seg, x.off >= heads[t].off
        PROVE  Free(alloc, x) /\ x # slot
    <3>1. CASE t = s
      <4>1. x.off >= slot.off + 1 /\ x.seg = slot.seg
        BY <2>3, <3>1, <1>11
      <4>2. x # slot
        BY <4>1, <2>1, <1>9
      <4>3. CASE full
        BY <4>1, <4>3, <1>9, <1>10 DEF Free
      <4>4. CASE ~full
        <5>1. x.seg = alloc.heads[s].seg /\ x.off >= alloc.heads[s].off
          BY <4>1, <4>4, <2>1, <1>9, <1>10 DEF head
        <5>2. QED
          BY <5>1, <4>2, <1>1, <1>5 DEF Free
      <4>5. QED
        BY <4>2, <4>3, <4>4
    <3>2. CASE t # s
      <4>1. x.seg = alloc.heads[t].seg /\ x.off >= alloc.heads[t].off
        BY <2>3, <3>2, <1>11
      <4>2. x.seg # slot.seg
        <5>1. alloc.heads[t].seg # head.seg /\ alloc.heads[t].seg < alloc.next
          BY <2>3, <3>2, <1>8
        <5>2. QED
          BY <4>1, <5>1, <2>1, <1>9, <1>10
      <4>3. QED
        BY <4>1, <4>2, <2>3 DEF Free
    <3>3. QED
      BY <3>1, <3>2
  <2>4. QED
    BY <1>14, <1>6, <2>2, <2>3 DEF Free
<1>15. QED
  BY <1>2, <1>3, <1>6, <1>7, <1>12, <1>13, <1>14

(* One turn of the allocation loop keeps the slot invariant.               *)
LEMMA SlotInvAllocateEntry ==
    ASSUME Inv, TypeOK', NEW j \in Jobs, NEW k \in Keys, AllocateEntry(j, k)
    PROVE  SlotInv'
<1> USE DEF Inv, SlotInv
<1>1. PICK slot \in Slots :
             /\ plan' = [plan EXCEPT ![j] = [@ EXCEPT ![k] = slot]]
             /\ Free(alloc, slot)
             /\ HeadsApart(alloc)'
             /\ alloc'.n = alloc.n
             /\ alloc'.cursor < ShardCount[lock]
             /\ \A x \in Slots : Free(alloc, x)' => Free(alloc, x) /\ x # slot
  BY AllocateEntryFacts
<1>2. /\ status[j] = "preparing"
      /\ UNCHANGED <<index, meta, cells, cache, lock, status, owner, todo, writing, good>>
  BY DEF AllocateEntry, dirVars
<1>3. Allocating(j)
  BY DEF AllocateEntry, Allocating
<1>4. /\ plan'[j][k] = slot
      /\ \A i \in Jobs, l \in Keys : <<i, l>> # <<j, k>> => plan'[i][l] = plan[i][l]
      /\ \A i \in Jobs : i # j => plan'[i] = plan[i]
  BY <1>1 DEF TypeOK, Locations
<1>5. Free(BaseMetadata, slot) /\ Unused(slot) /\ \A i \in Jobs, l \in Keys : plan[i][l] # slot
  BY <1>1, <1>3 DEF FreeSlotsUnused
<1>6. BaseMetadata' = BaseMetadata
  BY <1>2, BaseStable
<1>7. JobsConsistent'
  BY <1>2, <1>4 DEF JobsConsistent
<1>8. FreeSlotsUnused'
  <2>1. \A x \in Slots : Free(BaseMetadata, x)' = Free(BaseMetadata, x)
    BY <1>6 DEF Free
  <2>2. \A x \in Slots : Unused(x) => Unused(x)'
    BY <1>2, <1>4 DEF Unused
  <2>3. /\ meta'.n > 0 => HeadsApart(meta)'
        /\ meta'.n = 0 /\ meta'.legacy = NoSlot => index' = NoLocations
    BY <1>2 DEF FreeSlotsUnused, HeadsApart
  <2>4. /\ ShardCount[lock'] <= alloc'.n /\ alloc'.cursor < ShardCount[lock']
        /\ HeadsApart(alloc)'
    BY <1>1, <1>2, <1>3 DEF FreeSlotsUnused
  <2>5. \A x \in Slots : Free(alloc, x)' =>
                    /\ Free(BaseMetadata, x)'
                    /\ \A i \in Jobs, l \in Keys : plan'[i][l] # x
    BY <1>1, <1>3, <1>4, <2>1 DEF FreeSlotsUnused
  <2>6. QED
    BY <2>1, <2>2, <2>3, <2>4, <2>5 DEF FreeSlotsUnused
<1>9. PlannedSlotsPrivate'
  <2> SUFFICES ASSUME NEW i \in Jobs, NEW l \in Keys,
                      status[i] \in {"preparing", "store"}, plan'[i][l] # NoSlot
               PROVE  /\ \A m \in Keys : index[m] # plan'[i][l]
                      /\ \A p \in Procs, m \in Keys : cache[p][m] # plan'[i][l]
                      /\ \A h \in Jobs, m \in Keys : plan'[h][m] = plan'[i][l] => h = i /\ m = l
    BY <1>2 DEF PlannedSlotsPrivate
  <2>1. CASE i = j /\ l = k
    BY <2>1, <1>4, <1>5 DEF Unused
  <2>2. CASE <<i, l>> # <<j, k>>
    <3>1. plan'[i][l] = plan[i][l]
      BY <2>2, <1>4
    <3>2. QED
      BY <3>1, <1>4, <1>5 DEF PlannedSlotsPrivate
  <2>3. QED
    BY <2>1, <2>2
<1>10. PlannedSlotsProgress'
  <2> SUFFICES ASSUME NEW i \in Jobs, NEW l \in Keys, plan'[i][l] # NoSlot
               PROVE  /\ status[i] = "preparing" => cells[plan'[i][l]] = Empty
                      /\ status[i] = "store" =>
                           /\ plan'[i][l].seg \in todo[i] => cells[plan'[i][l]] = Empty
                           /\ plan'[i][l].seg \in writing[i] => cells[plan'[i][l]] = Torn
                           /\ plan'[i][l].seg \notin todo[i] \cup writing[i] /\ good[i]
                                => cells[plan'[i][l]] = l
    BY <1>2 DEF PlannedSlotsProgress
  <2>1. CASE i = j /\ l = k
    BY <2>1, <1>2, <1>4, <1>5 DEF Unused
  <2>2. CASE <<i, l>> # <<j, k>>
    <3>1. plan'[i][l] = plan[i][l]
      BY <2>2, <1>4
    <3>2. QED
      BY <3>1 DEF PlannedSlotsProgress
  <2>3. QED
    BY <2>1, <2>2
<1>11. PublishedDataIntact'
  BY <1>2, <1>4 DEF PublishedDataIntact
<1>12. QED
  BY <1>7, <1>8, <1>9, <1>10, <1>11

(* Committing the allocation keeps the slot invariant.                     *)
LEMMA SlotInvPrepareReturn ==
    ASSUME Inv, TypeOK', NEW j \in Jobs, PrepareReturn(j)
    PROVE  SlotInv'
<1> USE DEF Inv, SlotInv
<1>1. /\ status[j] = "preparing" /\ pending = {} /\ lock' = NoProc
      /\ status' = [status EXCEPT ![j] = "store"]
      /\ todo' = [todo EXCEPT ![j] = Groups(j)]
      /\ meta' = IF Planned(j) = {} THEN meta ELSE alloc
      /\ UNCHANGED <<index, cells, cache, owner, plan, writing, good>>
  BY DEF PrepareReturn, Release
<1>2. /\ status'[j] = "store" /\ todo'[j] = Groups(j) /\ writing[j] = {}
      /\ \A i \in Jobs \ {j} : /\ status'[i] = status[i] /\ todo'[i] = todo[i]
                                /\ status'[i] # "preparing"
  BY <1>1 DEF TypeOK, JobsConsistent
<1>3. JobsConsistent'
  BY <1>1, <1>2 DEF JobsConsistent
<1>4. FreeSlotsUnused'
  <2>1. \A i \in Jobs : ~Allocating(i)'
    BY <1>2 DEF Allocating
  <2>2. CASE Planned(j) = {}
    <3>1. BaseMetadata' = BaseMetadata
      BY <1>1, <2>2, BaseStable
    <3>2. \A x \in Slots : Unused(x) => Unused(x)'
      <4>1. \A k \in Keys : plan[j][k] \notin Slots
        BY <2>2, SlotFacts DEF Planned
      <4>2. QED
        BY <4>1, <1>1, <1>2 DEF Unused
    <3>3. \A x \in Slots : Free(BaseMetadata, x)' = Free(BaseMetadata, x)
      BY <3>1 DEF Free
    <3>4. /\ meta'.n > 0 => HeadsApart(meta)'
          /\ meta'.n = 0 /\ meta'.legacy = NoSlot => index' = NoLocations
      BY <1>1, <2>2 DEF FreeSlotsUnused, HeadsApart
    <3>5. QED
      BY <2>1, <3>2, <3>3, <3>4 DEF FreeSlotsUnused
  <2>3. CASE Planned(j) # {}
    <3>1. Allocating(j) /\ meta' = alloc
      BY <1>1, <2>3 DEF Allocating
    <3>2. /\ HeadsApart(alloc)
          /\ ShardCount[lock] <= alloc.n
          /\ \A x \in Slots : Free(alloc, x) =>
               Unused(x) /\ \A i \in Jobs, k \in Keys : plan[i][k] # x
      BY <3>1 DEF FreeSlotsUnused
    <3>3. alloc.n > 0
      BY <1>1, <3>2, MetadataFacts, ConstantsAssumption DEF JobsConsistent, TypeOK
    <3>4. BaseMetadata' = alloc
      BY <3>1, <3>3 DEF BaseMetadata
    <3>5. \A x \in Slots : Free(BaseMetadata, x)' = Free(alloc, x)
      BY <3>4 DEF Free
    <3>6. \A x \in Slots : Free(alloc, x) => Unused(x)'
      BY <1>1, <3>2 DEF Unused
    <3>7. HeadsApart(meta)' /\ meta'.n > 0
      BY <3>1, <3>2, <3>3 DEF HeadsApart
    <3>8. ~(meta'.n = 0)
      BY <3>1, <3>3
    <3>9. QED
      BY <2>1, <3>5, <3>6, <3>7, <3>8 DEF FreeSlotsUnused
  <2>4. QED
    BY <2>2, <2>3
<1>5. PlannedSlotsPrivate'
  BY <1>1, <1>2 DEF PlannedSlotsPrivate
<1>6. PlannedSlotsProgress'
  <2>1. \A k \in Keys : plan[j][k] # NoSlot => plan[j][k].seg \in Groups(j)
    BY DEF Groups, Planned
  <2>2. QED
    BY <1>1, <1>2, <2>1 DEF PlannedSlotsProgress
<1>7. PublishedDataIntact'
  BY <1>1, <1>2 DEF PublishedDataIntact
<1>8. QED
  BY <1>3, <1>4, <1>5, <1>6, <1>7

(* A write task changes exactly the slots of its own group.                *)
LEMMA WriteFacts ==
    ASSUME Inv, NEW j \in Jobs, NEW g \in Segments, status[j] = "store"
    PROVE  /\ \A x \in Slots : (\A k \in Group(j, g) : plan[j][k] # x) =>
                 Stored(j, Group(j, g))[x] = cells[x] /\ Scratched(j, Group(j, g))[x] = cells[x]
           /\ \A k \in Group(j, g) :
                 /\ Stored(j, Group(j, g))[plan[j][k]] = k
                 /\ Scratched(j, Group(j, g))[plan[j][k]] = Torn
<1> USE DEF Inv, SlotInv
<1>1. ASSUME NEW x \in Slots, \A k \in Group(j, g) : plan[j][k] # x
      PROVE  Stored(j, Group(j, g))[x] = cells[x] /\ Scratched(j, Group(j, g))[x] = cells[x]
  BY <1>1 DEF Stored, Scratched
<1>2. ASSUME NEW k \in Group(j, g)
      PROVE  /\ Stored(j, Group(j, g))[plan[j][k]] = k
             /\ Scratched(j, Group(j, g))[plan[j][k]] = Torn
  <2>1. k \in Keys /\ plan[j][k] # NoSlot /\ plan[j][k] \in Slots
    BY LocationFacts DEF Group, Planned
  <2>2. \A l \in Group(j, g) : plan[j][l] = plan[j][k] => l = k
    BY <2>1 DEF PlannedSlotsPrivate, Group, Planned
  <2>3. (CHOOSE l \in Group(j, g) : plan[j][l] = plan[j][k]) = k
    BY <2>2
  <2>4. QED
    BY <2>1, <2>3 DEF Stored, Scratched
<1>3. QED
  BY <1>1, <1>2

(* The write tasks keep the slot invariant.                                *)
LEMMA SlotInvWrite ==
    ASSUME Inv, TypeOK', NEW j \in Jobs, NEW g \in Segments,
           WriteBegin(j, g) \/ WriteEnd(j, g)
    PROVE  SlotInv'
<1> USE DEF Inv, SlotInv
<1>1. /\ status[j] = "store"
      /\ UNCHANGED <<index, meta, cache, lock, pending, alloc, status, owner, plan, good>>
      /\ \A i \in Jobs \ {j} : todo'[i] = todo[i] /\ writing'[i] = writing[i]
  BY DEF WriteBegin, WriteEnd, prepVars, JobsConsistent, TypeOK
<1>2. \A x \in Slots : (\A k \in Group(j, g) : plan[j][k] # x) => cells'[x] = cells[x]
  BY <1>1, WriteFacts DEF WriteBegin, WriteEnd
<1>3. \A k \in Group(j, g) : /\ k \in Keys /\ plan[j][k] # NoSlot /\ plan[j][k].seg = g
                             /\ \A i \in Jobs, l \in Keys : plan[i][l] = plan[j][k] => i = j /\ l = k
                             /\ \A l \in Keys : index[l] # plan[j][k]
                             /\ \A p \in Procs, l \in Keys : cache[p][l] # plan[j][k]
  BY <1>1 DEF Group, Planned, PlannedSlotsPrivate
<1>4. \A x \in Slots : Unused(x) => Unused(x)'
  <2>1. ASSUME NEW x \in Slots, Unused(x) PROVE \A k \in Group(j, g) : plan[j][k] # x
    BY <1>1, <1>3, <2>1 DEF Unused
  <2>2. QED
    BY <1>1, <1>2, <2>1 DEF Unused
<1>5. BaseMetadata' = BaseMetadata
  BY <1>1, BaseStable
<1>6. JobsConsistent'
  BY <1>1 DEF JobsConsistent
<1>7. FreeSlotsUnused'
  <2>1. \A x \in Slots : /\ Free(BaseMetadata, x)' = Free(BaseMetadata, x)
                         /\ Free(alloc, x)' = Free(alloc, x)
    BY <1>1, <1>5 DEF Free
  <2>2. \A i \in Jobs : Allocating(i)' = Allocating(i)
    BY <1>1 DEF Allocating, Planned
  <2>3. HeadsApart(meta)' = HeadsApart(meta) /\ HeadsApart(alloc)' = HeadsApart(alloc)
    BY <1>1 DEF HeadsApart
  <2>4. QED
    BY <1>1, <1>4, <2>1, <2>2, <2>3 DEF FreeSlotsUnused
<1>8. PlannedSlotsPrivate'
  BY <1>1 DEF PlannedSlotsPrivate
<1>9. PlannedSlotsProgress'
  <2> SUFFICES ASSUME NEW i \in Jobs, NEW k \in Keys, plan[i][k] # NoSlot
               PROVE  /\ status[i] = "preparing" => cells'[plan[i][k]] = Empty
                      /\ status[i] = "store" =>
                           /\ plan[i][k].seg \in todo'[i] => cells'[plan[i][k]] = Empty
                           /\ plan[i][k].seg \in writing'[i] => cells'[plan[i][k]] = Torn
                           /\ plan[i][k].seg \notin todo'[i] \cup writing'[i] /\ good[i]
                                => cells'[plan[i][k]] = k
    BY <1>1 DEF PlannedSlotsProgress
  <2>1. plan[i][k] \in Slots
    BY LocationFacts
  <2>2. CASE i = j /\ plan[i][k].seg = g
    <3>1. k \in Group(j, g)
      BY <2>2 DEF Group, Planned
    <3>2. CASE WriteBegin(j, g)
      <4>1. cells'[plan[i][k]] = Torn /\ todo'[i] = todo[i] \ {g} /\ writing'[i] = writing[i] \cup {g}
        BY <1>1, <2>2, <3>1, <3>2, WriteFacts DEF WriteBegin, TypeOK
      <4>2. QED
        BY <4>1, <1>1, <2>2
    <3>3. CASE WriteEnd(j, g)
      <4>1. /\ cells'[plan[i][k]] = k /\ todo'[i] = todo[i] /\ writing'[i] = writing[i] \ {g}
            /\ g \in writing[i]
        BY <1>1, <2>2, <3>1, <3>3, WriteFacts DEF WriteEnd, TypeOK
      <4>2. g \notin todo[i]
        <5>1. /\ g \in todo[i] => cells[plan[i][k]] = Empty
              /\ g \in writing[i] => cells[plan[i][k]] = Torn
          BY <1>1, <2>2 DEF PlannedSlotsProgress
        <5>2. QED
          BY <4>1, <5>1, ConstantsAssumption
      <4>3. QED
        BY <4>1, <4>2, <1>1, <2>2
    <3>4. QED
      BY <3>2, <3>3
  <2>3. CASE ~(i = j /\ plan[i][k].seg = g)
    <3>1. \A l \in Group(j, g) : plan[j][l] # plan[i][k]
      BY <1>3, <2>3
    <3>2. cells'[plan[i][k]] = cells[plan[i][k]]
      BY <1>2, <2>1, <3>1
    <3>3. /\ plan[i][k].seg \in todo'[i] <=> plan[i][k].seg \in todo[i]
          /\ plan[i][k].seg \in writing'[i] <=> plan[i][k].seg \in writing[i]
      BY <1>1, <2>3 DEF WriteBegin, WriteEnd, TypeOK
    <3>4. QED
      BY <3>2, <3>3 DEF PlannedSlotsProgress
  <2>4. QED
    BY <2>2, <2>3
<1>10. PublishedDataIntact'
  <2>1. ASSUME NEW k \in Keys, index[k] # NoSlot PROVE cells'[index[k]] = cells[index[k]]
    BY <2>1, <1>2, <1>3, LocationFacts
  <2>2. ASSUME NEW p \in Procs, NEW k \in Keys, cache[p][k] # NoSlot
        PROVE  cells'[cache[p][k]] = cells[cache[p][k]]
    BY <2>2, <1>2, <1>3, LocationFacts
  <2>3. ASSUME NEW i \in Jobs, NEW k \in Keys, status[i] = "load", plan[i][k] # NoSlot
        PROVE  cells'[plan[i][k]] = cells[plan[i][k]]
    BY <2>3, <1>1, <1>2, <1>3, LocationFacts
  <2>4. QED
    BY <1>1, <2>1, <2>2, <2>3 DEF PublishedDataIntact
<1>11. QED
  BY <1>6, <1>7, <1>8, <1>9, <1>10

(* The rows that complete_store inserts: the plan's, where the key had none. *)
LEMMA SlotInvCompleteStore ==
    ASSUME Inv, TypeOK', NEW j \in Jobs, CompleteStore(j) \/ CompleteFail(j, TRUE)
    PROVE  SlotInv'
<1> USE DEF Inv, SlotInv
<1>1. /\ status[j] = "store" /\ todo[j] = {} /\ writing[j] = {} /\ good[j]
      /\ Planned(j) # {} /\ index' = Inserted(j)
      /\ status'[j] \in {"ok", "failed"} /\ plan'[j] = NoLocations
      /\ \A i \in Jobs \ {j} : status'[i] = status[i] /\ plan'[i] = plan[i]
      /\ UNCHANGED <<meta, cells, lock, pending, alloc, owner, todo, writing, good>>
  BY DEF CompleteStore, CompleteFail, TasksDone, Settle, prepVars, TypeOK
<1>2. \A k \in Keys : index'[k] # index[k] =>
                       index'[k] = plan[j][k] /\ plan[j][k] \in Slots /\ cells[plan[j][k]] = k
  <2>1. \A k \in Keys : plan[j][k] # NoSlot => cells[plan[j][k]] = k
    BY <1>1 DEF PlannedSlotsProgress
  <2>2. QED
    BY <1>1, <2>1, LocationFacts DEF Inserted
<1>3. \A q \in Procs, k \in Keys : cache'[q][k] \in {cache[q][k], index'[k]}
  <2>1. CASE CompleteStore(j)
    <3>1. index' \in Locations /\ cache' = Remember(owner[j], Planned(j), index')
      BY <2>1 DEF CompleteStore, TypeOK
    <3>2. Planned(j) \in SUBSET Keys /\ owner[j] \in Procs \cup {NoProc}
      BY GroupFacts DEF TypeOK
    <3>3. CASE owner[j] \in Procs
      BY <3>1, <3>2, <3>3, RememberFacts
    <3>4. CASE owner[j] \notin Procs
      BY <3>1, <3>4 DEF Remember, TypeOK
    <3>5. QED
      BY <3>3, <3>4
  <2>2. CASE CompleteFail(j, TRUE)
    BY <2>2 DEF CompleteFail
  <2>3. QED
    BY <2>1, <2>2
<1>4. \A i \in Jobs, k \in Keys : plan'[i][k] # NoSlot => i # j /\ plan'[i][k] = plan[i][k]
  BY <1>1 DEF NoLocations
<1>5. \A k \in Keys, x \in Slots : plan[j][k] = x => ~Free(BaseMetadata, x)
  BY <1>1 DEF FreeSlotsUnused, Unused
<1>6. ~(meta.n = 0 /\ meta.legacy = NoSlot)
  <2>1. PICK k \in Keys : plan[j][k] \in Slots
    BY <1>1, LocationFacts DEF Planned
  <2>2. QED
    BY <1>5, <2>1, NewDirectoryAllFree
<1>7. BaseMetadata' = BaseMetadata
  BY <1>1, <1>6, BaseStable, MetadataFacts DEF TypeOK
<1>8. JobsConsistent'
  BY <1>1 DEF JobsConsistent
<1>9. FreeSlotsUnused'
  <2>1. \A x \in Slots : /\ Free(BaseMetadata, x)' = Free(BaseMetadata, x)
                         /\ Free(alloc, x)' = Free(alloc, x)
    BY <1>1, <1>7 DEF Free
  <2>2. \A x \in Slots : Free(BaseMetadata, x) => Unused(x)'
    <3> SUFFICES ASSUME NEW x \in Slots, Free(BaseMetadata, x) PROVE Unused(x)'
      OBVIOUS
    <3>1. Unused(x)
      BY DEF FreeSlotsUnused
    <3>2. \A k \in Keys : index'[k] # x
      BY <1>2, <1>5, <3>1 DEF Unused
    <3>3. \A i \in Jobs, k \in Keys : plan'[i][k] = x => status'[i] = "preparing"
      BY <1>1, <1>4, <3>1, SlotFacts DEF Unused
    <3>4. QED
      BY <1>1, <1>3, <3>1, <3>2, <3>3 DEF Unused
  <2>3. \A i \in Jobs : Allocating(i)' => Allocating(i)
    BY <1>1 DEF Allocating, Planned
  <2>4. HeadsApart(meta)' = HeadsApart(meta) /\ HeadsApart(alloc)' = HeadsApart(alloc)
    BY <1>1 DEF HeadsApart
  <2>5. /\ meta'.n > 0 => HeadsApart(meta)'
        /\ ~(meta'.n = 0 /\ meta'.legacy = NoSlot)
    BY <1>1, <1>6, <2>4 DEF FreeSlotsUnused
  <2>6. ASSUME NEW i \in Jobs, Allocating(i)'
        PROVE  /\ HeadsApart(alloc)'
               /\ ShardCount[lock'] <= alloc'.n /\ alloc'.cursor < ShardCount[lock']
               /\ \A x \in Slots : Free(alloc, x)' =>
                    /\ Free(BaseMetadata, x)'
                    /\ \A h \in Jobs, k \in Keys : plan'[h][k] # x
    BY <1>1, <1>4, <2>1, <2>3, <2>4, <2>6, SlotFacts DEF FreeSlotsUnused
  <2>7. QED
    BY <2>1, <2>2, <2>5, <2>6 DEF FreeSlotsUnused
<1>10. PlannedSlotsPrivate'
  <2> SUFFICES ASSUME NEW i \in Jobs, NEW k \in Keys,
                      status'[i] \in {"preparing", "store"}, plan'[i][k] # NoSlot
               PROVE  /\ \A l \in Keys : index'[l] # plan'[i][k]
                      /\ \A p \in Procs, l \in Keys : cache'[p][l] # plan'[i][k]
                      /\ \A h \in Jobs, l \in Keys : plan'[h][l] = plan'[i][k] => h = i /\ l = k
    BY DEF PlannedSlotsPrivate
  <2>1. i # j /\ plan'[i][k] = plan[i][k] /\ status[i] \in {"preparing", "store"}
    BY <1>1, <1>4
  <2>2. \A l \in Keys : index'[l] # plan[i][k]
    BY <2>1, <1>2 DEF PlannedSlotsPrivate
  <2>3. \A p \in Procs, l \in Keys : cache'[p][l] # plan[i][k]
    BY <2>1, <2>2, <1>3 DEF PlannedSlotsPrivate
  <2>4. QED
    BY <2>1, <2>2, <2>3, <1>4 DEF PlannedSlotsPrivate
<1>11. PlannedSlotsProgress'
  BY <1>1, <1>4 DEF PlannedSlotsProgress
<1>12. PublishedDataIntact'
  <2>1. \A k \in Keys : index'[k] # NoSlot => cells[index'[k]] = k
    BY <1>2 DEF PublishedDataIntact
  <2>2. \A p \in Procs, k \in Keys : cache'[p][k] # NoSlot => cells[cache'[p][k]] = k
    BY <1>3, <2>1 DEF PublishedDataIntact
  <2>3. QED
    BY <1>1, <1>4, <2>1, <2>2 DEF PublishedDataIntact
<1>13. QED
  BY <1>8, <1>9, <1>10, <1>11, <1>12

(* submit_load captures only published locations.                          *)
LEMMA SlotInvSubmitLoad ==
    ASSUME Inv, TypeOK', NEW p \in Procs, NEW j \in Jobs, NEW K \in SUBSET Keys,
           NEW ok \in BOOLEAN, SubmitLoad(p, j, K, ok)
    PROVE  SlotInv'
<1> USE DEF Inv, SlotInv
<1>1. /\ status[j] = "free" /\ status'[j] = "load" /\ writing[j] = {}
      /\ \A i \in Jobs \ {j} : /\ status'[i] = status[i] /\ owner'[i] = owner[i]
                                /\ plan'[i] = plan[i] /\ todo'[i] = todo[i] /\ good'[i] = good[i]
      /\ UNCHANGED <<index, meta, cells, lock, pending, alloc, writing>>
  BY DEF SubmitLoad, TypeOK, dirVars, prepVars, JobsConsistent
<1>2. \A k \in Keys : plan'[j][k] \in {NoSlot, cache[p][k], index[k]}
  BY DEF SubmitLoad, Located, TypeOK
<1>3. \A q \in Procs, k \in Keys : cache'[q][k] \in {cache[q][k], index[k]}
  BY RememberFacts DEF SubmitLoad, TypeOK
<1>4. BaseMetadata' = BaseMetadata
  BY <1>1, BaseStable
<1>5. JobsConsistent'
  BY <1>1 DEF JobsConsistent
<1>6. FreeSlotsUnused'
  <2>1. \A x \in Slots : /\ Free(BaseMetadata, x)' = Free(BaseMetadata, x)
                         /\ Free(alloc, x)' = Free(alloc, x)
    BY <1>1, <1>4 DEF Free
  <2>2. \A x \in Slots : Unused(x) => Unused(x)' /\ \A k \in Keys : plan'[j][k] # x
    <3> SUFFICES ASSUME NEW x \in Slots, Unused(x)
                 PROVE  Unused(x)' /\ \A k \in Keys : plan'[j][k] # x
      OBVIOUS
    <3>1. \A k \in Keys : plan'[j][k] # x
      BY <1>2, SlotFacts DEF Unused
    <3>2. QED
      BY <1>1, <1>3, <3>1 DEF Unused
  <2>3. \A i \in Jobs : Allocating(i)' => Allocating(i) /\ i # j
    BY <1>1 DEF Allocating, Planned
  <2>4. HeadsApart(meta)' = HeadsApart(meta) /\ HeadsApart(alloc)' = HeadsApart(alloc)
    BY <1>1 DEF HeadsApart
  <2>5. ASSUME NEW i \in Jobs, Allocating(i)'
        PROVE  /\ HeadsApart(alloc)'
               /\ ShardCount[lock'] <= alloc'.n /\ alloc'.cursor < ShardCount[lock']
               /\ \A x \in Slots : Free(alloc, x)' =>
                    /\ Free(BaseMetadata, x)'
                    /\ \A h \in Jobs, k \in Keys : plan'[h][k] # x
    BY <1>1, <2>1, <2>2, <2>3, <2>4, <2>5 DEF FreeSlotsUnused
  <2>6. QED
    BY <1>1, <2>1, <2>2, <2>4, <2>5 DEF FreeSlotsUnused
<1>7. PlannedSlotsPrivate'
  <2> SUFFICES ASSUME NEW i \in Jobs, NEW k \in Keys,
                      status'[i] \in {"preparing", "store"}, plan'[i][k] # NoSlot
               PROVE  /\ \A l \in Keys : index'[l] # plan'[i][k]
                      /\ \A q \in Procs, l \in Keys : cache'[q][l] # plan'[i][k]
                      /\ \A h \in Jobs, l \in Keys : plan'[h][l] = plan'[i][k] => h = i /\ l = k
    BY DEF PlannedSlotsPrivate
  <2>1. i # j /\ plan'[i][k] = plan[i][k] /\ status[i] \in {"preparing", "store"}
    BY <1>1
  <2>2. /\ \A l \in Keys : index[l] # plan[i][k]
        /\ \A q \in Procs, l \in Keys : cache[q][l] # plan[i][k]
        /\ \A h \in Jobs, l \in Keys : plan[h][l] = plan[i][k] => h = i /\ l = k
    BY <2>1 DEF PlannedSlotsPrivate
  <2>3. \A l \in Keys : plan'[j][l] # plan[i][k]
    BY <2>1, <2>2, <1>2
  <2>4. QED
    BY <1>1, <1>3, <2>1, <2>2, <2>3
<1>8. PlannedSlotsProgress'
  BY <1>1 DEF PlannedSlotsProgress
<1>9. PublishedDataIntact'
  <2>1. \A k \in Keys : plan'[j][k] # NoSlot => cells[plan'[j][k]] = k
    BY <1>2 DEF PublishedDataIntact
  <2>2. QED
    BY <1>1, <1>3, <2>1 DEF PublishedDataIntact
<1>10. QED
  BY <1>5, <1>6, <1>7, <1>8, <1>9

(* The slot invariant holds in every migrated directory.                   *)
LEMMA SlotInvInit == Init => SlotInv
<1> SUFFICES ASSUME Init PROVE SlotInv
  OBVIOUS
<1>1. PICK d \in LegacyStores : Migrated(d) /\ DirInit(d)
  BY DEF Init
<1>2. /\ ProcInit /\ index = d.index /\ meta.legacy = d.head /\ meta.n = 0
      /\ cells = [x \in Slots |-> IF \E k \in Keys : d.index[k] = x
                                  THEN CHOOSE k \in Keys : d.index[k] = x ELSE Empty]
  BY <1>1 DEF Init, DirInit
<1>3. TypeOK
  BY TypeInit
<1>4. \A k \in Keys : index[k] # NoSlot =>
         /\ \A l \in Keys : index[l] = index[k] => l = k
         /\ meta.legacy # NoSlot =>
              \/ index[k].seg < meta.legacy.seg
              \/ index[k].seg = meta.legacy.seg /\ index[k].off < meta.legacy.off
  BY <1>2, LegacyAssumption
<1>5. \A k \in Keys : index[k] # NoSlot => cells[index[k]] = k
  <2> SUFFICES ASSUME NEW k \in Keys, index[k] # NoSlot PROVE cells[index[k]] = k
    OBVIOUS
  <2>1. index[k] \in Slots
    BY <1>3, LocationFacts
  <2>2. (CHOOSE l \in Keys : index[l] = index[k]) = k
    BY <1>4
  <2>3. QED
    BY <1>2, <2>1, <2>2
<1>6. \A j \in Jobs : /\ status[j] = "free" /\ plan[j] = NoLocations /\ writing[j] = {}
                      /\ \A k \in Keys : plan[j][k] = NoSlot
  BY <1>2 DEF ProcInit, NoLocations
<1>7. \A p \in Procs, k \in Keys : cache[p][k] = NoSlot
  BY <1>2 DEF ProcInit, NoLocations
<1>8. meta.legacy = NoSlot => index = NoLocations
  BY <1>1, <1>2 DEF Migrated
<1>9. ASSUME NEW x \in Slots, Free(BaseMetadata, x) PROVE Unused(x)
  <2>1. \A k \in Keys : index[k] # x
    <3>1. CASE meta.legacy = NoSlot
      BY <3>1, <1>8, SlotFacts DEF NoLocations
    <3>2. CASE meta.legacy # NoSlot
      <4>1. LatestSegment = meta.legacy /\ meta.legacy \in Heads
        BY <3>2, <1>3, MetadataFacts DEF LatestSegment, TypeOK
      <4>2. 0 \in Shards /\ meta.heads \in [Shards -> Heads]
        BY <1>3, MetadataFacts, ConstantsAssumption DEF Shards, TypeOK
      <4>3. /\ BaseMetadata.n = 1 /\ BaseMetadata.next = meta.legacy.seg + 1
            /\ BaseMetadata.heads[0] = meta.legacy
        BY <1>2, <4>1, <4>2 DEF BaseMetadata
      <4>4. \A s \in Shards : s < 1 => s = 0
        BY ConstantsAssumption DEF Shards
      <4>5. /\ x.seg \in Nat /\ x.off \in Nat
            /\ meta.legacy.seg \in Nat /\ meta.legacy.off \in Nat
        BY <4>1, SlotFacts
      <4>6. \/ x.seg >= meta.legacy.seg + 1
            \/ x.seg = meta.legacy.seg /\ x.off >= meta.legacy.off
        BY <1>9, <4>3, <4>4 DEF Free
      <4>7. QED
        BY <1>4, <3>2, <4>5, <4>6, SlotFacts
    <3>3. QED
      BY <3>1, <3>2
  <2>2. cells[x] = Empty
    BY <1>2, <2>1
  <2>3. QED
    BY <1>6, <1>7, <2>1, <2>2, SlotFacts DEF Unused
<1>10. JobsConsistent
  BY <1>6 DEF JobsConsistent
<1>11. FreeSlotsUnused
  <2>1. \A j \in Jobs : ~Allocating(j)
    BY <1>6 DEF Allocating
  <2>2. QED
    BY <1>2, <1>8, <1>9, <2>1 DEF FreeSlotsUnused
<1>12. PlannedSlotsPrivate /\ PlannedSlotsProgress
  BY <1>6 DEF PlannedSlotsPrivate, PlannedSlotsProgress
<1>13. PublishedDataIntact
  BY <1>5, <1>6, <1>7 DEF PublishedDataIntact
<1>14. QED
  BY <1>10, <1>11, <1>12, <1>13 DEF SlotInv

(* Inv is inductive.                                                       *)
LEMMA InvStep == Inv /\ [Next]_vars => Inv'
<1> SUFFICES ASSUME Inv, [Next]_vars PROVE SlotInv'
  BY TypeStep DEF Inv
<1>1. TypeOK'
  BY TypeStep
<1>2. ASSUME NEW j \in Jobs, StoreStep(j) PROVE SlotInv'
  <2>1. ASSUME NEW p \in Procs, NEW K \in SUBSET Keys, PrepareStore(p, j, K) PROVE SlotInv'
    BY <1>1, <2>1, SlotInvPrepareStore
  <2>2. ASSUME NEW k \in Keys, AllocateEntry(j, k) PROVE SlotInv'
    BY <1>1, <2>2, SlotInvAllocateEntry
  <2>3. CASE PrepareReturn(j)
    BY <1>1, <2>3, SlotInvPrepareReturn
  <2>4. ASSUME NEW g \in Segments, WriteBegin(j, g) \/ WriteEnd(j, g) PROVE SlotInv'
    BY <1>1, <2>4, SlotInvWrite
  <2>5. CASE CompleteStore(j) \/ CompleteFail(j, TRUE)
    BY <1>1, <2>5, SlotInvCompleteStore
  <2>6. ASSUME NEW g \in Segments, WriteFail(j, g) PROVE SlotInv'
    BY <1>1, <2>6, SlotInvForgetting
  <2>7. CASE PrepareAbort(j) \/ CompleteNothing(j) \/ CompleteFail(j, FALSE)
    BY <1>1, <2>7, SlotInvForgetting
  <2>8. QED
    BY <1>2, <2>1, <2>2, <2>3, <2>4, <2>5, <2>6, <2>7 DEF StoreStep
<1>3. ASSUME NEW j \in Jobs, LoadStep(j) PROVE SlotInv'
  <2>1. ASSUME NEW p \in Procs, NEW K \in SUBSET Keys, NEW ok \in BOOLEAN, SubmitLoad(p, j, K, ok)
        PROVE  SlotInv'
    BY <1>1, <2>1, SlotInvSubmitLoad
  <2>2. ASSUME NEW g \in Segments, LoadChunk(j, g) \/ \E b \in BOOLEAN : LoadChunkFail(j, g, b)
        PROVE  SlotInv'
    BY <1>1, <2>2, SlotInvForgetting
  <2>3. CASE FinishLoad(j)
    BY <1>1, <2>3, SlotInvForgetting
  <2>4. QED
    BY <1>3, <2>1, <2>2, <2>3 DEF LoadStep
<1>4. ASSUME NEW j \in Jobs, Poll(j) PROVE SlotInv'
  BY <1>1, <1>4, SlotInvForgetting
<1>5. ASSUME NEW p \in Procs, NEW K \in SUBSET Keys, Lookup(p, K) \/ Delete(p, K) PROVE SlotInv'
  BY <1>1, <1>5, SlotInvForgetting
<1>6. ASSUME NEW p \in Procs, Restart(p) PROVE SlotInv'
  BY <1>1, <1>6, SlotInvForgetting
<1>7. CASE UNCHANGED vars
  BY <1>1, <1>7, SlotInvForgetting
<1>8. QED
  BY <1>2, <1>3, <1>4, <1>5, <1>6, <1>7 DEF Next

(* The inductive invariant: types, and who may touch a slot at every stage *)
(* of prepare_store, write_entries, complete_store and load_many.          *)
THEOREM InvHolds == Spec => []Inv
<1>1. Init => Inv
  BY TypeInit, SlotInvInit DEF Inv
<1>2. QED
  BY <1>1, InvStep, PTL DEF Spec

(* Every reachable state is well typed; in particular every location ever  *)
(* handed out by prepare_store lies inside its segment.                    *)
THEOREM TypeCorrect == Spec => []TypeOK
BY InvHolds, PTL DEF Inv

(* The invariant that ties the allocator to the plans in flight and to     *)
(* everything published by complete_store.                                 *)
THEOREM SlotsOwned == Spec => []SlotInv
BY InvHolds, PTL DEF Inv

(* Any number of processes, shards and jobs, in any interleaving and with  *)
(* crashes anywhere: a location that the index, a cache or a load job      *)
(* holds leads to the complete block of its key.                           *)
THEOREM DataIntact == Spec => []PublishedDataIntact
BY InvHolds, PTL DEF Inv, SlotInv

(* Two write_entries never touch the same slot, and none touches a         *)
(* published one.                                                          *)
THEOREM SlotsPrivate == Spec => []PlannedSlotsPrivate
BY InvHolds, PTL DEF Inv, SlotInv

(* load_many delivers to the buffer of a key the bytes of that key, also   *)
(* when the key is deleted and stored again while the chunk waits.         *)
THEOREM LoadsCorrect == Spec => []LoadsReturnOwnBlock
<1>1. Init => LoadsReturnOwnBlock
  BY DEF Init, ProcInit, LoadsReturnOwnBlock
<1>2. Inv /\ LoadsReturnOwnBlock /\ [Next]_vars => LoadsReturnOwnBlock'
  <2> SUFFICES ASSUME Inv, LoadsReturnOwnBlock, [Next]_vars PROVE LoadsReturnOwnBlock'
    OBVIOUS
  <2>1. ASSUME NEW j \in Jobs, NEW g \in Segments, LoadChunk(j, g) PROVE LoadsReturnOwnBlock'
    <3>1. \A k \in Group(j, g) : cells[plan[j][k]] = k
      BY <2>1 DEF Inv, SlotInv, PublishedDataIntact, LoadChunk, Group, Planned
    <3>2. QED
      BY <2>1, <3>1 DEF LoadChunk, LoadsReturnOwnBlock, Inv, TypeOK
  <2>2. ASSUME NEW j \in Jobs, Poll(j) PROVE LoadsReturnOwnBlock'
    BY <2>2 DEF Poll, LoadsReturnOwnBlock, Inv, TypeOK
  <2>3. ASSUME NEW p \in Procs, Restart(p) PROVE LoadsReturnOwnBlock'
    BY <2>3 DEF Restart, LoadsReturnOwnBlock
  <2>4. CASE UNCHANGED got
    BY <2>4 DEF LoadsReturnOwnBlock
  <2>5. ASSUME NEW j \in Jobs, StoreStep(j) PROVE UNCHANGED got
    BY <2>5 DEF StoreStep, PrepareStore, AllocateEntry, PrepareReturn, PrepareAbort, WriteBegin,
                WriteEnd, WriteFail, CompleteNothing, CompleteStore, CompleteFail, Settle
  <2>6. ASSUME NEW j \in Jobs, LoadStep(j) PROVE UNCHANGED got \/ \E g \in Segments : LoadChunk(j, g)
    BY <2>6 DEF LoadStep, SubmitLoad, LoadChunkFail, FinishLoad, Settle
  <2>7. ASSUME NEW p \in Procs, NEW K \in SUBSET Keys, Lookup(p, K) \/ Delete(p, K)
        PROVE  UNCHANGED got
    BY <2>7 DEF Lookup, Delete, jobVars
  <2>8. QED
    BY <2>1, <2>2, <2>3, <2>4, <2>5, <2>6, <2>7 DEF Next, vars, jobVars
<1>3. QED
  BY <1>1, <1>2, InvHolds, PTL DEF Spec

(* The segment files change only in a write task, and a write task finds   *)
(* no block in the slots it was given.                                     *)
LEMMA WritesAppend ==
    ASSUME Inv, NEW j \in Jobs, NEW g \in Segments, WriteBegin(j, g) \/ WriteEnd(j, g),
           NEW x \in Slots, cells[x] \in Keys
    PROVE  cells'[x] = cells[x]
<1> USE DEF Inv, SlotInv
<1>1. status[j] = "store"
  BY DEF WriteBegin, WriteEnd, JobsConsistent
<1>2. ASSUME NEW k \in Group(j, g) PROVE plan[j][k] # x
  <2>1. k \in Keys /\ plan[j][k] # NoSlot /\ plan[j][k].seg = g
    BY DEF Group, Planned
  <2>2. g \in todo[j] \/ g \in writing[j]
    BY DEF WriteBegin, WriteEnd
  <2>3. cells[plan[j][k]] \in {Empty, Torn}
    BY <1>1, <2>1, <2>2 DEF PlannedSlotsProgress
  <2>4. QED
    BY <2>3, ConstantsAssumption
<1>3. QED
  BY <1>1, <1>2, WriteFacts DEF WriteBegin, WriteEnd

(* Segments are append-only: a block that was written completely is never  *)
(* overwritten, whatever is deleted, stored again, retried or restarted.   *)
THEOREM SegmentsAppendOnly == Spec => AppendOnly
<1>1. Inv /\ [Next]_vars => [\A x \in Slots : cells[x] \in Keys => cells'[x] = cells[x]]_vars
  <2> SUFFICES ASSUME Inv, Next
               PROVE  \A x \in Slots : cells[x] \in Keys => cells'[x] = cells[x]
    OBVIOUS
  <2>1. ASSUME NEW j \in Jobs, NEW g \in Segments, WriteBegin(j, g) \/ WriteEnd(j, g)
        PROVE  \A x \in Slots : cells[x] \in Keys => cells'[x] = cells[x]
    BY <2>1, WritesAppend
  <2>2. ASSUME NEW j \in Jobs, StoreStep(j)
        PROVE  UNCHANGED cells \/ \E g \in Segments : WriteBegin(j, g) \/ WriteEnd(j, g)
    BY <2>2 DEF StoreStep, PrepareStore, AllocateEntry, PrepareReturn, PrepareAbort, WriteFail,
                CompleteNothing, CompleteStore, CompleteFail, dirVars
  <2>3. ASSUME NEW j \in Jobs, LoadStep(j) \/ Poll(j) PROVE UNCHANGED cells
    BY <2>3 DEF LoadStep, SubmitLoad, LoadChunk, LoadChunkFail, FinishLoad, Poll, dirVars
  <2>4. ASSUME NEW p \in Procs, NEW K \in SUBSET Keys, Lookup(p, K) \/ Delete(p, K)
        PROVE  UNCHANGED cells
    BY <2>4 DEF Lookup, Delete, dirVars
  <2>5. ASSUME NEW p \in Procs, Restart(p) PROVE UNCHANGED cells
    BY <2>5 DEF Restart, dirVars
  <2>6. QED
    BY <2>1, <2>2, <2>3, <2>4, <2>5 DEF Next
<1>2. QED
  BY <1>1, InvHolds, PTL DEF Spec, AppendOnly

(* INSERT OR IGNORE: a key that has a row keeps its location until the row *)
(* is deleted, also when several processes store the key at once.          *)
THEOREM IndexStable == Spec => IndexedBlockNeverMoves
<1>1. Inv /\ [Next]_vars =>
        [\A k \in Keys : index[k] # NoSlot => index'[k] \in {index[k], NoSlot}]_vars
  <2> SUFFICES ASSUME Inv, Next, NEW k \in Keys, index[k] # NoSlot
               PROVE  index'[k] \in {index[k], NoSlot}
    OBVIOUS
  <2>1. ASSUME NEW j \in Jobs, StoreStep(j) PROVE index'[k] = index[k]
    BY <2>1 DEF StoreStep, PrepareStore, AllocateEntry, PrepareReturn, PrepareAbort, WriteBegin,
                WriteEnd, WriteFail, CompleteNothing, CompleteStore, CompleteFail, Inserted, dirVars
  <2>2. ASSUME NEW j \in Jobs, LoadStep(j) \/ Poll(j) PROVE index'[k] \in {index[k], NoSlot}
    BY <2>2 DEF LoadStep, SubmitLoad, LoadChunk, LoadChunkFail, FinishLoad, Poll, Unindexed, dirVars
  <2>3. ASSUME NEW p \in Procs, NEW K \in SUBSET Keys, Lookup(p, K) \/ Delete(p, K)
        PROVE  index'[k] \in {index[k], NoSlot}
    BY <2>3 DEF Lookup, Delete, Unindexed, dirVars
  <2>4. ASSUME NEW p \in Procs, Restart(p) PROVE index'[k] = index[k]
    BY <2>4 DEF Restart, dirVars
  <2>5. QED
    BY <2>1, <2>2, <2>3, <2>4 DEF Next
<1>2. QED
  BY <1>1, InvHolds, PTL DEF Spec, IndexedBlockNeverMoves
=============================================================================
