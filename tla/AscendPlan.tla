------------------------------ MODULE AscendPlan ------------------------------
(***************************************************************************)
(* Which bytes an Ascend transfer moves: build_layout (ascend_layout.py),  *)
(* copy_plan and the _spans of both workers (ascend_worker.py).  Device    *)
(* and host memory hold bytes <<layer, logical block, index>>, so that a   *)
(* byte that ends up in a wrong place shows.  A transfer is one step here; *)
(* AscendWorker models when its copies happen.  Groups, layers and         *)
(* allocations count from 1, blocks and sub-blocks from 0 as in the code.  *)
(***************************************************************************)
EXTENDS Integers, Sequences, FiniteSets, Functions, SequencesExt

CONSTANTS
    Configs,        \* caches a runner may register
    NumBlocks,      \* device blocks of every cache
    NumCpuBlocks,
    Factor,         \* block_size_factor: logical blocks in a CPU block
    LastLogical,    \* highest logical block of a request
    SlotOf,         \* CPU block of a group's chunk (the offloading manager)
    NoLayout, NoByte, NoHolder

VARIABLES
    layout,     \* the registered layout
    device,     \* bytes of every layer's blocks, its rows one after the other
    host,       \* bytes of every allocation's CPU blocks
    held,       \* <<group, logical block>> the runner keeps in a device block
    saved       \* <<group, logical block>> pairs that were stored

planVars == <<layout, device, host, held, saved>>

Blocks == 0 .. NumBlocks - 1
CpuBlocks == 0 .. NumCpuBlocks - 1
Logicals == 0 .. LastLogical

ASSUME PlanAssumption ==
    /\ NumBlocks \in Nat \ {0} /\ NumCpuBlocks \in Nat \ {0}
    /\ Factor \in Nat \ {0} /\ LastLogical \in Nat
    /\ IsInjective(SlotOf) /\ Range(SlotOf) \subseteq CpuBlocks
    /\ NoHolder \notin Nat \X Nat

(* What a runner registers: layers with the bytes of their rows, or        *)
(* canonical tensors of which a group uses a prefix of the page.           *)
Packed(c) == "allocs" \in DOMAIN c

ASSUME ConfigAssumption ==
    \A c \in Configs :
      /\ \A g \in DOMAIN IF Packed(c) THEN c.groups ELSE c.refs :
           \A k \in 0 .. LastLogical \div Factor : <<g, k>> \in DOMAIN SlotOf
      /\ IF Packed(c)
         THEN /\ c.groups \in Seq(Seq(DOMAIN c.caches))
              /\ \A a \in DOMAIN c.allocs : c.allocs[a].size \in Nat
              /\ \A name \in DOMAIN c.caches : c.caches[name] \in Seq(Nat)
         ELSE /\ c.pages \in Seq(Nat)
              /\ c.refs \in Seq(Seq([layer : DOMAIN c.pages, size : Nat \ {0}]))
              /\ \A g \in DOMAIN c.refs : \A ref \in Range(c.refs[g]) : ref.size <= c.pages[ref.layer]

(* The sum of the first n elements of s, a running offset of the code.     *)
Sum(s, n) ==
    LET sum[i \in 0 .. n] == IF i = 0 THEN 0 ELSE sum[i - 1] + s[i]
    IN  sum[n]
Total(s) == Sum(s, Len(s))

-----------------------------------------------------------------------------
(* build_layout                                                            *)

AllocationOf(c, name) == CHOOSE a \in DOMAIN c.allocs : name \in c.allocs[a].shared
Page(c, a) == c.allocs[a].size \div NumBlocks

(* The layer has an allocation, and its rows (contiguous views of bytes,   *)
(* else the code refuses them) fit the page.                               *)
RowsFit(c, name) ==
    /\ \E a \in DOMAIN c.allocs : name \in c.allocs[a].shared
    /\ LET size == Total(c.caches[name])
       IN  size > 0 /\ size <= Page(c, AllocationOf(c, name)) /\ size <= c.limit[name]

(* Mutant: two layers of a group may share an allocation.                  *)
GroupAcceptedSharing(c, names) == \A i \in DOMAIN names : RowsFit(c, names[i])

(* Every layer of a group is the only user of its allocation in the group. *)
GroupAccepted(c, names) ==
    /\ \A i \in DOMAIN names : RowsFit(c, names[i])
    /\ IsInjective([i \in DOMAIN names |-> AllocationOf(c, names[i])])

LayoutAccepted(c) ==
    /\ \A a \in DOMAIN c.allocs :
         /\ c.allocs[a].stride = 0 /\ c.allocs[a].size % NumBlocks = 0
         /\ \A b \in DOMAIN c.allocs \ {a} : c.allocs[a].shared \cap c.allocs[b].shared = {}
    /\ \A g \in DOMAIN c.groups : GroupAccepted(c, c.groups[g])

(* Layers are numbered group by group; `size' is page_size_bytes.          *)
BuildLayout(c) ==
    LET names == FlattenSeq(c.groups)
        before == [g \in DOMAIN c.groups |-> Sum([h \in DOMAIN c.groups |-> Len(c.groups[h])], g - 1)]
    IN  [packed |-> TRUE,
         pages |-> [a \in DOMAIN c.allocs |-> Page(c, a)],
         layers |-> [l \in DOMAIN names |-> [alloc |-> AllocationOf(c, names[l]), rows |-> c.caches[names[l]]]],
         refs |-> [g \in DOMAIN c.groups |->
                     [i \in DOMAIN c.groups[g] |-> [layer |-> before[g] + i, size |-> Total(c.caches[c.groups[g][i]])]]]]

(* AscendCopyWorker.__init__: canonical caches, an allocation per tensor.  *)
CanonicalLayout(c) ==
    [packed |-> FALSE, pages |-> c.pages,
     layers |-> [l \in DOMAIN c.pages |-> [alloc |-> l, rows |-> <<c.pages[l]>>]],
     refs |-> c.refs]

(* get_worker: a configuration that is refused leaves no worker.           *)
GetWorker(c) ==
    LET built == IF Packed(c) THEN BuildLayout(c) ELSE CanonicalLayout(c)
    IN  /\ layout = NoLayout
        /\ Packed(c) => LayoutAccepted(c)
        /\ layout' = built
        /\ device' = [l \in DOMAIN built.layers |->
                        [b \in Blocks |-> [i \in 1 .. Total(built.layers[l].rows) |-> NoByte]]]
        /\ host' = [a \in DOMAIN built.pages |->
                      [b \in CpuBlocks |-> [i \in 1 .. Factor * built.pages[a] |-> NoByte]]]
        /\ UNCHANGED <<held, saved>>

-----------------------------------------------------------------------------
(* copy_plan: a request has per group its size and first logical block,    *)
(* and the block lists of all groups one after the other.                  *)

(* Mutant: the place of the first block in its chunk is forgotten.         *)
SkipNone(logical) == 0

Skip(logical) == logical % Factor

Count(size, logical) == IF size = 0 THEN 0 ELSE (size + Skip(logical) + Factor - 1) \div Factor
Counts(r) == [g \in DOMAIN r.sizes |-> Count(r.sizes[g], r.logical[g])]

PlanAccepted(r) ==
    /\ Len(r.sizes) = Len(layout.refs)
    /\ \A g \in DOMAIN r.sizes : r.sizes[g] >= 0 /\ r.logical[g] >= 0
    /\ Total(r.sizes) = Len(r.blocks) /\ Total(Counts(r)) = Len(r.cpu)

(* Entry i of the list of reference n of group g.                          *)
PlanEntry(r, g, n, i) ==
    LET at == Skip(r.logical[g]) + i
    IN  [layer |-> layout.refs[g][n].layer, size |-> layout.refs[g][n].size,
         block |-> r.blocks[Sum(r.sizes, g - 1) + i + 1],
         cpu |-> r.cpu[Sum(Counts(r), g - 1) + (at \div Factor) + 1],
         sub |-> at % Factor]

CopyPlan(r) ==
    UNION {{PlanEntry(r, g, n, i) : n \in DOMAIN layout.refs[g], i \in 0 .. r.sizes[g] - 1}
             : g \in DOMAIN r.sizes}

-----------------------------------------------------------------------------
(* _spans of AscendCopyWorker (a prefix of the page) and of                *)
(* AscendLayoutWorker (every row): `width' bytes of a device block from    *)
(* `from', and where they are in the CPU block.                            *)

EntryAccepted(e) ==
    LET rows == layout.layers[e.layer].rows
    IN  /\ e.block \in Blocks /\ e.cpu \in CpuBlocks
        /\ IF layout.packed THEN e.size = Total(rows) ELSE 0 < e.size /\ e.size <= Total(rows)

Spans(e) ==
    LET layer == layout.layers[e.layer]
        offset == e.sub * layout.pages[layer.alloc]
        span(from, width) == [layer |-> e.layer, block |-> e.block, from |-> from, width |-> width,
                              alloc |-> layer.alloc, cpu |-> e.cpu, offset |-> offset + from]
    IN  IF layout.packed
        THEN {span(Sum(layer.rows, k - 1), layer.rows[k]) : k \in DOMAIN layer.rows}
        ELSE {span(0, e.size)}

RequestAccepted(r) == PlanAccepted(r) /\ \A e \in CopyPlan(r) : EntryAccepted(e)
AllSpans(r) == UNION {Spans(e) : e \in CopyPlan(r)}

(* copy_ of the spans S to the host, and to the device.                    *)
StoreSpans(S) ==
    [a \in DOMAIN host |-> [c \in DOMAIN host[a] |-> [i \in DOMAIN host[a][c] |->
        LET hits == {s \in S : s.alloc = a /\ s.cpu = c /\ i - s.offset \in 1 .. s.width}
            s == CHOOSE s \in hits : TRUE
        IN  IF hits = {} THEN host[a][c][i] ELSE device[s.layer][s.block][s.from + i - s.offset]]]]

LoadSpans(S) ==
    [l \in DOMAIN device |-> [b \in DOMAIN device[l] |-> [i \in DOMAIN device[l][b] |->
        LET hits == {s \in S : s.layer = l /\ s.block = b /\ i - s.from \in 1 .. s.width}
            s == CHOOSE s \in hits : TRUE
        IN  IF hits = {} THEN device[l][b][i] ELSE host[s.alloc][s.cpu][s.offset + i - s.from]]]]

-----------------------------------------------------------------------------
(* Requests of the offloading manager (external): for every group a run of *)
(* logical blocks, the device blocks that hold or shall hold them, and the *)
(* CPU blocks of their chunks.                                             *)

Groups == DOMAIN layout.refs
Runs == [Groups -> {run \in [size : 0 .. LastLogical + 1, logical : Logicals] :
                      run.size + run.logical <= LastLogical + 1 /\ (run.size = 0 => run.logical = 0)}]
Covered(runs) == {x \in Groups \X Logicals : x[2] - runs[x[1]].logical \in 0 .. runs[x[1]].size - 1}

Request(runs, blockOf) ==
    [sizes |-> [g \in Groups |-> runs[g].size],
     logical |-> [g \in Groups |-> runs[g].logical],
     blocks |-> FlattenSeq([g \in Groups |->
                  [i \in 1 .. runs[g].size |-> blockOf[<<g, runs[g].logical + i - 1>>]]]),
     cpu |-> FlattenSeq([g \in Groups |->
               IF runs[g].size = 0 THEN <<>>
               ELSE LET first == runs[g].logical \div Factor
                        last == (runs[g].logical + runs[g].size - 1) \div Factor
                    IN  [i \in 1 .. last - first + 1 |-> SlotOf[<<g, first + i - 1>>]]])]

(* The request as made, and with a CPU block too few.                      *)
Variants(r) == {r} \cup {[r EXCEPT !.cpu = SubSeq(@, 1, Len(@) - 1)]}

(* submit_store: refused before anything is touched, or copied.            *)
Store(runs) ==
    LET wanted == Covered(runs)
        blockOf == [x \in wanted |-> CHOOSE b \in Blocks : held[b] = x]
    IN  /\ wanted # {} /\ wanted \subseteq Range(held)
        /\ \E r \in Variants(Request(runs, blockOf)) :
             /\ RequestAccepted(r)
             /\ host' = StoreSpans(AllSpans(r))
        /\ saved' = saved \cup wanted
        /\ UNCHANGED <<layout, device, held>>

(* submit_load into free device blocks.                                    *)
Load(runs) ==
    LET wanted == Covered(runs)
        free == {b \in Blocks : held[b] = NoHolder}
    IN  /\ wanted # {} /\ wanted \subseteq saved /\ wanted \cap Range(held) = {}
        /\ \E blockOf \in Injection(wanted, free) :
             /\ held' = [b \in Blocks |-> IF b \in Range(blockOf) THEN Inverse(blockOf, wanted, free)[b] ELSE held[b]]
             /\ \E r \in Variants(Request(runs, blockOf)) :
                  /\ RequestAccepted(r)
                  /\ device' = LoadSpans(AllSpans(r))
        /\ UNCHANGED <<layout, host, saved>>

(* The bytes of logical block n in a layer.                                *)
Bytes(g, n, l, old) ==
    LET sizes == {ref.size : ref \in {r \in Range(layout.refs[g]) : r.layer = l}}
    IN  [i \in DOMAIN old |-> IF \E size \in sizes : i <= size THEN <<l, n, i>> ELSE old[i]]

(* The runner computes a block (external).                                 *)
Compute(g, n, b) ==
    /\ held[b] = NoHolder /\ <<g, n>> \notin Range(held)
    /\ held' = [held EXCEPT ![b] = <<g, n>>]
    /\ device' = [l \in DOMAIN device |-> [device[l] EXCEPT ![b] = Bytes(g, n, l, @)]]
    /\ UNCHANGED <<layout, host, saved>>

(* The runner frees a block, and others write to it (external).            *)
Release(b) ==
    /\ held[b] # NoHolder
    /\ held' = [held EXCEPT ![b] = NoHolder]
    /\ device' = [l \in DOMAIN device |-> [device[l] EXCEPT ![b] = [i \in DOMAIN @ |-> NoByte]]]
    /\ UNCHANGED <<layout, host, saved>>

PlanInit ==
    /\ layout = NoLayout
    /\ device = <<>> /\ host = <<>>
    /\ held = [b \in Blocks |-> NoHolder]
    /\ saved = {}

PlanNext ==
    \/ \E c \in Configs : GetWorker(c)
    \/ /\ layout # NoLayout
       /\ \/ \E runs \in Runs : Store(runs) \/ Load(runs)
          \/ \E g \in Groups, n \in Logicals, b \in Blocks : Compute(g, n, b)
          \/ \E b \in Blocks : Release(b)

PlanSpec == PlanInit /\ [][PlanNext]_planVars

-----------------------------------------------------------------------------
(* Logical block n of a group has its place in the CPU block of its chunk, *)
(* whichever request put it there and whatever its neighbours did since.   *)
HostHoldsSaved ==
    \A x \in saved : \A ref \in Range(layout.refs[x[1]]) :
        LET a == layout.layers[ref.layer].alloc
            n == x[2]
        IN  \A i \in 1 .. ref.size :
              host[a][SlotOf[<<x[1], n \div Factor>>]][(n % Factor) * layout.pages[a] + i] = <<ref.layer, n, i>>

(* A device block has every byte of the logical block the runner keeps in  *)
(* it, computed or reloaded.                                               *)
DeviceHoldsHeld ==
    \A b \in Blocks : held[b] # NoHolder =>
        LET g == held[b][1]
            n == held[b][2]
        IN  \A ref \in Range(layout.refs[g]) : \A i \in 1 .. ref.size :
              device[ref.layer][b][i] = <<ref.layer, n, i>>

(* Stores and loads of any runs of blocks, of several groups that share     *)
(* allocations, starting anywhere inside a chunk, over any registered       *)
(* layout, put every byte where the next reader of it looks.                *)
TransfersExact == HostHoldsSaved /\ DeviceHoldsHeld
===============================================================================
