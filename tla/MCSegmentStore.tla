--------------------------- MODULE MCSegmentStore ---------------------------
(* Instances of SegmentStore for TLC. *)
EXTENDS SegmentStore, TLC

CONSTANTS k1, p1

NewDirectory == [head |-> NoSlot, index |-> NoLocations]

(* An older version stored k1 in block 0 of segment 0 and its metadata row  *)
(* says that block 1 is next.                                               *)
LegacyDirectory ==
    [head |-> [seg |-> 0, off |-> 1],
     index |-> [NoLocations EXCEPT ![k1] = [seg |-> 0, off |-> 0]]]

(* An older version left an index and no metadata row.                      *)
BareDirectory ==
    [head |-> NoSlot, index |-> [NoLocations EXCEPT ![k1] = [seg |-> 0, off |-> 0]]]

MCLegacyStores == {NewDirectory, LegacyDirectory, BareDirectory}

(* One process runs with a single shard, the others with every shard. *)
MCShardCount == [p \in Procs |-> IF p = p1 THEN MaxShards ELSE 1]

MCSymmetry == Permutations(Jobs)
=============================================================================
