----------------------------- MODULE MCFileTier -----------------------------
(* Instances of FileTier for TLC: a process with two threads that asks for   *)
(* both blocks in a job, another with one thread that asks for one of them.  *)
EXTENDS FileTier, TLC

CONSTANTS p1, p2, w3, k1

MCProcessOf == [w \in Threads |-> IF w = w3 THEN p2 ELSE p1]
MCRequests == [p \in Procs |-> IF p = p1 THEN {Keys} ELSE {{k1}}]
MCSymmetry == Permutations(Jobs) \cup Permutations(Threads \ {w3})
=============================================================================
