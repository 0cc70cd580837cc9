----------------------------- MODULE MCResidency -----------------------------
(* Instances of Residency for TLC: the constants are sets of model values.    *)
EXTENDS Residency, TLC

MCSymmetry == Permutations(Sessions) \cup Permutations(Keys)
==============================================================================
