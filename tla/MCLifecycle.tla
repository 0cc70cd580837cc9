----------------------------- MODULE MCLifecycle -----------------------------
(* Instances of Lifecycle for TLC: two requests of one named session and one  *)
(* request with a session of its own.                                         *)
EXTENDS Lifecycle, TLC

CONSTANTS s1, s2, r1, r2, r3

MCSessionOf == r1 :> s1 @@ r2 :> s1 @@ r3 :> s2
==============================================================================
