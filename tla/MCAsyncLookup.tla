---------------------------- MODULE MCAsyncLookup ----------------------------
(* Instances of AsyncLookup for TLC: the constants are sets of model values.  *)
EXTENDS AsyncLookup
==============================================================================
