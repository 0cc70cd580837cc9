---------------------------- MODULE MCSegmentTier ----------------------------
(* Instances of SegmentTier for TLC, with the constants of MCSegmentStore.    *)
EXTENDS SegmentTier, MCSegmentStore
==============================================================================
