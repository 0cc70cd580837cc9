--------------------------- MODULE MCAscendWorker ---------------------------
(* Instances of AscendWorker for TLC.                                        *)
EXTENDS AscendWorker
=============================================================================
