--------------------------- MODULE MCCapturingPass ---------------------------
(* Model checking of the export: every kind of output, on a project of two   *)
(* motion frames.                                                           *)
EXTENDS CapturingPass

EveryOutput == AllOutputs
=============================================================================
