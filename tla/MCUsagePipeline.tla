--------------------------- MODULE MCUsagePipeline ---------------------------
(* Instances of UsagePipeline for TLC.                                     *)
EXTENDS UsagePipeline
=============================================================================
