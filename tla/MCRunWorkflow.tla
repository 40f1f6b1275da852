--------------------------- MODULE MCRunWorkflow ---------------------------
(***************************************************************************)
(* RunWorkflow on small instances: an episode reports nothing, or one of    *)
(* two verdicts the workflow must tell apart.                               *)
(***************************************************************************)
EXTENDS RunWorkflow

SomeVerdicts == {"none", "passed", "failed"}
=============================================================================
