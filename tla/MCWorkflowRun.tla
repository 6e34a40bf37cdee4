--------------------------- MODULE MCWorkflowRun ---------------------------
(***************************************************************************)
(* Instances of WorkflowRun for TLC.                                       *)
(***************************************************************************)
EXTENDS WorkflowRun

CONSTANTS a1, a2, a3

===========================================================================
