-------------------------- MODULE MCWorkflowReplay --------------------------
(***************************************************************************)
(* Instances of WorkflowReplay for TLC.                                    *)
(***************************************************************************)
EXTENDS WorkflowReplay

CONSTANTS k1, k2, k3

\* A script and three edits of it: a changed second call, two calls swapped, and
\* a call removed.
Edited == {<<k1, k2>>, <<k1, k3>>, <<k2, k1>>, <<k2>>}
===========================================================================
