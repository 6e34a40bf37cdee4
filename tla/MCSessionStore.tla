-------------------------- MODULE MCSessionStore --------------------------
(***************************************************************************)
(* Instances of SessionStore for TLC: processes of one Linux boot.         *)
(***************************************************************************)
EXTENDS SessionStore, TLC

CONSTANTS linux, p1, p2, p3

OneKernel == [p \in Procs |-> linux]

\* No pid is reused, so a process can stand for its pid.
DistinctPids == [p \in Procs |-> p]

Symmetry == Permutations(Procs)
===========================================================================
