-------------------------- MODULE MCSessionLease --------------------------
(***************************************************************************)
(* Instances of SessionLease for TLC.                                      *)
(***************************************************************************)
EXTENDS SessionLease, TLC

CONSTANTS p1, p2, p3, m1, m2, m3, linuxA, linuxB, mac

\* linuxA and linuxB are two boots, mac a machine without kernel identities.
MCKernelOf == [p \in Procs |-> CASE p \in {p1, p2} -> linuxA
                                 [] p = p3         -> linuxB
                                 [] OTHER          -> mac]

\* p1 and p2 may run together; p3 has the pid of p1 under another boot; m2 gets
\* the pid of m1 once m1 has died, and m3 may run beside either.
MCPidOf == [p \in Procs |-> IF p \in {p2, m3} THEN 2 ELSE 1]
===========================================================================
