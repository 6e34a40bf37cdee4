-------------------------- MODULE MCRestoredChild --------------------------
(* A restored child p, resumed up to twice, and a restored child d of it.  *)
EXTENDS RestoredChild, TLC

CONSTANTS p, d

MCKids == {p, d}
MCGensOf == (p :> 2) @@ (d :> 1)
MCParent == (p :> Root) @@ (d :> p)
============================================================================
