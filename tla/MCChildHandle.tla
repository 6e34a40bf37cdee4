--------------------------- MODULE MCChildHandle ---------------------------
(* Two children, one of which may be resumed once.                         *)
EXTENDS ChildHandle, TLC

CONSTANTS k1, k2

MCKids == {k1, k2}
MCGensOf == (k1 :> 2) @@ (k2 :> 1)
============================================================================
