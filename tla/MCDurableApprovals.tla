------------------------- MODULE MCDurableApprovals -------------------------
(* Two calls that may be parked, under two policies that nothing but their *)
(* being different tells apart.                                            *)
EXTENDS DurableApprovals, TLC

CONSTANTS c1, c2

MCRequests == 1..2
MCContexts == {c1, c2}
MCSymmetry == Permutations(MCContexts)
=============================================================================
