---------------------------- MODULE MCNavigation ----------------------------
(* Small instances of Navigation for TLC. *)
EXTENDS Navigation, TLC

CONSTANTS r1, r2
MCRequestIDs == {r1, r2}
MCOneRequest == {r1}
Symmetry == Permutations(MCRequestIDs)
=============================================================================
