---------------------------- MODULE MCSafeProxy -----------------------------
(* Small instances of SafeProxy for TLC. *)
EXTENDS SafeProxy

CONSTANTS n1, n2, h1, h2
MCNavigations == {n1, n2}
MCOneNavigation == {n1}
MCTunnels == {h1}
MCForwards == {h2}
=============================================================================
