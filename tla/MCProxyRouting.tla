--------------------------- MODULE MCProxyRouting ---------------------------
(***************************************************************************)
(* Small instances of ProxyRouting for TLC: two destinations, a pattern    *)
(* that covers one of them and a pattern that covers both.                 *)
(***************************************************************************)
EXTENDS ProxyRouting, TLC

CONSTANTS p1, p2, s1, s2, x, y

MCProxy == {p1, p2}
OneSender == {s1}
MCDestination == {x, y}
MCPattern == {"x", "*"}
MCCovers == [q \in MCPattern |-> IF q = "x" THEN {x} ELSE {x, y}]
MCSymmetry == Permutations(MCProxy)
=============================================================================
