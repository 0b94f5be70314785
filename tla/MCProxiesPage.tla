---------------------------- MODULE MCProxiesPage ----------------------------
(***************************************************************************)
(* A small instance of ProxiesPage for TLC: two overlapping functions.     *)
(***************************************************************************)
EXTENDS ProxiesPage

CONSTANTS t1, t2

MCTask == {t1, t2}
=============================================================================
