----------------------------- MODULE MCDashboard -----------------------------
(***************************************************************************)
(* A small instance of Dashboard for TLC: two overlapping calls.           *)
(***************************************************************************)
EXTENDS Dashboard

CONSTANTS t1, t2

MCTask == {t1, t2}
=============================================================================
