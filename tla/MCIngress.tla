----------------------------- MODULE MCIngress -----------------------------
(***************************************************************************)
(* Ingress for TLC.  The bounds on changes, crashes and restarts are       *)
(* CONSTANTS of Ingress; source transactions are interchangeable.          *)
(***************************************************************************)
EXTENDS Ingress, TLC

XidSymmetry == Permutations(Xids)
=============================================================================
