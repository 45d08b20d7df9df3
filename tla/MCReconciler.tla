---------------------------- MODULE MCReconciler ----------------------------
(***************************************************************************)
(* Two objects of one kind, a worker and a queue of one, so that the queue *)
(* fills up; the constants are given in the configurations.  Liveness is   *)
(* checked beside safety, hence no symmetry.                               *)
(***************************************************************************)
EXTENDS Reconciler

=============================================================================
