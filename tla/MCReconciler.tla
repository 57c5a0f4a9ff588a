---------------------------- MODULE MCReconciler ----------------------------
(* Reconciler for TLC: the manifests are interchangeable.                   *)
EXTENDS Reconciler, TLC

Symmetry == Permutations(Manifests)
=============================================================================
