------------------------- MODULE MCReconcilerHistory -------------------------
(* ReconcilerHistory for TLC: the manifests are interchangeable.            *)
EXTENDS ReconcilerHistory, TLC

Symmetry == Permutations(Manifests)
=============================================================================
