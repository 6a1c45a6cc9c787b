----------------------------- MODULE MCWorkqueue -----------------------------
(* Small instances of Workqueue for TLC. *)
EXTENDS Workqueue, TLC

\* Works, workers and plain clients are interchangeable in safety runs.
Symmetry == Permutations(Works) \cup Permutations(Workers)
=============================================================================
