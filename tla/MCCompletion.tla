---------------------------- MODULE MCCompletion ----------------------------
(* Small instances of Completion for TLC. *)
EXTENDS Completion, TLC
=============================================================================
