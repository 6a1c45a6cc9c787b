---------------------------- MODULE MCMpscRingbuf ----------------------------
(* Two producers on a ring of two slots. *)
EXTENDS MpscRingbuf
=============================================================================
