----------------------------- MODULE MCFlusher -----------------------------
(* A finite instance of Flusher: see MCFlusher.cfg. *)
EXTENDS Flusher
=============================================================================
