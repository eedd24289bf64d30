--------------------------- MODULE MCEventSource ---------------------------
(* EventSource with a queue of one or two messages and a short stream. *)
EXTENDS EventSource, TLC
CONSTANTS m1, m2, c1, c2
============================================================================
