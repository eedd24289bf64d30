--------------------------- MODULE MCEventBridge ---------------------------
(* A finite instance of EventBridge: see MCEventBridge_enable.cfg. *)
EXTENDS EventBridge
=============================================================================
