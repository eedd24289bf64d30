----------------------------- MODULE MCLongPoll -----------------------------
(* Finite instances of LongPoll. *)
EXTENDS LongPoll

MCNoDelay == [q \in Queues |-> 0]
MCOneWay == {[target |-> "dlq", max |-> 1]}
=============================================================================
