----------------------------- MODULE MCSQSStore -----------------------------
(* Finite instances of SQSStore: a source queue and its dead-letter queue. *)
EXTENDS SQSStore

MCNoDelay == [q \in Queues |-> 0]
MCPolicies == {NoPolicy, [target |-> "dlq", max |-> 1]}
MCOneWay == {[target |-> "dlq", max |-> 1]}
=============================================================================
