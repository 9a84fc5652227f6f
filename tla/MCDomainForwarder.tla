-------------------------- MODULE MCDomainForwarder --------------------------
(* Instances of DomainForwarder for TLC. *)
EXTENDS DomainForwarder

CONSTANTS t1, t2, e1, e2

TwoTargets == [t \in Txs |-> IF t = t1 THEN e1 ELSE e2]
Priorities == [t \in Txs |-> IF t = t1 THEN 0 ELSE 1]

Spec == ForwarderSpec /\ ForwarderFairness
==============================================================================
