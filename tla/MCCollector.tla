----------------------------- MODULE MCCollector -----------------------------
(* Instances of Collector for TLC. *)
EXTENDS Collector

CONSTANTS c1, c2, o1, q1

AllInQ1   == [c \in Checks \ OneTime |-> q1]
TwoBuckets == [q \in Intervals |-> 2]
=============================================================================
