---------------------------- MODULE MCMeasurements ----------------------------
(* Instances of Collector, with two callers, and of NetworkState for TLC: what a node *)
(* agent runs to measure.  A behaviour is one of the collector or one of the tracer.  *)
EXTENDS MCCollector, NetworkState

VARIABLE component

MeasurementsInit == component \in {"collector", "network"} /\ Init /\ NetworkInit

MeasurementsNext ==
    \/ component = "collector" /\ Next /\ UNCHANGED <<component, networkVars>>
    \/ component = "network" /\ NetworkNext /\ UNCHANGED <<component, vars>>

\* Nothing is claimed of what follows a late delivery, and it is not explored.
Timely == ~late
===============================================================================
