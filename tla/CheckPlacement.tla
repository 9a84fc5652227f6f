---------------------------- MODULE CheckPlacement ----------------------------
(***************************************************************************)
(* What the dispatcher promises about the cluster checks it is given: a    *)
(* configuration runs on one node agent at a time, and one that has lost   *)
(* its node agent, or is taken back to be moved, waits for another.  Only   *)
(* its owner, or the loss of the leadership, takes it out.                  *)
(***************************************************************************)
CONSTANTS Configurations, Agents

VARIABLES
    members,    \* the node agents that are known
    place,      \* the node agents that are told to run each configuration
    waiting     \* the configurations a node agent is still to be found for

placementVars == <<members, place, waiting>>

PlacementInit ==
    /\ members = {}
    /\ place = [c \in Configurations |-> {}]
    /\ waiting = {}

Join(n) ==
    /\ members' = members \cup {n}
    /\ UNCHANGED <<place, waiting>>

\* Configurations come in, also such as already run.
Ask ==
    /\ waiting \subseteq waiting' /\ waiting' \subseteq Configurations
    /\ UNCHANGED <<members, place>>

\* A configuration runs on n and nowhere else.  It may have come in twice, and wait on.
Place(c, n) ==
    /\ c \in waiting
    /\ members' = members \cup {n}
    /\ place' = [place EXCEPT ![c] = {n}]
    /\ waiting' \in {waiting, waiting \ {c}}

\* A configuration is taken from its node agent, to be moved.
TakeBack(c) ==
    /\ place' = [place EXCEPT ![c] = {}]
    /\ waiting' = waiting \cup {c}
    /\ UNCHANGED members

\* The owner withdraws a configuration; one that is being added runs all the same.
Withdraw(c) ==
    /\ place' = [place EXCEPT ![c] = {}]
    /\ waiting' \in {waiting, waiting \ {c}}
    /\ UNCHANGED members

\* The node agents ns are gone: all that they ran waits.
Leave(ns) ==
    /\ members' = members \ ns
    /\ place' = [c \in Configurations |-> place[c] \ ns]
    /\ waiting' = waiting \cup {c \in Configurations : place[c] \cap ns # {}}

\* The leadership is lost.
Forget ==
    /\ members' = {}
    /\ place' = [c \in Configurations |-> {}]
    /\ waiting' \subseteq waiting

PlacementNext ==
    \/ \E n \in Agents : Join(n)
    \/ Ask
    \/ \E c \in Configurations :
          \/ \E n \in Agents : Place(c, n)
          \/ TakeBack(c)
          \/ Withdraw(c)
    \/ \E ns \in SUBSET Agents : Leave(ns)
    \/ Forget

PlacementSpec == PlacementInit /\ [][PlacementNext]_placementVars
=============================================================================
