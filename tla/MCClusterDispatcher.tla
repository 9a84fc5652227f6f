------------------------- MODULE MCClusterDispatcher -------------------------
(* Instances of ClusterDispatcher for TLC. *)
EXTENDS ClusterDispatcher, TLC

CONSTANTS c1, c2, i1, i2

\* Two configurations may share an instance, as two templates resolved with the
\* same instance do; c2 also has an instance of its own.
SharedInstances ==
    [c \in AllConfigs |-> (CASE c = c1 -> {i1}
                             [] c = c2 -> {i1, i2}
                             [] OTHER  -> {}) \cap CheckIDs]

NodeSymmetry == Permutations(Nodes)
=============================================================================
