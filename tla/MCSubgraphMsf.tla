---------------------------- MODULE MCSubgraphMsf ----------------------------
(* Connected subgraphs of K clusters with few parallel edges.              *)
EXTENDS SubgraphInvariant

CONSTANT MaxCount   \* parallel edges of one party between two clusters

MCInputs ==
    {c \in [Slot -> 0 .. MaxCount] :
        /\ \A q \in Slot : c[q] <= Prefix(c, q)
        /\ \A S \in (SUBSET Cluster) \ {{}, Cluster} :
            \E q \in Slot : c[q] > 0 /\ (Ends(q)[1] \in S) # (Ends(q)[2] \in S)}
==============================================================================
