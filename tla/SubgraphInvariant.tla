-------------------------- MODULE SubgraphInvariant --------------------------
(***************************************************************************)
(* Why the circuit draws a spanning tree: an inductive invariant of        *)
(* SubgraphMsf.  SubgraphProofs proves it for every number of clusters;    *)
(* TLC checks it on the instance of MCSubgraphMsf.                         *)
(***************************************************************************)
EXTENDS SubgraphMsf

\* Clusters a and b are connected by the edges of the slots Q.
Linked(a, b, Q) == \A S \in SUBSET Cluster : a \in S /\ Apart(S, Q) => b \in S

\* Only edges between two components are left, and all of them.
CountsOK ==
    \A q \in Slot :
        count[q] = IF label[Ends(q)[1]] = label[Ends(q)[2]] THEN 0 ELSE sizes[q]

\* A selected edge is one of those entered, and joined two components.
TakenOK ==
    \A q \in Taken : selected[q] < sizes[q] /\ label[Ends(q)[1]] = label[Ends(q)[2]]

\* A component is connected by selected edges.  A round without a draw
\* relabels one that is not.
LabelsLinked ==
    missed = 0 => \A a, b \in Cluster : label[a] = label[b] => Linked(a, b, Taken)

\* Without any of the selected edges, its ends are apart.
CycleFree ==
    \A q \in Taken : \E S \in SUBSET Cluster : Apart(S, Taken \ {q}) /\ ~ Apart(S, {q})

Labels == {label[c] : c \in Cluster}

\* A round selects one more slot and leaves one label less, or counts as missed.
Counted ==
    /\ Cardinality(Taken) + missed = round
    /\ missed = 0 => Cardinality(Labels) + round = K

TreeOK ==
    pc = "done" => round = K - 1 /\ tree = {<<q, selected[q]>> : q \in Taken}

SInv ==
    /\ sizes \in Inputs
    /\ TypeOK
    /\ CountsOK
    /\ TakenOK
    /\ LabelsLinked
    /\ CycleFree
    /\ Counted
    /\ TreeOK

\* As long as no draw failed, there is an edge to draw in every round.
EdgeLeft == missed = 0 /\ round < K - 1 => Total(count) > 0
==============================================================================
