------------------------------- MODULE MCMsf -------------------------------
(***************************************************************************)
(* Small instances of Msf for TLC: all graphs on a few vertices, with all  *)
(* weights and owners, and weighted cycles of seven under two splits.      *)
(***************************************************************************)
EXTENDS MsfInvariant

CONSTANTS
    Pairs,        \* the pairs of vertices, as <<u, v>> with u < v
    Owners        \* who may own the edge of a pair

\* Every assignment of a weight (or no edge) and an owner to each pair, with at
\* most one edge that both parties have.
Labels == {<<"none", 0>>} \cup (Owners \X Weight)
EdgesOf(label, p) ==
    {[u |-> q[1], v |-> q[2], w |-> label[q][2]] :
        q \in {x \in Pairs : label[x][1] \in {p, "BOTH"}}}
MCInputs ==
    {[p \in Party |-> EdgesOf(label, p)] :
       label \in {f \in [Pairs -> Labels] :
                    \A x, y \in Pairs : f[x][1] = "BOTH" /\ f[y][1] = "BOTH" => x = y}}

Complete4 == {<<u, v>> \in (0..3) \X (0..3) : u < v}

\* A cycle of seven: enough clusters for several components to close in one
\* round and for the chain loop to follow, and for each weighting a choice of
\* the edge to leave out.
Cycle7 == {<<0, 3>>, <<3, 5>>, <<1, 5>>, <<1, 6>>, <<4, 6>>, <<2, 4>>, <<0, 2>>}

\* Two ways to split a graph between the parties. In the first one, neighbours
\* along Cycle7 often have different owners; in the second one, each party has
\* an arc, so that whole clusters form without an edge of the other.
ByEndpoint(q) == IF q[1] % 2 = 0 THEN "SERVER" ELSE "CLIENT"
ByArc(q) == IF q[2] \in {3, 5} THEN "CLIENT" ELSE "SERVER"
Splits == {[q \in Pairs |-> ByEndpoint(q)], [q \in Pairs |-> ByArc(q)]}

\* The weightings of Cycle7 under each of the splits. Its last edge has the middle
\* of three weights: below some edges, above others, or equal to the heaviest.
Weightings == {f \in [Pairs -> Weight] : f[<<0, 2>>] = 1}
SplitInputs ==
    {[p \in Party |->
        {[u |-> q[1], v |-> q[2], w |-> weight[q]] : q \in {x \in Pairs : owner[x] = p}}] :
       weight \in Weightings, owner \in Splits}
============================================================================
