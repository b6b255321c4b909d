---------------------------- MODULE MsfInvariant ----------------------------
(***************************************************************************)
(* The inductive invariant of Msf, and why each part is needed.  MsfProofs *)
(* proves it; TLC checks it on the instances of MCMsf.                     *)
(***************************************************************************)
EXTENDS Msf

\* No edge of weight up to w, of either party, has one end in the set S of
\* clusters.
NoLeaving(S, w) == \A e \in AllEdges : e.w <= w => ~ Leaves(e, S)

\* Which of the work lists can be non-empty where.
PhaseOK ==
    /\ pc # "merge" => \A w \in Weight : opened[w] = {}
    /\ pc \notin {"reconnect", "merge"} => needReconnecting = {}
    /\ pc = "reconnect" =>
         /\ needRecomputing = {}
         /\ \E w \in Weight : weightVertices[w] # {}
    /\ pc \in {"select", "done"} =>
         /\ needRecomputing = {}
         /\ \A w \in Weight : weightVertices[w] = {}

\* A set of clusters filed under w that no edge up to w leaves can only exist
\* while w waits to be tested, or while a component inside it waits to be
\* merged.  It is what lets reconnect() test changed weights only.
ClosedSetsKnown ==
    \A w \in Weight : (pc = "reconnect" => w \notin needReconnecting) =>
        \A S \in SUBSET weightVertices[w] :
            S # {} /\ NoLeaving(S, w) => \E C \in opened[w] : C \subseteq S

\* The components waiting to be merged are disjoint, still filed under their
\* weight, left by no edge up to it, and connected by such edges.
OpenedOK ==
    \A w \in Weight :
        /\ opened[w] # {} => w \in needReconnecting
        /\ \A C, D \in opened[w] : C = D \/ C \cap D = {}
        /\ \A C \in opened[w] :
             /\ C \subseteq weightVertices[w]
             /\ C # {}
             /\ NoLeaving(C, w)
             /\ \A S \in SUBSET C : S # {} /\ NoLeaving(S, w) => S = C

\* Of the clusters merged in this reconnect() only firstMerged may have an
\* outgoing edge up to secondMerged: the chain loop rests on it.
MergedOK ==
    pc \in {"merge", "chain"} =>
        /\ firstMerged = None =>
             /\ pc = "merge"
             /\ needRecomputing = {}
             /\ secondMerged = WeightDummy
             /\ \E w \in Weight : opened[w] # {}
        /\ firstMerged # None => firstMerged \in needRecomputing
        /\ \A r \in needRecomputing :
             \/ r = firstMerged
             \/ /\ secondMerged < WeightDummy
                /\ \A e \in AllEdges : External(e) /\ Incident(e, r) => secondMerged < e.w
        /\ \A w \in Weight :
             opened[w] # {} /\ secondMerged < WeightDummy => secondMerged <= w

IInv ==
    /\ TypeOK
    /\ PartitionOK
    /\ AdjOK
    /\ WeightsCurrent
    /\ ClustersAccounted
    /\ PhaseOK
    /\ ClosedSetsKnown
    /\ OpenedOK
    /\ MergedOK

-----------------------------------------------------------------------------
(***************************************************************************)
(* Why what msf() draws is a minimum spanning forest: an invariant on top  *)
(* of IInv, about the subgraphs that wait for their trees and the edges    *)
(* drawn so far.  Its argument is about cuts of the vertices only, never   *)
(* about paths.                                                            *)
(***************************************************************************)
\* e has one end in the set S of vertices.
Cross(e, S) == (e.u \in S) # (e.v \in S)

\* The ends of an entry lie on both sides of the set Q of clusters.
Split(ends, Q) == ends \cap Q # {} /\ ends \ Q # {}

Drawn == {x.edge : x \in forest}

\* Subgraph g joins two clusters or more by edges of its weight, each of which
\* the party has and lies inside one cluster now, and none of its parts is
\* without an edge to the rest.
SubgraphOK(g) ==
    /\ Cardinality(g.comp) >= 2
    /\ \A x \in g.entries :
         /\ x.edge \in edges[x.party]
         /\ x.edge.w = g.weight
         /\ par[x.edge.u] = par[x.edge.v]
         /\ \E a, b \in g.comp : a # b /\ x.ends = {a, b}
    /\ \A Q \in (SUBSET g.comp) \ {{}, g.comp} : \E x \in g.entries : Split(x.ends, Q)

\* The set U of vertices divides the whole graph as Q divides the clusters of
\* g, and is crossed by no edge lighter than those of g.
Lifts(g, Q, U) ==
    /\ \A x \in g.entries : Cross(x.edge, U) <=> Split(x.ends, Q)
    /\ \A e \in AllEdges : Cross(e, U) => g.weight <= e.w

\* No edge drawn, or to be drawn before subgraph k, crosses U: they all lie
\* inside the clusters that k joins.
Before(k, U) ==
    /\ \A x \in forest : ~ Cross(x.edge, U)
    /\ \A j \in 1 .. k - 1 : \A x \in subgraphs[j].entries : ~ Cross(x.edge, U)

\* The clusters of subgraph k are gone when its tree is drawn; what is left of
\* them is that every division of them is one of the vertices.
CutsRemain ==
    \A k \in DOMAIN subgraphs : \A Q \in SUBSET subgraphs[k].comp :
        \E U \in SUBSET Vertex : Lifts(subgraphs[k], Q, U) /\ Before(k, U)

\* S shows that f belongs to a minimum spanning forest which contains F: f is
\* a lightest edge across S, and the only one of F.
Needed(F, f, S) ==
    /\ \A g \in F : Cross(g, S) <=> g = f
    /\ \A g \in AllEdges : Cross(g, S) => f.w <= g.w

EachNeeded(F) == \A f \in F : \E S \in SUBSET Vertex : Needed(F, f, S)

ForestOK ==
    /\ \A x \in forest : x.edge \in AllEdges /\ par[x.edge.u] = par[x.edge.v]
    /\ \A x, y \in forest : x.edge = y.edge => x = y
    /\ EachNeeded(Drawn)

\* S divides some subgraph that waits, so that every tree of it crosses S.
Awaited(S) ==
    \E k \in DOMAIN subgraphs : \E Q \in (SUBSET subgraphs[k].comp) \ {{}, subgraphs[k].comp} :
        \A x \in subgraphs[k].entries : Split(x.ends, Q) => Cross(x.edge, S)

\* A set of vertices that divides a cluster is crossed by an edge drawn or to
\* be drawn.
Spanned ==
    \A S \in SUBSET Vertex :
        (\E u, v \in Vertex : par[u] = par[v] /\ u \in S /\ v \notin S) =>
            Awaited(S) \/ \E x \in forest : Cross(x.edge, S)

ResultOK ==
    /\ \A k \in DOMAIN subgraphs : SubgraphOK(subgraphs[k])
    /\ CutsRemain
    /\ ForestOK
    /\ Spanned

RInv == ResultOK /\ (pc = "done" => subgraphs = << >>)
============================================================================
