-------------------------------- MODULE Msf --------------------------------
(***************************************************************************)
(* Phase 1 of the two-party minimum spanning forest protocol of            *)
(* src/examples/msf/common/msf.cpp.                                        *)
(*                                                                         *)
(* Each of the two parties holds a private set of weighted edges over the  *)
(* same vertices.  Rounds of secure computation open, to both, the least   *)
(* weight incident to every cluster and, for every set of clusters with    *)
(* that same least weight, which of them form a component that no edge of  *)
(* that weight leaves.  Such a component is merged into one cluster, and   *)
(* the edges inside it are kept aside for phase 2 (FindSubgraphMSFs here,  *)
(* and module SubgraphMsf).                                                *)
(*                                                                         *)
(* The globals that both parties derive from opened values only (par,      *)
(* component, needRecomputing, weightVertices, needReconnecting) are equal *)
(* at both and kept once; adj and the edge lists of the subgraphs are      *)
(* private and kept per party.                                             *)
(***************************************************************************)
EXTENDS Integers, FiniteSets, Sequences, Closure

CONSTANTS
    N,            \* number of vertices, 0 .. N-1
    WeightDummy,  \* weight_dummy: larger than the weight of every edge
    Inputs        \* the pairs of edge sets the parties may start with

Party == {"SERVER", "CLIENT"}
Vertex == 0 .. N-1
Weight == 0 .. WeightDummy-1
None == -1        \* firstMerged before the first merge of a reconnect()
Outside == N      \* node k of the connectivity circuit: every other cluster

\* Edge's constructor swaps the endpoints into order; inputs have no loops.
Edge == {e \in [u : Vertex, v : Vertex, w : Weight] : e.u < e.v}

ASSUME MsfAssumption ==
    /\ N \in Nat \ {0}
    /\ WeightDummy \in Nat \ {0}
    /\ Inputs \subseteq [Party -> SUBSET Edge]

VARIABLES
    edges,            \* the input of each party
    par,              \* par[v]: the root of v's cluster
    component,        \* component[r]: the members of root r's cluster
    adj,              \* adj[p][r]: party p's edges incident to cluster r
    needRecomputing,  \* roots whose least incident weight is unknown
    weightVertices,   \* weightVertices[w]: roots of least weight w, {} = no key
    needReconnecting, \* weights whose root set grew since it was last tested
    opened,           \* opened[w]: components of weight w the circuit found closed
    firstMerged,      \* root of the first cluster merged in this reconnect()
    secondMerged,     \* weight of the second one
    subgraphs,        \* the subgraphs merged so far, oldest first
    forest,           \* edges selected by phase 2
    pc

vars == <<edges, par, component, adj, needRecomputing, weightVertices,
          needReconnecting, opened, firstMerged, secondMerged, subgraphs,
          forest, pc>>

Roots == {r \in Vertex : par[r] = r}
AllEdges == edges["SERVER"] \cup edges["CLIENT"]

(***************************************************************************)
(* Edge order and edge sets.                                               *)
(***************************************************************************)

\* Edge::operator<
Less(e, f) ==
    \/ e.w < f.w
    \/ e.w = f.w /\ e.u < f.u
    \/ e.w = f.w /\ e.u = f.u /\ e.v < f.v

IsLeast(S, x) == x \in S /\ \A y \in S : x <= y

\* adj[u].begin()->w, or weight_dummy when adj[u] is empty.
FrontWeight(A) ==
    IF A = {} THEN WeightDummy
              ELSE CHOOSE x \in Weight : IsLeast({e.w : e \in A}, x)

\* Mutant: the loop is forgotten.
PopNothing(A, parent) == A

\* The loop that drops edges inside the cluster from the front of a set.
PopInternal(A, parent) ==
    {e \in A : \E f \in A : /\ parent[f.u] # parent[f.v]
                            /\ f = e \/ Less(f, e)}

\* The endpoint of e at the far side of cluster u.
Other(u, e) == IF par[e.u] = u THEN par[e.v] ELSE par[e.u]

(***************************************************************************)
(* recomputeWeights(): the two parties compare the fronts of their sets;   *)
(* both learn the smaller one.                                             *)
(***************************************************************************)

\* Mutant: the multiplexer's inputs are swapped.
WorseWeight(u) ==
    LET mine == FrontWeight(adj["SERVER"][u])
        theirs == FrontWeight(adj["CLIENT"][u])
    IN  IF theirs > mine THEN theirs ELSE mine

BestWeight(u) ==
    LET mine == FrontWeight(adj["SERVER"][u])
        theirs == FrontWeight(adj["CLIENT"][u])
    IN  IF theirs > mine THEN mine ELSE theirs

RecomputeInto(remaining) ==
    /\ pc = "main"
    /\ needRecomputing # {}
    /\ weightVertices' =
         [w \in Weight |-> weightVertices[w]
                             \cup {u \in needRecomputing : BestWeight(u) = w}]
    /\ needReconnecting' =
         needReconnecting \cup
           {w \in Weight : \E u \in needRecomputing : BestWeight(u) = w}
    /\ needRecomputing' = remaining
    /\ pc' = IF needReconnecting' = {} THEN "main" ELSE "reconnect"
    /\ UNCHANGED <<edges, par, component, adj, opened, firstMerged,
                   secondMerged, subgraphs, forest>>

\* Mutant: needRecomputing is not cleared.
RecomputeAgain == RecomputeInto(needRecomputing)

RecomputeWeights == RecomputeInto({})

(***************************************************************************)
(* reconnect(): connectivity of the clusters of each changed weight.       *)
(***************************************************************************)

\* Mutant: edges to clusters of another weight are not entered for node k.
DataWithoutOutside(p, S, w) ==
    UNION {{{x, Other(x, e)} : e \in {f \in adj[p][x] :
                 f.w <= w /\ Other(x, f) \in S /\ Other(x, f) < x}} : x \in S}

\* populateConnectivityData: party p's links among the clusters of S by edges
\* of weight at most w, each seen from its larger end, and to node k.
ConnectivityData(p, S, w) ==
    UNION {{{x, Other(x, e)} : e \in {f \in adj[p][x] :
                 f.w <= w /\ Other(x, f) \in S /\ Other(x, f) < x}}
           \cup {{x, Outside} : e \in {f \in adj[p][x] :
                 f.w <= w /\ Other(x, f) \notin S}} : x \in S}

\* CreateConnectivityCircuit opens the reachability between the clusters of S
\* and node k over both parties' links, and FinishConnectivity reads off the
\* components that do not reach node k: the least closed sets of clusters
\* (module ConnectivityCircuit has the circuit itself).
IsolatedComponents(w) ==
    LET S == weightVertices[w]
        links == ConnectivityData("SERVER", S, w)
                   \cup ConnectivityData("CLIENT", S, w)
    IN  LeastClosed(links, S)

\* Mutant: weights of two clusters are dropped like those of one.
AtLeastThree(w) == Cardinality(weightVertices[w]) > 2

WorthTesting(w) == Cardinality(weightVertices[w]) > 1

\* Weights with at most one cluster leave needReconnecting; the others go
\* through one circuit, whose outputs both parties read.
Reconnect ==
    /\ pc = "reconnect"
    /\ needReconnecting' =
         {w \in needReconnecting : WorthTesting(w)}
    /\ opened' = [w \in Weight |-> IF w \in needReconnecting'
                                   THEN IsolatedComponents(w) ELSE {}]
    /\ firstMerged' = None
    /\ secondMerged' = WeightDummy
    /\ pc' = "merge"
    /\ UNCHANGED <<edges, par, component, adj, needRecomputing,
                   weightVertices, subgraphs, forest>>

(***************************************************************************)
(* merge(comp, w).                                                         *)
(***************************************************************************)

\* The first cluster of C of the largest size, which absorbs the others.
MergeRoot(C) ==
    {r \in C : \A x \in C :
        \/ Cardinality(component[r]) > Cardinality(component[x])
        \/ Cardinality(component[r]) = Cardinality(component[x]) /\ r <= x}

\* newIndices[x]: a root outside C would be inserted with value 0, which is
\* the index of the first cluster of C.
NewIndex(C, x) == IF x \in C THEN x ELSE CHOOSE y \in C : IsLeast(C, y)

\* Mutant: the loop does not stop at edges heavier than w.
AllSubgraphEdges(p, C, w) ==
    UNION {{[ends |-> {NewIndex(C, par[e.u]), NewIndex(C, par[e.v])},
             party |-> p, edge |-> e] :
              e \in {f \in adj[p][x] : par[f.u] = x /\ par[f.u] # par[f.v]}} : x \in C}

\* Mutant: an edge is compared by its endpoint, not by that one's root.
EdgesAtEndpoint(p, C, w) ==
    UNION {{[ends |-> {NewIndex(C, par[e.u]), NewIndex(C, par[e.v])},
             party |-> p, edge |-> e] :
              e \in {f \in adj[p][x] : /\ f.w <= w
                                       /\ f.u = x
                                       /\ par[f.u] # par[f.v]}} : x \in C}

\* The entries of subgraph[i][j], i > j, for party p: every edge is taken
\* once, at the cluster of its first endpoint.
SubgraphEdges(p, C, w) ==
    UNION {{[ends |-> {NewIndex(C, par[e.u]), NewIndex(C, par[e.v])},
             party |-> p, edge |-> e] :
              e \in {f \in adj[p][x] : /\ f.w <= w
                                       /\ par[f.u] = x
                                       /\ par[f.u] # par[f.v]}} : x \in C}

\* Mutant: only the roots merged are relabelled, not their members.
ReparentRoots(C, r) == [v \in Vertex |-> IF v \in C \ {r} THEN r ELSE par[v]]

Reparent(C, r) ==
    [v \in Vertex |-> IF \E x \in C \ {r} : v \in component[x] THEN r ELSE par[v]]

\* Mutant: the merged cluster's weight is not asked for again.
RequeueNothing(queue, r) == queue

Requeue(queue, r) == queue \cup {r}

Merge(C, w, r) ==
    /\ r \in MergeRoot(C)
    /\ weightVertices' = [weightVertices EXCEPT ![w] = @ \ C]
    /\ subgraphs' =
         Append(subgraphs, [comp |-> C, weight |-> w,
                            entries |-> SubgraphEdges("SERVER", C, w)
                                          \cup SubgraphEdges("CLIENT", C, w)])
    /\ par' = Reparent(C, r)
    /\ component' = [component EXCEPT ![r] = UNION {component[x] : x \in C}]
    /\ adj' = [p \in Party |->
                 [adj[p] EXCEPT ![r] = PopInternal(UNION {adj[p][x] : x \in C}, par')]]

\* One turn of the loop over the opened components: weights in increasing
\* order, and the components of a weight by their first cluster.
FirstComponent(comps) ==
    {C \in comps : \A D \in comps : \E x \in C : \A y \in D : x <= y}

MergeIsolated ==
    /\ pc = "merge"
    /\ \E w \in needReconnecting : \E C \in FirstComponent(opened[w]) : \E r \in C :
         /\ \A x \in needReconnecting : opened[x] # {} => w <= x
         /\ Merge(C, w, r)
         /\ opened' = [opened EXCEPT ![w] = @ \ {C}]
         /\ needRecomputing' = Requeue(needRecomputing, r)
         /\ firstMerged' = IF firstMerged = None THEN r ELSE firstMerged
         /\ secondMerged' = IF firstMerged # None /\ secondMerged = WeightDummy
                            THEN w ELSE secondMerged
    /\ UNCHANGED <<edges, needReconnecting, forest, pc>>

AllMerged ==
    /\ pc = "merge"
    /\ \A w \in needReconnecting : opened[w] = {}
    /\ needReconnecting' = {}
    /\ pc' = "chain"
    /\ UNCHANGED <<edges, par, component, adj, needRecomputing,
                   weightVertices, opened, firstMerged, secondMerged,
                   subgraphs, forest>>

(***************************************************************************)
(* The loop at the end of reconnect(): while the least remaining weight is *)
(* not above secondMerged, all its clusters join firstMerged without a     *)
(* circuit being run.                                                      *)
(***************************************************************************)

LeastWeight(w) == IsLeast({x \in Weight : weightVertices[x] # {}}, w)

\* Mutant: the bound by the weight of the second merge is left out.
ChainToTheEnd(w) == firstMerged # None /\ LeastWeight(w)

Chain(w) ==
    /\ firstMerged # None
    /\ LeastWeight(w)
    /\ w <= secondMerged

MergeChain ==
    /\ pc = "chain"
    /\ \E w \in Weight : \E r \in Vertex :
         /\ Chain(w)
         /\ Merge(weightVertices[w] \cup {firstMerged}, w, r)
         /\ needRecomputing' = Requeue(needRecomputing \ {firstMerged}, r)
         /\ firstMerged' = r
    /\ UNCHANGED <<edges, needReconnecting, opened, secondMerged, forest, pc>>

ChainDone ==
    /\ pc = "chain"
    /\ ~ \E w \in Weight : Chain(w)
    /\ pc' = "main"
    /\ UNCHANGED <<edges, par, component, adj, needRecomputing,
                   weightVertices, needReconnecting, opened, firstMerged,
                   secondMerged, subgraphs, forest>>

(***************************************************************************)
(* findSubgraphMSFs(): the circuit selects a random spanning tree of every *)
(* subgraph (module SubgraphMsf), each party learns which of its own       *)
(* edges are in it, and the loop over the results reads them out.          *)
(***************************************************************************)

FindSubgraphMSFs ==
    /\ pc = "main"
    /\ needRecomputing = {}
    /\ pc' = "select"
    /\ UNCHANGED <<edges, par, component, adj, needRecomputing,
                   weightVertices, needReconnecting, opened, firstMerged,
                   secondMerged, subgraphs, forest>>

SpanningTrees(entries, C) ==
    {T \in SUBSET entries :
        /\ Cardinality(T) = Cardinality(C) - 1
        /\ \A S \in (SUBSET C) \ {{}, C} :
             \E t \in T : t.ends \cap S # {} /\ t.ends \cap (C \ S) # {}}

ReadSubgraph ==
    /\ pc = "select"
    /\ subgraphs # << >>
    /\ \E T \in SpanningTrees(Head(subgraphs).entries, Head(subgraphs).comp) :
          forest' = forest \cup {[party |-> t.party, edge |-> t.edge] : t \in T}
    /\ subgraphs' = Tail(subgraphs)
    /\ UNCHANGED <<edges, par, component, adj, needRecomputing,
                   weightVertices, needReconnecting, opened, firstMerged,
                   secondMerged, pc>>

Finish ==
    /\ pc = "select"
    /\ subgraphs = << >>
    /\ pc' = "done"
    /\ UNCHANGED <<edges, par, component, adj, needRecomputing,
                   weightVertices, needReconnecting, opened, firstMerged,
                   secondMerged, subgraphs, forest>>

Terminated == pc = "done" /\ UNCHANGED vars

\* Mutant: the loop over the vertices runs to n inclusive.
OneTooMany == 0 .. N

InitialRoots == Vertex

Init ==
    /\ edges \in Inputs
    /\ par = [v \in Vertex |-> v]
    /\ component = [v \in Vertex |-> {v}]
    /\ adj = [p \in Party |-> [v \in Vertex |-> {e \in edges[p] : v \in {e.u, e.v}}]]
    /\ needRecomputing = InitialRoots
    /\ weightVertices = [w \in Weight |-> {}]
    /\ needReconnecting = {}
    /\ opened = [w \in Weight |-> {}]
    /\ firstMerged = None
    /\ secondMerged = WeightDummy
    /\ subgraphs = << >>
    /\ forest = {}
    /\ pc = "main"

Next ==
    \/ RecomputeWeights
    \/ Reconnect
    \/ MergeIsolated
    \/ AllMerged
    \/ MergeChain
    \/ ChainDone
    \/ FindSubgraphMSFs
    \/ ReadSubgraph
    \/ Finish
    \/ Terminated

\* Both parties run the loop of msf() to its end: nothing else preempts it.
Spec == Init /\ [][Next]_vars /\ WF_vars(Next)

(***************************************************************************)
(* Properties.                                                             *)
(***************************************************************************)

\* The globals of msf.cpp hold the kinds of values their declarations say.
TypeOK ==
    /\ edges \in [Party -> SUBSET Edge]
    /\ par \in [Vertex -> Vertex]
    /\ component \in [Vertex -> SUBSET Vertex]
    /\ adj \in [Party -> [Vertex -> SUBSET Edge]]
    /\ needRecomputing \subseteq Vertex
    /\ weightVertices \in [Weight -> SUBSET Vertex]
    /\ needReconnecting \subseteq Weight
    /\ opened \in [Weight -> SUBSET SUBSET Vertex]
    /\ firstMerged \in Vertex \cup {None}
    /\ secondMerged \in Weight \cup {WeightDummy}
    /\ subgraphs \in Seq([comp : SUBSET Vertex, weight : Weight,
                          entries : SUBSET [ends : SUBSET Vertex, party : Party, edge : Edge]])
    /\ forest \subseteq [party : Party, edge : Edge]
    /\ pc \in {"main", "reconnect", "merge", "chain", "select", "done"}

\* par and component describe one partition: roots are their own parents and
\* a root's component list has exactly the vertices that point to it.
PartitionOK ==
    /\ \A v \in Vertex : par[par[v]] = par[v]
    /\ \A r \in Roots : component[r] = {v \in Vertex : par[v] = r}

External(e) == par[e.u] # par[e.v]
Incident(e, r) == par[e.u] = r \/ par[e.v] = r

\* However merges, unions of edge sets and pops from the front interleave, a
\* root's adj keeps every edge that still leaves its cluster, holds only edges
\* that touch it, and never starts with an edge inside it: the weight that
\* recomputeWeights() reads at the front is a real outgoing weight.
AdjOK ==
    \A p \in Party : \A r \in Roots :
        /\ \A e \in edges[p] : External(e) /\ Incident(e, r) => e \in adj[p][r]
        /\ \A e \in adj[p][r] :
             /\ e \in edges[p] /\ Incident(e, r)
             /\ \E f \in adj[p][r] : External(f) /\ (f = e \/ Less(f, e))

\* w is the least weight of an edge of either party that leaves cluster r.
LeavingWeight(r, w) ==
    /\ \E e \in AllEdges : External(e) /\ Incident(e, r) /\ e.w = w
    /\ \A e \in AllEdges : External(e) /\ Incident(e, r) => w <= e.w

\* The weight under which a root is filed is never stale: merges elsewhere
\* since it was opened have not changed the least edge that leaves it.
WeightsCurrent ==
    \A w \in Weight : \A r \in weightVertices[w] : r \in Roots /\ LeavingWeight(r, w)

\* No cluster is lost or counted twice: each waits to be recomputed, or is
\* filed under its weight, or has no edge left that leaves it.
ClustersAccounted ==
    /\ needRecomputing \subseteq Roots
    /\ \A r \in Roots :
         \/ r \in needRecomputing
         \/ \E w \in Weight : r \in weightVertices[w]
         \/ \A e \in AllEdges : External(e) => ~ Incident(e, r)
    /\ \A w \in Weight : weightVertices[w] \cap needRecomputing = {}

Leaves(e, C) == (par[e.u] \in C) # (par[e.v] \in C)

\* The components opened by one run of the circuit are still right when
\* their turn to be merged comes, after others of the batch were merged:
\* they are unmerged clusters of weight w that no edge up to w leaves.
OpenedStillIsolated ==
    pc = "merge" =>
        \A w \in needReconnecting : \A C \in opened[w] :
            /\ C \subseteq weightVertices[w]
            /\ \A e \in AllEdges : e.w <= w => ~ Leaves(e, C)

\* Every pass through reconnect() merges something, so msf() cannot loop
\* without progress nor stop with clusters still filed.
EveryRoundMerges ==
    /\ pc = "chain" => firstMerged # None
    /\ pc = "select" => \A w \in Weight : weightVertices[w] = {}

\* What phase 2 is given: at least two clusters, edges between them only, all
\* of weight exactly w (a random spanning tree is then a minimum one), and
\* enough of them to connect the clusters.
SubgraphsSound ==
    \A k \in DOMAIN subgraphs :
        LET g == subgraphs[k]
        IN  /\ Cardinality(g.comp) >= 2
            /\ \A x \in g.entries : x.ends \subseteq g.comp /\ Cardinality(x.ends) = 2
                                    /\ x.edge.w = g.weight
            /\ \A S \in (SUBSET g.comp) \ {{}, g.comp} :
                 \E x \in g.entries : x.ends \cap S # {} /\ x.ends \cap (g.comp \ S) # {}

\* The edges that join clusters stay available until they are merged: an edge
\* of either party that becomes internal by a merge and has the weight of
\* that merge is handed to phase 2 by the party that owns it.
NothingDropped ==
    [][\A p \in Party : \A e \in edges[p] :
         par[e.u] # par[e.v] /\ par'[e.u] = par'[e.v] /\ Len(subgraphs') > 0 =>
            LET g == subgraphs'[Len(subgraphs')]
            IN  /\ e.w >= g.weight
                /\ e.w = g.weight => \E x \in g.entries : x.party = p /\ x.edge = e]_vars

\* The mapping under which Msf implements MsfContraction: clusters are the
\* component lists of the roots, and a subgraph is a contraction to draw from.
Contraction ==
    INSTANCE MsfContraction WITH
        Graphs <- {i["SERVER"] \cup i["CLIENT"] : i \in Inputs},
        graph <- AllEdges,
        clusters <- {component[r] : r \in Roots},
        pending <- [k \in DOMAIN subgraphs |->
                      [parts |-> Cardinality(subgraphs[k].comp),
                       light |-> {x.edge : x \in subgraphs[k].entries}]],
        drawn <- {x.edge : x \in forest},
        phase <- IF pc \in {"select", "done"} THEN "draw" ELSE "contract"

\* Every merge, from a circuit's output or by the chain loop that runs no
\* circuit, contracts a set that no lighter edge leaves, and phase 2 starts
\* only when no edge joins two clusters.
ImplementsContraction == Contraction!Spec

\* When msf() is done the edges the parties hold form a minimum spanning
\* forest of the union of their graphs, and none is selected at both.
ResultIsMsf ==
    pc = "done" =>
        /\ Contraction!IsMsf({x.edge : x \in forest})
        /\ \A x, y \in forest : x.edge = y.edge => x = y

\* msf() ends: the loop of rounds and the chain loop cannot run forever.
Termination == <>(pc = "done")
============================================================================
