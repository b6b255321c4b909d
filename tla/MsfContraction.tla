--------------------------- MODULE MsfContraction ---------------------------
(***************************************************************************)
(* What phase 1 of msf.cpp promises, with no parties, rounds or circuits:  *)
(* it partitions the vertices into clusters, starting from single          *)
(* vertices, and only ever contracts a set of clusters that                *)
(*   - no edge up to weight w leaves,                                      *)
(*   - has no edge lighter than w between its clusters, and                *)
(*   - is connected by its edges of weight w.                              *)
(* Every spanning tree of the edges of weight w between those clusters is  *)
(* then part of a minimum spanning forest, so a tree can be drawn at       *)
(* random, and later, for each contraction on its own.  Phase 2 draws      *)
(* them.                                                                   *)
(***************************************************************************)
EXTENDS Integers, FiniteSets, Sequences

CONSTANTS
    Vertex,
    Graphs        \* sets of edges [u, v, w]

VARIABLES
    graph,        \* the edges of both parties together
    clusters,     \* a partition of Vertex
    pending,      \* contractions whose tree is not drawn yet, oldest first
    drawn,        \* the edges drawn
    phase

vars == <<graph, clusters, pending, drawn, phase>>

Crosses(e, S) == (e.u \in S) # (e.v \in S)

\* The edges between different clusters of D, up to weight w.
Between(D, w) ==
    {e \in graph : e.w <= w /\ \E A, B \in D : A # B /\ e.u \in A /\ e.v \in B}

Contractible(D, w) ==
    /\ \A e \in graph : e.w <= w => ~ Crosses(e, UNION D)
    /\ \A e \in Between(D, w) : e.w = w
    /\ \A S \in (SUBSET D) \ {{}, D} : \E e \in Between(D, w) : Crosses(e, UNION S)

Init ==
    /\ graph \in Graphs
    /\ clusters = {{v} : v \in Vertex}
    /\ pending = << >>
    /\ drawn = {}
    /\ phase = "contract"

Contract ==
    /\ phase = "contract"
    /\ \E D \in {S \in SUBSET clusters : Cardinality(S) >= 2} :
         /\ clusters' = (clusters \ D) \cup {UNION D}
         /\ \E w \in {e.w : e \in {f \in graph : Contractible(D, f.w)}} :
              pending' = Append(pending, [parts |-> Cardinality(D), light |-> Between(D, w)])
    /\ UNCHANGED <<graph, drawn, phase>>

\* Contraction is over only when no edge joins two clusters.
StartDrawing ==
    /\ phase = "contract"
    /\ \A C \in clusters : \A e \in graph : ~ Crosses(e, C)
    /\ phase' = "draw"
    /\ UNCHANGED <<graph, clusters, pending, drawn>>

\* Every edge of F is the only one of F across some cut.
Acyclic(F) == \A f \in F : \E S \in SUBSET Vertex : \A g \in F : Crosses(g, S) <=> g = f

Draw ==
    /\ phase = "draw"
    /\ pending # << >>
    /\ \E T \in {X \in SUBSET Head(pending).light :
                     /\ Cardinality(X) = Head(pending).parts - 1
                     /\ Acyclic(drawn \cup X)} :
         drawn' = drawn \cup T
    /\ pending' = Tail(pending)
    /\ UNCHANGED <<graph, clusters, phase>>

Next == Contract \/ StartDrawing \/ Draw

Spec == Init /\ [][Next]_vars /\ WF_vars(Next)

(***************************************************************************)
(* A minimum spanning forest: across some cut each of its edges is the     *)
(* only one of F and a lightest one of the graph, and F crosses every cut  *)
(* that the graph crosses.                                                 *)
(***************************************************************************)
IsMsf(F) ==
    /\ F \subseteq graph
    /\ \A f \in F : \E S \in SUBSET Vertex :
         /\ \A g \in F : Crosses(g, S) <=> g = f
         /\ \A g \in graph : Crosses(g, S) => f.w <= g.w
    /\ \A S \in SUBSET Vertex :
         (\E g \in graph : Crosses(g, S)) => \E f \in F : Crosses(f, S)
=============================================================================
