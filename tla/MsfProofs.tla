----------------------------- MODULE MsfProofs -----------------------------
(***************************************************************************)
(* Machine-checked proofs about msf.cpp: IInv of MsfInvariant, about phase *)
(* 1, and RInv, about what is drawn, are inductive for every number of     *)
(* vertices, every range of weights and every pair of inputs, and with     *)
(* them every step of msf() is one of MsfContraction, or a stutter.        *)
(***************************************************************************)
EXTENDS MsfInvariant, FiniteSetTheorems, SequenceTheorems, WellFoundedInduction, TLAPS

(***************************************************************************)
(* Arithmetic.                                                             *)
(***************************************************************************)

\* The library states this for operators on relations; here it is for <=.
NatLess == {ss \in Nat \X Nat : ss[1] < ss[2]}

\* Every non-empty set of natural numbers has a least element: the fronts of
\* sorted sets and the least filed weight exist.
LEMMA LeastNat ==
    ASSUME NEW T, T \subseteq Nat, T # {}
    PROVE  \E x \in T : \A y \in T : x <= y
<1>1. NatLess = OpToRel(<, Nat)
  BY DEF OpToRel, NatLess
<1>2. IsWellFoundedOn(NatLess, Nat)
  BY <1>1, NatLessThanWellFounded
<1>3. PICK x \in T : \A y \in T : ~ (<<y, x>> \in NatLess)
  BY <1>2, WFMin
<1>4. ASSUME NEW y \in T PROVE x <= y
  <2>1. /\ <<y, x>> \in Nat \X Nat
        /\ <<y, x>>[1] = y /\ <<y, x>>[2] = x
    OBVIOUS
  <2>2. ~ (y < x)
    BY <1>3, <2>1 DEF NatLess
  <2> QED BY <2>2
<1> QED BY <1>4

\* The vertices and the weights are natural numbers, finitely many.
LEMMA Ranges ==
    /\ Vertex \subseteq Nat /\ Weight \subseteq Nat
    /\ WeightDummy \in Nat /\ WeightDummy \notin Weight
    /\ \A w \in Weight : w < WeightDummy
    /\ None \notin Vertex /\ Outside \notin Vertex
    /\ IsFiniteSet(Vertex)
<1>1. IsFiniteSet(0 .. N-1)
  BY MsfAssumption, FS_Interval
<1> QED BY <1>1, MsfAssumption DEF Vertex, Weight, None, Outside

\* What a member of Edge is.
LEMMA EdgeFields ==
    ASSUME NEW e \in Edge
    PROVE  /\ e.u \in Vertex /\ e.v \in Vertex /\ e.w \in Weight /\ e.w \in Nat
           /\ e.u # e.v
<1>1. e.u \in Vertex /\ e.v \in Vertex /\ e.w \in Weight /\ e.u < e.v
  BY DEF Edge
<1>2. e.u \in Nat /\ e.v \in Nat /\ e.w \in Nat
  BY <1>1, Ranges
<1> QED BY <1>1, <1>2

(***************************************************************************)
(* The front of a sorted set of edges.                                     *)
(***************************************************************************)

\* FrontWeight returns the least weight in the set, or WeightDummy.
LEMMA FrontIsLeast ==
    ASSUME NEW A \in SUBSET Edge
    PROVE  /\ A = {} => FrontWeight(A) = WeightDummy
           /\ A # {} => /\ FrontWeight(A) \in Weight
                        /\ \E e \in A : e.w = FrontWeight(A)
                        /\ \A e \in A : FrontWeight(A) <= e.w
<1> DEFINE W == {e.w : e \in A}
<1>1. CASE A = {}
  BY <1>1 DEF FrontWeight
<1>2. CASE A # {}
  <2>1. W \subseteq Weight /\ W # {}
    BY <1>2 DEF Edge
  <2>2. PICK x \in W : \A y \in W : x <= y
    BY <2>1, Ranges, LeastNat
  <2>3. x \in Weight /\ IsLeast(W, x)
    BY <2>1, <2>2 DEF IsLeast
  <2>4. /\ FrontWeight(A) \in Weight
        /\ IsLeast(W, FrontWeight(A))
    <3> HIDE DEF W
    <3>1. \E z \in Weight : IsLeast(W, z)
      BY <2>3
    <3>2. FrontWeight(A) = CHOOSE z \in Weight : IsLeast(W, z)
      BY <1>2 DEF FrontWeight, W
    <3> QED BY <3>1, <3>2
  <2> QED BY <1>2, <2>4 DEF IsLeast
<1> QED BY <1>1, <1>2

\* After the invariant, the smaller of the two fronts is the least weight of
\* an edge of either party that leaves the cluster; WeightDummy means none.
LEMMA BestIsLeaving ==
    ASSUME TypeOK, AdjOK, NEW r \in Roots
    PROVE  /\ BestWeight(r) \in Weight => LeavingWeight(r, BestWeight(r))
           /\ BestWeight(r) \notin Weight =>
                \A e \in AllEdges : External(e) => ~ Incident(e, r)
<1> DEFINE F(p) == FrontWeight(adj[p][r])
<1>1. ASSUME NEW p \in Party
      PROVE  /\ adj[p][r] \in SUBSET Edge
             /\ \A e \in edges[p] : External(e) /\ Incident(e, r) => F(p) <= e.w /\ F(p) \in Weight
             /\ F(p) \in Weight =>
                  \E e \in edges[p] : External(e) /\ Incident(e, r) /\ e.w = F(p)
             /\ F(p) \in Weight \cup {WeightDummy}
  <2>1. r \in Vertex
    BY DEF Roots
  <2>2. adj[p][r] \in SUBSET Edge
    BY <2>1 DEF TypeOK
  <2>3. \A e \in edges[p] : External(e) /\ Incident(e, r) => F(p) <= e.w /\ F(p) \in Weight
    BY <2>2, FrontIsLeast DEF AdjOK
  <2>4. ASSUME F(p) \in Weight
        PROVE  \E e \in edges[p] : External(e) /\ Incident(e, r) /\ e.w = F(p)
    <3>1. adj[p][r] # {}
      BY <2>2, <2>4, FrontIsLeast, Ranges
    <3>2. PICK e \in adj[p][r] : e.w = F(p)
      BY <2>2, <3>1, FrontIsLeast
    <3>3. PICK f \in adj[p][r] : External(f) /\ (f = e \/ Less(f, e))
      BY DEF AdjOK
    <3>4. f.w <= e.w
      <4>1. e.w \in Nat /\ f.w \in Nat
        BY <2>2, EdgeFields
      <4> QED BY <3>3, <4>1 DEF Less
    <3>5. F(p) <= f.w
      BY <2>2, <3>1, FrontIsLeast
    <3>6. f.w = F(p)
      <4>1. e.w \in Nat /\ f.w \in Nat
        BY <2>2, EdgeFields
      <4> QED BY <3>2, <3>4, <3>5, <4>1
    <3> QED BY <3>3, <3>6 DEF AdjOK
  <2>5. F(p) \in Weight \cup {WeightDummy}
    BY <2>2, FrontIsLeast
  <2> QED BY <2>2, <2>3, <2>4, <2>5
<1>2. "SERVER" \in Party /\ "CLIENT" \in Party
  BY DEF Party
<1>3. BestWeight(r) = IF F("CLIENT") > F("SERVER") THEN F("SERVER") ELSE F("CLIENT")
  BY DEF BestWeight
<1>4. \A p \in Party : \A e \in edges[p] : e \in AllEdges /\ e.w \in Nat
  <2>1. ASSUME NEW p \in Party, NEW e \in edges[p] PROVE e \in AllEdges /\ e.w \in Nat
    <3>1. e \in Edge
      BY DEF TypeOK
    <3>2. e.w \in Nat
      BY <3>1, Ranges DEF Edge
    <3>3. e \in AllEdges
      BY DEF Party, AllEdges
    <3> QED BY <3>2, <3>3
  <2> QED BY <2>1
<1>5. \A e \in AllEdges : e \in edges["SERVER"] \/ e \in edges["CLIENT"]
  BY DEF AllEdges
<1> HIDE DEF F
<1>6. ASSUME BestWeight(r) \in Weight
      PROVE  LeavingWeight(r, BestWeight(r))
  <2>1. \E e \in AllEdges : External(e) /\ Incident(e, r) /\ e.w = BestWeight(r)
    BY <1>1, <1>2, <1>3, <1>4, <1>6
  <2>2. ASSUME NEW e \in AllEdges, External(e), Incident(e, r)
        PROVE  BestWeight(r) <= e.w
    BY <1>1, <1>2, <1>3, <1>4, <1>5, <2>2, Ranges
  <2> QED BY <2>1, <2>2 DEF LeavingWeight
<1>7. ASSUME BestWeight(r) \notin Weight, NEW e \in AllEdges, External(e), Incident(e, r)
      PROVE  FALSE
  <2>1. /\ F("SERVER") \in Weight \cup {WeightDummy}
        /\ F("CLIENT") \in Weight \cup {WeightDummy}
    BY <1>1, <1>2
  <2>2. F("SERVER") = WeightDummy /\ F("CLIENT") = WeightDummy
    <3>1. \A x \in Weight : x \in Nat /\ x < WeightDummy
      BY Ranges
    <3>2. CASE F("CLIENT") > F("SERVER")
      <4>1. F("SERVER") = WeightDummy
        BY <1>3, <1>7, <2>1, <3>2
      <4>2. F("CLIENT") \notin Weight
        <5>1. SUFFICES ASSUME F("CLIENT") \in Weight PROVE FALSE
          OBVIOUS
        <5>2. F("CLIENT") < WeightDummy /\ F("CLIENT") \in Nat
          BY <3>1, <5>1
        <5> QED BY <3>2, <4>1, <5>2, Ranges
      <4> QED BY <2>1, <4>1, <4>2
    <3>3. CASE ~ (F("CLIENT") > F("SERVER"))
      <4>1. F("CLIENT") = WeightDummy
        BY <1>3, <1>7, <2>1, <3>3
      <4>2. F("SERVER") \notin Weight
        <5>1. SUFFICES ASSUME F("SERVER") \in Weight PROVE F("CLIENT") > F("SERVER")
          BY <3>3
        <5> QED BY <3>1, <4>1, <5>1, Ranges
      <4> QED BY <2>1, <4>1, <4>2
    <3> QED BY <3>2, <3>3
  <2>3. F("SERVER") \in Weight \/ F("CLIENT") \in Weight
    BY <1>1, <1>2, <1>5, <1>7
  <2> QED BY <2>2, <2>3, Ranges
<1> QED BY <1>6, <1>7

(***************************************************************************)
(* The connectivity circuit's inputs.                                      *)
(***************************************************************************)

Links(w) ==
    ConnectivityData("SERVER", weightVertices[w], w)
      \cup ConnectivityData("CLIENT", weightVertices[w], w)

\* The links party p enters, one by one.
LEMMA LinkForms ==
    ASSUME NEW p, NEW S, NEW w, NEW l
    PROVE  l \in ConnectivityData(p, S, w) <=>
             \E x \in S : \E e \in adj[p][x] :
                /\ e.w <= w
                /\ \/ Other(x, e) \in S /\ Other(x, e) < x /\ l = {x, Other(x, e)}
                   \/ Other(x, e) \notin S /\ l = {x, Outside}
BY DEF ConnectivityData

\* Seen from a root, an edge of its adjacency set has that root at one side
\* and Other at the other side.
LEMMA OtherEnd ==
    ASSUME TypeOK, PartitionOK, AdjOK, NEW p \in Party, NEW x \in Roots, NEW e \in adj[p][x]
    PROVE  /\ e \in edges[p] /\ e \in AllEdges /\ e \in Edge
           /\ \/ par[e.u] = x /\ par[e.v] = Other(x, e)
              \/ par[e.v] = x /\ par[e.u] = Other(x, e)
           /\ Other(x, e) \in Roots
<1>1. e \in edges[p] /\ Incident(e, x)
  BY DEF AdjOK
<1>2. e \in Edge /\ e \in AllEdges
  BY <1>1 DEF TypeOK, Party, AllEdges
<1>3. e.u \in Vertex /\ e.v \in Vertex
  BY <1>2, EdgeFields
<1>4. par[e.u] \in Roots /\ par[e.v] \in Roots
  BY <1>3 DEF TypeOK, PartitionOK, Roots
<1> QED BY <1>1, <1>2, <1>4 DEF Other, Incident

\* A set of clusters filed under w is a union of components of the circuit's
\* graph exactly when no edge up to w leaves it: entering each link at its
\* larger end only, and all other clusters as node k, loses nothing.
LEMMA ClosedMeansNoLeaving ==
    ASSUME TypeOK, PartitionOK, AdjOK, NEW w \in Weight,
           weightVertices[w] \subseteq Roots,
           NEW T \in SUBSET weightVertices[w]
    PROVE  ClosedUnder(Links(w), T) <=> NoLeaving(T, w)
<1> DEFINE S == weightVertices[w]
<1>0. Outside \notin S /\ Outside \notin T
  BY Ranges DEF Roots
<1>1. ASSUME NoLeaving(T, w)
      PROVE  ClosedUnder(Links(w), T)
  <2> SUFFICES ASSUME NEW l \in Links(w), l \cap T # {}
               PROVE  l \subseteq T
    BY DEF ClosedUnder
  <2>1. PICK p \in Party : l \in ConnectivityData(p, S, w)
    BY DEF Links, Party
  <2>2. PICK x \in S : \E e \in adj[p][x] :
                /\ e.w <= w
                /\ \/ Other(x, e) \in S /\ Other(x, e) < x /\ l = {x, Other(x, e)}
                   \/ Other(x, e) \notin S /\ l = {x, Outside}
    BY <2>1, LinkForms
  <2>3. PICK e \in adj[p][x] :
                /\ e.w <= w
                /\ \/ Other(x, e) \in S /\ Other(x, e) < x /\ l = {x, Other(x, e)}
                   \/ Other(x, e) \notin S /\ l = {x, Outside}
    BY <2>2
  <2>4. x \in Roots
    OBVIOUS
  <2>5. /\ e \in AllEdges
        /\ \/ par[e.u] = x /\ par[e.v] = Other(x, e)
           \/ par[e.v] = x /\ par[e.u] = Other(x, e)
    BY <2>4, OtherEnd
  <2>6. x \in T <=> Other(x, e) \in T
    BY <1>1, <2>3, <2>5 DEF NoLeaving, Leaves
  <2> QED BY <1>0, <2>3, <2>6
<1>2. ASSUME ClosedUnder(Links(w), T), NEW e \in AllEdges, e.w <= w, Leaves(e, T)
      PROVE  FALSE
  <2>1. PICK p \in Party : e \in edges[p]
    BY DEF AllEdges, Party
  <2>2. e \in Edge /\ e.u \in Vertex /\ e.v \in Vertex
    BY <2>1, EdgeFields DEF TypeOK
  <2>3. par[e.u] \in Roots /\ par[e.v] \in Roots /\ par[e.u] # par[e.v]
    BY <1>2, <2>2 DEF TypeOK, PartitionOK, Roots, Leaves
  <2>4. PICK x, y : /\ x \in T /\ y \notin T
                    /\ \/ x = par[e.u] /\ y = par[e.v]
                       \/ x = par[e.v] /\ y = par[e.u]
    BY <1>2 DEF Leaves
  <2>5. e \in adj[p][x] /\ e \in adj[p][y]
    BY <2>1, <2>3, <2>4 DEF AdjOK, External, Incident
  <2>6. Other(x, e) = y /\ Other(y, e) = x
    BY <2>3, <2>4 DEF Other
  <2>7. ConnectivityData(p, S, w) \subseteq Links(w)
    BY DEF Links, Party
  <2>8. CASE y \notin S
    <3>1. {x, Outside} \in ConnectivityData(p, S, w)
      BY <1>2, <2>4, <2>5, <2>6, <2>8, LinkForms
    <3> QED BY <1>0, <1>2, <2>4, <2>7, <3>1 DEF ClosedUnder
  <2>9. CASE y \in S
    <3>1. x \in Nat /\ y \in Nat /\ x # y
      BY <2>3, <2>4, Ranges DEF Roots
    <3>2. CASE y < x
      <4>1. {x, y} \in ConnectivityData(p, S, w)
        BY <1>2, <2>4, <2>5, <2>6, <2>9, <3>2, LinkForms
      <4> QED BY <1>2, <2>4, <2>7, <4>1 DEF ClosedUnder
    <3>3. CASE x < y
      <4>1. {y, x} \in ConnectivityData(p, S, w)
        BY <1>2, <2>4, <2>5, <2>6, <2>9, <3>3, LinkForms
      <4> QED BY <1>2, <2>4, <2>7, <4>1 DEF ClosedUnder
    <3> QED BY <3>1, <3>2, <3>3
  <2> QED BY <2>8, <2>9
<1> QED BY <1>1, <1>2 DEF NoLeaving

\* The components reconnect() merges: the least non-empty sets of clusters
\* filed under w that no edge up to w leaves.  They are disjoint, and every
\* such set contains one of them.
LEMMA IsolatedAreLeastClosed ==
    ASSUME TypeOK, PartitionOK, AdjOK, NEW w \in Weight,
           weightVertices[w] \subseteq Roots
    PROVE  /\ \A C \in IsolatedComponents(w) :
                /\ C \subseteq weightVertices[w] /\ C # {} /\ NoLeaving(C, w)
                /\ \A S \in SUBSET C : S # {} /\ NoLeaving(S, w) => S = C
           /\ \A C, D \in IsolatedComponents(w) : C = D \/ C \cap D = {}
           /\ \A S \in SUBSET weightVertices[w] :
                S # {} /\ NoLeaving(S, w) => \E C \in IsolatedComponents(w) : C \subseteq S
<1>1. \A C : C \in IsolatedComponents(w) <=>
               /\ C \in SUBSET weightVertices[w] /\ C # {}
               /\ NoLeaving(C, w)
               /\ \A D \in (SUBSET C) \ {{}, C} : ~ NoLeaving(D, w)
  BY ClosedMeansNoLeaving DEF IsolatedComponents, LeastClosed, Links
<1>2. ASSUME NEW C \in IsolatedComponents(w), NEW D \in IsolatedComponents(w)
      PROVE  C = D \/ C \cap D = {}
  <2>1. NoLeaving(C \cap D, w)
    BY <1>1 DEF NoLeaving, Leaves
  <2>2. ASSUME C \cap D # {} PROVE C \cap D = C /\ C \cap D = D
    BY <1>1, <2>1, <2>2
  <2> QED BY <2>2
<1>3. ASSUME NEW S \in SUBSET weightVertices[w], S # {}, NoLeaving(S, w)
      PROVE  \E C \in IsolatedComponents(w) : C \subseteq S
  <2> DEFINE K == {T \in SUBSET S : T # {} /\ NoLeaving(T, w)}
  <2>1. IsFiniteSet(S)
    BY Ranges, FS_Subset DEF Roots
  <2>2. {Cardinality(T) : T \in K} \subseteq Nat
    BY <2>1, FS_Subset, FS_CardinalityType
  <2>3. {Cardinality(T) : T \in K} # {}
    BY <1>3
  <2>4. PICK C \in K : \A T \in K : Cardinality(C) <= Cardinality(T)
    <3> DEFINE sizes == {Cardinality(T) : T \in K}
    <3>1. \E n \in sizes : \A m \in sizes : n <= m
      <4> HIDE DEF sizes, K
      <4> QED BY <2>2, <2>3, LeastNat DEF sizes
    <3> QED BY <3>1
  <2>5. ASSUME NEW D \in (SUBSET C) \ {{}, C}, NoLeaving(D, w)
        PROVE  FALSE
    <3>1. D \in K
      BY <2>5
    <3>2. IsFiniteSet(C)
      BY <2>1, FS_Subset
    <3>3. /\ Cardinality(D) <= Cardinality(C)
          /\ Cardinality(D) \in Nat /\ Cardinality(C) \in Nat
          /\ Cardinality(C) = Cardinality(D) => C = D
      BY <3>2, FS_Subset, FS_CardinalityType
    <3> QED BY <2>4, <2>5, <3>1, <3>3
  <2> QED BY <1>1, <2>4, <2>5
<1> QED BY <1>1, <1>2, <1>3

(***************************************************************************)
(* What merge() does to the partition and to the adjacency sets.           *)
(***************************************************************************)

\* Every vertex of a merged cluster points to r and no other vertex moves.
LEMMA MergeRelabels ==
    ASSUME TypeOK, PartitionOK, NEW C \in SUBSET Roots, NEW w \in Weight, NEW r \in C,
           Merge(C, w, r)
    PROVE  /\ par' \in [Vertex -> Vertex]
           /\ \A v \in Vertex : par'[v] = IF par[v] \in C THEN r ELSE par[v]
           /\ Roots' = (Roots \ C) \cup {r}
           /\ component' \in [Vertex -> SUBSET Vertex]
           /\ PartitionOK'
<1>1. r \in Vertex /\ C \subseteq Vertex
  BY DEF Roots
<1>2. ASSUME NEW v \in Vertex
      PROVE  (\E x \in C \ {r} : v \in component[x]) <=> par[v] \in C \ {r}
  BY DEF PartitionOK, Roots
<1>3. par' = [v \in Vertex |->
                IF \E x \in C \ {r} : v \in component[x] THEN r ELSE par[v]]
  BY DEF Merge, Reparent
<1>4. \A v \in Vertex : par'[v] = IF par[v] \in C THEN r ELSE par[v]
  BY <1>2, <1>3
<1>5. par' \in [Vertex -> Vertex]
  BY <1>1, <1>3 DEF TypeOK
<1>6. Roots' = (Roots \ C) \cup {r}
  <2>1. Roots' = {q \in Vertex : par'[q] = q}
    BY DEF Roots
  <2> QED BY <1>1, <1>4, <2>1 DEF Roots
<1>7. /\ component' \in [Vertex -> SUBSET Vertex]
      /\ component'[r] = UNION {component[x] : x \in C}
      /\ \A q \in Vertex : q # r => component'[q] = component[q]
  <2>1. UNION {component[x] : x \in C} \in SUBSET Vertex
    BY <1>1 DEF TypeOK
  <2>2. component' = [component EXCEPT ![r] = UNION {component[x] : x \in C}]
    BY DEF Merge
  <2> QED BY <1>1, <2>1, <2>2 DEF TypeOK
<1>8. PartitionOK'
  <2>1. ASSUME NEW v \in Vertex PROVE par'[par'[v]] = par'[v]
    <3>1. par[v] \in Vertex /\ par[par[v]] = par[v] /\ par[r] = r
      BY <1>1 DEF TypeOK, PartitionOK, Roots
    <3> QED BY <1>1, <1>4, <3>1
  <2>2. ASSUME NEW q \in Roots' PROVE component'[q] = {v \in Vertex : par'[v] = q}
    <3>1. CASE q = r
      <4>1. UNION {component[x] : x \in C} = {v \in Vertex : par[v] \in C}
        BY DEF PartitionOK
      <4> QED BY <1>4, <1>7, <3>1, <4>1
    <3>2. CASE q # r
      <4>1. q \in Roots /\ q \notin C /\ q \in Vertex
        BY <1>6, <3>2 DEF Roots
      <4>2. component'[q] = {v \in Vertex : par[v] = q}
        BY <1>7, <3>2, <4>1 DEF PartitionOK
      <4>3. \A v \in Vertex : par[v] = q <=> par'[v] = q
        BY <1>4, <3>2, <4>1
      <4> QED BY <4>2, <4>3
    <3> QED BY <3>1, <3>2
  <2> QED BY <2>1, <2>2 DEF PartitionOK
<1> QED BY <1>4, <1>5, <1>6, <1>7, <1>8

\* Sets of clusters that take no part in a merge keep the same edges leaving
\* them, and so does each such cluster.
LEMMA MergeElsewhere ==
    ASSUME TypeOK, PartitionOK, NEW C \in SUBSET Roots, NEW w \in Weight, NEW r \in C,
           Merge(C, w, r), edges' = edges
    PROVE  /\ AllEdges' = AllEdges
           /\ \A e \in AllEdges : e \in Edge /\ e.u \in Vertex /\ e.v \in Vertex
           /\ \A S \in SUBSET (Roots \ C) : \A e \in AllEdges :
                Leaves(e, S)' <=> Leaves(e, S)
           /\ \A q \in Roots \ C : \A e \in AllEdges :
                External(e)' /\ Incident(e, q)' <=> External(e) /\ Incident(e, q)
           /\ \A e \in AllEdges : External(e)' => External(e)
<1>1. AllEdges' = AllEdges
  BY DEF AllEdges
<1>2. \A e \in AllEdges : e \in Edge
  BY DEF AllEdges, TypeOK, Party
<1>3. \A e \in AllEdges : e.u \in Vertex /\ e.v \in Vertex
  BY <1>2, EdgeFields
<1>4. \A v \in Vertex : par'[v] = IF par[v] \in C THEN r ELSE par[v]
  BY MergeRelabels
<1>5. ASSUME NEW S \in SUBSET (Roots \ C), NEW v \in Vertex
      PROVE  par'[v] \in S <=> par[v] \in S
  BY <1>4
<1>6. ASSUME NEW S \in SUBSET (Roots \ C), NEW e \in AllEdges
      PROVE  Leaves(e, S)' <=> Leaves(e, S)
  BY <1>3, <1>5 DEF Leaves
<1>7. ASSUME NEW q \in Roots \ C, NEW e \in AllEdges
      PROVE  External(e)' /\ Incident(e, q)' <=> External(e) /\ Incident(e, q)
  BY <1>3, <1>4 DEF External, Incident
<1>8. ASSUME NEW e \in AllEdges, External(e)' PROVE External(e)
  BY <1>3, <1>4, <1>8 DEF External
<1> QED BY <1>1, <1>2, <1>3, <1>6, <1>7, <1>8

\* No edge up to w leaves the merged cluster when none left its parts.
LEMMA MergedLeavesAbove ==
    ASSUME TypeOK, PartitionOK, NEW C \in SUBSET Roots, NEW w \in Weight, NEW r \in C,
           Merge(C, w, r), edges' = edges, NoLeaving(C, w)
    PROVE  \A e \in AllEdges : External(e)' /\ Incident(e, r)' => w < e.w
<1> SUFFICES ASSUME NEW e \in AllEdges, External(e)', Incident(e, r)'
             PROVE  w < e.w
  OBVIOUS
<1>1. e \in Edge /\ e.u \in Vertex /\ e.v \in Vertex
  BY MergeElsewhere
<1>2. Leaves(e, C)
  <2>1. \A v \in Vertex : par'[v] = IF par[v] \in C THEN r ELSE par[v]
    BY MergeRelabels
  <2>2. par'[e.u] # par'[e.v] /\ (par'[e.u] = r \/ par'[e.v] = r)
    BY DEF External, Incident
  <2>3. \A v \in Vertex : par[v] = r => par[v] \in C
    OBVIOUS
  <2> QED BY <1>1, <2>1, <2>2, <2>3 DEF Leaves
<1>3. e.w \in Nat /\ w \in Nat /\ ~ (e.w <= w)
  BY <1>1, <1>2, EdgeFields, Ranges DEF NoLeaving
<1> QED BY <1>3

\* The union of the merged sets, less the internal edges at its front, is the
\* adjacency set of the merged cluster.
LEMMA MergeAdj ==
    ASSUME TypeOK, PartitionOK, AdjOK, NEW C \in SUBSET Roots, NEW w \in Weight,
           NEW r \in C, Merge(C, w, r), edges' = edges
    PROVE  /\ adj' \in [Party -> [Vertex -> SUBSET Edge]]
           /\ AdjOK'
<1> DEFINE all(p) == UNION {adj[p][x] : x \in C}
<1>1. r \in Vertex /\ C \subseteq Vertex /\ Roots \subseteq Vertex
  BY DEF Roots
<1>a. /\ \A v \in Vertex : par'[v] = IF par[v] \in C THEN r ELSE par[v]
      /\ Roots' = (Roots \ C) \cup {r}
  BY MergeRelabels
<1>b. ASSUME NEW q \in Roots', q # r PROVE q \in Roots \ C /\ q \in Vertex
  BY <1>1, <1>a, <1>b
<1>2. ASSUME NEW p \in Party
      PROVE  /\ all(p) \subseteq edges[p] /\ edges[p] \subseteq Edge /\ edges[p] \subseteq AllEdges
             /\ adj'[p] = [adj[p] EXCEPT ![r] = PopInternal(all(p), par')]
             /\ adj'[p] \in [Vertex -> SUBSET Edge]
             /\ adj'[p][r] = PopInternal(all(p), par')
             /\ \A q \in Vertex : q # r => adj'[p][q] = adj[p][q]
  <2>1. all(p) \subseteq edges[p]
    BY DEF AdjOK
  <2>2. edges[p] \subseteq Edge /\ edges[p] \subseteq AllEdges
    BY DEF TypeOK, Party, AllEdges
  <2>3. adj'[p] = [adj[p] EXCEPT ![r] = PopInternal(all(p), par')]
    BY DEF Merge
  <2>4. PopInternal(all(p), par') \in SUBSET Edge
    BY <2>1, <2>2 DEF PopInternal
  <2>5. adj[p] \in [Vertex -> SUBSET Edge]
    BY DEF TypeOK
  <2> HIDE DEF all
  <2> QED BY <1>1, <2>1, <2>2, <2>3, <2>4, <2>5
<1>3. adj' \in [Party -> [Vertex -> SUBSET Edge]]
  <2>1. adj' = [p \in Party |-> [adj[p] EXCEPT ![r] = PopInternal(all(p), par')]]
    BY DEF Merge
  <2> HIDE DEF all
  <2> QED BY <1>2, <2>1
<1>4. ASSUME NEW p \in Party, NEW q \in Roots', NEW e \in edges[p],
             External(e)', Incident(e, q)'
      PROVE  e \in adj'[p][q]
  <2>1. /\ e \in AllEdges /\ External(e)
        /\ e.u \in Vertex /\ e.v \in Vertex
    BY <1>2, <1>4, MergeElsewhere
  <2>2. CASE q # r
    <3>1. q \in Roots \ C /\ q \in Vertex
      BY <1>b, <2>2
    <3>2. Incident(e, q)
      BY <1>4, <2>1, <3>1, MergeElsewhere
    <3> QED BY <1>2, <2>1, <2>2, <3>1, <3>2 DEF AdjOK
  <2>3. CASE q = r
    <3>1. PICK x \in C : Incident(e, x)
      <4>1. par'[e.u] = r \/ par'[e.v] = r
        BY <1>4, <2>3 DEF Incident
      <4>2. par[e.u] \in C \/ par[e.v] \in C
        BY <1>a, <2>1, <4>1
      <4> QED BY <4>2 DEF Incident
    <3>2. e \in all(p)
      BY <2>1, <3>1 DEF AdjOK
    <3>3. par'[e.u] # par'[e.v]
      BY <1>4 DEF External
    <3>4. e \in PopInternal(all(p), par')
      <4> HIDE DEF all
      <4> QED BY <3>2, <3>3 DEF PopInternal
    <3> QED BY <1>2, <2>3, <3>4
  <2> QED BY <2>2, <2>3
<1>5. ASSUME NEW p \in Party, NEW q \in Roots', NEW e \in adj'[p][q]
      PROVE  /\ e \in edges[p] /\ Incident(e, q)'
             /\ \E f \in adj'[p][q] : External(f)' /\ (f = e \/ Less(f, e))
  <2>1. CASE q # r
    <3>1. q \in Roots \ C /\ q \in Vertex
      BY <1>b, <2>1
    <3>2. adj'[p][q] = adj[p][q]
      BY <1>2, <2>1, <3>1
    <3>3. \A g \in adj[p][q] : g \in edges[p] /\ g \in AllEdges /\ Incident(g, q)
      BY <1>2, <3>1 DEF AdjOK
    <3>4. PICK f \in adj[p][q] : External(f) /\ (f = e \/ Less(f, e))
      BY <3>1, <3>2 DEF AdjOK
    <3>5. External(f)'
      BY <3>1, <3>3, <3>4, MergeElsewhere
    <3>6. Incident(e, q)'
      <4>1. e.u \in Vertex /\ e.v \in Vertex /\ Incident(e, q)
        BY <3>2, <3>3, MergeElsewhere
      <4> QED BY <1>a, <3>1, <4>1 DEF Incident
    <3> QED BY <3>2, <3>3, <3>4, <3>5, <3>6
  <2>2. CASE q = r
    <3>1. e \in all(p) /\ \E f \in all(p) : par'[f.u] # par'[f.v] /\ (f = e \/ Less(f, e))
      <4> HIDE DEF all
      <4> QED BY <1>2, <1>5, <2>2 DEF PopInternal
    <3>2. PICK f \in all(p) : par'[f.u] # par'[f.v] /\ (f = e \/ Less(f, e))
      BY <3>1
    <3>3. f \in adj'[p][q]
      <4>1. f \in PopInternal(all(p), par')
        <5> HIDE DEF all
        <5> QED BY <3>2 DEF PopInternal
      <4> QED BY <1>2, <2>2, <4>1
    <3>4. PICK x \in C : e \in adj[p][x]
      BY <3>1
    <3>5. e \in edges[p] /\ Incident(e, x) /\ e.u \in Vertex /\ e.v \in Vertex
      BY <1>2, <3>4, MergeElsewhere DEF AdjOK
    <3>6. Incident(e, q)'
      <4>1. par'[e.u] = r \/ par'[e.v] = r
        BY <1>a, <3>5 DEF Incident
      <4> QED BY <2>2, <4>1 DEF Incident
    <3> QED BY <3>2, <3>3, <3>5, <3>6 DEF External
  <2> QED BY <2>1, <2>2
<1> QED BY <1>3, <1>4, <1>5 DEF AdjOK

\* The edges handed to phase 2 join clusters of C only: newIndices is never
\* asked for a root outside C.
LEMMA EntriesInside ==
    ASSUME TypeOK, PartitionOK, AdjOK, NEW C \in SUBSET Roots, NEW w \in Weight,
           NoLeaving(C, w), NEW p \in Party, NEW t \in SubgraphEdges(p, C, w)
    PROVE  \E e \in edges[p] :
             /\ t = [ends |-> {par[e.u], par[e.v]}, party |-> p, edge |-> e]
             /\ par[e.u] \in C /\ par[e.v] \in C /\ par[e.u] # par[e.v]
             /\ e \in Edge /\ e.w <= w
<1>1. PICK x \in C : \E e \in adj[p][x] :
         /\ e.w <= w /\ par[e.u] = x /\ par[e.u] # par[e.v]
         /\ t = [ends |-> {NewIndex(C, par[e.u]), NewIndex(C, par[e.v])},
                 party |-> p, edge |-> e]
  BY DEF SubgraphEdges
<1>2. PICK e \in adj[p][x] :
         /\ e.w <= w /\ par[e.u] = x /\ par[e.u] # par[e.v]
         /\ t = [ends |-> {NewIndex(C, par[e.u]), NewIndex(C, par[e.v])},
                 party |-> p, edge |-> e]
  BY <1>1
<1>3. e \in edges[p] /\ e \in AllEdges /\ e \in Edge
  BY OtherEnd
<1>4. par[e.u] \in C /\ par[e.v] \in C
  BY <1>2, <1>3 DEF NoLeaving, Leaves
<1>5. NewIndex(C, par[e.u]) = par[e.u] /\ NewIndex(C, par[e.v]) = par[e.v]
  BY <1>4 DEF NewIndex
<1> QED BY <1>2, <1>3, <1>4, <1>5

\* A cluster is filed under one weight only.
LEMMA FiledOnce ==
    ASSUME TypeOK, WeightsCurrent, NEW x \in Weight, NEW y \in Weight,
           NEW q \in weightVertices[x], q \in weightVertices[y]
    PROVE  x = y
<1>1. LeavingWeight(q, x) /\ LeavingWeight(q, y)
  BY DEF WeightsCurrent
<1>2. x <= y /\ y <= x
  BY <1>1 DEF LeavingWeight
<1> QED BY <1>2, Ranges

\* What every merge preserves, whether its clusters were found by the circuit
\* or by the chain loop: no edge up to w leaves them.
LEMMA MergeKeeps ==
    ASSUME TypeOK, PartitionOK, AdjOK, WeightsCurrent, ClustersAccounted,
           NEW C \in SUBSET Roots, NEW w \in Weight, NEW r \in C,
           C \subseteq weightVertices[w] \cup needRecomputing,
           Merge(C, w, r), edges' = edges, NoLeaving(C, w)
    PROVE  /\ PartitionOK' /\ AdjOK' /\ WeightsCurrent'
           /\ par' \in [Vertex -> Vertex]
           /\ component' \in [Vertex -> SUBSET Vertex]
           /\ adj' \in [Party -> [Vertex -> SUBSET Edge]]
           /\ weightVertices' \in [Weight -> SUBSET Vertex]
           /\ subgraphs' \in Seq([comp : SUBSET Vertex, weight : Weight,
                entries : SUBSET [ends : SUBSET Vertex, party : Party, edge : Edge]])
           /\ \A x \in Weight : weightVertices'[x] = weightVertices[x] \ C
           /\ \A x \in Weight : \A S \in SUBSET (Roots \ C) :
                NoLeaving(S, x)' <=> NoLeaving(S, x)
<1>1. PartitionOK' /\ par' \in [Vertex -> Vertex] /\ component' \in [Vertex -> SUBSET Vertex]
      /\ Roots' = (Roots \ C) \cup {r}
  BY MergeRelabels
<1>2. AdjOK' /\ adj' \in [Party -> [Vertex -> SUBSET Edge]]
  BY MergeAdj
<1>3. weightVertices' = [weightVertices EXCEPT ![w] = @ \ C]
  BY DEF Merge
<1>4. weightVertices' \in [Weight -> SUBSET Vertex]
  BY <1>3 DEF TypeOK
<1>5. ASSUME NEW x \in Weight
      PROVE  weightVertices'[x] = weightVertices[x] \ C
  <2>1. CASE x = w
    BY <1>3, <2>1 DEF TypeOK
  <2>2. CASE x # w
    <3>1. weightVertices'[x] = weightVertices[x]
      BY <1>3, <2>2 DEF TypeOK
    <3>2. weightVertices[x] \cap weightVertices[w] = {}
      BY <2>2, FiledOnce
    <3>3. weightVertices[x] \cap needRecomputing = {}
      BY DEF ClustersAccounted
    <3> QED BY <3>1, <3>2, <3>3
  <2> QED BY <2>1, <2>2
<1>6. ASSUME NEW x \in Weight, NEW q \in weightVertices'[x]
      PROVE  q \in Roots' /\ LeavingWeight(q, x)'
  <2>1. q \in weightVertices[x] /\ q \notin C
    BY <1>5, <1>6
  <2>2. q \in Roots \ C /\ LeavingWeight(q, x)
    BY <2>1 DEF WeightsCurrent
  <2>3. LeavingWeight(q, x)'
    <3>1. AllEdges' = AllEdges /\ \A e \in AllEdges :
            External(e)' /\ Incident(e, q)' <=> External(e) /\ Incident(e, q)
      BY <2>2, MergeElsewhere
    <3>2. \E e \in AllEdges : External(e) /\ Incident(e, q) /\ e.w = x
      BY <2>2 DEF LeavingWeight
    <3>3. \A e \in AllEdges : External(e) /\ Incident(e, q) => x <= e.w
      BY <2>2 DEF LeavingWeight
    <3>4. \E e \in AllEdges' : External(e)' /\ Incident(e, q)' /\ e.w = x
      BY <3>1, <3>2
    <3>5. \A e \in AllEdges' : External(e)' /\ Incident(e, q)' => x <= e.w
      BY <3>1, <3>3
    <3> QED BY <3>4, <3>5 DEF LeavingWeight
  <2> QED BY <1>1, <2>2, <2>3
<1>7. WeightsCurrent'
  BY <1>6 DEF WeightsCurrent
<1>8. subgraphs' \in Seq([comp : SUBSET Vertex, weight : Weight,
                entries : SUBSET [ends : SUBSET Vertex, party : Party, edge : Edge]])
  <2> DEFINE entry == [ends : SUBSET Vertex, party : Party, edge : Edge]
  <2>1. C \in SUBSET Vertex
    BY DEF Roots
  <2>2. ASSUME NEW p \in Party PROVE SubgraphEdges(p, C, w) \in SUBSET entry
    <3> SUFFICES ASSUME NEW t \in SubgraphEdges(p, C, w) PROVE t \in entry
      OBVIOUS
    <3>1. PICK e \in edges[p] :
             /\ t = [ends |-> {par[e.u], par[e.v]}, party |-> p, edge |-> e]
             /\ par[e.u] \in C /\ par[e.v] \in C
             /\ e \in Edge
      BY EntriesInside
    <3>2. {par[e.u], par[e.v]} \in SUBSET Vertex
      BY <2>1, <3>1
    <3> QED BY <3>1, <3>2
  <2>3. SubgraphEdges("SERVER", C, w) \cup SubgraphEdges("CLIENT", C, w) \in SUBSET entry
    <3> HIDE DEF entry
    <3> QED BY <2>2 DEF Party
  <2>4. subgraphs' = Append(subgraphs,
           [comp |-> C, weight |-> w,
            entries |-> SubgraphEdges("SERVER", C, w) \cup SubgraphEdges("CLIENT", C, w)])
    BY DEF Merge
  <2>5. subgraphs \in Seq([comp : SUBSET Vertex, weight : Weight, entries : SUBSET entry])
    BY DEF TypeOK
  <2> HIDE DEF entry
  <2>6. [comp |-> C, weight |-> w,
         entries |-> SubgraphEdges("SERVER", C, w) \cup SubgraphEdges("CLIENT", C, w)]
          \in [comp : SUBSET Vertex, weight : Weight, entries : SUBSET entry]
    BY <2>1, <2>3
  <2>7. subgraphs' \in Seq([comp : SUBSET Vertex, weight : Weight, entries : SUBSET entry])
    BY <2>4, <2>5, <2>6
  <2> QED BY <2>7 DEF entry
<1>9. ASSUME NEW x \in Weight, NEW S \in SUBSET (Roots \ C)
      PROVE  NoLeaving(S, x)' <=> NoLeaving(S, x)
  <2>1. AllEdges' = AllEdges /\ \A e \in AllEdges : Leaves(e, S)' <=> Leaves(e, S)
    BY MergeElsewhere
  <2> QED BY <2>1 DEF NoLeaving
<1> QED BY <1>1, <1>2, <1>4, <1>5, <1>7, <1>8, <1>9

(***************************************************************************)
(* Facts about the filed clusters.                                         *)
(***************************************************************************)

\* Clusters filed under the least weight in use have no lighter way out: the
\* edges up to that weight that leave them lead to clusters of M, provided
\* the clusters whose weight is not known, other than M, have none so light.
LEMMA LeastWeightClosed ==
    ASSUME TypeOK, PartitionOK, WeightsCurrent, ClustersAccounted,
           NEW w \in Weight, LeastWeight(w), NEW M,
           \A q \in needRecomputing : q \in M \/
              \A e \in AllEdges : External(e) /\ Incident(e, q) => w < e.w
    PROVE  NoLeaving(weightVertices[w] \cup M, w)
<1> DEFINE C == weightVertices[w] \cup M
<1> SUFFICES ASSUME NEW e \in AllEdges, e.w <= w, Leaves(e, C) PROVE FALSE
  BY DEF NoLeaving
<1>1. e \in Edge
  BY DEF AllEdges, TypeOK, Party
<1>2. e.u \in Vertex /\ e.v \in Vertex /\ e.w \in Nat
  BY <1>1, EdgeFields
<1>3. par[e.u] \in Roots /\ par[e.v] \in Roots /\ External(e)
  BY <1>2 DEF TypeOK, PartitionOK, Roots, Leaves, External
<1>4. PICK y \in Roots : y \notin C /\ Incident(e, y)
  BY <1>3 DEF Leaves, Incident
<1>5. y \notin needRecomputing
  BY <1>2, <1>3, <1>4, Ranges
<1>6. PICK x \in Weight : y \in weightVertices[x]
  BY <1>3, <1>4, <1>5 DEF ClustersAccounted
<1>7. x <= e.w
  BY <1>3, <1>4, <1>6 DEF WeightsCurrent, LeavingWeight
<1>8. w <= x
  BY <1>6 DEF LeastWeight, IsLeast
<1>9. x = w
  BY <1>2, <1>7, <1>8, Ranges
<1> QED BY <1>4, <1>6, <1>9

\* If any cluster is filed, some weight is the least one in use.
LEMMA LeastWeightExists ==
    ASSUME NEW x \in Weight, weightVertices[x] # {}
    PROVE  \E w \in Weight : LeastWeight(w)
<1> DEFINE W == {z \in Weight : weightVertices[z] # {}}
<1>1. W \subseteq Nat /\ W # {}
  BY Ranges
<1>2. PICK w \in W : \A y \in W : w <= y
  <2> HIDE DEF W
  <2> QED BY <1>1, LeastNat
<1> QED BY <1>2 DEF LeastWeight, IsLeast

\* A set of clusters filed under w that no edge up to w leaves has two
\* members, because each of them has an edge of weight w to another cluster:
\* leaving weights with one cluster untested loses nothing.
LEMMA ClosedHasTwo ==
    ASSUME TypeOK, PartitionOK, WeightsCurrent, NEW w \in Weight,
           NEW S \in SUBSET weightVertices[w], S # {}, NoLeaving(S, w)
    PROVE  WorthTesting(w)
<1>1. PICK q \in S : TRUE
  OBVIOUS
<1>2. PICK e \in AllEdges : External(e) /\ Incident(e, q) /\ e.w = w
  BY DEF WeightsCurrent, LeavingWeight
<1>3. PICK y \in S : y # q
  BY <1>2, Ranges DEF NoLeaving, Leaves, External, Incident
<1>4. IsFiniteSet(weightVertices[w])
  BY Ranges, FS_Subset DEF TypeOK
<1>5. Cardinality({q, y}) = 2
  <2>1. {q, y} = {q} \cup {y} /\ y \notin {q}
    BY <1>3
  <2>2. IsFiniteSet({q}) /\ Cardinality({q}) = 1
    BY FS_Singleton
  <2>3. Cardinality({q} \cup {y}) = Cardinality({q}) + 1
    BY <2>1, <2>2, FS_AddElement
  <2> QED BY <2>1, <2>2, <2>3
<1>6. Cardinality({q, y}) <= Cardinality(weightVertices[w])
  BY <1>4, FS_Subset
<1>7. Cardinality(weightVertices[w]) \in Nat
  BY <1>4, FS_CardinalityType
<1> QED BY <1>5, <1>6, <1>7 DEF WorthTesting

(***************************************************************************)
(* The initial state and one lemma for each action.                        *)
(***************************************************************************)

LEMMA InitKeeps == Init => IInv
<1> SUFFICES ASSUME Init PROVE IInv
  OBVIOUS
<1>1. edges \in [Party -> SUBSET Edge]
  BY MsfAssumption DEF Init
<1>2. TypeOK
  <2>1. adj \in [Party -> [Vertex -> SUBSET Edge]]
    BY <1>1 DEF Init
  <2> QED BY <1>1, <2>1 DEF Init, TypeOK, InitialRoots
<1>3. PartitionOK
  BY DEF Init, PartitionOK, Roots
<1>4. AdjOK
  <2> SUFFICES ASSUME NEW p \in Party, NEW r \in Roots
               PROVE  /\ \A e \in edges[p] : External(e) /\ Incident(e, r) => e \in adj[p][r]
                      /\ \A e \in adj[p][r] :
                           /\ e \in edges[p] /\ Incident(e, r)
                           /\ \E f \in adj[p][r] : External(f) /\ (f = e \/ Less(f, e))
    BY DEF AdjOK
  <2>1. r \in Vertex /\ adj[p][r] = {e \in edges[p] : r \in {e.u, e.v}}
    BY DEF Init, Roots
  <2>2. \A e \in edges[p] : e.u \in Vertex /\ e.v \in Vertex /\ e.u # e.v
    BY <1>1, EdgeFields
  <2>3. \A v \in Vertex : par[v] = v
    BY DEF Init
  <2> QED BY <2>1, <2>2, <2>3 DEF External, Incident
<1>5. WeightsCurrent /\ ClustersAccounted
  BY DEF Init, WeightsCurrent, ClustersAccounted, Roots, InitialRoots
<1>6. PhaseOK /\ ClosedSetsKnown /\ OpenedOK /\ MergedOK
  BY DEF Init, PhaseOK, ClosedSetsKnown, OpenedOK, MergedOK
<1> QED BY <1>2, <1>3, <1>4, <1>5, <1>6 DEF IInv

\* What does not change while the partition and the inputs stay the same.
LEMMA SamePartition ==
    ASSUME PartitionOK, AdjOK, UNCHANGED <<edges, par, component, adj>>
    PROVE  /\ PartitionOK' /\ AdjOK' /\ Roots' = Roots /\ AllEdges' = AllEdges
           /\ \A e : External(e)' <=> External(e)
           /\ \A e, q : Incident(e, q)' <=> Incident(e, q)
           /\ \A q, x : LeavingWeight(q, x)' <=> LeavingWeight(q, x)
           /\ \A S, x : NoLeaving(S, x)' <=> NoLeaving(S, x)
<1>1. Roots' = Roots /\ AllEdges' = AllEdges
  BY DEF Roots, AllEdges
<1>2. /\ \A e : External(e)' <=> External(e)
      /\ \A e, q : Incident(e, q)' <=> Incident(e, q)
      /\ \A e, S : Leaves(e, S)' <=> Leaves(e, S)
  BY DEF External, Incident, Leaves
<1>3. /\ \A q, x : LeavingWeight(q, x)' <=> LeavingWeight(q, x)
      /\ \A S, x : NoLeaving(S, x)' <=> NoLeaving(S, x)
  BY <1>1, <1>2 DEF LeavingWeight, NoLeaving
<1>4. PartitionOK' /\ AdjOK'
  BY <1>1, <1>2 DEF PartitionOK, AdjOK
<1> QED BY <1>1, <1>2, <1>3, <1>4

LEMMA RecomputeKeeps ==
    ASSUME IInv, RecomputeWeights
    PROVE  IInv'
<1> USE DEF RecomputeWeights, RecomputeInto
<1>0. /\ TypeOK /\ PartitionOK /\ AdjOK /\ WeightsCurrent /\ ClustersAccounted
      /\ PhaseOK /\ ClosedSetsKnown /\ OpenedOK
      /\ pc = "main" /\ needReconnecting = {} /\ \A w \in Weight : opened[w] = {}
  BY DEF IInv, PhaseOK
<1>1. /\ PartitionOK' /\ AdjOK' /\ Roots' = Roots /\ AllEdges' = AllEdges
      /\ \A e : External(e)' <=> External(e)
      /\ \A e, q : Incident(e, q)' <=> Incident(e, q)
      /\ \A q, x : LeavingWeight(q, x)' <=> LeavingWeight(q, x)
      /\ \A S, x : NoLeaving(S, x)' <=> NoLeaving(S, x)
  BY <1>0, SamePartition
<1>2. \A w \in Weight : weightVertices'[w] =
          weightVertices[w] \cup {u \in needRecomputing : BestWeight(u) = w}
  OBVIOUS
<1>3. needReconnecting' = {w \in Weight : \E u \in needRecomputing : BestWeight(u) = w}
  BY <1>0
<1>4. TypeOK'
  <2>1. weightVertices' \in [Weight -> SUBSET Vertex]
    BY <1>0 DEF TypeOK
  <2> QED BY <1>0, <1>3, <2>1 DEF TypeOK
<1>5. WeightsCurrent'
  <2> SUFFICES ASSUME NEW w \in Weight, NEW q \in weightVertices'[w]
               PROVE  q \in Roots /\ LeavingWeight(q, w)
    BY <1>1 DEF WeightsCurrent
  <2>1. CASE q \in weightVertices[w]
    BY <1>0, <2>1 DEF WeightsCurrent
  <2>2. CASE q \in needRecomputing /\ BestWeight(q) = w
    BY <1>0, <2>2, BestIsLeaving DEF ClustersAccounted
  <2> QED BY <1>2, <2>1, <2>2
<1>6. ClustersAccounted'
  <2>1. ASSUME NEW q \in Roots
        PROVE  \/ \E w \in Weight : q \in weightVertices'[w]
               \/ \A e \in AllEdges : External(e) => ~ Incident(e, q)
    <3>1. CASE q \in needRecomputing /\ BestWeight(q) \in Weight
      BY <1>2, <3>1
    <3>2. CASE q \in needRecomputing /\ BestWeight(q) \notin Weight
      BY <1>0, <3>2, BestIsLeaving
    <3>3. CASE q \notin needRecomputing
      BY <1>0, <1>2, <3>3 DEF ClustersAccounted
    <3> QED BY <3>1, <3>2, <3>3
  <2>2. needRecomputing' = {}
    OBVIOUS
  <2> QED BY <1>1, <2>1, <2>2 DEF ClustersAccounted
<1>7. PhaseOK'
  <2>1. \A w \in needReconnecting' : weightVertices'[w] # {}
    BY <1>2, <1>3
  <2> QED BY <1>0, <1>3, <2>1 DEF PhaseOK
<1>8. ClosedSetsKnown'
  <2> SUFFICES ASSUME NEW w \in Weight, pc' = "reconnect" => w \notin needReconnecting',
                      NEW S \in SUBSET weightVertices'[w], S # {}, NoLeaving(S, w)
               PROVE  \E C \in opened'[w] : C \subseteq S
    BY <1>1 DEF ClosedSetsKnown
  <2>1. w \notin needReconnecting'
    OBVIOUS
  <2>2. weightVertices'[w] = weightVertices[w]
    BY <1>2, <1>3, <2>1
  <2> QED BY <1>0, <2>2 DEF ClosedSetsKnown
<1>9. OpenedOK' /\ MergedOK'
  BY <1>0 DEF OpenedOK, MergedOK
<1> QED BY <1>1, <1>4, <1>5, <1>6, <1>7, <1>8, <1>9 DEF IInv

LEMMA ReconnectKeeps ==
    ASSUME IInv, Reconnect
    PROVE  IInv'
<1> USE DEF Reconnect
<1>0. /\ TypeOK /\ PartitionOK /\ AdjOK /\ WeightsCurrent /\ ClustersAccounted
      /\ PhaseOK /\ ClosedSetsKnown /\ OpenedOK
      /\ pc = "reconnect" /\ needRecomputing = {}
      /\ \A w \in Weight : opened[w] = {} /\ weightVertices[w] \subseteq Roots
  BY DEF IInv, PhaseOK, WeightsCurrent
<1>1. /\ PartitionOK' /\ AdjOK' /\ Roots' = Roots /\ AllEdges' = AllEdges
      /\ \A e : External(e)' <=> External(e)
      /\ \A e, q : Incident(e, q)' <=> Incident(e, q)
      /\ \A q, x : LeavingWeight(q, x)' <=> LeavingWeight(q, x)
      /\ \A S, x : NoLeaving(S, x)' <=> NoLeaving(S, x)
  BY <1>0, SamePartition
<1>2. /\ needReconnecting' \subseteq needReconnecting /\ needReconnecting' \subseteq Weight
      /\ \A w \in needReconnecting : w \notin needReconnecting' => ~ WorthTesting(w)
  BY <1>0 DEF TypeOK
<1>3. /\ \A w \in needReconnecting' : opened'[w] = IsolatedComponents(w)
      /\ \A w \in Weight : w \notin needReconnecting' => opened'[w] = {}
      /\ DOMAIN opened' = Weight
  BY <1>2
<1>4. TypeOK'
  <2>1. \A w \in Weight : opened'[w] \in SUBSET SUBSET Vertex
    BY <1>0, <1>3 DEF IsolatedComponents, LeastClosed, TypeOK
  <2>2. opened' \in [Weight -> SUBSET SUBSET Vertex]
    BY <2>1
  <2> QED BY <1>0, <1>2, <2>2 DEF TypeOK
<1>5. WeightsCurrent' /\ ClustersAccounted'
  BY <1>0, <1>1 DEF WeightsCurrent, ClustersAccounted
<1>6. PhaseOK'
  BY DEF PhaseOK
<1>7. ASSUME NEW w \in Weight, NEW S \in SUBSET weightVertices[w], S # {}, NoLeaving(S, w)
      PROVE  \E C \in opened'[w] : C \subseteq S
  <2>1. w \in needReconnecting
    BY <1>0, <1>7 DEF ClosedSetsKnown
  <2>2. w \in needReconnecting'
    BY <1>0, <1>2, <1>7, <2>1, ClosedHasTwo
  <2> QED BY <1>0, <1>3, <1>7, <2>2, IsolatedAreLeastClosed
<1>8. ClosedSetsKnown'
  BY <1>1, <1>7 DEF ClosedSetsKnown
<1>9. OpenedOK'
  <2> SUFFICES ASSUME NEW w \in needReconnecting'
               PROVE  /\ \A C, D \in opened'[w] : C = D \/ C \cap D = {}
                      /\ \A C \in opened'[w] :
                           /\ C \subseteq weightVertices[w]
                           /\ C # {}
                           /\ NoLeaving(C, w)
                           /\ \A S \in SUBSET C : S # {} /\ NoLeaving(S, w) => S = C
    BY <1>1, <1>3 DEF OpenedOK
  <2>1. w \in Weight /\ weightVertices[w] \subseteq Roots /\ opened'[w] = IsolatedComponents(w)
    BY <1>0, <1>2, <1>3
  <2> QED BY <1>0, <2>1, IsolatedAreLeastClosed
<1>10. \E w \in Weight : opened'[w] # {}
  <2>1. PICK w \in Weight : LeastWeight(w)
    BY <1>0, LeastWeightExists DEF PhaseOK
  <2>2. NoLeaving(weightVertices[w] \cup {}, w)
    BY <1>0, <2>1, LeastWeightClosed
  <2>3. weightVertices[w] \cup {} = weightVertices[w] /\ weightVertices[w] # {}
    BY <2>1 DEF LeastWeight, IsLeast
  <2> QED BY <1>7, <2>2, <2>3
<1>11. MergedOK'
  BY <1>0, <1>10, Ranges DEF MergedOK
<1> QED BY <1>1, <1>4, <1>5, <1>6, <1>8, <1>9, <1>11 DEF IInv

LEMMA MergeIsolatedKeeps ==
    ASSUME IInv, MergeIsolated
    PROVE  IInv'
<1>0. /\ TypeOK /\ PartitionOK /\ AdjOK /\ WeightsCurrent /\ ClustersAccounted
      /\ PhaseOK /\ ClosedSetsKnown /\ OpenedOK /\ MergedOK
      /\ pc = "merge" /\ pc' = pc /\ edges' = edges
      /\ needReconnecting' = needReconnecting /\ forest' = forest
      /\ needReconnecting \subseteq Weight
  BY DEF IInv, MergeIsolated, TypeOK
<1> DEFINE Turn(w, C, r) ==
         /\ \A x \in needReconnecting : opened[x] # {} => w <= x
         /\ Merge(C, w, r)
         /\ opened' = [opened EXCEPT ![w] = @ \ {C}]
         /\ needRecomputing' = needRecomputing \cup {r}
         /\ firstMerged' = IF firstMerged = None THEN r ELSE firstMerged
         /\ secondMerged' = IF firstMerged # None /\ secondMerged = WeightDummy
                            THEN w ELSE secondMerged
<1>1. PICK w \in needReconnecting : \E C \in opened[w] : \E r \in C : Turn(w, C, r)
  BY DEF MergeIsolated, FirstComponent, Requeue
<1>a. PICK C \in opened[w] : \E r \in C : Turn(w, C, r)
  BY <1>1
<1>b. PICK r \in C : Turn(w, C, r)
  BY <1>a
<1>2. /\ \A x \in needReconnecting : opened[x] # {} => w <= x
      /\ Merge(C, w, r)
      /\ opened' = [opened EXCEPT ![w] = @ \ {C}]
      /\ needRecomputing' = needRecomputing \cup {r}
      /\ firstMerged' = IF firstMerged = None THEN r ELSE firstMerged
      /\ secondMerged' = IF firstMerged # None /\ secondMerged = WeightDummy
                         THEN w ELSE secondMerged
  BY <1>b
<1>3. w \in Weight /\ w \in Nat /\ w < WeightDummy
  BY <1>0, Ranges
<1>4. /\ C \subseteq weightVertices[w] /\ NoLeaving(C, w)
      /\ C \in SUBSET Roots /\ C \cap needRecomputing = {}
  BY <1>0, <1>3 DEF OpenedOK, WeightsCurrent, ClustersAccounted
<1>5. /\ PartitionOK' /\ AdjOK' /\ WeightsCurrent'
      /\ par' \in [Vertex -> Vertex]
      /\ component' \in [Vertex -> SUBSET Vertex]
      /\ adj' \in [Party -> [Vertex -> SUBSET Edge]]
      /\ weightVertices' \in [Weight -> SUBSET Vertex]
      /\ subgraphs' \in Seq([comp : SUBSET Vertex, weight : Weight,
           entries : SUBSET [ends : SUBSET Vertex, party : Party, edge : Edge]])
      /\ \A x \in Weight : weightVertices'[x] = weightVertices[x] \ C
      /\ \A x \in Weight : \A S \in SUBSET (Roots \ C) :
           NoLeaving(S, x)' <=> NoLeaving(S, x)
  BY <1>0, <1>2, <1>3, <1>4, MergeKeeps
<1>6. /\ Roots' = (Roots \ C) \cup {r} /\ r \in Vertex
      /\ \A v \in Vertex : par'[v] = IF par[v] \in C THEN r ELSE par[v]
  BY <1>0, <1>2, <1>3, <1>4, MergeRelabels DEF Roots
<1>7. /\ AllEdges' = AllEdges
      /\ \A q \in Roots \ C : \A e \in AllEdges :
           External(e)' /\ Incident(e, q)' <=> External(e) /\ Incident(e, q)
      /\ \A e \in AllEdges : External(e)' /\ Incident(e, r)' => w < e.w
  BY <1>0, <1>2, <1>3, <1>4, MergeElsewhere, MergedLeavesAbove
<1>8. /\ opened'[w] = opened[w] \ {C}
      /\ \A x \in Weight : x # w => opened'[x] = opened[x]
      /\ opened' \in [Weight -> SUBSET SUBSET Vertex]
  <2>1. opened' = [opened EXCEPT ![w] = @ \ {C}]
    BY <1>2
  <2> QED BY <1>0, <1>3, <2>1 DEF TypeOK
<1>9. TypeOK'
  <2>1. /\ edges' \in [Party -> SUBSET Edge]
        /\ needRecomputing' \subseteq Vertex
        /\ needReconnecting' \subseteq Weight
        /\ firstMerged' \in Vertex \cup {None}
        /\ secondMerged' \in Weight \cup {WeightDummy}
        /\ forest' \subseteq [party : Party, edge : Edge]
        /\ pc' \in {"main", "reconnect", "merge", "chain", "select", "done"}
    BY <1>0, <1>2, <1>3, <1>6 DEF TypeOK
  <2> QED BY <1>5, <1>8, <2>1 DEF TypeOK
<1>10. ClustersAccounted'
  <2>1. needRecomputing' \subseteq Roots'
    BY <1>0, <1>2, <1>4, <1>6 DEF ClustersAccounted
  <2>2. ASSUME NEW q \in Roots'
        PROVE  \/ q \in needRecomputing'
               \/ \E x \in Weight : q \in weightVertices'[x]
               \/ \A e \in AllEdges : External(e)' => ~ Incident(e, q)'
    <3>1. CASE q = r
      BY <1>2, <3>1
    <3>2. CASE q # r
      <4>1. q \in Roots \ C
        BY <1>6, <3>2
      <4>2. CASE q \in needRecomputing
        BY <1>2, <4>2
      <4>3. CASE \E x \in Weight : q \in weightVertices[x]
        BY <1>5, <4>1, <4>3
      <4>4. CASE \A e \in AllEdges : External(e) => ~ Incident(e, q)
        BY <1>7, <4>1, <4>4
      <4> QED BY <1>0, <4>1, <4>2, <4>3, <4>4 DEF ClustersAccounted
    <3> QED BY <3>1, <3>2
  <2>3. \A x \in Weight : weightVertices'[x] \cap needRecomputing' = {}
    BY <1>0, <1>2, <1>5 DEF ClustersAccounted
  <2> QED BY <1>7, <2>1, <2>2, <2>3 DEF ClustersAccounted
<1>11. PhaseOK'
  BY <1>0 DEF PhaseOK
<1>12. ASSUME NEW x \in Weight, NEW D \in opened'[x]
       PROVE  D \in opened[x] /\ D \cap C = {} /\ D \in SUBSET (Roots \ C)
              /\ D \subseteq weightVertices'[x]
  <2>1. D \in opened[x] /\ D \subseteq weightVertices[x]
    BY <1>0, <1>8, <1>12 DEF OpenedOK
  <2>2. D \cap C = {}
    <3>1. CASE x = w
      BY <1>0, <1>2, <1>3, <1>8, <1>12, <3>1 DEF OpenedOK
    <3>2. CASE x # w
      BY <1>0, <1>3, <1>4, <2>1, <3>2, FiledOnce
    <3> QED BY <3>1, <3>2
  <2> QED BY <1>0, <1>5, <2>1, <2>2 DEF WeightsCurrent
<1>13. ClosedSetsKnown'
  <2> SUFFICES ASSUME NEW x \in Weight, NEW S \in SUBSET weightVertices'[x],
                      S # {}, NoLeaving(S, x)'
               PROVE  \E D \in opened'[x] : D \subseteq S
    BY DEF ClosedSetsKnown
  <2>1. S \in SUBSET weightVertices[x] /\ S \in SUBSET (Roots \ C)
    BY <1>0, <1>5 DEF WeightsCurrent
  <2>2. NoLeaving(S, x)
    BY <1>5, <2>1
  <2>3. PICK D \in opened[x] : D \subseteq S
    BY <1>0, <2>1, <2>2 DEF ClosedSetsKnown
  <2>4. D # C
    BY <1>2, <2>1, <2>3
  <2> QED BY <1>8, <2>3, <2>4
<1>14. OpenedOK'
  <2> SUFFICES ASSUME NEW x \in Weight
               PROVE  /\ opened'[x] # {} => x \in needReconnecting
                      /\ \A D, E \in opened'[x] : D = E \/ D \cap E = {}
                      /\ \A D \in opened'[x] :
                           /\ D \subseteq weightVertices'[x]
                           /\ D # {}
                           /\ NoLeaving(D, x)'
                           /\ \A S \in SUBSET D : S # {} /\ NoLeaving(S, x)' => S = D
    BY <1>0 DEF OpenedOK
  <2>1. opened'[x] # {} => x \in needReconnecting
    BY <1>0, <1>12 DEF OpenedOK
  <2>2. \A D, E \in opened'[x] : D = E \/ D \cap E = {}
    BY <1>0, <1>12 DEF OpenedOK
  <2>3. ASSUME NEW D \in opened'[x]
        PROVE  /\ D \subseteq weightVertices'[x] /\ D # {} /\ NoLeaving(D, x)'
               /\ \A S \in SUBSET D : S # {} /\ NoLeaving(S, x)' => S = D
    <3>1. /\ D \in SUBSET (Roots \ C) /\ D \subseteq weightVertices'[x] /\ D \in opened[x]
      BY <1>12
    <3>2. /\ D # {} /\ NoLeaving(D, x)
          /\ \A S \in SUBSET D : S # {} /\ NoLeaving(S, x) => S = D
      BY <1>0, <3>1 DEF OpenedOK
    <3>3. \A S \in SUBSET D : S \in SUBSET (Roots \ C)
      BY <3>1
    <3> QED BY <1>5, <3>1, <3>2, <3>3
  <2> QED BY <2>1, <2>2, <2>3
<1>15. MergedOK'
  <2>1. firstMerged' # None /\ firstMerged' \in needRecomputing'
    BY <1>0, <1>2, <1>6, Ranges DEF MergedOK
  <2>2. ASSUME NEW q \in needRecomputing', q # firstMerged'
        PROVE  /\ secondMerged' < WeightDummy
               /\ \A e \in AllEdges : External(e)' /\ Incident(e, q)' => secondMerged' < e.w
    <3>1. firstMerged # None
      BY <1>0, <1>2, <2>2 DEF MergedOK
    <3>2. firstMerged' = firstMerged
      BY <1>2, <3>1
    <3>3. /\ \A e \in AllEdges : e.w \in Nat
          /\ WeightDummy \in Nat /\ \A z \in Weight : z \in Nat /\ z < WeightDummy
      BY <1>0, EdgeFields, Ranges DEF AllEdges, TypeOK, Party
    <3>4. CASE secondMerged = WeightDummy
      <4>1. secondMerged' = w
        BY <1>2, <3>1, <3>4
      <4>2. \A z \in needRecomputing : z = firstMerged
        BY <1>0, <3>3, <3>4 DEF MergedOK
      <4>3. q = r
        BY <1>2, <2>2, <3>2, <4>2
      <4> QED BY <1>3, <1>7, <4>1, <4>3
    <3>5. CASE secondMerged # WeightDummy
      <4>1. secondMerged \in Weight
        BY <1>0, <3>5 DEF TypeOK
      <4>2. secondMerged' = secondMerged /\ secondMerged < WeightDummy
        BY <1>2, <3>3, <3>5, <4>1
      <4>3. secondMerged <= w
        BY <1>0, <1>2, <1>3, <4>2 DEF MergedOK
      <4>4. CASE q = r
        <5>1. ASSUME NEW e \in AllEdges, External(e)', Incident(e, q)'
              PROVE  secondMerged < e.w
          <6>1. w < e.w
            BY <1>7, <4>4, <5>1
          <6>2. secondMerged \in Nat /\ e.w \in Nat
            BY <3>3, <4>1
          <6> QED BY <1>3, <4>3, <6>1, <6>2
        <5> QED BY <4>2, <5>1
      <4>5. CASE q # r
        <5>1. q \in needRecomputing /\ q \in Roots \ C
          BY <1>0, <1>2, <1>4, <2>2, <4>5 DEF ClustersAccounted
        <5>2. \A e \in AllEdges : External(e) /\ Incident(e, q) => secondMerged < e.w
          BY <1>0, <2>2, <3>2, <5>1 DEF MergedOK
        <5> QED BY <1>7, <4>2, <5>1, <5>2
      <4> QED BY <4>4, <4>5
    <3> QED BY <3>4, <3>5
  <2>3. ASSUME NEW x \in Weight, opened'[x] # {}, secondMerged' < WeightDummy
        PROVE  secondMerged' <= x
    <3>1. opened[x] # {}
      BY <1>12, <2>3
    <3>2. w <= x
      BY <1>0, <1>2, <3>1 DEF OpenedOK
    <3>3. CASE firstMerged # None /\ secondMerged = WeightDummy
      BY <1>2, <3>2, <3>3
    <3>4. CASE ~ (firstMerged # None /\ secondMerged = WeightDummy)
      BY <1>0, <1>2, <2>3, <3>1, <3>4 DEF MergedOK
    <3> QED BY <3>3, <3>4
  <2> QED BY <1>7, <2>1, <2>2, <2>3 DEF MergedOK
<1> QED BY <1>5, <1>9, <1>10, <1>11, <1>13, <1>14, <1>15 DEF IInv

LEMMA AllMergedKeeps ==
    ASSUME IInv, AllMerged
    PROVE  IInv'
<1> USE DEF AllMerged
<1>0. /\ TypeOK /\ PartitionOK /\ AdjOK /\ WeightsCurrent /\ ClustersAccounted
      /\ PhaseOK /\ ClosedSetsKnown /\ OpenedOK /\ MergedOK /\ pc = "merge"
  BY DEF IInv
<1>1. /\ PartitionOK' /\ AdjOK' /\ Roots' = Roots /\ AllEdges' = AllEdges
      /\ \A e : External(e)' <=> External(e)
      /\ \A e, q : Incident(e, q)' <=> Incident(e, q)
      /\ \A q, x : LeavingWeight(q, x)' <=> LeavingWeight(q, x)
      /\ \A S, x : NoLeaving(S, x)' <=> NoLeaving(S, x)
  BY <1>0, SamePartition
<1>2. \A w \in Weight : opened[w] = {}
  BY <1>0 DEF OpenedOK
<1>3. TypeOK'
  BY <1>0 DEF TypeOK
<1>4. WeightsCurrent' /\ ClustersAccounted'
  BY <1>0, <1>1 DEF WeightsCurrent, ClustersAccounted
<1>5. PhaseOK' /\ OpenedOK'
  BY <1>2 DEF PhaseOK, OpenedOK
<1>6. ClosedSetsKnown'
  BY <1>0, <1>1 DEF ClosedSetsKnown
<1>7. MergedOK'
  BY <1>0, <1>1, <1>2 DEF MergedOK
<1> QED BY <1>1, <1>3, <1>4, <1>5, <1>6, <1>7 DEF IInv

LEMMA MergeChainKeeps ==
    ASSUME IInv, MergeChain
    PROVE  IInv'
<1>0. /\ TypeOK /\ PartitionOK /\ AdjOK /\ WeightsCurrent /\ ClustersAccounted
      /\ PhaseOK /\ ClosedSetsKnown /\ OpenedOK /\ MergedOK
      /\ pc = "chain" /\ pc' = pc /\ edges' = edges /\ opened' = opened
      /\ needReconnecting' = needReconnecting /\ forest' = forest
      /\ secondMerged' = secondMerged
      /\ needReconnecting = {} /\ \A w \in Weight : opened[w] = {}
  BY DEF IInv, MergeChain, PhaseOK
<1> DEFINE Turn(w, r) ==
         /\ firstMerged # None
         /\ LeastWeight(w)
         /\ w <= secondMerged
         /\ Merge(weightVertices[w] \cup {firstMerged}, w, r)
         /\ needRecomputing' = (needRecomputing \ {firstMerged}) \cup {r}
         /\ firstMerged' = r
<1>1. PICK w \in Weight : \E r \in Vertex : Turn(w, r)
  BY DEF MergeChain, Chain, Requeue
<1>2. PICK r \in Vertex : Turn(w, r)
  BY <1>1
<1> DEFINE C == weightVertices[w] \cup {firstMerged}
<1>3. /\ firstMerged \in needRecomputing /\ w \in Nat /\ w < WeightDummy
      /\ \A q \in needRecomputing : q = firstMerged \/
           (secondMerged < WeightDummy /\
            \A e \in AllEdges : External(e) /\ Incident(e, q) => secondMerged < e.w)
  BY <1>0, <1>2, Ranges DEF MergedOK
<1>4. ASSUME NEW q \in needRecomputing, q # firstMerged,
             NEW e \in AllEdges, External(e), Incident(e, q)
      PROVE  w < e.w
  <2>1. e.w \in Nat /\ secondMerged \in Nat
    BY <1>0, EdgeFields, Ranges DEF AllEdges, TypeOK, Party
  <2>2. secondMerged < e.w /\ w <= secondMerged
    BY <1>2, <1>3, <1>4
  <2> QED BY <1>3, <2>1, <2>2
<1>5. NoLeaving(C, w)
  BY <1>0, <1>2, <1>4, LeastWeightClosed
<1>6. /\ C \in SUBSET Roots /\ r \in C
      /\ C \subseteq weightVertices[w] \cup needRecomputing
      /\ C \cap needRecomputing = {firstMerged}
  <2>1. r \in C
    BY <1>2 DEF Merge, MergeRoot
  <2> QED BY <1>0, <1>3, <2>1 DEF WeightsCurrent, ClustersAccounted
<1>7. Merge(C, w, r)
  BY <1>2
<1> HIDE DEF C
<1>8. /\ PartitionOK' /\ AdjOK' /\ WeightsCurrent'
      /\ par' \in [Vertex -> Vertex]
      /\ component' \in [Vertex -> SUBSET Vertex]
      /\ adj' \in [Party -> [Vertex -> SUBSET Edge]]
      /\ weightVertices' \in [Weight -> SUBSET Vertex]
      /\ subgraphs' \in Seq([comp : SUBSET Vertex, weight : Weight,
           entries : SUBSET [ends : SUBSET Vertex, party : Party, edge : Edge]])
      /\ \A x \in Weight : weightVertices'[x] = weightVertices[x] \ C
      /\ \A x \in Weight : \A S \in SUBSET (Roots \ C) :
           NoLeaving(S, x)' <=> NoLeaving(S, x)
  BY <1>0, <1>5, <1>6, <1>7, MergeKeeps
<1>9. Roots' = (Roots \ C) \cup {r}
  BY <1>0, <1>6, <1>7, MergeRelabels
<1>10. /\ AllEdges' = AllEdges
       /\ \A q \in Roots \ C : \A e \in AllEdges :
            External(e)' /\ Incident(e, q)' <=> External(e) /\ Incident(e, q)
  BY <1>0, <1>6, <1>7, MergeElsewhere
<1>11. TypeOK'
  <2>1. /\ edges' \in [Party -> SUBSET Edge]
        /\ needRecomputing' \subseteq Vertex
        /\ needReconnecting' \subseteq Weight
        /\ opened' \in [Weight -> SUBSET SUBSET Vertex]
        /\ firstMerged' \in Vertex \cup {None}
        /\ secondMerged' \in Weight \cup {WeightDummy}
        /\ forest' \subseteq [party : Party, edge : Edge]
        /\ pc' \in {"main", "reconnect", "merge", "chain", "select", "done"}
    BY <1>0, <1>2 DEF TypeOK
  <2> QED BY <1>8, <2>1 DEF TypeOK
<1>12. ASSUME NEW q \in needRecomputing', q # r
       PROVE  q \in needRecomputing /\ q # firstMerged /\ q \in Roots \ C
  <2>1. q \in needRecomputing /\ q # firstMerged
    BY <1>2, <1>12
  <2> QED BY <1>0, <1>6, <2>1 DEF ClustersAccounted
<1>13. ClustersAccounted'
  <2>1. needRecomputing' \subseteq Roots'
    BY <1>9, <1>12
  <2>2. ASSUME NEW q \in Roots'
        PROVE  \/ q \in needRecomputing'
               \/ \E x \in Weight : q \in weightVertices'[x]
               \/ \A e \in AllEdges : External(e)' => ~ Incident(e, q)'
    <3>1. CASE q = r
      BY <1>2, <3>1
    <3>2. CASE q # r
      <4>1. q \in Roots \ C
        BY <1>9, <3>2
      <4>2. CASE q \in needRecomputing
        BY <1>2, <1>6, <4>1, <4>2
      <4>3. CASE \E x \in Weight : q \in weightVertices[x]
        BY <1>8, <4>1, <4>3
      <4>4. CASE \A e \in AllEdges : External(e) => ~ Incident(e, q)
        BY <1>10, <4>1, <4>4
      <4> QED BY <1>0, <4>1, <4>2, <4>3, <4>4 DEF ClustersAccounted
    <3> QED BY <3>1, <3>2
  <2>3. ASSUME NEW x \in Weight PROVE weightVertices'[x] \cap needRecomputing' = {}
    <3>1. weightVertices[x] \cap needRecomputing = {} /\ weightVertices'[x] = weightVertices[x] \ C
      BY <1>0, <1>8 DEF ClustersAccounted
    <3> QED BY <1>6, <1>12, <3>1
  <2> QED BY <1>10, <2>1, <2>2, <2>3 DEF ClustersAccounted
<1>14. PhaseOK' /\ OpenedOK'
  BY <1>0 DEF PhaseOK, OpenedOK
<1>15. ClosedSetsKnown'
  <2> SUFFICES ASSUME NEW x \in Weight, NEW S \in SUBSET weightVertices'[x],
                      S # {}, NoLeaving(S, x)'
               PROVE  \E D \in opened[x] : D \subseteq S
    BY <1>0 DEF ClosedSetsKnown
  <2>1. S \in SUBSET weightVertices[x] /\ S \in SUBSET (Roots \ C)
    BY <1>0, <1>8 DEF WeightsCurrent
  <2>2. NoLeaving(S, x)
    BY <1>8, <2>1
  <2> QED BY <1>0, <2>1, <2>2 DEF ClosedSetsKnown
<1>16. MergedOK'
  <2>1. firstMerged' = r /\ r \in needRecomputing' /\ r # None
    BY <1>2, Ranges
  <2>2. ASSUME NEW q \in needRecomputing', q # r
        PROVE  /\ secondMerged < WeightDummy
               /\ \A e \in AllEdges : External(e)' /\ Incident(e, q)' => secondMerged < e.w
    BY <1>3, <1>10, <1>12, <2>2
  <2> QED BY <1>0, <1>10, <2>1, <2>2 DEF MergedOK
<1> QED BY <1>8, <1>11, <1>13, <1>14, <1>15, <1>16 DEF IInv

\* The steps that only move on: ChainDone, phase 2 and stuttering.
LEMMA ChainDoneKeeps ==
    ASSUME IInv, ChainDone
    PROVE  IInv'
<1> USE DEF ChainDone
<1>0. /\ TypeOK /\ PartitionOK /\ AdjOK /\ WeightsCurrent /\ ClustersAccounted
      /\ PhaseOK /\ ClosedSetsKnown /\ OpenedOK /\ MergedOK /\ pc = "chain"
  BY DEF IInv
<1>1. /\ PartitionOK' /\ AdjOK' /\ Roots' = Roots /\ AllEdges' = AllEdges
      /\ \A e : External(e)' <=> External(e)
      /\ \A e, q : Incident(e, q)' <=> Incident(e, q)
      /\ \A q, x : LeavingWeight(q, x)' <=> LeavingWeight(q, x)
      /\ \A S, x : NoLeaving(S, x)' <=> NoLeaving(S, x)
  BY <1>0, SamePartition
<1>2. TypeOK'
  BY <1>0 DEF TypeOK
<1>3. WeightsCurrent' /\ ClustersAccounted'
  BY <1>0, <1>1 DEF WeightsCurrent, ClustersAccounted
<1>4. PhaseOK' /\ OpenedOK' /\ MergedOK'
  BY <1>0 DEF PhaseOK, OpenedOK, MergedOK
<1>5. ClosedSetsKnown'
  BY <1>0, <1>1 DEF ClosedSetsKnown
<1> QED BY <1>1, <1>2, <1>3, <1>4, <1>5 DEF IInv

LEMMA PhaseTwoKeeps ==
    ASSUME IInv, FindSubgraphMSFs \/ ReadSubgraph \/ Finish
    PROVE  IInv'
<1>0. /\ TypeOK /\ PartitionOK /\ AdjOK /\ WeightsCurrent /\ ClustersAccounted
      /\ PhaseOK /\ ClosedSetsKnown /\ OpenedOK
      /\ needRecomputing = {} /\ pc \in {"main", "select"}
      /\ \A w \in Weight : opened[w] = {}
  BY DEF IInv, FindSubgraphMSFs, ReadSubgraph, Finish, PhaseOK
<1>1. /\ UNCHANGED <<edges, par, component, adj, needRecomputing, weightVertices,
                     needReconnecting, opened, firstMerged, secondMerged>>
      /\ pc' \in {"select", "done"}
  BY <1>0 DEF FindSubgraphMSFs, ReadSubgraph, Finish
<1>2. /\ PartitionOK' /\ AdjOK' /\ Roots' = Roots /\ AllEdges' = AllEdges
      /\ \A e : External(e)' <=> External(e)
      /\ \A e, q : Incident(e, q)' <=> Incident(e, q)
      /\ \A q, x : LeavingWeight(q, x)' <=> LeavingWeight(q, x)
      /\ \A S, x : NoLeaving(S, x)' <=> NoLeaving(S, x)
  BY <1>0, <1>1, SamePartition
<1>3. /\ subgraphs' \in Seq([comp : SUBSET Vertex, weight : Weight,
           entries : SUBSET [ends : SUBSET Vertex, party : Party, edge : Edge]])
      /\ forest' \subseteq [party : Party, edge : Edge]
  <2>1. CASE FindSubgraphMSFs \/ Finish
    BY <1>0, <2>1 DEF FindSubgraphMSFs, Finish, TypeOK
  <2>2. CASE ReadSubgraph
    <3> DEFINE Item == [comp : SUBSET Vertex, weight : Weight,
           entries : SUBSET [ends : SUBSET Vertex, party : Party, edge : Edge]]
    <3>1. subgraphs \in Seq(Item) /\ subgraphs # << >> /\ subgraphs' = Tail(subgraphs)
      BY <1>0, <2>2 DEF TypeOK, ReadSubgraph
    <3>2. Head(subgraphs) \in Item /\ subgraphs' \in Seq(Item)
      <4> HIDE DEF Item
      <4> QED BY <3>1
    <3>3. PICK T \in SUBSET Head(subgraphs).entries :
             forest' = forest \cup {[party |-> t.party, edge |-> t.edge] : t \in T}
      BY <2>2 DEF ReadSubgraph, SpanningTrees
    <3>4. \A t \in T : t.party \in Party /\ t.edge \in Edge
      BY <3>2
    <3>5. {[party |-> t.party, edge |-> t.edge] : t \in T} \subseteq [party : Party, edge : Edge]
      BY <3>4
    <3> QED BY <1>0, <3>2, <3>3, <3>5 DEF TypeOK
  <2> QED BY <2>1, <2>2
<1>4. TypeOK'
  BY <1>0, <1>1, <1>3 DEF TypeOK
<1>5. WeightsCurrent' /\ ClustersAccounted'
  BY <1>0, <1>1, <1>2 DEF WeightsCurrent, ClustersAccounted
<1>6. \A w \in Weight : weightVertices[w] = {}
  <2>1. CASE pc = "select"
    BY <1>0, <2>1 DEF PhaseOK
  <2>2. CASE pc = "main"
    <3> SUFFICES ASSUME NEW x \in Weight, weightVertices[x] # {} PROVE FALSE
      OBVIOUS
    <3>1. PICK w \in Weight : LeastWeight(w)
      BY LeastWeightExists
    <3>2. NoLeaving(weightVertices[w] \cup {}, w)
      BY <1>0, <3>1, LeastWeightClosed
    <3>3. weightVertices[w] \cup {} = weightVertices[w] /\ weightVertices[w] # {}
      BY <3>1 DEF LeastWeight, IsLeast
    <3> QED BY <1>0, <2>2, <3>2, <3>3 DEF ClosedSetsKnown
  <2> QED BY <1>0, <2>1, <2>2
<1>7. PhaseOK' /\ OpenedOK' /\ MergedOK'
  BY <1>0, <1>1, <1>6 DEF PhaseOK, OpenedOK, MergedOK
<1>8. ClosedSetsKnown'
  BY <1>1, <1>6 DEF ClosedSetsKnown
<1> QED BY <1>2, <1>4, <1>5, <1>7, <1>8 DEF IInv

LEMMA StutterKeeps ==
    ASSUME IInv, UNCHANGED vars
    PROVE  IInv'
<1> USE DEF vars
<1>0. /\ TypeOK /\ PartitionOK /\ AdjOK /\ WeightsCurrent /\ ClustersAccounted
      /\ PhaseOK /\ ClosedSetsKnown /\ OpenedOK /\ MergedOK
  BY DEF IInv
<1>1. /\ PartitionOK' /\ AdjOK' /\ Roots' = Roots /\ AllEdges' = AllEdges
      /\ \A e : External(e)' <=> External(e)
      /\ \A e, q : Incident(e, q)' <=> Incident(e, q)
      /\ \A q, x : LeavingWeight(q, x)' <=> LeavingWeight(q, x)
      /\ \A S, x : NoLeaving(S, x)' <=> NoLeaving(S, x)
  BY <1>0, SamePartition
<1>2. TypeOK'
  BY <1>0 DEF TypeOK
<1>3. WeightsCurrent' /\ ClustersAccounted'
  BY <1>0, <1>1 DEF WeightsCurrent, ClustersAccounted
<1>4. PhaseOK'
  BY <1>0 DEF PhaseOK
<1>5. ClosedSetsKnown'
  BY <1>0, <1>1 DEF ClosedSetsKnown
<1>6. OpenedOK'
  BY <1>0, <1>1 DEF OpenedOK
<1>7. MergedOK'
  BY <1>0, <1>1 DEF MergedOK
<1> QED BY <1>1, <1>2, <1>3, <1>4, <1>5, <1>6, <1>7 DEF IInv

(***************************************************************************)
(* The theorems.                                                           *)
(***************************************************************************)

\* IInv holds in every reachable state.
THEOREM Invariance == Spec => []IInv
<1>1. Init => IInv
  BY InitKeeps
<1>2. IInv /\ [Next]_vars => IInv'
  <2> SUFFICES ASSUME IInv, [Next]_vars PROVE IInv'
    OBVIOUS
  <2>1. CASE RecomputeWeights
    BY <2>1, RecomputeKeeps
  <2>2. CASE Reconnect
    BY <2>2, ReconnectKeeps
  <2>3. CASE MergeIsolated
    BY <2>3, MergeIsolatedKeeps
  <2>4. CASE AllMerged
    BY <2>4, AllMergedKeeps
  <2>5. CASE MergeChain
    BY <2>5, MergeChainKeeps
  <2>6. CASE ChainDone
    BY <2>6, ChainDoneKeeps
  <2>7. CASE FindSubgraphMSFs \/ ReadSubgraph \/ Finish
    BY <2>7, PhaseTwoKeeps
  <2>8. CASE Terminated \/ UNCHANGED vars
    BY <2>8, StutterKeeps DEF Terminated
  <2> QED BY <2>1, <2>2, <2>3, <2>4, <2>5, <2>6, <2>7, <2>8 DEF Next
<1> QED BY <1>1, <1>2, PTL DEF Spec

\* The globals of msf.cpp always hold the kinds of values they are declared
\* with: no root outside 0..n-1, no weight_dummy filed, no edge with an end
\* that is not a cluster.
THEOREM TypeCorrect == Spec => []TypeOK
<1>1. IInv => TypeOK
  BY DEF IInv
<1> QED BY <1>1, Invariance, PTL

\* par and component always describe one partition of the vertices.
THEOREM PartitionCorrect == Spec => []PartitionOK
<1>1. IInv => PartitionOK
  BY DEF IInv
<1> QED BY <1>1, Invariance, PTL

\* The front of every root's adjacency set is an edge that leaves the cluster.
THEOREM AdjCorrect == Spec => []AdjOK
<1>1. IInv => AdjOK
  BY DEF IInv
<1> QED BY <1>1, Invariance, PTL

\* The weight a cluster is filed under is the least one that leaves it, however
\* many merges happened since it was opened.
THEOREM WeightsNeverStale == Spec => []WeightsCurrent
<1>1. IInv => WeightsCurrent
  BY DEF IInv
<1> QED BY <1>1, Invariance, PTL

\* No cluster is lost between the work lists.
THEOREM NothingLost == Spec => []ClustersAccounted
<1>1. IInv => ClustersAccounted
  BY DEF IInv
<1> QED BY <1>1, Invariance, PTL

\* The components one circuit run opened stay right while the others of the
\* batch are merged.
THEOREM OpenedNeverStale == Spec => []OpenedStillIsolated
<1>1. IInv => OpenedStillIsolated
  <2> SUFFICES ASSUME IInv, NEW w \in needReconnecting, NEW C \in opened[w]
               PROVE  /\ C \subseteq weightVertices[w]
                      /\ \A e \in AllEdges : e.w <= w => ~ Leaves(e, C)
    BY DEF OpenedStillIsolated
  <2>1. w \in Weight
    BY DEF IInv, TypeOK
  <2> QED BY <2>1 DEF IInv, OpenedOK, NoLeaving
<1> QED BY <1>1, Invariance, PTL

\* Every pass through reconnect() merges something, and phase 2 starts only
\* when no cluster is filed any more.
THEOREM Progress == Spec => []EveryRoundMerges
<1>1. IInv => EveryRoundMerges
  BY DEF IInv, EveryRoundMerges, MergedOK, PhaseOK
<1> QED BY <1>1, Invariance, PTL

------------------------------------------------------------------------------
(***************************************************************************)
(* Machine-checked proofs that phase 1 gives phase 2 what it needs, and    *)
(* that the trees drawn from it form a minimum spanning forest of the      *)
(* union of both inputs, for every number of vertices, every range of      *)
(* weights, every pair of inputs and every choice of trees.                *)
(***************************************************************************)

(***************************************************************************)
(* Trees.                                                                  *)
(***************************************************************************)

\* The edges E, with ends g, join the clusters of C: none is without an edge
\* to the rest.
Joins(C, E, g) ==
    /\ \A e \in E : \E a, b \in C : g[e] = {a, b}
    /\ \A Q \in (SUBSET C) \ {{}, C} : \E e \in E : Split(g[e], Q)

\* Two clusters of C become one: x is seen as y.
Seen(ends, x, y) == IF x \in ends THEN (ends \ {x}) \cup {y} ELSE ends

\* Contracting an edge leaves the others joining the clusters that are left.
LEMMA ContractJoins ==
    ASSUME NEW C, NEW E, NEW g, Joins(C, E, g),
           NEW e \in E, NEW x \in C, NEW y \in C, x # y, g[e] = {x, y}
    PROVE  Joins(C \ {x}, E \ {e}, [d \in E \ {e} |-> Seen(g[d], x, y)])
<1> DEFINE h == [d \in E \ {e} |-> Seen(g[d], x, y)]
<1>1. \A d \in E \ {e} : h[d] = Seen(g[d], x, y)
  OBVIOUS
<1> HIDE DEF h
<1>2. ASSUME NEW d \in E \ {e}
      PROVE  \E a, b \in C \ {x} : h[d] = {a, b}
  <2>1. PICK a, b \in C : g[d] = {a, b}
    BY DEF Joins
  <2> DEFINE as(z) == IF z = x THEN y ELSE z
  <2>2. h[d] = {as(a), as(b)} /\ as(a) \in C \ {x} /\ as(b) \in C \ {x}
    BY <1>1, <2>1 DEF Seen
  <2> QED BY <2>2
<1>3. ASSUME NEW Q \in (SUBSET (C \ {x})) \ {{}, C \ {x}}
      PROVE  \E d \in E \ {e} : Split(h[d], Q)
  <2> DEFINE R == IF y \in Q THEN Q \cup {x} ELSE Q
  <2>1. R \in (SUBSET C) \ {{}, C}
    OBVIOUS
  <2>2. PICK d \in E : Split(g[d], R)
    BY <2>1 DEF Joins
  <2>3. d # e
    BY <2>2 DEF Split
  <2>4. Split(h[d], Q)
    <3> DEFINE as(z) == IF z = x THEN y ELSE z
    <3>1. PICK a, b \in C : g[d] = {a, b}
      BY DEF Joins
    <3>2. h[d] = {as(a), as(b)}
      BY <1>1, <2>3, <3>1 DEF Seen
    <3>3. \A z \in C : as(z) \in Q <=> z \in R
      OBVIOUS
    <3>4. (a \in R) # (b \in R)
      BY <2>2, <3>1 DEF Split
    <3> QED BY <3>2, <3>3, <3>4 DEF Split
  <2> QED BY <2>3, <2>4
<1> QED BY <1>2, <1>3 DEF Joins, h

\* To join n clusters takes n - 1 edges.
LEMMA EdgesNeeded ==
    ASSUME NEW C0, IsFiniteSet(C0), C0 # {}, NEW E0, IsFiniteSet(E0),
           NEW g0, Joins(C0, E0, g0)
    PROVE  Cardinality(C0) <= Cardinality(E0) + 1
<1> DEFINE Counter(n) ==
        \E C \in SUBSET C0 : \E E \in SUBSET E0 : \E g :
            /\ C # {} /\ Cardinality(C) = n /\ Joins(C, E, g)
            /\ ~ (n <= Cardinality(E) + 1)
<1> DEFINE Bad == {n \in Nat : Counter(n)}
<1>1. ASSUME Bad # {} PROVE FALSE
  <2>1. PICK n \in Bad : \A m \in Bad : n <= m
    <3> HIDE DEF Counter
    <3>1. Bad \subseteq Nat
      OBVIOUS
    <3> HIDE DEF Bad
    <3> QED BY <1>1, <3>1, LeastNat
  <2>2. n \in Nat /\ Counter(n)
    OBVIOUS
  <2>3. PICK C \in SUBSET C0 : \E E \in SUBSET E0 : \E g :
            /\ C # {} /\ Cardinality(C) = n /\ Joins(C, E, g)
            /\ ~ (n <= Cardinality(E) + 1)
    BY <2>2
  <2>4. PICK E \in SUBSET E0 : \E g :
            /\ C # {} /\ Cardinality(C) = n /\ Joins(C, E, g)
            /\ ~ (n <= Cardinality(E) + 1)
    BY <2>3
  <2>5. PICK g : /\ C # {} /\ Cardinality(C) = n /\ Joins(C, E, g)
                 /\ ~ (n <= Cardinality(E) + 1)
    BY <2>4
  <2>6. IsFiniteSet(C) /\ IsFiniteSet(E) /\ Cardinality(E) \in Nat
    BY FS_Subset, FS_CardinalityType
  <2>7. PICK x \in C : TRUE
    BY <2>5
  <2>8. C # {x}
    BY <2>5, <2>6, FS_Singleton
  <2>9. PICK e \in E : Split(g[e], {x})
    BY <2>5, <2>8 DEF Joins
  <2>10. PICK y \in C : x # y /\ g[e] = {x, y}
    BY <2>5, <2>9 DEF Joins, Split
  <2>11. Joins(C \ {x}, E \ {e}, [d \in E \ {e} |-> Seen(g[d], x, y)])
    BY <2>5, <2>10, ContractJoins
  <2>12. Cardinality(C \ {x}) = n - 1 /\ Cardinality(E \ {e}) = Cardinality(E) - 1
    BY <2>5, <2>6, FS_RemoveElement
  <2>13. n - 1 \in Nat
    BY <2>2, <2>5, <2>6
  <2>14. ~ (n - 1 <= Cardinality(E \ {e}) + 1)
    BY <2>2, <2>5, <2>6, <2>12
  <2>15. C \ {x} # {} /\ C \ {x} \in SUBSET C0 /\ E \ {e} \in SUBSET E0
    BY <2>8
  <2>16. Counter(n - 1)
    BY <2>11, <2>12, <2>14, <2>15
  <2> HIDE DEF Counter
  <2>17. n - 1 \in Bad
    BY <2>13, <2>16
  <2>18. n <= n - 1
    BY <2>1, <2>17
  <2> QED BY <2>2, <2>18
<1>2. Cardinality(C0) \in Nat
  BY FS_CardinalityType
<1>3. ASSUME ~ (Cardinality(C0) <= Cardinality(E0) + 1) PROVE FALSE
  <2>1. C0 \in SUBSET C0 /\ E0 \in SUBSET E0
    OBVIOUS
  <2>2. Counter(Cardinality(C0))
    BY <1>3, <2>1
  <2> HIDE DEF Counter
  <2>3. Cardinality(C0) \in Bad
    BY <1>2, <2>2
  <2> QED BY <1>1, <2>3
<1> QED BY <1>3

\* Take an edge out of a tree, and its clusters fall into two parts that no
\* other edge of the tree joins.
LEMMA TreeCut ==
    ASSUME NEW C, IsFiniteSet(C), NEW T, IsFiniteSet(T), NEW g, Joins(C, T, g),
           Cardinality(T) = Cardinality(C) - 1, NEW t \in T
    PROVE  \E Q \in SUBSET C : \A x \in T : Split(g[x], Q) <=> x = t
<1>1. Cardinality(C) \in Nat /\ Cardinality(T) \in Nat
  BY FS_CardinalityType
<1>2. IsFiniteSet(T \ {t}) /\ Cardinality(T \ {t}) = Cardinality(T) - 1
  BY FS_RemoveElement
<1>3. C # {}
  BY DEF Joins
<1>4. ~ Joins(C, T \ {t}, g)
  <2> SUFFICES ASSUME Joins(C, T \ {t}, g) PROVE FALSE
    OBVIOUS
  <2>1. Cardinality(C) <= Cardinality(T \ {t}) + 1
    BY <1>2, <1>3, EdgesNeeded
  <2> QED BY <1>1, <1>2, <2>1
<1>5. PICK Q \in (SUBSET C) \ {{}, C} : \A x \in T \ {t} : ~ Split(g[x], Q)
  BY <1>4 DEF Joins
<1>6. PICK x \in T : Split(g[x], Q)
  BY DEF Joins
<1> QED BY <1>5, <1>6

(***************************************************************************)
(* Cuts.                                                                   *)
(***************************************************************************)

\* The edges of both parties are edges.
LEMMA AllEdgesAreEdges ==
    ASSUME TypeOK
    PROVE  \A e \in AllEdges : /\ e \in Edge /\ e.u \in Vertex /\ e.v \in Vertex
                               /\ e.w \in Weight /\ e.w \in Nat
<1>1. AllEdges \subseteq Edge
  BY DEF AllEdges, TypeOK, Party
<1> QED BY <1>1, EdgeFields

\* What crosses one of two cuts, but not both.
Differ(S, U) == (S \ U) \cup (U \ S)

LEMMA CrossDiffer ==
    ASSUME NEW e, NEW S, NEW U
    PROVE  Cross(e, Differ(S, U)) <=>
             (Cross(e, S) /\ ~ Cross(e, U)) \/ (~ Cross(e, S) /\ Cross(e, U))
BY DEF Cross, Differ

\* A lightest edge across a cut that no edge of F crosses can be added to F:
\* where the new edge crosses the cut of an older one, the two cuts together
\* are a cut for that one, because the new edge is not the lighter one.
LEMMA AddNeeded ==
    ASSUME TypeOK, NEW F \in SUBSET AllEdges, EachNeeded(F), NEW t \in AllEdges,
           NEW U \in SUBSET Vertex, \A f \in F : ~ Cross(f, U), Cross(t, U),
           \A g \in AllEdges : Cross(g, U) => t.w <= g.w
    PROVE  EachNeeded(F \cup {t})
<1>1. ASSUME NEW f \in F
      PROVE  \E S \in SUBSET Vertex : Needed(F \cup {t}, f, S)
  <2>1. PICK S \in SUBSET Vertex : Needed(F, f, S)
    BY DEF EachNeeded
  <2>2. t \notin F
    OBVIOUS
  <2>3. CASE ~ Cross(t, S)
    BY <2>1, <2>2, <2>3 DEF Needed
  <2>4. CASE Cross(t, S)
    <3> DEFINE D == Differ(S, U)
    <3>1. D \in SUBSET Vertex
      BY DEF Differ
    <3>2. \A g : Cross(g, D) <=>
             (Cross(g, S) /\ ~ Cross(g, U)) \/ (~ Cross(g, S) /\ Cross(g, U))
      BY CrossDiffer
    <3> HIDE DEF D
    <3>3. \A g \in F \cup {t} : Cross(g, D) <=> g = f
      BY <2>1, <2>2, <2>4, <3>2 DEF Needed
    <3>4. ASSUME NEW g \in AllEdges, Cross(g, D)
          PROVE  f.w <= g.w
      <4>1. f.w \in Nat /\ g.w \in Nat /\ t.w \in Nat
        BY AllEdgesAreEdges
      <4>2. f.w <= t.w
        BY <2>1, <2>4 DEF Needed
      <4>3. f.w <= g.w \/ t.w <= g.w
        BY <2>1, <3>2, <3>4 DEF Needed
      <4> QED BY <4>1, <4>2, <4>3
    <3> QED BY <3>1, <3>3, <3>4 DEF Needed
  <2> QED BY <2>3, <2>4
<1>2. Needed(F \cup {t}, t, U)
  BY DEF Needed
<1> QED BY <1>1, <1>2 DEF EachNeeded

\* So can a set of edges each of which has a cut of its own.
LEMMA AddAllNeeded ==
    ASSUME TypeOK, NEW F \in SUBSET AllEdges, EachNeeded(F),
           NEW X \in SUBSET AllEdges, IsFiniteSet(X),
           \A t \in X : \E U \in SUBSET Vertex :
               /\ \A f \in F : ~ Cross(f, U)
               /\ Needed(X, t, U)
    PROVE  EachNeeded(F \cup X)
<1> DEFINE Fails(n) == \E Y \in SUBSET X : Cardinality(Y) = n /\ ~ EachNeeded(F \cup Y)
<1> DEFINE Bad == {n \in Nat : Fails(n)}
<1>1. ASSUME Bad # {} PROVE FALSE
  <2>1. PICK n \in Bad : \A m \in Bad : n <= m
    <3>1. Bad \subseteq Nat
      OBVIOUS
    <3> HIDE DEF Bad
    <3> QED BY <1>1, <3>1, LeastNat
  <2>2. PICK Y \in SUBSET X : Cardinality(Y) = n /\ ~ EachNeeded(F \cup Y)
    OBVIOUS
  <2>3. Y # {}
    <3>1. F \cup {} = F
      OBVIOUS
    <3> QED BY <2>2, <3>1
  <2>4. PICK t \in Y : TRUE
    BY <2>3
  <2>5. IsFiniteSet(Y) /\ Cardinality(Y) \in Nat /\ Cardinality(Y \ {t}) = Cardinality(Y) - 1
        /\ IsFiniteSet(Y \ {t})
    BY FS_Subset, FS_CardinalityType, FS_RemoveElement
  <2>6. n \in Nat /\ n - 1 \in Nat
    <3>1. Cardinality(Y \ {t}) \in Nat
      BY <2>5, FS_CardinalityType
    <3> QED BY <2>2, <2>5, <3>1
  <2>7. EachNeeded(F \cup (Y \ {t}))
    <3> SUFFICES ASSUME ~ EachNeeded(F \cup (Y \ {t})) PROVE FALSE
      OBVIOUS
    <3>1. Fails(n - 1)
      BY <2>2, <2>5
    <3> HIDE DEF Fails
    <3>2. n - 1 \in Bad
      BY <2>6, <3>1
    <3>3. n <= n - 1
      BY <2>1, <3>2
    <3> QED BY <2>6, <3>3
  <2>8. PICK U \in SUBSET Vertex : (\A f \in F : ~ Cross(f, U)) /\ Needed(X, t, U)
    OBVIOUS
  <2>9. /\ F \cup (Y \ {t}) \in SUBSET AllEdges /\ t \in AllEdges
        /\ \A f \in F \cup (Y \ {t}) : ~ Cross(f, U)
        /\ Cross(t, U)
        /\ \A g \in AllEdges : Cross(g, U) => t.w <= g.w
    BY <2>8 DEF Needed
  <2>10. EachNeeded((F \cup (Y \ {t})) \cup {t})
    BY <2>7, <2>9, AddNeeded
  <2>11. (F \cup (Y \ {t})) \cup {t} = F \cup Y
    OBVIOUS
  <2> QED BY <2>2, <2>10, <2>11
<1>2. Cardinality(X) \in Nat
  BY FS_CardinalityType
<1>3. ASSUME ~ EachNeeded(F \cup X) PROVE FALSE
  <2>1. Fails(Cardinality(X))
    BY <1>3
  <2> HIDE DEF Fails
  <2>2. Cardinality(X) \in Bad
    BY <1>2, <2>1
  <2> QED BY <1>1, <2>2
<1> QED BY <1>3

(***************************************************************************)
(* What a merge hands to phase 2.                                          *)
(***************************************************************************)

Entries(C, w) == SubgraphEdges("SERVER", C, w) \cup SubgraphEdges("CLIENT", C, w)

\* A set of clusters, one of them filed under w, that no edge up to w leaves
\* has two members.
LEMMA TwoAtLeast ==
    ASSUME TypeOK, PartitionOK, NEW C \in SUBSET Roots, NEW w \in Weight,
           NEW q \in C, LeavingWeight(q, w), NoLeaving(C, w)
    PROVE  IsFiniteSet(C) /\ Cardinality(C) >= 2
<1>1. PICK e \in AllEdges : External(e) /\ Incident(e, q) /\ e.w = w
  BY DEF LeavingWeight
<1>2. PICK y \in C : y # q
  BY <1>1, Ranges DEF NoLeaving, Leaves, External, Incident
<1>3. IsFiniteSet(C)
  BY Ranges, FS_Subset DEF Roots
<1>4. Cardinality({q, y}) = 2
  <2>1. {q, y} = {q} \cup {y} /\ y \notin {q}
    BY <1>2
  <2>2. IsFiniteSet({q}) /\ Cardinality({q}) = 1
    BY FS_Singleton
  <2>3. Cardinality({q} \cup {y}) = Cardinality({q}) + 1
    BY <2>1, <2>2, FS_AddElement
  <2> QED BY <2>1, <2>2, <2>3
<1>5. Cardinality({q, y}) <= Cardinality(C) /\ Cardinality(C) \in Nat
  BY <1>2, <1>3, FS_Subset, FS_CardinalityType
<1> QED BY <1>3, <1>4, <1>5

\* Clusters that can be merged: two or more, which no edge up to w leaves,
\* with no edge lighter than w between them, and none without an edge up to w
\* to the rest.
Mergeable(C, w) ==
    /\ C \in SUBSET Roots /\ w \in Weight
    /\ Cardinality(C) >= 2
    /\ NoLeaving(C, w)
    /\ \A e \in AllEdges : External(e) /\ par[e.u] \in C /\ par[e.v] \in C => w <= e.w
    /\ \A Q \in (SUBSET C) \ {{}, C} : ~ NoLeaving(Q, w)

\* The entries of a merge are the edges of weight w between its clusters, each
\* with the party that has it.
LEMMA EntriesOfMerge ==
    ASSUME TypeOK, PartitionOK, AdjOK, NEW C, NEW w, Mergeable(C, w)
    PROVE  /\ \A x \in Entries(C, w) :
                /\ x.party \in Party /\ x.edge \in edges[x.party] /\ x.edge \in AllEdges
                /\ x.edge.w = w
                /\ par[x.edge.u] \in C /\ par[x.edge.v] \in C /\ par[x.edge.u] # par[x.edge.v]
                /\ x.ends = {par[x.edge.u], par[x.edge.v]}
           /\ \A p \in Party : \A e \in edges[p] :
                e.w <= w /\ par[e.u] \in C /\ External(e) =>
                    \E x \in Entries(C, w) : x.party = p /\ x.edge = e
<1>0. /\ C \in SUBSET Roots /\ w \in Weight /\ NoLeaving(C, w)
      /\ \A e \in AllEdges : External(e) /\ par[e.u] \in C /\ par[e.v] \in C => w <= e.w
  BY DEF Mergeable
<1>1. ASSUME NEW x \in Entries(C, w)
      PROVE  /\ x.party \in Party /\ x.edge \in edges[x.party] /\ x.edge \in AllEdges
             /\ x.edge.w = w
             /\ par[x.edge.u] \in C /\ par[x.edge.v] \in C /\ par[x.edge.u] # par[x.edge.v]
             /\ x.ends = {par[x.edge.u], par[x.edge.v]}
  <2>1. PICK p \in Party : x \in SubgraphEdges(p, C, w)
    BY DEF Entries, Party
  <2>2. PICK e \in edges[p] :
           /\ x = [ends |-> {par[e.u], par[e.v]}, party |-> p, edge |-> e]
           /\ par[e.u] \in C /\ par[e.v] \in C /\ par[e.u] # par[e.v]
           /\ e \in Edge /\ e.w <= w
    BY <1>0, <2>1, EntriesInside
  <2>3. x.party = p /\ x.edge = e /\ x.ends = {par[e.u], par[e.v]}
    BY <2>2
  <2>4. e \in AllEdges
    BY DEF AllEdges, Party
  <2>5. w <= e.w /\ w \in Nat /\ e.w \in Nat
    BY <1>0, <2>2, <2>4, Ranges, EdgeFields DEF External
  <2>6. e.w = w
    BY <2>2, <2>5
  <2> QED BY <2>2, <2>3, <2>4, <2>6
<1>2. ASSUME NEW p \in Party, NEW e \in edges[p], e.w <= w, par[e.u] \in C, External(e)
      PROVE  \E x \in Entries(C, w) : x.party = p /\ x.edge = e
  <2>1. e \in adj[p][par[e.u]]
    BY <1>0, <1>2 DEF AdjOK, Incident, Roots
  <2> DEFINE Entry(f) == [ends |-> {NewIndex(C, par[f.u]), NewIndex(C, par[f.v])},
                          party |-> p, edge |-> f]
             At(z) == {f \in adj[p][z] : f.w <= w /\ par[f.u] = z /\ par[f.u] # par[f.v]}
  <2>2. e \in At(par[e.u])
    BY <1>2, <2>1 DEF External
  <2>3. SubgraphEdges(p, C, w) = UNION {{Entry(f) : f \in At(z)} : z \in C}
    BY DEF SubgraphEdges
  <2>4. Entry(e).party = p /\ Entry(e).edge = e
    OBVIOUS
  <2> HIDE DEF Entry, At
  <2>5. Entry(e) \in SubgraphEdges(p, C, w)
    BY <1>2, <2>2, <2>3
  <2>6. Entry(e) \in Entries(C, w)
    BY <2>5 DEF Entries, Party
  <2> QED BY <2>4, <2>6
<1> QED BY <1>1, <1>2

\* The components a circuit run opened can be merged.
LEMMA OpenedMergeable ==
    ASSUME IInv, NEW w \in Weight, NEW C \in opened[w]
    PROVE  Mergeable(C, w)
<1>1. /\ TypeOK /\ PartitionOK /\ WeightsCurrent /\ OpenedOK
  BY DEF IInv
<1>2. /\ C \subseteq weightVertices[w] /\ C # {} /\ NoLeaving(C, w)
      /\ \A S \in SUBSET C : S # {} /\ NoLeaving(S, w) => S = C
  BY <1>1 DEF OpenedOK
<1>3. C \in SUBSET Roots /\ \A q \in C : LeavingWeight(q, w)
  BY <1>1, <1>2 DEF WeightsCurrent
<1>4. Cardinality(C) >= 2
  BY <1>1, <1>2, <1>3, TwoAtLeast
<1>5. \A e \in AllEdges : External(e) /\ par[e.u] \in C /\ par[e.v] \in C => w <= e.w
  BY <1>3 DEF LeavingWeight, Incident
<1> QED BY <1>2, <1>3, <1>4, <1>5 DEF Mergeable

\* So can the clusters the chain loop joins without a circuit.
LEMMA ChainMergeable ==
    ASSUME IInv, pc = "chain", NEW w \in Weight, Chain(w)
    PROVE  Mergeable(weightVertices[w] \cup {firstMerged}, w)
<1> DEFINE C == weightVertices[w] \cup {firstMerged}
<1>1. /\ TypeOK /\ PartitionOK /\ WeightsCurrent /\ ClustersAccounted
      /\ PhaseOK /\ ClosedSetsKnown /\ MergedOK /\ \A x \in Weight : opened[x] = {}
  BY DEF IInv, PhaseOK
<1>2. /\ firstMerged # None /\ LeastWeight(w) /\ w <= secondMerged
  BY DEF Chain
<1>3. /\ firstMerged \in needRecomputing /\ w \in Nat /\ w < WeightDummy
      /\ \A q \in needRecomputing : q = firstMerged \/
           (secondMerged < WeightDummy /\
            \A e \in AllEdges : External(e) /\ Incident(e, q) => secondMerged < e.w)
  BY <1>1, <1>2, Ranges DEF MergedOK
<1>4. ASSUME NEW q \in needRecomputing, q # firstMerged,
             NEW e \in AllEdges, External(e), Incident(e, q)
      PROVE  w < e.w
  <2>1. e.w \in Nat /\ secondMerged \in Nat
    BY <1>1, AllEdgesAreEdges, Ranges DEF TypeOK
  <2>2. secondMerged < e.w /\ w <= secondMerged
    BY <1>2, <1>3, <1>4
  <2> QED BY <1>3, <2>1, <2>2
<1>5. NoLeaving(C, w)
  BY <1>1, <1>2, <1>4, LeastWeightClosed
<1>6. C \in SUBSET Roots /\ weightVertices[w] # {}
  BY <1>1, <1>2, <1>3 DEF WeightsCurrent, ClustersAccounted, LeastWeight, IsLeast
<1>7. \A q \in weightVertices[w] : LeavingWeight(q, w)
  BY <1>1 DEF WeightsCurrent
<1> HIDE DEF C
<1>8. Cardinality(C) >= 2
  <2>1. PICK q \in weightVertices[w] : TRUE
    BY <1>6
  <2>2. q \in C
    BY DEF C
  <2> QED BY <1>1, <1>5, <1>6, <1>7, <2>2, TwoAtLeast
<1>9. \A e \in AllEdges : External(e) /\ par[e.u] \in C /\ par[e.v] \in C => w <= e.w
  <2> SUFFICES ASSUME NEW e \in AllEdges, External(e), par[e.u] \in C, par[e.v] \in C
               PROVE  w <= e.w
    OBVIOUS
  <2>1. PICK q \in weightVertices[w] : Incident(e, q)
    BY DEF C, External, Incident
  <2> QED BY <1>7, <2>1 DEF LeavingWeight
<1>10. ASSUME NEW Q \in (SUBSET C) \ {{}, C}
       PROVE  ~ NoLeaving(Q, w)
  <2>1. ASSUME NEW S \in SUBSET weightVertices[w], S # {} PROVE ~ NoLeaving(S, w)
    BY <1>1, <2>1 DEF ClosedSetsKnown
  <2>2. CASE firstMerged \notin Q
    BY <2>1, <2>2 DEF C
  <2>3. CASE firstMerged \in Q
    <3>1. C \ Q \in SUBSET weightVertices[w] /\ C \ Q # {}
      BY <2>3 DEF C
    <3>2. PICK e \in AllEdges : e.w <= w /\ Leaves(e, C \ Q)
      BY <2>1, <3>1 DEF NoLeaving
    <3>3. ~ Leaves(e, C)
      BY <1>5, <3>2 DEF NoLeaving
    <3>4. Leaves(e, Q)
      BY <3>2, <3>3 DEF Leaves
    <3> QED BY <3>2, <3>4 DEF NoLeaving
  <2> QED BY <2>2, <2>3
<1>11. Mergeable(C, w)
  BY <1>5, <1>6, <1>8, <1>9, <1>10 DEF Mergeable
<1> QED BY <1>11 DEF C

(***************************************************************************)
(* The queue of subgraphs.                                                 *)
(***************************************************************************)

LEMMA AppendAt ==
    ASSUME NEW Item, NEW s \in Seq(Item), NEW x, NEW t, t = Append(s, x)
    PROVE  /\ Len(s) \in Nat /\ Len(t) = Len(s) + 1
           /\ DOMAIN s = 1 .. Len(s) /\ DOMAIN t = DOMAIN s \cup {Len(t)}
           /\ Len(t) \in DOMAIN t /\ Len(t) \notin DOMAIN s
           /\ \A k \in DOMAIN s : t[k] = s[k]
           /\ t[Len(t)] = x
OBVIOUS

LEMMA TailAt ==
    ASSUME NEW Item, NEW s \in Seq(Item), s # << >>, NEW t, t = Tail(s)
    PROVE  /\ t \in Seq(Item) /\ Len(s) \in Nat /\ Len(s) # 0 /\ Len(t) = Len(s) - 1
           /\ DOMAIN s = 1 .. Len(s) /\ DOMAIN t = 1 .. Len(s) - 1
           /\ 1 \in DOMAIN s /\ s[1] = Head(s)
           /\ \A k \in DOMAIN t : k + 1 \in DOMAIN s /\ t[k] = s[k + 1]
OBVIOUS

\* What TypeOK says subgraphs is a sequence of.
Subgraph == [comp : SUBSET Vertex, weight : Weight,
             entries : SUBSET [ends : SUBSET Vertex, party : Party, edge : Edge]]

LEMMA SubgraphFields ==
    ASSUME TypeOK, NEW k \in DOMAIN subgraphs
    PROVE  /\ subgraphs[k].comp \in SUBSET Vertex /\ subgraphs[k].weight \in Weight
           /\ \A x \in subgraphs[k].entries :
                x.ends \in SUBSET Vertex /\ x.party \in Party /\ x.edge \in Edge
                /\ x = [ends |-> x.ends, party |-> x.party, edge |-> x.edge]
<1>1. subgraphs \in Seq(Subgraph)
  BY DEF TypeOK, Subgraph
<1>2. subgraphs[k] \in Subgraph
  BY <1>1
<1>3. /\ subgraphs[k].comp \in SUBSET Vertex /\ subgraphs[k].weight \in Weight
      /\ subgraphs[k].entries \in SUBSET [ends : SUBSET Vertex, party : Party, edge : Edge]
  BY <1>2 DEF Subgraph
<1>4. ASSUME NEW x \in subgraphs[k].entries
      PROVE  x.ends \in SUBSET Vertex /\ x.party \in Party /\ x.edge \in Edge
             /\ x = [ends |-> x.ends, party |-> x.party, edge |-> x.edge]
  <2>1. x \in [ends : SUBSET Vertex, party : Party, edge : Edge]
    BY <1>3
  <2> QED BY <2>1
<1> QED BY <1>3, <1>4

\* A division of the clusters is one of the vertices.
LEMMA ClusterCut ==
    ASSUME TypeOK, PartitionOK, AdjOK, NEW C, NEW w, Mergeable(C, w), NEW Q \in SUBSET C
    PROVE  \E U \in SUBSET Vertex :
             /\ \A x \in Entries(C, w) : Cross(x.edge, U) <=> Split(x.ends, Q)
             /\ \A e \in AllEdges : Cross(e, U) => w <= e.w
             /\ \A e \in AllEdges : par[e.u] = par[e.v] => ~ Cross(e, U)
<1> DEFINE U == {v \in Vertex : par[v] \in Q}
<1>1. /\ C \in SUBSET Roots /\ w \in Weight /\ NoLeaving(C, w)
      /\ \A e \in AllEdges : External(e) /\ par[e.u] \in C /\ par[e.v] \in C => w <= e.w
  BY DEF Mergeable
<1>2. \A e \in AllEdges : e.u \in Vertex /\ e.v \in Vertex /\ e.w \in Nat
  BY AllEdgesAreEdges
<1>3. \A e \in AllEdges : Cross(e, U) <=> ((par[e.u] \in Q) # (par[e.v] \in Q))
  BY <1>2 DEF Cross
<1>4. U \in SUBSET Vertex
  OBVIOUS
<1> HIDE DEF U
<1>5. ASSUME NEW x \in Entries(C, w)
      PROVE  Cross(x.edge, U) <=> Split(x.ends, Q)
  <2>1. /\ x.edge \in AllEdges
        /\ x.ends = {par[x.edge.u], par[x.edge.v]}
    BY EntriesOfMerge
  <2> QED BY <1>3, <2>1 DEF Split
<1>6. ASSUME NEW e \in AllEdges, Cross(e, U)
      PROVE  w <= e.w
  <2>1. (par[e.u] \in Q) # (par[e.v] \in Q)
    BY <1>3, <1>6
  <2>2. CASE e.w <= w
    <3>1. par[e.u] \in C /\ par[e.v] \in C
      BY <1>1, <2>1, <2>2 DEF NoLeaving, Leaves
    <3> QED BY <1>1, <2>1, <3>1 DEF External
  <2>3. CASE ~ (e.w <= w)
    BY <1>1, <1>2, <2>3, Ranges
  <2> QED BY <2>2, <2>3
<1>7. \A e \in AllEdges : par[e.u] = par[e.v] => ~ Cross(e, U)
  BY <1>3
<1> QED BY <1>4, <1>5, <1>6, <1>7

\* The subgraph of a merge, and its place in the queue.
LEMMA MergeQueues ==
    ASSUME TypeOK, PartitionOK, AdjOK, NEW C, NEW w, Mergeable(C, w), NEW r \in C,
           Merge(C, w, r), edges' = edges
    PROVE  /\ AllEdges' = AllEdges
           /\ \A u, v \in Vertex : par[u] = par[v] => par'[u] = par'[v]
           /\ \A x \in Entries(C, w) : par'[x.edge.u] = par'[x.edge.v]
           /\ DOMAIN subgraphs = 1 .. Len(subgraphs) /\ Len(subgraphs) \in Nat
           /\ Len(subgraphs') \notin DOMAIN subgraphs /\ Len(subgraphs') = Len(subgraphs) + 1
           /\ DOMAIN subgraphs' = DOMAIN subgraphs \cup {Len(subgraphs')}
           /\ \A k \in DOMAIN subgraphs : subgraphs'[k] = subgraphs[k]
           /\ subgraphs'[Len(subgraphs')].comp = C
           /\ subgraphs'[Len(subgraphs')].weight = w
           /\ subgraphs'[Len(subgraphs')].entries = Entries(C, w)
<1>1. /\ C \in SUBSET Roots /\ w \in Weight /\ NoLeaving(C, w)
      /\ \A e \in AllEdges : External(e) /\ par[e.u] \in C /\ par[e.v] \in C => w <= e.w
  BY DEF Mergeable
<1>2. AllEdges' = AllEdges
  BY DEF AllEdges
<1>3. \A v \in Vertex : par'[v] = IF par[v] \in C THEN r ELSE par[v]
  BY <1>1, MergeRelabels
<1>4. ASSUME NEW x \in Entries(C, w) PROVE par'[x.edge.u] = par'[x.edge.v]
  <2>1. x.edge \in AllEdges /\ par[x.edge.u] \in C /\ par[x.edge.v] \in C
    BY EntriesOfMerge
  <2>2. x.edge.u \in Vertex /\ x.edge.v \in Vertex
    BY <2>1, AllEdgesAreEdges
  <2> QED BY <1>3, <2>1, <2>2
<1> DEFINE new == [comp |-> C, weight |-> w, entries |-> Entries(C, w)]
<1>5. new.comp = C /\ new.weight = w /\ new.entries = Entries(C, w)
  OBVIOUS
<1>6. subgraphs' = Append(subgraphs, new)
  BY DEF Merge, Entries
<1>7. subgraphs \in Seq(Subgraph)
  BY DEF TypeOK, Subgraph
<1> HIDE DEF new
<1>8. /\ DOMAIN subgraphs = 1 .. Len(subgraphs) /\ Len(subgraphs) \in Nat
      /\ Len(subgraphs') \notin DOMAIN subgraphs /\ Len(subgraphs') = Len(subgraphs) + 1
      /\ DOMAIN subgraphs' = DOMAIN subgraphs \cup {Len(subgraphs')}
      /\ \A k \in DOMAIN subgraphs : subgraphs'[k] = subgraphs[k]
      /\ subgraphs'[Len(subgraphs')] = new
  BY <1>6, <1>7, AppendAt
<1> QED BY <1>2, <1>3, <1>4, <1>5, <1>8

\* A merge leaves what is queued and drawn as it was, and queues a subgraph
\* that is as it should be.
LEMMA MergeResult ==
    ASSUME TypeOK, PartitionOK, AdjOK, ResultOK, NEW C, NEW w, Mergeable(C, w), NEW r \in C,
           Merge(C, w, r), edges' = edges, forest' = forest
    PROVE  ResultOK'
<1> DEFINE last == Len(subgraphs')
<1>1. /\ AllEdges' = AllEdges
      /\ \A u, v \in Vertex : par[u] = par[v] => par'[u] = par'[v]
      /\ \A x \in Entries(C, w) : par'[x.edge.u] = par'[x.edge.v]
      /\ DOMAIN subgraphs = 1 .. Len(subgraphs) /\ Len(subgraphs) \in Nat
      /\ last \notin DOMAIN subgraphs /\ last = Len(subgraphs) + 1
      /\ DOMAIN subgraphs' = DOMAIN subgraphs \cup {last}
      /\ \A k \in DOMAIN subgraphs : subgraphs'[k] = subgraphs[k]
      /\ subgraphs'[last].comp = C
      /\ subgraphs'[last].weight = w
      /\ subgraphs'[last].entries = Entries(C, w)
  BY MergeQueues
<1> HIDE DEF last
<1>2. /\ C \in SUBSET Roots /\ w \in Weight /\ NoLeaving(C, w) /\ Cardinality(C) >= 2
      /\ \A e \in AllEdges : External(e) /\ par[e.u] \in C /\ par[e.v] \in C => w <= e.w
      /\ \A Q \in (SUBSET C) \ {{}, C} : ~ NoLeaving(Q, w)
  BY DEF Mergeable
<1>3. \A e \in AllEdges : e \in Edge /\ e.u \in Vertex /\ e.v \in Vertex /\ e.w \in Nat
  BY AllEdgesAreEdges
<1>4. /\ \A x \in Entries(C, w) :
           /\ x.party \in Party /\ x.edge \in edges[x.party] /\ x.edge \in AllEdges
           /\ x.edge.w = w
           /\ par[x.edge.u] \in C /\ par[x.edge.v] \in C /\ par[x.edge.u] # par[x.edge.v]
           /\ x.ends = {par[x.edge.u], par[x.edge.v]}
      /\ \A p \in Party : \A e \in edges[p] :
           e.w <= w /\ par[e.u] \in C /\ External(e) =>
               \E x \in Entries(C, w) : x.party = p /\ x.edge = e
  BY EntriesOfMerge
<1>5. /\ \A k \in DOMAIN subgraphs : SubgraphOK(subgraphs[k])
      /\ CutsRemain /\ ForestOK /\ Spanned
  BY DEF ResultOK
<1>6. \A k \in DOMAIN subgraphs : \A x \in subgraphs[k].entries :
          /\ x.edge \in AllEdges /\ par[x.edge.u] = par[x.edge.v]
          /\ par'[x.edge.u] = par'[x.edge.v]
  <2> SUFFICES ASSUME NEW k \in DOMAIN subgraphs, NEW x \in subgraphs[k].entries
               PROVE  /\ x.edge \in AllEdges /\ par[x.edge.u] = par[x.edge.v]
                      /\ par'[x.edge.u] = par'[x.edge.v]
    OBVIOUS
  <2>1. x.edge \in edges[x.party] /\ par[x.edge.u] = par[x.edge.v]
    BY <1>5 DEF SubgraphOK
  <2>2. x.party \in Party
    BY SubgraphFields
  <2>3. x.edge \in AllEdges
    BY <2>1, <2>2 DEF AllEdges, Party
  <2> QED BY <1>1, <1>3, <2>1, <2>3
<1>7. ASSUME NEW Q \in (SUBSET C) \ {{}, C}
      PROVE  \E x \in Entries(C, w) : Split(x.ends, Q)
  <2>1. PICK e \in AllEdges : e.w <= w /\ Leaves(e, Q)
    BY <1>2 DEF NoLeaving
  <2>2. par[e.u] \in C /\ External(e)
    BY <1>2, <2>1 DEF NoLeaving, Leaves, External
  <2>3. PICK p \in Party : e \in edges[p]
    BY DEF AllEdges, Party
  <2>4. PICK x \in Entries(C, w) : x.edge = e
    BY <1>4, <2>1, <2>2, <2>3
  <2>5. x.ends = {par[e.u], par[e.v]}
    BY <1>4, <2>4
  <2>6. Split(x.ends, Q)
    BY <2>1, <2>5 DEF Split, Leaves
  <2> QED BY <2>6
<1>8. ASSUME NEW k \in DOMAIN subgraphs'
      PROVE  SubgraphOK(subgraphs[k])'
  <2>1. CASE k \in DOMAIN subgraphs
    BY <1>1, <1>5, <1>6, <2>1 DEF SubgraphOK
  <2>2. CASE k = last
    BY <1>1, <1>2, <1>4, <1>7, <2>2 DEF SubgraphOK
  <2> QED BY <1>1, <2>1, <2>2
<1>9. ASSUME NEW k \in DOMAIN subgraphs', NEW Q \in SUBSET subgraphs'[k].comp
      PROVE  \E U \in SUBSET Vertex : Lifts(subgraphs[k], Q, U)' /\ Before(k, U)'
  <2>1. CASE k \in DOMAIN subgraphs
    <3>1. PICK U \in SUBSET Vertex : Lifts(subgraphs[k], Q, U) /\ Before(k, U)
      BY <1>1, <1>5, <2>1 DEF CutsRemain
    <3>2. Lifts(subgraphs[k], Q, U)'
      BY <1>1, <2>1, <3>1 DEF Lifts
    <3>3. \A j \in 1 .. k - 1 : j \in DOMAIN subgraphs
      BY <1>1, <2>1
    <3>4. Before(k, U)'
      BY <1>1, <3>1, <3>3 DEF Before
    <3> QED BY <3>2, <3>4
  <2>2. CASE k = last
    <3>1. PICK U \in SUBSET Vertex :
             /\ \A x \in Entries(C, w) : Cross(x.edge, U) <=> Split(x.ends, Q)
             /\ \A e \in AllEdges : Cross(e, U) => w <= e.w
             /\ \A e \in AllEdges : par[e.u] = par[e.v] => ~ Cross(e, U)
      BY <1>1, <2>2, ClusterCut
    <3>2. Lifts(subgraphs[k], Q, U)'
      BY <1>1, <2>2, <3>1 DEF Lifts
    <3>3. \A j \in 1 .. k - 1 : j \in DOMAIN subgraphs
      BY <1>1, <2>2
    <3>4. \A j \in 1 .. k - 1 : \A x \in subgraphs'[j].entries : ~ Cross(x.edge, U)
      BY <1>1, <1>6, <3>1, <3>3
    <3>5. \A x \in forest' : ~ Cross(x.edge, U)
      BY <1>5, <3>1 DEF ForestOK
    <3>6. Before(k, U)'
      BY <3>4, <3>5 DEF Before
    <3> QED BY <3>2, <3>6
  <2> QED BY <1>1, <2>1, <2>2
<1>10. ForestOK'
  <2>1. \A x \in forest : x.edge \in AllEdges /\ par'[x.edge.u] = par'[x.edge.v]
    BY <1>1, <1>3, <1>5 DEF ForestOK
  <2>2. Drawn' = Drawn
    BY DEF Drawn
  <2>3. \A f, S : Needed(Drawn, f, S)' <=> Needed(Drawn, f, S)
    BY <1>1, <2>2 DEF Needed
  <2>4. EachNeeded(Drawn)'
    BY <1>5, <2>2, <2>3 DEF EachNeeded, ForestOK
  <2> QED BY <1>1, <1>5, <2>1, <2>4 DEF ForestOK
<1>11. Spanned'
  <2> SUFFICES ASSUME NEW S \in SUBSET Vertex, NEW u \in Vertex, NEW v \in Vertex,
                      par'[u] = par'[v], u \in S, v \notin S
               PROVE  Awaited(S)' \/ \E x \in forest' : Cross(x.edge, S)
    BY DEF Spanned
  <2>1. CASE \E a, b \in Vertex : par[a] = par[b] /\ a \in S /\ b \notin S
    <3>1. Awaited(S) \/ \E x \in forest : Cross(x.edge, S)
      BY <1>5, <2>1 DEF Spanned
    <3>2. Awaited(S) => Awaited(S)'
      BY <1>1 DEF Awaited
    <3> QED BY <3>1, <3>2
  <2>2. CASE \A a, b \in Vertex : par[a] = par[b] => (a \in S <=> b \in S)
    <3>1. \A a \in Vertex : par[a] \in Vertex /\ (a \in S <=> par[a] \in S)
      BY <2>2 DEF TypeOK, PartitionOK
    <3>2. \A a \in Vertex : par'[a] = IF par[a] \in C THEN r ELSE par[a]
      BY <1>2, MergeRelabels
    <3>3. par[u] # par[v]
      BY <2>2
    <3>4. par[u] \in C /\ par[v] \in C
      BY <3>1, <3>2, <3>3
    <3> DEFINE Q == C \cap S
    <3>5. Q \in (SUBSET C) \ {{}, C}
      BY <3>1, <3>4
    <3>6. ASSUME NEW x \in Entries(C, w), Split(x.ends, Q)
          PROVE  Cross(x.edge, S)
      <4>1. /\ x.edge.u \in Vertex /\ x.edge.v \in Vertex
            /\ par[x.edge.u] \in C /\ par[x.edge.v] \in C
            /\ x.ends = {par[x.edge.u], par[x.edge.v]}
        BY <1>3, <1>4
      <4>2. (par[x.edge.u] \in S) # (par[x.edge.v] \in S)
        BY <3>6, <4>1 DEF Split
      <4> QED BY <3>1, <4>1, <4>2 DEF Cross
    <3> HIDE DEF Q
    <3>7. Awaited(S)'
      BY <1>1, <3>5, <3>6 DEF Awaited
    <3> QED BY <3>7
  <2> QED BY <2>1, <2>2
<1>12. CutsRemain'
  BY <1>9 DEF CutsRemain
<1> QED BY <1>8, <1>10, <1>11, <1>12 DEF ResultOK

\* An edge that a merge makes internal is no lighter than the merge, and is
\* handed over when it is no heavier.
LEMMA MergeHandsOver ==
    ASSUME TypeOK, PartitionOK, AdjOK, NEW C, NEW w, Mergeable(C, w), NEW r \in C,
           Merge(C, w, r), edges' = edges, NEW p \in Party, NEW e \in edges[p],
           par[e.u] # par[e.v], par'[e.u] = par'[e.v]
    PROVE  LET g == subgraphs'[Len(subgraphs')]
           IN  /\ e.w >= g.weight
               /\ e.w = g.weight => \E x \in g.entries : x.party = p /\ x.edge = e
<1>1. /\ C \in SUBSET Roots /\ w \in Weight
      /\ \A f \in AllEdges : External(f) /\ par[f.u] \in C /\ par[f.v] \in C => w <= f.w
  BY DEF Mergeable
<1>2. e \in AllEdges /\ e.u \in Vertex /\ e.v \in Vertex /\ e.w \in Nat /\ w \in Nat
  <2>1. e \in AllEdges
    BY DEF AllEdges, Party
  <2> QED BY <1>1, <2>1, AllEdgesAreEdges, Ranges
<1>3. par[e.u] \in C /\ par[e.v] \in C
  <2>1. \A v \in Vertex : par'[v] = IF par[v] \in C THEN r ELSE par[v]
    BY <1>1, MergeRelabels
  <2> QED BY <1>2, <2>1
<1>4. w <= e.w
  BY <1>1, <1>2, <1>3 DEF External
<1>5. e.w <= w => \E x \in Entries(C, w) : x.party = p /\ x.edge = e
  BY <1>3, EntriesOfMerge DEF External
<1>6. /\ subgraphs'[Len(subgraphs')].weight = w
      /\ subgraphs'[Len(subgraphs')].entries = Entries(C, w)
  BY MergeQueues
<1> QED BY <1>2, <1>4, <1>5, <1>6

(***************************************************************************)
(* Drawing a tree.                                                         *)
(***************************************************************************)

\* There are finitely many entries.
LEMMA EntriesFinite ==
    ASSUME NEW S \in SUBSET [ends : SUBSET Vertex, party : Party, edge : Edge]
    PROVE  IsFiniteSet(S)
<1> DEFINE Fields == (SUBSET Vertex) \X (Party \X (Vertex \X (Vertex \X Weight)))
           f == [x \in S |-> <<x.ends, <<x.party, <<x.edge.u, <<x.edge.v, x.edge.w>>>>>>>>]
<1>1. IsFiniteSet(Vertex) /\ IsFiniteSet(Weight) /\ IsFiniteSet(Party)
  <2>1. IsFiniteSet(0 .. WeightDummy - 1)
    BY MsfAssumption, FS_Interval
  <2>2. IsFiniteSet({"SERVER"} \cup {"CLIENT"})
    BY FS_Singleton, FS_Union
  <2>3. Party = {"SERVER"} \cup {"CLIENT"}
    BY DEF Party
  <2> QED BY <2>1, <2>2, <2>3, Ranges DEF Weight
<1>2. IsFiniteSet(Fields)
  <2>1. IsFiniteSet(SUBSET Vertex)
    BY <1>1, FS_SUBSET
  <2>2. IsFiniteSet(Vertex \X Weight)
    BY <1>1, FS_Product
  <2>3. IsFiniteSet(Vertex \X (Vertex \X Weight))
    BY <1>1, <2>2, FS_Product
  <2>4. IsFiniteSet(Party \X (Vertex \X (Vertex \X Weight)))
    BY <1>1, <2>3, FS_Product
  <2> QED BY <2>1, <2>4, FS_Product
<1>3. \A x \in S : /\ x.ends \in SUBSET Vertex /\ x.party \in Party
                   /\ x.edge \in [u : Vertex, v : Vertex, w : Weight]
                   /\ x = [ends |-> x.ends, party |-> x.party, edge |-> x.edge]
  BY DEF Edge
<1>4. f \in [S -> Fields]
  BY <1>3
<1>5. ASSUME NEW x \in S, NEW y \in S, f[x] = f[y] PROVE x = y
  <2>1. x.ends = y.ends /\ x.party = y.party
        /\ x.edge.u = y.edge.u /\ x.edge.v = y.edge.v /\ x.edge.w = y.edge.w
    BY <1>5
  <2>2. /\ x.edge = [u |-> x.edge.u, v |-> x.edge.v, w |-> x.edge.w]
        /\ y.edge = [u |-> y.edge.u, v |-> y.edge.v, w |-> y.edge.w]
    BY <1>3
  <2>3. x.edge = y.edge
    BY <2>1, <2>2
  <2> QED BY <1>3, <2>1, <2>3
<1> HIDE DEF f, Fields
<1>6. f \in Injection(S, Fields)
  BY <1>4, <1>5 DEF Injection, IsInjective
<1> QED BY <1>2, <1>6, FS_Injection

LEMMA InitResult == Init => RInv
<1> SUFFICES ASSUME Init PROVE RInv
  OBVIOUS
<1>1. /\ subgraphs = << >> /\ DOMAIN subgraphs = {} /\ forest = {} /\ Drawn = {}
      /\ \A v \in Vertex : par[v] = v
      /\ pc = "main"
  BY DEF Init, Drawn
<1>2. CutsRemain
  BY <1>1 DEF CutsRemain
<1>3. ForestOK
  BY <1>1 DEF ForestOK, EachNeeded
<1>4. Spanned
  BY <1>1 DEF Spanned
<1> QED BY <1>1, <1>2, <1>3, <1>4 DEF RInv, ResultOK

\* The edges that a tree adds to the forest.
Selected(T) == {[party |-> t.party, edge |-> t.edge] : t \in T}

\* Of the tree T only t crosses the set U of vertices, no edge drawn does, and
\* no edge lighter than t.
CutFor(T, t, U) ==
    /\ \A x \in T : Cross(x.edge, U) <=> x = t
    /\ \A e \in AllEdges : Cross(e, U) => t.edge.w <= e.w
    /\ \A x \in forest : ~ Cross(x.edge, U)

\* Each edge of a tree of the oldest subgraph has a cut of the vertices that
\* no other edge of the tree, no edge drawn and no lighter edge crosses.
LEMMA TreeEdgesCut ==
    ASSUME TypeOK, ResultOK, NEW g, 1 \in DOMAIN subgraphs, g = subgraphs[1],
           NEW T \in SpanningTrees(g.entries, g.comp)
    PROVE  /\ IsFiniteSet(T) /\ IsFiniteSet(g.comp)
           /\ Cardinality(T) = Cardinality(g.comp) - 1
           /\ \A t \in T : t \in g.entries /\ t.edge \in AllEdges
                           /\ par[t.edge.u] = par[t.edge.v]
           /\ \A Q \in (SUBSET g.comp) \ {{}, g.comp} : \E t \in T : Split(t.ends, Q)
           /\ \A t \in T : \E U \in SUBSET Vertex : CutFor(T, t, U)
<1>1. SubgraphOK(g) /\ CutsRemain
  BY DEF ResultOK
<1>2. /\ T \in SUBSET g.entries
      /\ Cardinality(T) = Cardinality(g.comp) - 1
      /\ \A S \in (SUBSET g.comp) \ {{}, g.comp} :
           \E t \in T : t.ends \cap S # {} /\ t.ends \cap (g.comp \ S) # {}
  BY DEF SpanningTrees
<1>3. /\ g.comp \in SUBSET Vertex
      /\ \A x \in g.entries :
           x.party \in Party
           /\ x \in [ends : SUBSET Vertex, party : Party, edge : Edge]
  BY SubgraphFields
<1>4. IsFiniteSet(T) /\ IsFiniteSet(g.comp)
  <2>1. T \in SUBSET [ends : SUBSET Vertex, party : Party, edge : Edge]
    BY <1>2, <1>3
  <2> QED BY <1>3, <2>1, EntriesFinite, Ranges, FS_Subset
<1>5. \A t \in T : /\ t \in g.entries /\ t.edge \in AllEdges /\ t.edge.w = g.weight
                   /\ par[t.edge.u] = par[t.edge.v]
                   /\ \E a, b \in g.comp : t.ends = {a, b}
  BY <1>1, <1>2, <1>3 DEF SubgraphOK, AllEdges, Party
<1>6. \A Q \in (SUBSET g.comp) \ {{}, g.comp} : \E t \in T : Split(t.ends, Q)
  BY <1>2 DEF Split
<1> DEFINE ends == [x \in T |-> x.ends]
<1>7. Joins(g.comp, T, ends)
  BY <1>5, <1>6 DEF Joins
<1>8. \A x \in T : ends[x] = x.ends
  OBVIOUS
<1> HIDE DEF ends
<1>9. ASSUME NEW t \in T
      PROVE  \E U \in SUBSET Vertex : CutFor(T, t, U)
  <2>1. PICK Q \in SUBSET g.comp : \A x \in T : Split(ends[x], Q) <=> x = t
    <3>1. Cardinality(T) = Cardinality(g.comp) - 1
      BY <1>2
    <3> QED BY <1>4, <1>7, <3>1, TreeCut
  <2>2. PICK U \in SUBSET Vertex : Lifts(g, Q, U) /\ Before(1, U)
    BY <1>1 DEF CutsRemain
  <2>3. \A x \in T : Cross(x.edge, U) <=> x = t
    BY <1>5, <1>8, <2>1, <2>2 DEF Lifts
  <2> QED BY <1>5, <2>2, <2>3 DEF Lifts, Before, CutFor
<1> QED BY <1>2, <1>4, <1>5, <1>6, <1>9

LEMMA DrawnGrows ==
    ASSUME NEW T, forest' = forest \cup Selected(T)
    PROVE  Drawn' = Drawn \cup {t.edge : t \in T}
<1>1. ASSUME NEW t \in T PROVE t.edge \in Drawn'
  <2> DEFINE s == [party |-> t.party, edge |-> t.edge]
  <2>1. s \in forest' /\ s.edge = t.edge
    BY DEF Selected
  <2> HIDE DEF s
  <2> QED BY <2>1 DEF Drawn
<1>2. ASSUME NEW x \in forest PROVE x.edge \in Drawn'
  BY DEF Drawn
<1>3. ASSUME NEW x \in forest' PROVE x.edge \in Drawn \cup {t.edge : t \in T}
  <2>1. CASE x \in forest
    BY <2>1 DEF Drawn
  <2>2. CASE x \in Selected(T)
    BY <2>2 DEF Selected
  <2> QED BY <2>1, <2>2
<1>4. \A e \in Drawn' : e \in Drawn \cup {t.edge : t \in T}
  BY <1>3 DEF Drawn
<1>5. \A e \in Drawn \cup {t.edge : t \in T} : e \in Drawn'
  BY <1>1, <1>2 DEF Drawn
<1> QED BY <1>4, <1>5

\* Drawing a tree keeps the forest one, and its edges needed.
LEMMA DrawForest ==
    ASSUME TypeOK, ForestOK, NEW T, IsFiniteSet(T), forest' = forest \cup Selected(T),
           edges' = edges, par' = par,
           \A t \in T : t.edge \in AllEdges /\ par[t.edge.u] = par[t.edge.v],
           \A t \in T : \E U \in SUBSET Vertex : CutFor(T, t, U)
    PROVE  ForestOK'
<1> DEFINE X == {t.edge : t \in T}
<1>1. AllEdges' = AllEdges
  BY DEF AllEdges
<1>2. \A x \in forest' : x \in forest \/ \E t \in T : x = [party |-> t.party, edge |-> t.edge]
  BY DEF Selected
<1>3. \A x \in forest : x.edge \in AllEdges /\ par[x.edge.u] = par[x.edge.v]
  BY DEF ForestOK
<1>4. \A x \in forest' : x.edge \in AllEdges' /\ par'[x.edge.u] = par'[x.edge.v]
  BY <1>1, <1>2, <1>3
<1>5. ASSUME NEW x \in forest', NEW t \in T, x = [party |-> t.party, edge |-> t.edge],
             NEW y \in forest', x.edge = y.edge
      PROVE  x = y
  <2>1. PICK U \in SUBSET Vertex :
           /\ \A z \in T : Cross(z.edge, U) <=> z = t
           /\ \A z \in forest : ~ Cross(z.edge, U)
    BY DEF CutFor
  <2>2. Cross(y.edge, U)
    BY <1>5, <2>1
  <2>3. PICK z \in T : y = [party |-> z.party, edge |-> z.edge]
    BY <1>2, <2>1, <2>2
  <2>4. z = t
    BY <2>1, <2>2, <2>3
  <2> QED BY <1>5, <2>3, <2>4
<1>6. ASSUME NEW x \in forest', NEW y \in forest', x.edge = y.edge PROVE x = y
  <2>1. CASE x \in forest /\ y \in forest
    BY <1>6, <2>1 DEF ForestOK
  <2>2. CASE x \notin forest
    BY <1>2, <1>5, <1>6, <2>2
  <2>3. CASE y \notin forest
    BY <1>2, <1>5, <1>6, <2>3
  <2> QED BY <2>1, <2>2, <2>3
<1>7. Drawn' = Drawn \cup X
  BY DrawnGrows
<1>8. EachNeeded(Drawn \cup X)
  <2>1. IsFiniteSet(X)
    <3> DEFINE f == [t \in T |-> t.edge]
    <3>1. f \in Surjection(T, X)
      BY DEF Surjection
    <3> HIDE DEF f, X
    <3> QED BY <3>1, FS_Surjection
  <2>2. Drawn \in SUBSET AllEdges /\ EachNeeded(Drawn) /\ X \in SUBSET AllEdges
    BY <1>3 DEF ForestOK, Drawn
  <2>3. ASSUME NEW e \in X
        PROVE  \E U \in SUBSET Vertex : (\A f \in Drawn : ~ Cross(f, U)) /\ Needed(X, e, U)
    <3>1. PICK t \in T : e = t.edge
      OBVIOUS
    <3>2. PICK U \in SUBSET Vertex :
             /\ \A x \in T : Cross(x.edge, U) <=> x = t
             /\ \A f \in AllEdges : Cross(f, U) => t.edge.w <= f.w
             /\ \A x \in forest : ~ Cross(x.edge, U)
      BY DEF CutFor
    <3>3. \A f \in X : Cross(f, U) <=> f = e
      BY <3>1, <3>2
    <3> QED BY <3>1, <3>2, <3>3 DEF Needed, Drawn
  <2> HIDE DEF X
  <2> QED BY <2>1, <2>2, <2>3, AddAllNeeded
<1>9. EachNeeded(Drawn)'
  <2>1. \A F, f, S : Needed(F, f, S)' <=> Needed(F, f, S)
    BY <1>1 DEF Needed
  <2> HIDE DEF X
  <2> QED BY <1>7, <1>8, <2>1 DEF EachNeeded
<1> QED BY <1>4, <1>6, <1>9 DEF ForestOK

\* Reading the tree of the oldest subgraph.
LEMMA ReadSubgraphResult ==
    ASSUME TypeOK, ResultOK, ReadSubgraph
    PROVE  ResultOK'
<1>1. /\ subgraphs # << >> /\ subgraphs' = Tail(subgraphs)
      /\ edges' = edges /\ par' = par /\ AllEdges' = AllEdges
  BY DEF ReadSubgraph, AllEdges
<1>2. PICK T \in SpanningTrees(Head(subgraphs).entries, Head(subgraphs).comp) :
         forest' = forest \cup Selected(T)
  BY DEF ReadSubgraph, Selected
<1>3. subgraphs \in Seq(Subgraph)
  BY DEF TypeOK, Subgraph
<1> HIDE DEF Subgraph
<1>4. /\ Len(subgraphs) \in Nat
      /\ DOMAIN subgraphs = 1 .. Len(subgraphs) /\ DOMAIN subgraphs' = 1 .. Len(subgraphs) - 1
      /\ 1 \in DOMAIN subgraphs /\ subgraphs[1] = Head(subgraphs)
      /\ \A k \in DOMAIN subgraphs' : k + 1 \in DOMAIN subgraphs /\ subgraphs'[k] = subgraphs[k + 1]
  BY <1>1, <1>3, TailAt
<1> DEFINE g == subgraphs[1]
<1>5. /\ IsFiniteSet(T)
      /\ \A t \in T : t \in g.entries /\ t.edge \in AllEdges /\ par[t.edge.u] = par[t.edge.v]
      /\ \A Q \in (SUBSET g.comp) \ {{}, g.comp} : \E t \in T : Split(t.ends, Q)
      /\ \A t \in T : \E U \in SUBSET Vertex : CutFor(T, t, U)
  <2>1. T \in SpanningTrees(g.entries, g.comp) /\ 1 \in DOMAIN subgraphs
    BY <1>2, <1>4
  <2> HIDE DEF g
  <2>2. g = subgraphs[1]
    BY DEF g
  <2>3. IsFiniteSet(T)
    BY <2>1, <2>2, TreeEdgesCut
  <2>4. \A t \in T : t \in g.entries /\ t.edge \in AllEdges /\ par[t.edge.u] = par[t.edge.v]
    BY <2>1, <2>2, TreeEdgesCut
  <2>5. \A Q \in (SUBSET g.comp) \ {{}, g.comp} : \E t \in T : Split(t.ends, Q)
    BY <2>1, <2>2, TreeEdgesCut
  <2>6. ASSUME NEW t \in T
        PROVE  \E U \in SUBSET Vertex : CutFor(T, t, U)
    BY <2>1, <2>2, TreeEdgesCut
  <2> QED BY <2>3, <2>4, <2>5, <2>6
<1>6. /\ \A k \in DOMAIN subgraphs : SubgraphOK(subgraphs[k])
      /\ CutsRemain /\ ForestOK /\ Spanned
  BY DEF ResultOK
<1>7. \A x \in forest' : x \in forest \/ \E t \in T : x.edge = t.edge
  BY <1>2 DEF Selected
<1>8. \A t \in T : \E x \in forest' : x.edge = t.edge
  <2> SUFFICES ASSUME NEW t \in T PROVE \E x \in forest' : x.edge = t.edge
    OBVIOUS
  <2>1. [party |-> t.party, edge |-> t.edge] \in forest'
    BY <1>2 DEF Selected
  <2> QED BY <2>1
<1> HIDE DEF g
<1>9. \A k \in DOMAIN subgraphs' : SubgraphOK(subgraphs[k])'
  BY <1>1, <1>4, <1>6 DEF SubgraphOK
<1>10. CutsRemain'
  <2> SUFFICES ASSUME NEW k \in DOMAIN subgraphs', NEW Q \in SUBSET subgraphs'[k].comp
               PROVE  \E U \in SUBSET Vertex : Lifts(subgraphs[k], Q, U)' /\ Before(k, U)'
    BY DEF CutsRemain
  <2>1. PICK U \in SUBSET Vertex : Lifts(subgraphs[k + 1], Q, U) /\ Before(k + 1, U)
    BY <1>4, <1>6 DEF CutsRemain
  <2>2. Lifts(subgraphs[k], Q, U)'
    BY <1>1, <1>4, <2>1 DEF Lifts
  <2>3. k \in Nat /\ k >= 1 /\ k <= Len(subgraphs) - 1
    BY <1>4
  <2>4. \A j \in 1 .. k : \A x \in subgraphs[j].entries : ~ Cross(x.edge, U)
    BY <2>1, <2>3 DEF Before
  <2>5. \A x \in forest' : ~ Cross(x.edge, U)
    <3>1. \A t \in T : ~ Cross(t.edge, U)
      BY <1>5, <2>3, <2>4 DEF g
    <3> QED BY <1>7, <2>1, <3>1 DEF Before, Cross
  <2>6. \A j \in 1 .. k - 1 : \A x \in subgraphs'[j].entries : ~ Cross(x.edge, U)
    <3> SUFFICES ASSUME NEW j \in 1 .. k - 1
                 PROVE  \A x \in subgraphs'[j].entries : ~ Cross(x.edge, U)
      OBVIOUS
    <3>1. j \in DOMAIN subgraphs' /\ j + 1 \in 1 .. k
      BY <1>4, <2>3
    <3> QED BY <1>4, <2>4, <3>1
  <2>7. Before(k, U)'
    BY <2>5, <2>6 DEF Before
  <2> QED BY <2>2, <2>7
<1>11. ForestOK'
  BY <1>1, <1>2, <1>5, <1>6, DrawForest
<1>12. Spanned'
  <2> SUFFICES ASSUME NEW S \in SUBSET Vertex, NEW u \in Vertex, NEW v \in Vertex,
                      par[u] = par[v], u \in S, v \notin S
               PROVE  Awaited(S)' \/ \E x \in forest' : Cross(x.edge, S)
    BY <1>1 DEF Spanned
  <2>1. CASE \E x \in forest : Cross(x.edge, S)
    BY <1>2, <2>1
  <2>2. ASSUME NEW k \in DOMAIN subgraphs,
               NEW Q \in (SUBSET subgraphs[k].comp) \ {{}, subgraphs[k].comp},
               \A x \in subgraphs[k].entries : Split(x.ends, Q) => Cross(x.edge, S)
        PROVE  Awaited(S)' \/ \E x \in forest' : Cross(x.edge, S)
    <3>1. CASE k = 1
      <4>1. PICK t \in T : Split(t.ends, Q)
        BY <1>5, <3>1 DEF g
      <4>2. Cross(t.edge, S)
        BY <1>5, <2>2, <3>1, <4>1 DEF g
      <4> QED BY <1>8, <4>2 DEF Cross
    <3>2. CASE k # 1
      <4>1. k - 1 \in DOMAIN subgraphs' /\ (k - 1) + 1 = k
        BY <1>4, <3>2
      <4>2. subgraphs'[k - 1] = subgraphs[k]
        BY <1>4, <4>1
      <4>3. Awaited(S)'
        BY <2>2, <4>1, <4>2 DEF Awaited
      <4> QED BY <4>3
    <3> QED BY <3>1, <3>2
  <2> QED BY <1>6, <2>1, <2>2 DEF Spanned, Awaited
<1> QED BY <1>9, <1>10, <1>11, <1>12 DEF ResultOK

\* What the other steps leave alone.
LEMMA SameResult ==
    ASSUME ResultOK, UNCHANGED <<edges, par, subgraphs, forest>>
    PROVE  ResultOK'
<1>1. AllEdges' = AllEdges /\ Drawn' = Drawn
  BY DEF AllEdges, Drawn
<1>2. /\ \A g : SubgraphOK(g)' <=> SubgraphOK(g)
      /\ \A S : Awaited(S)' <=> Awaited(S)
      /\ \A k, U : Before(k, U)' <=> Before(k, U)
  BY DEF SubgraphOK, Awaited, Before
<1>3. /\ \A g, Q, U : Lifts(g, Q, U)' <=> Lifts(g, Q, U)
      /\ \A F, f, S : Needed(F, f, S)' <=> Needed(F, f, S)
  BY <1>1 DEF Lifts, Needed
<1>4. \A F : EachNeeded(F)' <=> EachNeeded(F)
  BY <1>3 DEF EachNeeded
<1>5. \A k \in DOMAIN subgraphs' : SubgraphOK(subgraphs[k])'
  BY <1>2 DEF ResultOK
<1>6. CutsRemain'
  BY <1>2, <1>3 DEF ResultOK, CutsRemain
<1>7. ForestOK'
  BY <1>1, <1>4 DEF ResultOK, ForestOK
<1>8. Spanned'
  BY <1>2 DEF ResultOK, Spanned
<1> QED BY <1>5, <1>6, <1>7, <1>8 DEF ResultOK

LEMMA NextResult ==
    ASSUME IInv, RInv, [Next]_vars
    PROVE  RInv'
<1>1. TypeOK /\ PartitionOK /\ AdjOK /\ ResultOK
  BY DEF IInv, RInv
<1>2. CASE MergeIsolated
  <2>1. PICK w \in needReconnecting : \E C \in FirstComponent(opened[w]) : \E r \in C :
           Merge(C, w, r)
    BY <1>2 DEF MergeIsolated
  <2>2. PICK C \in FirstComponent(opened[w]) : \E r \in C : Merge(C, w, r)
    BY <2>1
  <2>3. PICK r \in C : Merge(C, w, r)
    BY <2>2
  <2>4. Mergeable(C, w)
    BY <1>1, OpenedMergeable DEF FirstComponent, TypeOK
  <2>5. edges' = edges /\ forest' = forest /\ pc' = "merge"
    BY <1>2 DEF MergeIsolated
  <2>6. ResultOK'
    BY <1>1, <2>3, <2>4, <2>5, MergeResult
  <2> QED BY <2>5, <2>6 DEF RInv
<1>3. CASE MergeChain
  <2>1. PICK w \in Weight : \E r \in Vertex :
           Chain(w) /\ Merge(weightVertices[w] \cup {firstMerged}, w, r)
    BY <1>3 DEF MergeChain
  <2>2. PICK r \in Vertex : Chain(w) /\ Merge(weightVertices[w] \cup {firstMerged}, w, r)
    BY <2>1
  <2>3. Mergeable(weightVertices[w] \cup {firstMerged}, w)
    BY <1>3, <2>2, ChainMergeable DEF MergeChain
  <2>4. r \in weightVertices[w] \cup {firstMerged}
    BY <2>2 DEF Merge, MergeRoot
  <2>5. edges' = edges /\ forest' = forest /\ pc' = "chain"
    BY <1>3 DEF MergeChain
  <2>6. ResultOK'
    BY <1>1, <2>2, <2>3, <2>4, <2>5, MergeResult
  <2> QED BY <2>5, <2>6 DEF RInv
<1>4. CASE ReadSubgraph
  <2>1. pc' = "select"
    BY <1>4 DEF ReadSubgraph
  <2> QED BY <1>1, <1>4, <2>1, ReadSubgraphResult DEF RInv
<1>5. CASE \/ RecomputeWeights \/ Reconnect \/ AllMerged \/ ChainDone \/ FindSubgraphMSFs
           \/ Finish \/ Terminated \/ UNCHANGED vars
  <2>1. UNCHANGED <<edges, par, subgraphs, forest>>
    BY <1>5 DEF RecomputeWeights, RecomputeInto, Reconnect, AllMerged, ChainDone,
                FindSubgraphMSFs, Finish, Terminated, vars
  <2>2. pc' = "done" => subgraphs = << >>
    BY <1>5 DEF RecomputeWeights, RecomputeInto, Reconnect, AllMerged, ChainDone,
                FindSubgraphMSFs, Finish, Terminated, vars, RInv
  <2> QED BY <1>1, <2>1, <2>2, SameResult DEF RInv
<1> QED BY <1>2, <1>3, <1>4, <1>5 DEF Next

\* What is needed of the forest, said with the operators of MsfContraction.
LEMMA DoneIsMsf ==
    ASSUME IInv, RInv, pc = "done"
    PROVE  Contraction!IsMsf(Drawn)
<1>1. /\ TypeOK /\ PartitionOK /\ ClustersAccounted /\ PhaseOK /\ ForestOK /\ Spanned
      /\ subgraphs = << >>
  BY DEF IInv, RInv, ResultOK
<1>2. Drawn \subseteq AllEdges
  BY <1>1 DEF Drawn, ForestOK
<1>3. \A f \in Drawn : \E S \in SUBSET Vertex : Needed(Drawn, f, S)
  BY <1>1 DEF ForestOK, EachNeeded
<1>4. ASSUME NEW e \in AllEdges PROVE par[e.u] = par[e.v]
  <2>1. e.u \in Vertex /\ par[e.u] \in Roots
    BY <1>1, AllEdgesAreEdges DEF TypeOK, PartitionOK, Roots
  <2>2. \A f \in AllEdges : External(f) => ~ Incident(f, par[e.u])
    BY <1>1, <2>1 DEF ClustersAccounted, PhaseOK
  <2> QED BY <2>2 DEF External, Incident
<1>5. ASSUME NEW S \in SUBSET Vertex, NEW e \in AllEdges, Cross(e, S)
      PROVE  \E f \in Drawn : Cross(f, S)
  <2>1. e.u \in Vertex /\ e.v \in Vertex /\ par[e.u] = par[e.v]
    BY <1>1, <1>4, AllEdgesAreEdges
  <2>2. \E u, v \in Vertex : par[u] = par[v] /\ u \in S /\ v \notin S
    BY <1>5, <2>1 DEF Cross
  <2>3. ~ Awaited(S)
    BY <1>1 DEF Awaited
  <2>4. PICK x \in forest : Cross(x.edge, S)
    BY <1>1, <2>2, <2>3 DEF Spanned
  <2> QED BY <2>4 DEF Drawn
<1>6. \A e, S : Contraction!Crosses(e, S) <=> Cross(e, S)
  BY DEF Contraction!Crosses, Cross
<1> QED BY <1>2, <1>3, <1>5, <1>6 DEF Contraction!IsMsf, Needed

(***************************************************************************)
(* The theorems.                                                           *)
(***************************************************************************)

\* What waits to be drawn, and what is drawn, is always part of a minimum
\* spanning forest.
THEOREM ResultInvariance == Spec => [](IInv /\ RInv)
<1>1. Init => RInv
  BY InitResult
<1>2. IInv /\ RInv /\ [Next]_vars => RInv'
  BY NextResult
<1> QED BY <1>1, <1>2, Invariance, PTL DEF Spec

\* Every subgraph given to phase 2 joins two clusters or more, by edges of the
\* merge's own weight, and is connected.
THEOREM SubgraphsAlwaysSound == Spec => []SubgraphsSound
<1>1. IInv /\ RInv => SubgraphsSound
  <2> SUFFICES ASSUME RInv, NEW k \in DOMAIN subgraphs
               PROVE  LET g == subgraphs[k]
                      IN  /\ Cardinality(g.comp) >= 2
                          /\ \A x \in g.entries :
                               /\ x.ends \subseteq g.comp /\ Cardinality(x.ends) = 2
                               /\ x.edge.w = g.weight
                          /\ \A S \in (SUBSET g.comp) \ {{}, g.comp} :
                               \E x \in g.entries : /\ x.ends \cap S # {}
                                                    /\ x.ends \cap (g.comp \ S) # {}
    BY DEF SubgraphsSound
  <2> DEFINE g == subgraphs[k]
  <2>1. SubgraphOK(g)
    BY DEF RInv, ResultOK
  <2> HIDE DEF g
  <2>2. ASSUME NEW x \in g.entries
        PROVE  x.ends \subseteq g.comp /\ Cardinality(x.ends) = 2
    <3>1. PICK a, b \in g.comp : a # b /\ x.ends = {a, b}
      BY <2>1 DEF SubgraphOK
    <3>2. {a, b} = {a} \cup {b} /\ b \notin {a}
      BY <3>1
    <3>3. IsFiniteSet({a}) /\ Cardinality({a}) = 1
      BY FS_Singleton
    <3>4. Cardinality({a} \cup {b}) = Cardinality({a}) + 1
      BY ONLY <3>2, <3>3, FS_AddElement
    <3> QED BY <3>1, <3>2, <3>3, <3>4
  <2>3. ASSUME NEW S \in (SUBSET g.comp) \ {{}, g.comp}
        PROVE  \E x \in g.entries : x.ends \cap S # {} /\ x.ends \cap (g.comp \ S) # {}
    <3>1. PICK x \in g.entries : Split(x.ends, S)
      BY <2>1 DEF SubgraphOK
    <3>2. x.ends \subseteq g.comp
      BY <2>2
    <3> QED BY <3>1, <3>2 DEF Split
  <2>4. Cardinality(g.comp) >= 2 /\ \A x \in g.entries : x.edge.w = g.weight
    BY <2>1 DEF SubgraphOK
  <2> QED BY <2>2, <2>3, <2>4 DEF g
<1> QED BY <1>1, ResultInvariance, PTL

\* When msf() is done the forest is a minimum spanning forest of both inputs
\* together, and each of its edges is selected at one party only.
THEOREM DrawsMsf == Spec => []ResultIsMsf
<1>1. IInv /\ RInv => ResultIsMsf
  <2> SUFFICES ASSUME IInv, RInv, pc = "done"
               PROVE  /\ Contraction!IsMsf({x.edge : x \in forest})
                      /\ \A x, y \in forest : x.edge = y.edge => x = y
    BY DEF ResultIsMsf
  <2>1. Contraction!IsMsf(Drawn)
    BY DoneIsMsf
  <2>2. \A x, y \in forest : x.edge = y.edge => x = y
    BY DEF RInv, ResultOK, ForestOK
  <2> QED BY <2>1, <2>2 DEF Drawn
<1> QED BY <1>1, ResultInvariance, PTL

\* An edge that becomes internal by a merge is no lighter than the merge, and
\* is handed to phase 2 by the party that owns it when it has that weight.
THEOREM NothingEverDropped == Spec => NothingDropped
<1> DEFINE HandedOver(p, e) ==
        LET g == subgraphs'[Len(subgraphs')]
        IN  /\ e.w >= g.weight
            /\ e.w = g.weight => \E x \in g.entries : x.party = p /\ x.edge = e
    Kept == \A p \in Party : \A e \in edges[p] :
        par[e.u] # par[e.v] /\ par'[e.u] = par'[e.v] /\ Len(subgraphs') > 0 =>
            HandedOver(p, e)
<1>1. ASSUME IInv, [Next]_vars PROVE Kept
  <2> SUFFICES ASSUME NEW p \in Party, NEW e \in edges[p],
                      par[e.u] # par[e.v], par'[e.u] = par'[e.v]
               PROVE  HandedOver(p, e)
    OBVIOUS
  <2>1. TypeOK /\ PartitionOK /\ AdjOK
    BY <1>1 DEF IInv
  <2>2. CASE MergeIsolated
    <3>1. PICK w \in needReconnecting : \E C \in FirstComponent(opened[w]) : \E r \in C :
             Merge(C, w, r)
      BY <2>2 DEF MergeIsolated
    <3>2. PICK C \in FirstComponent(opened[w]) : \E r \in C : Merge(C, w, r)
      BY <3>1
    <3>3. PICK r \in C : Merge(C, w, r)
      BY <3>2
    <3>4. Mergeable(C, w)
      BY <1>1, <2>1, OpenedMergeable DEF FirstComponent, TypeOK
    <3>5. edges' = edges
      BY <2>2 DEF MergeIsolated
    <3> QED BY <2>1, <3>3, <3>4, <3>5, MergeHandsOver
  <2>3. CASE MergeChain
    <3>1. PICK w \in Weight : \E r \in Vertex :
             Chain(w) /\ Merge(weightVertices[w] \cup {firstMerged}, w, r)
      BY <2>3 DEF MergeChain
    <3>2. PICK r \in Vertex : Chain(w) /\ Merge(weightVertices[w] \cup {firstMerged}, w, r)
      BY <3>1
    <3>3. Mergeable(weightVertices[w] \cup {firstMerged}, w)
      BY <1>1, <2>3, <3>2, ChainMergeable DEF MergeChain
    <3>4. r \in weightVertices[w] \cup {firstMerged} /\ edges' = edges
      BY <2>3, <3>2 DEF Merge, MergeRoot, MergeChain
    <3> QED BY <2>1, <3>2, <3>3, <3>4, MergeHandsOver
  <2>4. CASE \/ RecomputeWeights \/ Reconnect \/ AllMerged \/ ChainDone \/ FindSubgraphMSFs
             \/ ReadSubgraph \/ Finish \/ Terminated \/ UNCHANGED vars
    <3>1. par' = par
      BY <2>4 DEF RecomputeWeights, RecomputeInto, Reconnect, AllMerged, ChainDone,
                  FindSubgraphMSFs, ReadSubgraph, Finish, Terminated, vars
    <3> QED BY <3>1
  <2> QED BY <1>1, <2>2, <2>3, <2>4 DEF Next
<1>2. IInv /\ [Next]_vars => [Kept]_vars
  BY <1>1
<1> QED BY <1>2, Invariance, PTL DEF Spec, NothingDropped

------------------------------------------------------------------------------
(***************************************************************************)
(* A machine-checked proof that every step of msf() is a step of           *)
(* MsfContraction or changes nothing that it speaks of, for every number   *)
(* of vertices, every range of weights and every pair of inputs.  (That    *)
(* the steps go on until the end is ImplementsContraction's part about     *)
(* fairness, which TLC checks.)                                            *)
(***************************************************************************)

\* The terms that ImplementsContraction puts for the variables of the module.
View(g) == [parts |-> Cardinality(g.comp), light |-> {x.edge : x \in g.entries}]
Pending == [k \in DOMAIN subgraphs |-> View(subgraphs[k])]
Clusters == {component[r] : r \in Roots}
Phase == IF pc \in {"select", "done"} THEN "draw" ELSE "contract"

(***************************************************************************)
(* The queue.                                                              *)
(***************************************************************************)

LEMMA ViewSeq ==
    ASSUME NEW Item, NEW s \in Seq(Item), NEW V, \A k \in DOMAIN s : View(s[k]) \in V
    PROVE  /\ [k \in DOMAIN s |-> View(s[k])] \in Seq(V)
           /\ Len([k \in DOMAIN s |-> View(s[k])]) = Len(s)
<1> DEFINE f == [k \in DOMAIN s |-> View(s[k])]
<1>1. Len(s) \in Nat /\ DOMAIN s = 1 .. Len(s)
  BY LenProperties
<1>2. f \in [1 .. Len(s) -> V]
  BY <1>1
<1> HIDE DEF f
<1>3. f \in Seq(V) /\ Len(f) = Len(s)
  BY <1>1, <1>2
<1> QED BY <1>3 DEF f

LEMMA AppendView ==
    ASSUME NEW Item, NEW s \in Seq(Item), NEW x \in Item, NEW t, t = Append(s, x)
    PROVE  [k \in DOMAIN t |-> View(t[k])] = Append([k \in DOMAIN s |-> View(s[k])], View(x))
<1> DEFINE f == [k \in DOMAIN s |-> View(s[k])]
           h == [k \in DOMAIN t |-> View(t[k])]
           V == {View(i) : i \in Item}
<1>1. /\ Len(s) \in Nat /\ Len(t) = Len(s) + 1
      /\ DOMAIN s = 1 .. Len(s) /\ DOMAIN t = 1 .. Len(t)
      /\ t \in Seq(Item)
      /\ \A k \in 1 .. Len(s) : t[k] = s[k]
      /\ t[Len(s) + 1] = x
  BY AppendProperties, LenProperties
<1>2. /\ \A k \in DOMAIN s : s[k] \in Item
      /\ \A k \in DOMAIN t : t[k] \in Item
  BY <1>1
<1>3. /\ \A k \in DOMAIN s : View(s[k]) \in V
      /\ \A k \in DOMAIN t : View(t[k]) \in V
      /\ View(x) \in V
  BY <1>2
<1>4. /\ \A k \in 1 .. Len(s) : f[k] = View(s[k])
      /\ \A k \in 1 .. Len(t) : h[k] = View(t[k])
  BY <1>1
<1>5. f \in Seq(V) /\ Len(f) = Len(s)
  <2> HIDE DEF V
  <2> QED BY <1>3, ViewSeq
<1>6. h \in Seq(V) /\ Len(h) = Len(t)
  <2> HIDE DEF V
  <2> QED BY <1>1, <1>3, ViewSeq
<1> HIDE DEF f, h, V
<1>7. h = Append(f, View(x))
  <2>1. /\ Append(f, View(x)) \in Seq(V)
        /\ Len(Append(f, View(x))) = Len(f) + 1
        /\ \A k \in 1 .. Len(f) : Append(f, View(x))[k] = f[k]
        /\ Append(f, View(x))[Len(f) + 1] = View(x)
    BY <1>3, <1>5, AppendProperties
  <2> DEFINE a == Append(f, View(x))
  <2>2. \A k \in 1 .. Len(h) : h[k] = a[k]
    BY <1>1, <1>4, <1>5, <1>6, <2>1
  <2> QED BY <1>1, <1>5, <1>6, <2>1, <2>2, SeqEqual
<1> QED BY <1>7 DEF f, h

LEMMA TailView ==
    ASSUME NEW Item, NEW s \in Seq(Item), s # << >>, NEW t, t = Tail(s)
    PROVE  /\ [k \in DOMAIN s |-> View(s[k])] # << >>
           /\ Head([k \in DOMAIN s |-> View(s[k])]) = View(Head(s))
           /\ [k \in DOMAIN t |-> View(t[k])] = Tail([k \in DOMAIN s |-> View(s[k])])
<1> DEFINE f == [k \in DOMAIN s |-> View(s[k])]
           h == [k \in DOMAIN t |-> View(t[k])]
           V == {View(i) : i \in Item}
<1>1. /\ t \in Seq(Item) /\ Len(s) \in Nat /\ Len(s) # 0 /\ Len(t) = Len(s) - 1
      /\ DOMAIN s = 1 .. Len(s) /\ DOMAIN t = 1 .. Len(s) - 1
      /\ 1 \in DOMAIN s /\ s[1] = Head(s)
      /\ \A k \in DOMAIN t : k + 1 \in DOMAIN s /\ t[k] = s[k + 1]
  BY TailAt
<1>2. /\ \A k \in DOMAIN s : s[k] \in Item
      /\ \A k \in DOMAIN t : t[k] \in Item
  BY <1>1
<1>3. /\ \A k \in DOMAIN s : View(s[k]) \in V
      /\ \A k \in DOMAIN t : View(t[k]) \in V
  BY <1>2
<1>4. /\ \A k \in 1 .. Len(s) : f[k] = View(s[k])
      /\ \A k \in DOMAIN t : h[k] = View(t[k])
  BY <1>1
<1>5. f \in Seq(V) /\ Len(f) = Len(s)
  <2> HIDE DEF V
  <2> QED BY <1>3, ViewSeq
<1>6. h \in Seq(V) /\ Len(h) = Len(t)
  <2> HIDE DEF V
  <2> QED BY <1>1, <1>3, ViewSeq
<1> HIDE DEF f, h, V
<1>7. f # << >>
  BY <1>1, <1>5
<1>8. Head(f) = View(Head(s))
  BY <1>1, <1>4, <1>5, <1>7
<1>9. h = Tail(f)
  <2>1. /\ Tail(f) \in Seq(V) /\ Len(Tail(f)) = Len(f) - 1
        /\ \A k \in 1 .. Len(Tail(f)) : Tail(f)[k] = f[k + 1]
    BY <1>5, <1>7, HeadTailProperties
  <2>2. \A k \in 1 .. Len(h) : h[k] = Tail(f)[k]
    BY <1>1, <1>4, <1>5, <1>6, <2>1
  <2> QED BY <1>1, <1>5, <1>6, <2>1, <2>2, SeqEqual
<1> QED BY <1>7, <1>8, <1>9 DEF f, h

(***************************************************************************)
(* A merge is a contraction.                                               *)
(***************************************************************************)

\* The clusters of a set of roots, counted and joined.
LEMMA ClustersOf ==
    ASSUME TypeOK, PartitionOK, NEW C \in SUBSET Roots
    PROVE  LET D == {component[q] : q \in C}
           IN  /\ D \in SUBSET Clusters
               /\ Cardinality(D) = Cardinality(C)
               /\ UNION D = {v \in Vertex : par[v] \in C}
               /\ Clusters \ D = {component[q] : q \in Roots \ C}
<1> DEFINE D == {component[q] : q \in C}
<1>1. \A q \in Roots : q \in Vertex /\ q \in component[q]
                       /\ component[q] = {v \in Vertex : par[v] = q}
  BY DEF PartitionOK, Roots
<1>2. \A q, s \in Roots : component[q] = component[s] => q = s
  BY <1>1
<1>3. D \in SUBSET Clusters
  BY DEF Clusters
<1>4. Cardinality(D) = Cardinality(C)
  <2> DEFINE f == [q \in C |-> component[q]]
  <2>1. f \in Injection(C, D)
    BY <1>2 DEF Injection, IsInjective
  <2>2. f \in Surjection(C, D)
    BY DEF Surjection
  <2>3. IsFiniteSet(C)
    BY Ranges, FS_Subset DEF Roots
  <2> HIDE DEF f, D
  <2>4. IsFiniteSet(D) /\ (Cardinality(D) = Cardinality(C) <=> f \in Injection(C, D))
    BY <2>2, <2>3, FS_Surjection
  <2> QED BY <2>1, <2>4
<1>5. UNION D = {v \in Vertex : par[v] \in C}
  BY <1>1
<1>6. Clusters \ D = {component[q] : q \in Roots \ C}
  <2>1. \A q \in Roots \ C : component[q] \notin D
    BY <1>2
  <2> QED BY <2>1 DEF Clusters
<1> QED BY <1>3, <1>4, <1>5, <1>6

\* What crosses the union of some of the clusters of C leaves their roots.
LEMMA CrossesUnion ==
    ASSUME TypeOK, PartitionOK, NEW Q \in SUBSET Roots, NEW e \in AllEdges
    PROVE  Contraction!Crosses(e, UNION {component[q] : q \in Q}) <=> Leaves(e, Q)
<1>1. UNION {component[q] : q \in Q} = {v \in Vertex : par[v] \in Q}
  BY ClustersOf
<1>2. e.u \in Vertex /\ e.v \in Vertex
  BY AllEdgesAreEdges
<1> QED BY <1>1, <1>2 DEF Contraction!Crosses, Leaves

LEMMA MergeContracts ==
    ASSUME TypeOK, PartitionOK, AdjOK, NEW C, NEW w, Mergeable(C, w), NEW r \in C,
           Merge(C, w, r), edges' = edges
    PROVE  \E D \in {S \in SUBSET Clusters : Cardinality(S) >= 2} :
             /\ Clusters' = (Clusters \ D) \cup {UNION D}
             /\ \E e \in AllEdges :
                  /\ Contraction!Contractible(D, e.w)
                  /\ Pending' = Append(Pending, [parts |-> Cardinality(D),
                                                 light |-> Contraction!Between(D, e.w)])
<1> DEFINE D == {component[q] : q \in C}
<1>1. /\ C \in SUBSET Roots /\ w \in Weight /\ NoLeaving(C, w) /\ Cardinality(C) >= 2
      /\ \A e \in AllEdges : External(e) /\ par[e.u] \in C /\ par[e.v] \in C => w <= e.w
      /\ \A Q \in (SUBSET C) \ {{}, C} : ~ NoLeaving(Q, w)
  BY DEF Mergeable
<1>2. /\ D \in SUBSET Clusters
      /\ Cardinality(D) = Cardinality(C)
      /\ UNION D = {v \in Vertex : par[v] \in C}
      /\ Clusters \ D = {component[q] : q \in Roots \ C}
  BY <1>1, ClustersOf
<1>3. \A e \in AllEdges : e \in Edge /\ e.u \in Vertex /\ e.v \in Vertex /\ e.w \in Nat
  BY AllEdgesAreEdges
<1>4. \A q \in C : q \in Vertex /\ component[q] = {v \in Vertex : par[v] = q}
  BY <1>1 DEF PartitionOK, Roots
<1>5. Clusters' = (Clusters \ D) \cup {UNION D}
  <2>1. Roots' = (Roots \ C) \cup {r} /\ r \in Vertex
    BY <1>1, <1>4, MergeRelabels
  <2>2. component' = [component EXCEPT ![r] = UNION {component[x] : x \in C}]
    BY DEF Merge
  <2>3. component'[r] = UNION D /\ \A q \in Roots \ C : component'[q] = component[q]
    BY <2>1, <2>2 DEF TypeOK, Roots
  <2> HIDE DEF D
  <2>4. Clusters' = {component'[q] : q \in Roots \ C} \cup {component'[r]}
    BY <2>1 DEF Clusters
  <2> QED BY <1>2, <2>3, <2>4
<1>6. ASSUME NEW e \in AllEdges
      PROVE  e \in Contraction!Between(D, w) <=>
               e.w <= w /\ External(e) /\ par[e.u] \in C /\ par[e.v] \in C
  <2>1. (\E A, B \in D : A # B /\ e.u \in A /\ e.v \in B)
          <=> External(e) /\ par[e.u] \in C /\ par[e.v] \in C
    <3>1. ASSUME NEW a \in C, NEW b \in C, component[a] # component[b],
                 e.u \in component[a], e.v \in component[b]
          PROVE  External(e) /\ par[e.u] \in C /\ par[e.v] \in C
      BY <1>4, <3>1 DEF External
    <3>2. ASSUME External(e), par[e.u] \in C, par[e.v] \in C
          PROVE  \E A, B \in D : A # B /\ e.u \in A /\ e.v \in B
      <4>1. /\ component[par[e.u]] \in D /\ e.u \in component[par[e.u]]
            /\ component[par[e.v]] \in D /\ e.v \in component[par[e.v]]
            /\ e.u \notin component[par[e.v]]
        BY <1>3, <1>4, <3>2 DEF External
      <4> HIDE DEF D
      <4> QED BY <4>1
    <3> QED BY <3>1, <3>2
  <2> QED BY <2>1 DEF Contraction!Between
<1>7. \A x \in Entries(C, w) :
        /\ x.edge \in AllEdges /\ x.edge.w = w /\ External(x.edge)
        /\ par[x.edge.u] \in C /\ par[x.edge.v] \in C
  BY EntriesOfMerge DEF External
<1>8. Contraction!Between(D, w) = {x.edge : x \in Entries(C, w)}
  <2>1. ASSUME NEW e \in Contraction!Between(D, w)
        PROVE  \E x \in Entries(C, w) : x.edge = e
    <3>1. e \in AllEdges
      BY DEF Contraction!Between
    <3>2. e.w <= w /\ External(e) /\ par[e.u] \in C
      BY <1>6, <3>1
    <3>3. PICK p \in Party : e \in edges[p]
      BY <3>1 DEF AllEdges, Party
    <3> QED BY <3>2, <3>3, EntriesOfMerge
  <2>2. ASSUME NEW x \in Entries(C, w) PROVE x.edge \in Contraction!Between(D, w)
    <3>1. x.edge.w <= w
      BY <1>1, <1>7, Ranges
    <3> QED BY <1>6, <1>7, <3>1
  <2> HIDE DEF D
  <2> QED BY <2>1, <2>2
<1>9. Contraction!Contractible(D, w)
  <2>1. ASSUME NEW e \in AllEdges, e.w <= w PROVE ~ Contraction!Crosses(e, UNION D)
    BY <1>1, <2>1, CrossesUnion DEF NoLeaving
  <2>2. \A e \in Contraction!Between(D, w) : e.w = w
    <3> HIDE DEF D
    <3> QED BY <1>7, <1>8
  <2>3. ASSUME NEW S \in (SUBSET D) \ {{}, D}
        PROVE  \E e \in Contraction!Between(D, w) : Contraction!Crosses(e, UNION S)
    <3> DEFINE Q == {q \in C : component[q] \in S}
    <3>1. S = {component[q] : q \in Q}
      OBVIOUS
    <3>2. Q \in (SUBSET C) \ {{}, C}
      BY <3>1
    <3>3. PICK e \in AllEdges : e.w <= w /\ Leaves(e, Q)
      BY <1>1, <3>2 DEF NoLeaving
    <3>4. Contraction!Crosses(e, UNION S)
      BY <1>1, <3>1, <3>2, <3>3, CrossesUnion
    <3>5. External(e) /\ par[e.u] \in C /\ par[e.v] \in C
      BY <1>1, <3>2, <3>3 DEF NoLeaving, Leaves, External
    <3>6. e \in Contraction!Between(D, w)
      BY <1>6, <3>3, <3>5
    <3> QED BY <3>4, <3>6
  <2> HIDE DEF D
  <2> QED BY <2>1, <2>2, <2>3 DEF Contraction!Contractible
<1>10. \E e \in AllEdges : e.w = w
  <2>1. {r} \in (SUBSET C) \ {{}, C}
    <3>1. Cardinality({r}) = 1
      BY FS_Singleton
    <3>2. ASSUME C = {r} PROVE FALSE
      <4>1. Cardinality(C) = 1
        BY <3>1, <3>2
      <4>2. Cardinality(C) >= 2
        BY <1>1
      <4> QED BY <4>1, <4>2
    <3> QED BY <3>2
  <2>2. PICK e \in AllEdges : e.w <= w /\ Leaves(e, {r})
    BY <1>1, <2>1 DEF NoLeaving
  <2>3. External(e) /\ par[e.u] \in C /\ par[e.v] \in C
    BY <1>1, <2>2 DEF NoLeaving, Leaves, External
  <2>4. w <= e.w
    BY <1>1, <2>3
  <2> QED BY <1>1, <1>3, <2>2, <2>4, Ranges
<1> DEFINE new == [comp |-> C, weight |-> w, entries |-> Entries(C, w)]
<1>11. Pending' = Append(Pending, View(new))
  <2>1. subgraphs' = Append(subgraphs, new)
    BY DEF Merge, Entries
  <2> HIDE DEF new
  <2>2. Pending' = [k \in DOMAIN subgraphs' |-> View(subgraphs'[k])]
    BY DEF Pending, View
  <2>3. new \in Subgraph \cup {new} /\ subgraphs \in Seq(Subgraph \cup {new})
    <3>1. subgraphs \in Seq(Subgraph)
      BY DEF TypeOK, Subgraph
    <3> QED BY <3>1
  <2> QED BY <2>1, <2>2, <2>3, AppendView DEF Pending
<1>12. View(new) = [parts |-> Cardinality(D), light |-> Contraction!Between(D, w)]
  <2>1. View(new) = [parts |-> Cardinality(C), light |-> {x.edge : x \in Entries(C, w)}]
    BY DEF View
  <2> HIDE DEF D, new
  <2> QED BY <1>2, <1>8, <2>1
<1> HIDE DEF D, new
<1>13. D \in {S \in SUBSET Clusters : Cardinality(S) >= 2}
  BY <1>1, <1>2
<1> QED BY <1>5, <1>9, <1>10, <1>11, <1>12, <1>13

(***************************************************************************)
(* The other steps.                                                        *)
(***************************************************************************)

\* When no cluster is asked for or filed, no edge is left between clusters.
LEMMA NothingBetween ==
    ASSUME TypeOK, PartitionOK, ClustersAccounted,
           needRecomputing = {}, \A w \in Weight : weightVertices[w] = {}
    PROVE  \A C \in Clusters : \A e \in AllEdges : ~ Contraction!Crosses(e, C)
<1>1. ASSUME NEW e \in AllEdges PROVE par[e.u] = par[e.v]
  <2>1. e.u \in Vertex /\ par[e.u] \in Roots
    BY AllEdgesAreEdges DEF TypeOK, PartitionOK, Roots
  <2>2. \A f \in AllEdges : External(f) => ~ Incident(f, par[e.u])
    BY <2>1 DEF ClustersAccounted
  <2> QED BY <2>2 DEF External, Incident
<1>2. \A q \in Roots : component[q] = {v \in Vertex : par[v] = q}
  BY DEF PartitionOK
<1> QED BY <1>1, <1>2, AllEdgesAreEdges DEF Clusters, Contraction!Crosses

\* The tree that is read out can be drawn.
LEMMA ReadSubgraphDraws ==
    ASSUME TypeOK, ResultOK, ReadSubgraph
    PROVE  /\ Pending # << >>
           /\ \E X \in SUBSET Head(Pending).light :
                /\ Cardinality(X) = Head(Pending).parts - 1
                /\ Contraction!Acyclic(Drawn \cup X)
                /\ Drawn' = Drawn \cup X
           /\ Pending' = Tail(Pending)
<1>1. subgraphs # << >> /\ subgraphs' = Tail(subgraphs)
  BY DEF ReadSubgraph
<1>2. PICK T \in SpanningTrees(Head(subgraphs).entries, Head(subgraphs).comp) :
         forest' = forest \cup Selected(T)
  BY DEF ReadSubgraph, Selected
<1>3. subgraphs \in Seq(Subgraph)
  BY DEF TypeOK, Subgraph
<1> HIDE DEF Subgraph
<1>4. 1 \in DOMAIN subgraphs /\ subgraphs[1] = Head(subgraphs)
  BY <1>1, <1>3, TailAt
<1>5. /\ Pending # << >>
      /\ Head(Pending) = View(Head(subgraphs))
      /\ Pending' = Tail(Pending)
  <2>1. Pending' = [k \in DOMAIN subgraphs' |-> View(subgraphs'[k])]
    BY DEF Pending, View
  <2> QED BY <1>1, <1>3, <2>1, TailView DEF Pending
<1> DEFINE X == {t.edge : t \in T}
           g == subgraphs[1]
<1>6. T \in SpanningTrees(g.entries, g.comp) /\ 1 \in DOMAIN subgraphs
  BY <1>2, <1>4
<1>7. View(Head(subgraphs)) = [parts |-> Cardinality(g.comp),
                               light |-> {x.edge : x \in g.entries}]
  BY <1>4 DEF View
<1>8. g = subgraphs[1]
  OBVIOUS
<1> HIDE DEF g
<1>9. IsFiniteSet(T) /\ Cardinality(T) = Cardinality(g.comp) - 1
  BY <1>6, <1>8, TreeEdgesCut
<1>10. \A t \in T : t \in g.entries
  BY <1>6, <1>8, TreeEdgesCut
<1>11. \A t \in T : \E U \in SUBSET Vertex : CutFor(T, t, U)
  BY <1>6, <1>8, TreeEdgesCut
<1>12. Head(Pending).parts = Cardinality(g.comp)
       /\ Head(Pending).light = {x.edge : x \in g.entries}
  BY <1>5, <1>7
<1>13. X \in SUBSET Head(Pending).light
  BY <1>10, <1>12
<1>14. Cardinality(X) = Cardinality(T)
  <2> DEFINE f == [t \in T |-> t.edge]
  <2>1. f \in Surjection(T, X)
    BY DEF Surjection
  <2>2. ASSUME NEW t \in T, NEW y \in T, t.edge = y.edge PROVE t = y
    <3>1. PICK U \in SUBSET Vertex : CutFor(T, t, U)
      BY <1>11
    <3> QED BY <2>2, <3>1 DEF CutFor
  <2>3. f \in Injection(T, X)
    BY <2>2 DEF Injection, IsInjective
  <2> HIDE DEF f, X
  <2> QED BY <1>9, <2>1, <2>3, FS_Surjection
<1>15. Drawn' = Drawn \cup X
  BY <1>2, DrawnGrows
<1> HIDE DEF X
<1>16. Contraction!Acyclic(Drawn \cup X)
  <2>1. ForestOK'
    BY ReadSubgraphResult DEF ResultOK
  <2>2. \A f \in Drawn' : \E S \in SUBSET Vertex : \A e \in Drawn' : Cross(e, S) <=> e = f
    BY <2>1 DEF ForestOK, EachNeeded, Needed
  <2> QED BY <1>15, <2>2 DEF Contraction!Acyclic, Contraction!Crosses, Cross
<1> QED BY <1>5, <1>9, <1>12, <1>13, <1>14, <1>15, <1>16

LEMMA SameView ==
    ASSUME UNCHANGED <<edges, par, component, subgraphs, forest>>
    PROVE  UNCHANGED <<AllEdges, Clusters, Pending, Drawn>>
BY DEF AllEdges, Clusters, Roots, Pending, View, Drawn

(***************************************************************************)
(* The theorem.                                                            *)
(***************************************************************************)

LEMMA InitContraction == Init => Contraction!Init
<1> SUFFICES ASSUME Init PROVE Contraction!Init
  OBVIOUS
<1>1. AllEdges \in {i["SERVER"] \cup i["CLIENT"] : i \in Inputs}
  BY DEF Init, AllEdges
<1>2. Clusters = {{v} : v \in Vertex}
  <2>1. Roots = Vertex /\ \A v \in Vertex : component[v] = {v}
    BY DEF Init, Roots
  <2> QED BY <2>1 DEF Clusters
<1>3. Pending = << >>
  <2>1. subgraphs \in Seq({}) /\ Len(subgraphs) = 0 /\ DOMAIN subgraphs = {}
    BY DEF Init
  <2>2. Pending \in Seq({}) /\ Len(Pending) = 0
    BY <2>1, ViewSeq DEF Pending
  <2> QED BY <2>2
<1>4. {x.edge : x \in forest} = {} /\ pc = "main"
  BY DEF Init
<1> QED BY <1>1, <1>2, <1>3, <1>4 DEF Contraction!Init, Clusters, Pending, View

LEMMA SameCardinality == \A S : Contraction!Cardinality(S) = Cardinality(S)
BY DEF Contraction!Cardinality, Cardinality

\* The actions of the module, with the terms above for its variables.
LEMMA ContractForm ==
    Contraction!Contract <=>
        /\ Phase = "contract"
        /\ \E D \in {S \in SUBSET Clusters : Contraction!Cardinality(S) >= 2} :
             /\ Clusters' = (Clusters \ D) \cup {UNION D}
             /\ \E w \in {e.w : e \in {f \in AllEdges : Contraction!Contractible(D, f.w)}} :
                  Pending' = Append(Pending, [parts |-> Contraction!Cardinality(D),
                                              light |-> Contraction!Between(D, w)])
        /\ UNCHANGED <<AllEdges, Drawn, Phase>>
BY DEF Contraction!Contract, Phase, Clusters, Pending, View, Drawn

LEMMA DrawForm ==
    Contraction!Draw <=>
        /\ Phase = "draw"
        /\ Pending # << >>
        /\ \E T \in {X \in SUBSET Head(Pending).light :
                         /\ Contraction!Cardinality(X) = Head(Pending).parts - 1
                         /\ Contraction!Acyclic(Drawn \cup X)} :
             Drawn' = Drawn \cup T
        /\ Pending' = Tail(Pending)
        /\ UNCHANGED <<AllEdges, Clusters, Phase>>
BY DEF Contraction!Draw, Phase, Clusters, Pending, View, Drawn

LEMMA NextContraction ==
    ASSUME IInv, IInv', RInv, [Next]_vars
    PROVE  [Contraction!Next]_(Contraction!vars)
<1>1. TypeOK /\ PartitionOK /\ AdjOK /\ ClustersAccounted /\ ResultOK
  BY DEF IInv, RInv
<1> DEFINE NoChange == UNCHANGED <<AllEdges, Clusters, Pending, Drawn, Phase>>
<1>2. NoChange => UNCHANGED Contraction!vars
  BY DEF Contraction!vars, Clusters, Pending, View, Drawn, Phase
<1> DEFINE Contracts ==
        /\ Phase = "contract" /\ Phase' = Phase /\ AllEdges' = AllEdges /\ Drawn' = Drawn
        /\ \E D \in {S \in SUBSET Clusters : Cardinality(S) >= 2} :
             /\ Clusters' = (Clusters \ D) \cup {UNION D}
             /\ \E e \in AllEdges :
                  /\ Contraction!Contractible(D, e.w)
                  /\ Pending' = Append(Pending, [parts |-> Cardinality(D),
                                                 light |-> Contraction!Between(D, e.w)])
<1>3. Contracts => Contraction!Next
  BY ContractForm, SameCardinality DEF Contraction!Next
<1>4. CASE MergeIsolated
  <2>1. PICK w \in needReconnecting : \E C \in FirstComponent(opened[w]) : \E r \in C :
           Merge(C, w, r)
    BY <1>4 DEF MergeIsolated
  <2>2. PICK C \in FirstComponent(opened[w]) : \E r \in C : Merge(C, w, r)
    BY <2>1
  <2>3. PICK r \in C : Merge(C, w, r)
    BY <2>2
  <2>4. Mergeable(C, w)
    BY <1>1, OpenedMergeable DEF FirstComponent, TypeOK
  <2>5. edges' = edges /\ forest' = forest /\ pc = "merge" /\ pc' = "merge"
    BY <1>4 DEF MergeIsolated
  <2>6. Phase = "contract" /\ Phase' = Phase /\ AllEdges' = AllEdges /\ Drawn' = Drawn
    BY <2>5 DEF Phase, AllEdges, Drawn
  <2>7. Contracts
    BY <1>1, <2>3, <2>4, <2>5, <2>6, MergeContracts
  <2> QED BY <1>3, <2>7
<1>5. CASE MergeChain
  <2>1. PICK w \in Weight : \E r \in Vertex :
           Chain(w) /\ Merge(weightVertices[w] \cup {firstMerged}, w, r)
    BY <1>5 DEF MergeChain
  <2>2. PICK r \in Vertex : Chain(w) /\ Merge(weightVertices[w] \cup {firstMerged}, w, r)
    BY <2>1
  <2>3. edges' = edges /\ forest' = forest /\ pc = "chain" /\ pc' = "chain"
    BY <1>5 DEF MergeChain
  <2>4. Mergeable(weightVertices[w] \cup {firstMerged}, w)
    BY <2>2, <2>3, ChainMergeable
  <2>5. r \in weightVertices[w] \cup {firstMerged}
    BY <2>2 DEF Merge, MergeRoot
  <2>6. Phase = "contract" /\ Phase' = Phase /\ AllEdges' = AllEdges /\ Drawn' = Drawn
    BY <2>3 DEF Phase, AllEdges, Drawn
  <2>7. Contracts
    BY <1>1, <2>2, <2>3, <2>4, <2>5, <2>6, MergeContracts
  <2> QED BY <1>3, <2>7
<1>6. CASE FindSubgraphMSFs
  <2>1. /\ pc = "main" /\ pc' = "select" /\ needRecomputing = {}
        /\ UNCHANGED <<edges, par, component, subgraphs, forest, weightVertices>>
    BY <1>6 DEF FindSubgraphMSFs
  <2>2. \A w \in Weight : weightVertices[w] = {}
    BY <2>1 DEF IInv, PhaseOK
  <2>3. \A C \in Clusters : \A e \in AllEdges : ~ Contraction!Crosses(e, C)
    BY <1>1, <2>1, <2>2, NothingBetween
  <2>4. UNCHANGED <<AllEdges, Clusters, Pending, Drawn>>
    BY <2>1, SameView
  <2>5. Phase = "contract" /\ Phase' = "draw"
    BY <2>1 DEF Phase
  <2>6. Contraction!StartDrawing
    BY <2>3, <2>4, <2>5 DEF Contraction!StartDrawing, Clusters, Pending, View, Drawn, Phase
  <2> QED BY <2>6 DEF Contraction!Next
<1>7. CASE ReadSubgraph
  <2>1. /\ Pending # << >>
        /\ \E X \in SUBSET Head(Pending).light :
             /\ Cardinality(X) = Head(Pending).parts - 1
             /\ Contraction!Acyclic(Drawn \cup X)
             /\ Drawn' = Drawn \cup X
        /\ Pending' = Tail(Pending)
    BY <1>1, <1>7, ReadSubgraphDraws
  <2>2. /\ AllEdges' = AllEdges /\ Clusters' = Clusters
        /\ Phase = "draw" /\ Phase' = Phase
    BY <1>7 DEF ReadSubgraph, AllEdges, Clusters, Roots, Phase
  <2>3. Contraction!Draw
    BY <2>1, <2>2, DrawForm, SameCardinality
  <2> QED BY <2>3 DEF Contraction!Next
<1>8. CASE \/ RecomputeWeights \/ Reconnect \/ AllMerged \/ ChainDone
           \/ Finish \/ Terminated \/ UNCHANGED vars
  <2>1. UNCHANGED <<edges, par, component, subgraphs, forest>>
    BY <1>8 DEF RecomputeWeights, RecomputeInto, Reconnect, AllMerged, ChainDone,
                Finish, Terminated, vars
  <2>2. Phase' = Phase
    BY <1>8 DEF RecomputeWeights, RecomputeInto, Reconnect, AllMerged, ChainDone,
                Finish, Terminated, vars, Phase
  <2>3. NoChange
    BY <2>1, <2>2, SameView
  <2> QED BY <1>2, <2>3
<1> QED BY <1>4, <1>5, <1>6, <1>7, <1>8 DEF Next

\* msf() starts as MsfContraction does, and each of its steps contracts a set
\* of clusters that may be contracted, draws a tree that may be drawn, or
\* changes nothing of these: the safety part of ImplementsContraction.
THEOREM ContractsOnly ==
    Spec => Contraction!Init /\ [][Contraction!Next]_(Contraction!vars)
<1>1. Init => Contraction!Init
  BY InitContraction
<1>2. IInv /\ RInv /\ IInv' /\ [Next]_vars => [Contraction!Next]_(Contraction!vars)
  BY NextContraction
<1> QED BY <1>1, <1>2, ResultInvariance, PTL DEF Spec
==============================================================================
