------------------------- MODULE ConnectivityCircuit -------------------------
(***************************************************************************)
(* The circuit with which both parties open how the K clusters of one      *)
(* weight are connected (CreateConnectivityCircuit of msf.cpp), and the    *)
(* loop that reads the components off the opened bits (FinishConnectivity).*)
(*                                                                         *)
(* The circuit adds the nodes one by one, node K (every other cluster)     *)
(* last, and keeps the reachability among the nodes added so far, the      *)
(* lower triangle of `matrix'.  Here matrix[a] is the set of the nodes b   *)
(* whose bit, at [max(a,b)][min(a,b)], is set.  One lane of the SIMD       *)
(* circuit is modelled: the lanes do not interact.                         *)
(***************************************************************************)
EXTENDS Integers, FiniteSets, Sequences, Closure

CONSTANTS
    K,            \* number of clusters
    Datas         \* the pairs of input matrices the parties may have

Party == {"SERVER", "CLIENT"}
Node == 0 .. K

ASSUME ConnectivityAssumption ==
    /\ K \in Nat
    /\ Datas \subseteq [Party -> [Node -> SUBSET Node]]
    /\ \A d \in Datas : \A p \in Party : \A n \in Node : d[p][n] \subseteq 0 .. n-1

VARIABLES
    data,         \* data[p][n]: the smaller nodes party p links n to
    node,         \* the node whose turn it is, in either loop
    matrix,
    done,         \* nodes that are in a component already
    res,          \* the components, in the order found
    pc

vars == <<data, node, matrix, done, res, pc>>

Row(n) == data["SERVER"][n] \cup data["CLIENT"][n]
Links == UNION {{{n, x} : x \in Row(n)} : n \in Node}

\* Mutant: only direct links count.
DirectlyReached(n) == Row(n)

\* The earlier nodes that n reaches: through an OR over its links.
Reached(n) == {j \in 0 .. n-1 : Row(n) \cap matrix[j] # {}}

\* Node n joins, and with it the earlier nodes it reaches become connected.
JoinThrough(x, n, reached) ==
    IF x = n THEN reached \cup {n}
    ELSE IF x \in reached THEN matrix[x] \cup reached \cup {n}
    ELSE matrix[x]

AddNode ==
    /\ pc = "build"
    /\ node \in Node
    /\ matrix' = [x \in Node |-> JoinThrough(x, node, Reached(node))]
    /\ node' = node + 1
    /\ UNCHANGED <<data, done, res, pc>>

\* The matrix is opened to both parties.
Open ==
    /\ pc = "build"
    /\ node = K + 1
    /\ node' = 0
    /\ pc' = "read"
    /\ UNCHANGED <<data, matrix, done, res>>

\* Mutant: nodes of a component read before are not skipped.
OnlyOutsideSkipped(n) == n \in matrix[K]

Skipped(n) == n \in done \/ n \in matrix[K]

ReadComponent ==
    /\ pc = "read"
    /\ node < K
    /\ ~ Skipped(node)
    /\ LET cur == {node} \cup {j \in node+1 .. K-1 : node \in matrix[j]}
       IN  /\ res' = Append(res, cur)
           /\ done' = done \cup cur
    /\ node' = node + 1
    /\ UNCHANGED <<data, matrix, pc>>

SkipNode ==
    /\ pc = "read"
    /\ node < K
    /\ Skipped(node)
    /\ node' = node + 1
    /\ UNCHANGED <<data, matrix, done, res, pc>>

Finish ==
    /\ pc = "read"
    /\ node = K
    /\ pc' = "done"
    /\ UNCHANGED <<data, node, matrix, done, res>>

Terminated == pc = "done" /\ UNCHANGED vars

Init ==
    /\ data \in Datas
    /\ node = 0
    /\ matrix = [n \in Node |-> {}]
    /\ done = {}
    /\ res = << >>
    /\ pc = "build"

Next == AddNode \/ Open \/ ReadComponent \/ SkipNode \/ Finish \/ Terminated

Spec == Init /\ [][Next]_vars

(***************************************************************************)
(* Properties.                                                             *)
(***************************************************************************)

TypeOK ==
    /\ data \in [Party -> [Node -> SUBSET Node]]
    /\ node \in 0 .. K+1
    /\ matrix \in [Node -> SUBSET Node]
    /\ done \subseteq 0 .. K-1
    /\ res \in Seq(SUBSET (0 .. K-1))
    /\ pc \in {"build", "read", "done"}

\* How many nodes the circuit has added.
Added == IF pc = "build" THEN 0 .. node-1 ELSE Node

LinksWithin(S) == {l \in Links : l \subseteq S}

Connected(a, b, S) ==
    \A T \in SUBSET S : a \in T /\ ClosedUnder(LinksWithin(S), T) => b \in T

\* After every node, one pass over the earlier bits has been enough: the
\* matrix is the full reachability among the nodes added, over the links of
\* both parties together.
MatrixIsConnectivity ==
    \A a \in Node : matrix[a] = {b \in Added : a \in Added /\ Connected(a, b, Added)}

\* The components read off are exactly those that node K is not in, each
\* once and ordered by their least cluster: what Msf takes them to be.
ComponentsRight ==
    pc = "done" =>
        /\ {res[c] : c \in DOMAIN res} = LeastClosed(Links, 0 .. K-1)
        /\ \A c, d \in DOMAIN res :
             c < d => \E x \in res[c] : \A y \in res[d] : x < y
==============================================================================
