----------------------------- MODULE SubgraphMsf -----------------------------
(***************************************************************************)
(* The circuit that draws a random spanning tree of one subgraph           *)
(* (CreateSubgraphCircuit of msf.cpp), and the loop that reads it out.     *)
(*                                                                         *)
(* The inputs are the numbers of parallel edges each party holds between   *)
(* every pair of the K clusters: slot q stands for the pair Ends(q) and    *)
(* the server (q even) or the client (q odd).  Each of the K-1 rounds      *)
(* draws a random number below the number of edges left, selects the edge  *)
(* it falls on by the prefix sums, relabels one end's component and clears *)
(* the slots inside it.                                                    *)
(***************************************************************************)
EXTENDS Integers, FiniteSets, Sequences

CONSTANTS
    K,            \* number of clusters
    Kappa,        \* kappa: tries to draw a number below the bound
    Modulus,      \* 2 ^ edgecount_bitlen
    Inputs        \* the counts of both parties

Slot == 0 .. K * (K-1) - 1
Cluster == 0 .. K-1
Dummy == Modulus - 1     \* edgecount_dummy

\* Slots are ordered by i, then j < i, then party.
Ends(q) ==
    LET t == q \div 2
        i == CHOOSE x \in Cluster : (x * (x-1)) \div 2 <= t /\ t < (x * (x+1)) \div 2
    IN  <<i, t - (i * (i-1)) \div 2>>

\* count's prefix sums in the adders' width, up to slot q.
Prefix(count, q) ==
    LET sum[n \in 0 .. K * (K-1)] == IF n = 0 THEN 0 ELSE (sum[n-1] + count[n-1]) % Modulus
    IN  sum[q+1]
Total(count) == Prefix(count, K * (K-1) - 1)

\* No overflow: each party reads an int number of edges.  The subgraph is
\* connected (Msf!SubgraphsSound).
ASSUME SubgraphAssumption ==
    /\ K \in Nat /\ K >= 2 /\ Kappa \in Nat \ {0} /\ Modulus \in Nat \ {0}
    /\ \A c \in Inputs :
         /\ c \in [Slot -> Nat]
         /\ \A q \in Slot : c[q] <= Prefix(c, q)
         /\ \A S \in (SUBSET Cluster) \ {{}, Cluster} :
              \E q \in Slot : c[q] > 0 /\ (Ends(q)[1] \in S) # (Ends(q)[2] \in S)

VARIABLES
    sizes,        \* the inputs: subgraph[i][j].size() of either party
    label,        \* u: the component label of each cluster
    count,        \* a: the edges left in each slot
    selected,     \* s: the index selected in each slot, or Dummy
    round,        \* z
    missed,       \* rounds in which every try was too large
    tree,         \* the slots and indices read out
    pc

vars == <<sizes, label, count, selected, round, missed, tree, pc>>

\* The multiplexer trees: of two neighbours the left one is kept if its flag
\* is set, and a node's flag is the OR of both.
Mux(a, b) ==
    [value |-> IF a.flag THEN a.value ELSE b.value, flag |-> a.flag \/ b.flag]

Halved(list) ==
    [k \in 1 .. (Len(list) + 1) \div 2 |->
        IF 2*k > Len(list) THEN list[2*k-1] ELSE Mux(list[2*k-1], list[2*k])]

\* The list is halved until one value is left.
MuxTree(values, flags) ==
    LET n == Len(values)
        Wires == [value : {values[k] : k \in 1 .. n}, flag : BOOLEAN]
        mux[list \in UNION {[1 .. m -> Wires] : m \in 1 .. n}] ==
            IF Len(list) = 1 THEN list[1].value ELSE mux[Halved(list)]
    IN  mux[[k \in 1 .. n |-> [value |-> values[k], flag |-> flags[k]]]]

\* bound's bits, each ORed with the higher ones.
Padded(bound) ==
    LET pad[b \in 0 .. bound] == IF b = 0 THEN 0 ELSE 2 * pad[b \div 2] + 1
    IN  pad[bound]

\* Mutant: a candidate above the bound is reduced instead of rejected.
ReduceCandidate(candidates, bound) ==
    MuxTree([t \in 1 .. Kappa |-> candidates[t] % bound],
            [t \in 1 .. Kappa |-> bound > candidates[t]])

\* Kappa candidates masked by Padded(bound); the first below the bound wins.
RandInt(candidates, bound) ==
    MuxTree(candidates, [t \in 1 .. Kappa |-> bound > candidates[t]])

\* Mutant: a number equal to the prefix sum is taken to fall on the slot.
HitAtEnd(q, r) == Prefix(count, q) >= r

Hit(q, r) == Prefix(count, q) > r

\* r falls on slot q.
Falls(q, r) == Hit(q, r) /\ ~ (q > 0 /\ Hit(q-1, r))

\* Mutant: the offset is taken from the slot's own prefix sum.
FromOwnPrefix(q, r) == (r - Prefix(count, q)) % Modulus

Offset(q, r) == (r - Prefix(count, q-1)) % Modulus

\* Mutant: the first label is replaced by the second only at the edge's end.
RelabelEndOnly(x, y) == [c \in Cluster |-> IF c = y THEN x ELSE label[c]]

Relabel(x, y) == [c \in Cluster |-> IF label[c] = y THEN x ELSE label[c]]

\* Slots between clusters of one component are cleared.
Kept(newLabel) ==
    [q \in Slot |-> IF newLabel[Ends(q)[1]] = newLabel[Ends(q)[2]] THEN 0 ELSE count[q]]

Select(r) ==
    LET flags == [n \in 1 .. K * (K-1) |-> Hit(n-1, r)]
        End(e) == MuxTree([n \in 1 .. K * (K-1) |-> label[Ends(n-1)[e]]], flags)
    IN  /\ label' = Relabel(End(1), End(2))
        /\ count' = Kept(label')
        /\ selected' = [q \in Slot |->
                          IF Falls(q, r) THEN Offset(q, r) ELSE selected[q]]

\* Mutant: the loop runs once too few.
TooFewRounds == K - 2

Rounds == K - 1

\* One round.  The candidates are the XOR of both parties' random inputs.
Draw ==
    /\ pc = "circuit"
    /\ round < Rounds
    /\ \E r \in {RandInt(c, Total(count)) : c \in [1 .. Kappa -> 0 .. Padded(Total(count))]} :
         /\ Select(r)
         /\ missed' = IF r < Total(count) THEN missed ELSE missed + 1
    /\ round' = round + 1
    /\ UNCHANGED <<sizes, tree, pc>>

\* Each party gets the outputs of its own slots and looks the edges up.
ReadOut ==
    /\ pc = "circuit"
    /\ round = Rounds
    /\ tree' = {<<q, selected[q]>> : q \in {x \in Slot : selected[x] # Dummy}}
    /\ pc' = "done"
    /\ UNCHANGED <<sizes, label, count, selected, round, missed>>

Terminated == pc = "done" /\ UNCHANGED vars

Init ==
    /\ sizes \in Inputs
    /\ label = [c \in Cluster |-> c]
    /\ count = sizes
    /\ selected = [q \in Slot |-> Dummy]
    /\ round = 0
    /\ missed = 0
    /\ tree = {}
    /\ pc = "circuit"

Next == Draw \/ ReadOut \/ Terminated

Spec == Init /\ [][Next]_vars

(***************************************************************************)
(* Properties.                                                             *)
(***************************************************************************)

TypeOK ==
    /\ sizes \in [Slot -> 0 .. Dummy]
    /\ label \in [Cluster -> Cluster]
    /\ count \in [Slot -> 0 .. Dummy]
    /\ selected \in [Slot -> 0 .. Dummy]
    /\ round \in 0 .. K-1
    /\ missed \in 0 .. round
    /\ tree \subseteq Slot \X (0 .. Dummy - 1)
    /\ pc \in {"circuit", "done"}

Taken == {q \in Slot : selected[q] # Dummy}

\* The clusters of S are connected to no other cluster by the slots Q.
Apart(S, Q) == \A q \in Q : Ends(q)[1] \in S <=> Ends(q)[2] \in S

\* Also when a draw failed, the index a party reads for a slot is one of the
\* edges it entered there.
IndicesValid == \A q \in Taken : selected[q] < sizes[q]

\* Two clusters have the same label exactly when selected edges connect them
\* (as long as no draw failed), and the selected edges never close a cycle,
\* even if one did.
LabelsAreComponents ==
    /\ missed = 0 =>
         \A a, b \in Cluster :
            label[a] = label[b] <=>
                \A S \in SUBSET Cluster : a \in S /\ Apart(S, Taken) => b \in S
    /\ \A q \in Taken : \E S \in SUBSET Cluster :
         Apart(S, Taken \ {q}) /\ ~ Apart(S, {q})

\* If no draw failed, one spanning tree is read out: K-1 edges that connect
\* all clusters, as SpanningTrees of Msf has it.
TreeComplete ==
    pc = "done" /\ missed = 0 =>
        /\ Cardinality(tree) = K - 1
        /\ \A S \in (SUBSET Cluster) \ {{}, Cluster} : ~ Apart(S, {t[1] : t \in tree})

\* In every round each edge between two components is drawn by exactly one
\* number below the bound, and every such number draws one: with a uniform
\* number the edge is uniform over both parties' edges.
DrawsEveryEdgeOnce ==
    pc = "circuit" /\ missed = 0 /\ round < K - 1 =>
        LET live == {e \in Slot \X (0 .. Dummy) :
                        e[2] < sizes[e[1]] /\ label[Ends(e[1])[1]] # label[Ends(e[1])[2]]}
            draws(r) == {e \in Slot \X (0 .. Dummy) : Falls(e[1], r) /\ e[2] = Offset(e[1], r)}
        IN  /\ Total(count) = Cardinality(live)
            /\ \A r \in 0 .. Total(count) - 1 : Cardinality(draws(r)) = 1
            /\ UNION {draws(r) : r \in 0 .. Total(count) - 1} = live

\* Every number below the bound is the outcome of equally many candidate
\* lists, so none is preferred when the bound is no power of two.
RandIntFair ==
    pc = "circuit" /\ round < K - 1 /\ Total(count) > 0 =>
        LET bound == Total(count)
            lists == [1 .. Kappa -> 0 .. Padded(bound)]
            Outcomes(r) == Cardinality({c \in lists : RandInt(c, bound) = r})
        IN  \A r \in 0 .. bound - 1 : Outcomes(r) = Outcomes(0) /\ Outcomes(r) > 0
==============================================================================
