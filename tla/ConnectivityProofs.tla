-------------------------- MODULE ConnectivityProofs --------------------------
(***************************************************************************)
(* The connectivity circuit is right for every number of clusters and all  *)
(* inputs.  The invariant: the bits among the nodes added are an           *)
(* equivalence that contains every link among them, and every set bit is   *)
(* justified, that is, no set closed under those links separates its two   *)
(* nodes.  The classes of such an equivalence are closed, so a missing bit *)
(* is justified as well.                                                   *)
(***************************************************************************)
EXTENDS ConnectivityCircuit, TLAPS

Equivalence ==
    /\ \A a \in Node : a \notin Added => matrix[a] = {}
    /\ \A a \in Added : a \in matrix[a] /\ matrix[a] \subseteq Added
    /\ \A a, b \in Node : b \in matrix[a] => a \in matrix[b]
    /\ \A a, b, c \in Node : b \in matrix[a] /\ c \in matrix[b] => c \in matrix[a]

LinksKnown == \A n \in Added : Row(n) \subseteq matrix[n]

BitsJustified == \A a \in Added : \A b \in matrix[a] : Connected(a, b, Added)

DataOK == data \in Datas

\* What the reading loop has found among the nodes before `node'.
ReadSoFar ==
    /\ pc # "build" => node \in 0 .. K
    /\ pc = "build" => done = {} /\ res = << >>
    /\ pc = "done" => node = K
    /\ pc # "build" =>
         /\ done = {x \in 0 .. K-1 : x \notin matrix[K] /\ \E y \in 0 .. node-1 : y \in matrix[x]}
         /\ {res[c] : c \in DOMAIN res} = {matrix[x] : x \in {y \in 0 .. node-1 : y \notin matrix[K]}}
         /\ \A c \in DOMAIN res : \E x \in res[c] : x < node /\ \A y \in res[c] : x <= y
         /\ \A c, d \in DOMAIN res :
              c < d => \E x \in res[c] : \A y \in res[d] : x < y

CInv ==
    /\ TypeOK
    /\ DataOK
    /\ Equivalence
    /\ LinksKnown
    /\ BitsJustified
    /\ ReadSoFar

-----------------------------------------------------------------------------

LEMMA RowBelow ==
    ASSUME DataOK, NEW n \in Node
    PROVE  Row(n) \subseteq 0 .. n-1
BY ConnectivityAssumption DEF DataOK, Row, Party

LEMMA NodeFacts ==
    /\ K \in Nat
    /\ Node = 0 .. K
    /\ K \in Node
BY ConnectivityAssumption DEF Node

LEMMA InitHolds == Init => CInv
<1> SUFFICES ASSUME Init PROVE CInv
  OBVIOUS
<1>0. K \in Nat
  BY ConnectivityAssumption
<1>1. DataOK
  BY DEF Init, DataOK
<1>2. data \in [Party -> [Node -> SUBSET Node]]
  BY <1>1, ConnectivityAssumption DEF DataOK
<1>3. Added = {} /\ 0 .. -1 = {}
  BY DEF Added, Init
<1>4. TypeOK
  BY <1>0, <1>2 DEF Init, TypeOK, Node
<1>5. Equivalence
  BY <1>3 DEF Init, Equivalence
<1>6. LinksKnown /\ BitsJustified
  BY <1>3 DEF LinksKnown, BitsJustified
<1>7. ReadSoFar
  BY DEF Init, ReadSoFar
<1> QED BY <1>1, <1>4, <1>5, <1>6, <1>7 DEF CInv

-----------------------------------------------------------------------------
(* The building loop. *)

LEMMA AddNodeHolds ==
    ASSUME CInv, AddNode
    PROVE  CInv'
<1> USE NodeFacts
<1> DEFINE n == node
           R == Reached(n)
           B == 0 .. n-1
<1>0. /\ TypeOK /\ DataOK /\ Equivalence /\ LinksKnown /\ BitsJustified /\ ReadSoFar
      /\ pc = "build" /\ pc' = "build" /\ n \in Node /\ node' = n + 1
      /\ data' = data /\ done' = done /\ res' = res
      /\ n \in Nat /\ n <= K
  BY DEF CInv, AddNode
<1>1. /\ Added = B
      /\ Added' = B \cup {n}
      /\ n \notin B
      /\ B \subseteq Node
  <2>1. Added = B
    BY <1>0 DEF Added
  <2>2. Added' = 0 .. (n+1)-1
    BY <1>0 DEF Added
  <2>3. 0 .. (n+1)-1 = B \cup {n}
    BY <1>0
  <2> QED BY <1>0, <2>1, <2>2, <2>3
<1>2. matrix' = [x \in Node |-> IF x = n THEN R \cup {n}
                                ELSE IF x \in R THEN matrix[x] \cup R \cup {n}
                                ELSE matrix[x]]
  BY DEF AddNode, JoinThrough
<1>3. matrix \in [Node -> SUBSET Node]
  BY <1>0 DEF TypeOK
<1>4. /\ R \subseteq B
      /\ \A j \in B : j \in R <=> Row(n) \cap matrix[j] # {}
  BY DEF Reached
<1>5. Row(n) \subseteq B /\ \A x \in Node : Row(x)' = Row(x)
  BY <1>0, RowBelow DEF Row
<1>6. /\ \A a \in Node : a \notin B => matrix[a] = {}
      /\ \A a \in B : a \in matrix[a] /\ matrix[a] \subseteq B
      /\ \A a, b \in Node : b \in matrix[a] => a \in matrix[b]
      /\ \A a, b, c \in Node : b \in matrix[a] /\ c \in matrix[b] => c \in matrix[a]
  BY <1>0, <1>1 DEF Equivalence
<1>7. Row(n) \subseteq R
  BY <1>1, <1>4, <1>5, <1>6
<1>8. \A a, b \in B : a \in R /\ b \in matrix[a] => b \in R
  <2> SUFFICES ASSUME NEW a \in B, NEW b \in B, a \in R, b \in matrix[a] PROVE b \in R
    OBVIOUS
  <2>1. PICK m \in Row(n) : m \in matrix[a]
    BY <1>4
  <2>2. m \in matrix[b]
    BY <1>1, <1>5, <1>6, <2>1
  <2> QED BY <1>4, <2>1, <2>2
<1> HIDE DEF n, R, B
<1>9. TypeOK'
  <2>1. n + 1 \in 0 .. K+1
    BY <1>0
  <2>2. matrix' \in [Node -> SUBSET Node]
    BY <1>1, <1>2, <1>3, <1>4, <1>0
  <2> QED BY <1>0, <2>1, <2>2 DEF TypeOK
<1>10. DataOK'
  BY <1>0 DEF DataOK
<1>11. Equivalence'
  <2>1. \A a \in Node : a \notin B \cup {n} => matrix'[a] = {}
    BY <1>2, <1>4, <1>6
  <2>2. \A a \in B \cup {n} : a \in matrix'[a] /\ matrix'[a] \subseteq B \cup {n}
    BY <1>0, <1>1, <1>2, <1>4, <1>6
  <2>3. \A a, b \in Node : b \in matrix'[a] => a \in matrix'[b]
    <3> SUFFICES ASSUME NEW a \in Node, NEW b \in Node, b \in matrix'[a] PROVE a \in matrix'[b]
      OBVIOUS
    <3>1. a \in matrix[b] \/ (a \in R \cup {n} /\ b \in R \cup {n})
      BY <1>1, <1>2, <1>6
    <3> QED BY <1>1, <1>2, <1>4, <1>6, <3>1
  <2>4. \A a, b \in Node : b \in matrix'[a] <=>
           \/ b \in matrix[a]
           \/ a \in R \cup {n} /\ b \in R \cup {n}
    BY <1>1, <1>2, <1>6
  <2>5. \A a, b, c \in Node : b \in matrix'[a] /\ c \in matrix'[b] => c \in matrix'[a]
    <3> SUFFICES ASSUME NEW a \in Node, NEW b \in Node, NEW c \in Node,
                        b \in matrix'[a], c \in matrix'[b]
                 PROVE  c \in matrix'[a]
      OBVIOUS
    <3>1. \A x, y \in Node : y \in matrix[x] => x \in B /\ y \in B
      BY <1>6
    <3>2. \A x, y \in Node : y \in matrix[x] => (x \in R <=> y \in R)
      BY <1>6, <1>8, <3>1
    <3>3. CASE b \in matrix[a] /\ c \in matrix[b]
      BY <1>6, <2>4, <3>3
    <3>4. CASE b \in matrix[a] /\ b \in R \cup {n} /\ c \in R \cup {n}
      BY <1>1, <2>4, <3>1, <3>2, <3>4
    <3>5. CASE a \in R \cup {n} /\ b \in R \cup {n} /\ c \in matrix[b]
      BY <1>1, <2>4, <3>1, <3>2, <3>5
    <3>6. CASE a \in R \cup {n} /\ b \in R \cup {n} /\ c \in R \cup {n}
      BY <2>4, <3>6
    <3> QED BY <2>4, <3>3, <3>4, <3>5, <3>6
  <2> QED BY <1>1, <2>1, <2>2, <2>3, <2>5 DEF Equivalence
<1>12. LinksKnown'
  <2>1. \A x \in B : Row(x) \subseteq matrix[x]
    BY <1>0, <1>1 DEF LinksKnown
  <2>2. \A x \in B : matrix[x] \subseteq matrix'[x]
    BY <1>0, <1>1, <1>2
  <2>3. matrix'[n] = R \cup {n}
    BY <1>0, <1>2
  <2>4. \A x \in B \cup {n} : Row(x) \subseteq matrix'[x]
    BY <1>7, <2>1, <2>2, <2>3
  <2>5. \A x \in B \cup {n} : Row(x)' \subseteq matrix'[x]
    BY <1>0, <1>1, <1>5, <2>4
  <2>6. \A x \in Added' : Row(x)' \subseteq matrix'[x]
    BY <1>1, <2>5
  <2> QED BY <2>6 DEF LinksKnown
<1>13. Links' = Links
  BY <1>5 DEF Links
<1>14. BitsJustified'
  <2> SUFFICES ASSUME NEW a \in B \cup {n}, NEW b \in matrix'[a],
                      NEW T \in SUBSET (B \cup {n}), a \in T,
                      ClosedUnder(LinksWithin(B \cup {n}), T)
               PROVE  b \in T
    BY <1>1, <1>13 DEF BitsJustified, Connected, LinksWithin
  <2>1. ClosedUnder(LinksWithin(B), T \cap B)
    BY DEF ClosedUnder, LinksWithin
  <2>2. \A x \in B : \A y \in matrix[x] : x \in T => y \in T
    BY <1>0, <1>1, <2>1 DEF BitsJustified, Connected
  <2>3. \A x \in Row(n) : {n, x} \in LinksWithin(B \cup {n})
    BY <1>0, <1>5 DEF Links, LinksWithin
  <2>4. \A x \in Row(n) : x \in T <=> n \in T
    <3> SUFFICES ASSUME NEW x \in Row(n) PROVE x \in T <=> n \in T
      OBVIOUS
    <3>1. {n, x} \cap T # {} => {n, x} \subseteq T
      BY <2>3 DEF ClosedUnder
    <3> QED BY <3>1
  <2>5. \A x \in R : x \in T <=> n \in T
    <3> SUFFICES ASSUME NEW x \in R PROVE x \in T <=> n \in T
      OBVIOUS
    <3>1. PICK m \in Row(n) : m \in matrix[x]
      BY <1>4
    <3>2. m \in B /\ x \in B /\ x \in matrix[m]
      BY <1>1, <1>4, <1>5, <1>6, <3>1
    <3>3. x \in T <=> m \in T
      BY <2>2, <3>1, <3>2
    <3> QED BY <2>4, <3>3
  <2>6. b \in matrix[a] \/ (a \in R \cup {n} /\ b \in R \cup {n})
    BY <1>0, <1>1, <1>2, <1>6
  <2>7. CASE b \in matrix[a]
    <3>1. a \in B
      BY <1>0, <1>1, <1>6, <2>7
    <3> QED BY <2>2, <2>7, <3>1
  <2>8. CASE a \in R \cup {n} /\ b \in R \cup {n}
    BY <2>5, <2>8
  <2> QED BY <2>6, <2>7, <2>8
<1>15. ReadSoFar'
  BY <1>0 DEF ReadSoFar
<1> QED BY <1>9, <1>10, <1>11, <1>12, <1>14, <1>15 DEF CInv

-----------------------------------------------------------------------------
(* The reading loop. *)

LEMMA OpenHolds ==
    ASSUME CInv, Open
    PROVE  CInv'
<1> USE NodeFacts
<1>0. /\ TypeOK /\ DataOK /\ Equivalence /\ LinksKnown /\ BitsJustified /\ ReadSoFar
      /\ pc = "build" /\ node = K + 1 /\ node' = 0 /\ pc' = "read"
      /\ data' = data /\ matrix' = matrix /\ done' = done /\ res' = res
  BY DEF CInv, Open
<1>1. Added = Node /\ Added' = Node
  BY <1>0 DEF Added
<1>2. TypeOK' /\ DataOK'
  BY <1>0 DEF TypeOK, DataOK
<1>3. \A x \in Node : Row(x)' = Row(x)
  BY <1>0 DEF Row
<1>4. LinksWithin(Node)' = LinksWithin(Node)
  BY <1>3 DEF Links, LinksWithin
<1>5. Equivalence'
  BY <1>0, <1>1 DEF Equivalence
<1>6. LinksKnown'
  BY <1>0, <1>1, <1>3 DEF LinksKnown
<1>7. BitsJustified'
  BY <1>0, <1>1, <1>4 DEF BitsJustified, Connected
<1>8. ReadSoFar'
  <2>1. done = {} /\ res = << >> /\ 0 .. 0-1 = {}
    BY <1>0 DEF ReadSoFar
  <2>2. {res[c] : c \in DOMAIN res} = {} /\ DOMAIN res = {}
    BY <2>1
  <2>3. 0 \in 0 .. K
    OBVIOUS
  <2> QED BY <1>0, <2>1, <2>2, <2>3 DEF ReadSoFar
<1> QED BY <1>2, <1>5, <1>6, <1>7, <1>8 DEF CInv

\* A step of the reading loop leaves the matrix and its part of CInv alone.
LEMMA MatrixKept ==
    ASSUME CInv, pc # "build", pc' # "build", UNCHANGED <<data, matrix>>
    PROVE  DataOK' /\ Equivalence' /\ LinksKnown' /\ BitsJustified'
<1>0. /\ DataOK /\ Equivalence /\ LinksKnown /\ BitsJustified
      /\ data' = data /\ matrix' = matrix
  BY DEF CInv
<1>1. Added = Node /\ Added' = Node
  BY DEF Added
<1>3. \A x \in Node : Row(x)' = Row(x)
  BY <1>0 DEF Row
<1>4. LinksWithin(Node)' = LinksWithin(Node)
  BY <1>3 DEF Links, LinksWithin
<1>5. DataOK' /\ Equivalence'
  BY <1>0, <1>1 DEF Equivalence, DataOK
<1>6. LinksKnown'
  BY <1>0, <1>1, <1>3 DEF LinksKnown
<1>7. BitsJustified'
  BY <1>0, <1>1, <1>4 DEF BitsJustified, Connected
<1> QED BY <1>5, <1>6, <1>7

LEMMA SkipNodeHolds ==
    ASSUME CInv, SkipNode
    PROVE  CInv'
<1> USE NodeFacts
<1> DEFINE Found ==
             /\ done = {x \in 0 .. K-1 : x \notin matrix[K] /\ \E y \in 0 .. (node+1)-1 : y \in matrix[x]}
             /\ {res[c] : c \in DOMAIN res} =
                  {matrix[x] : x \in {y \in 0 .. (node+1)-1 : y \notin matrix[K]}}
<1>0. /\ TypeOK /\ Equivalence /\ ReadSoFar
      /\ pc = "read" /\ pc' = "read" /\ node < K /\ Skipped(node) /\ node' = node + 1
      /\ data' = data /\ matrix' = matrix /\ done' = done /\ res' = res
  BY DEF CInv, SkipNode
<1>1. node \in 0 .. K-1 /\ node + 1 \in 0 .. K /\ 0 .. (node+1)-1 = (0 .. node-1) \cup {node}
  BY <1>0 DEF ReadSoFar
<1>2. /\ done = {x \in 0 .. K-1 : x \notin matrix[K] /\ \E y \in 0 .. node-1 : y \in matrix[x]}
      /\ {res[c] : c \in DOMAIN res} = {matrix[x] : x \in {y \in 0 .. node-1 : y \notin matrix[K]}}
      /\ \A c \in DOMAIN res : \E x \in res[c] : x < node /\ \A y \in res[c] : x <= y
      /\ \A c, d \in DOMAIN res :
           c < d => \E x \in res[c] : \A y \in res[d] : x < y
  BY <1>0 DEF ReadSoFar
<1>3. /\ \A a, b \in Node : b \in matrix[a] => a \in matrix[b]
      /\ \A a, b, c \in Node : b \in matrix[a] /\ c \in matrix[b] => c \in matrix[a]
      /\ \A a \in Node : matrix[a] \subseteq Node
  BY <1>0 DEF Equivalence, TypeOK
<1>4. /\ \A x \in 0 .. K-1 : x \in Node
      /\ \A x \in 0 .. node-1 : x \in Node /\ x \in 0 .. K-1
  BY <1>1
<1>5. ASSUME node \in matrix[K] PROVE Found
  <2>1. \A x \in 0 .. K-1 : node \in matrix[x] => x \in matrix[K]
    BY <1>1, <1>3, <1>4, <1>5
  <2>2. done = {x \in 0 .. K-1 : x \notin matrix[K] /\ \E y \in 0 .. (node+1)-1 : y \in matrix[x]}
    BY <1>1, <1>2, <2>1
  <2>3. {y \in 0 .. (node+1)-1 : y \notin matrix[K]} = {y \in 0 .. node-1 : y \notin matrix[K]}
    BY <1>1, <1>5
  <2> QED BY <1>2, <2>2, <2>3
<1>6. ASSUME node \notin matrix[K], node \in done PROVE Found
  <2>1. PICK z \in 0 .. node-1 : z \in matrix[node]
    BY <1>2, <1>6
  <2>2. z \in Node /\ node \in Node /\ z \notin matrix[K] /\ matrix[z] = matrix[node]
    <3>1. z \in Node /\ node \in Node /\ node \in matrix[z]
      BY <1>1, <1>3, <1>4, <2>1
    <3>2. z \notin matrix[K]
      BY <1>3, <1>6, <2>1, <3>1
    <3>3. \A x \in Node : x \in matrix[z] <=> x \in matrix[node]
      BY <1>3, <2>1, <3>1
    <3>4. matrix[z] = matrix[node]
      BY <1>3, <3>1, <3>3
    <3> QED BY <3>1, <3>2, <3>4
  <2>3. \A x \in 0 .. K-1 : node \in matrix[x] => z \in matrix[x]
    BY <1>3, <1>4, <2>1, <2>2
  <2>4. done = {x \in 0 .. K-1 : x \notin matrix[K] /\ \E y \in 0 .. (node+1)-1 : y \in matrix[x]}
    BY <1>1, <1>2, <2>1, <2>3
  <2>5. {matrix[x] : x \in {y \in 0 .. (node+1)-1 : y \notin matrix[K]}}
          = {matrix[x] : x \in {y \in 0 .. node-1 : y \notin matrix[K]}}
    BY <1>1, <2>1, <2>2
  <2> QED BY <1>2, <2>4, <2>5
<1>7. Found
  BY <1>0, <1>5, <1>6 DEF Skipped
<1>8. \A c \in DOMAIN res : \E x \in res[c] : x < node + 1 /\ \A y \in res[c] : x <= y
  <2> SUFFICES ASSUME NEW c \in DOMAIN res
               PROVE  \E x \in res[c] : x < node + 1 /\ \A y \in res[c] : x <= y
    OBVIOUS
  <2>1. PICK x \in res[c] : x < node /\ \A y \in res[c] : x <= y
    BY <1>2
  <2>2. x \in Nat
    BY <1>0, <2>1 DEF TypeOK
  <2> QED BY <1>1, <2>1, <2>2
<1>9. ReadSoFar'
  <2>1. /\ pc' # "build" /\ pc' # "done" /\ node' \in 0 .. K
        /\ \A c, d \in DOMAIN res' :
             c < d => \E x \in res'[c] : \A y \in res'[d] : x < y
    BY <1>0, <1>1, <1>2
  <2>2. /\ done' = {x \in 0 .. K-1 : x \notin matrix'[K] /\ \E y \in 0 .. node'-1 : y \in matrix'[x]}
        /\ {res'[c] : c \in DOMAIN res'} =
             {matrix'[x] : x \in {y \in 0 .. node'-1 : y \notin matrix'[K]}}
    BY <1>0, <1>7
  <2>3. \A c \in DOMAIN res' : \E x \in res'[c] : x < node' /\ \A y \in res'[c] : x <= y
    BY <1>0, <1>8
  <2> QED BY <2>1, <2>2, <2>3 DEF ReadSoFar
<1>10. TypeOK'
  BY <1>0, <1>1 DEF TypeOK
<1> QED BY <1>0, <1>9, <1>10, MatrixKept DEF CInv

LEMMA ReadComponentHolds ==
    ASSUME CInv, ReadComponent
    PROVE  CInv'
<1> USE NodeFacts
<1> DEFINE cur == {node} \cup {j \in node+1 .. K-1 : node \in matrix[j]}
           n == Len(res)
<1>0. /\ TypeOK /\ Equivalence /\ ReadSoFar
      /\ pc = "read" /\ pc' = "read" /\ node < K /\ ~ Skipped(node) /\ node' = node + 1
      /\ data' = data /\ matrix' = matrix
      /\ done' = done \cup cur /\ res' = Append(res, cur)
  BY DEF CInv, ReadComponent
<1>1. node \in 0 .. K-1 /\ node + 1 \in 0 .. K /\ 0 .. (node+1)-1 = (0 .. node-1) \cup {node}
  BY <1>0 DEF ReadSoFar
<1>2. /\ done = {x \in 0 .. K-1 : x \notin matrix[K] /\ \E y \in 0 .. node-1 : y \in matrix[x]}
      /\ {res[c] : c \in DOMAIN res} = {matrix[x] : x \in {y \in 0 .. node-1 : y \notin matrix[K]}}
      /\ \A c \in DOMAIN res : \E x \in res[c] : x < node /\ \A y \in res[c] : x <= y
      /\ \A c, d \in DOMAIN res :
           c < d => \E x \in res[c] : \A y \in res[d] : x < y
  BY <1>0 DEF ReadSoFar
<1>3. /\ \A a, b \in Node : b \in matrix[a] => a \in matrix[b]
      /\ \A a, b, c \in Node : b \in matrix[a] /\ c \in matrix[b] => c \in matrix[a]
      /\ \A a \in Node : matrix[a] \subseteq Node
      /\ \A a \in Node : a \in matrix[a]
  <2>1. Added = Node
    BY <1>0 DEF Added
  <2> QED BY <1>0, <2>1 DEF Equivalence, TypeOK
<1>4. /\ \A x \in 0 .. K-1 : x \in Node
      /\ \A x \in 0 .. node-1 : x \in Node /\ x \in 0 .. K-1
      /\ node \in Node
  BY <1>1
<1>5. node \notin matrix[K] /\ node \notin done
  BY <1>0 DEF Skipped
<1>6. cur = matrix[node]
  <2>1. \A y \in 0 .. node-1 : y \notin matrix[node]
    BY <1>1, <1>2, <1>5
  <2>2. K \notin matrix[node]
    BY <1>3, <1>4, <1>5
  <2>3. \A j \in matrix[node] : j = node \/ j \in node+1 .. K-1
    <3> SUFFICES ASSUME NEW j \in matrix[node], j # node PROVE j \in node+1 .. K-1
      OBVIOUS
    <3>1. j \in Node /\ j # K /\ j \notin 0 .. node-1
      BY <1>3, <1>4, <2>1, <2>2
    <3> QED BY <1>1, <3>1
  <2>4. \A j \in node+1 .. K-1 : j \in Node
    BY <1>1
  <2>5. \A j \in node+1 .. K-1 : node \in matrix[j] <=> j \in matrix[node]
    BY <1>3, <1>4, <2>4
  <2> QED BY <1>3, <1>4, <2>3, <2>5
<1>7. cur \subseteq 0 .. K-1 /\ node \in cur /\ \A y \in cur : node <= y
  BY <1>1
<1>8. res \in Seq(SUBSET (0 .. K-1)) /\ n \in Nat /\ DOMAIN res = 1 .. n
  BY <1>0 DEF TypeOK
<1>9. /\ res' \in Seq(SUBSET (0 .. K-1))
      /\ DOMAIN res' = 1 .. n+1
      /\ \A c \in 1 .. n : res'[c] = res[c]
      /\ res'[n+1] = cur
  BY <1>0, <1>7, <1>8
<1> HIDE DEF cur, n
<1>10. \A x \in 0 .. K-1 : node \in matrix[x] => x \in matrix[node] /\ x \notin matrix[K]
  BY <1>3, <1>4, <1>5
<1>11. done' = {x \in 0 .. K-1 : x \notin matrix[K] /\ \E y \in 0 .. (node+1)-1 : y \in matrix[x]}
  <2>1. \A x \in 0 .. K-1 : x \in cur <=> x \notin matrix[K] /\ node \in matrix[x]
    BY <1>3, <1>4, <1>6, <1>10
  <2> QED BY <1>0, <1>1, <1>2, <1>7, <2>1
<1>12. {res'[c] : c \in DOMAIN res'} = {matrix[x] : x \in {y \in 0 .. (node+1)-1 : y \notin matrix[K]}}
  <2>1. {res'[c] : c \in DOMAIN res'} = {res[c] : c \in DOMAIN res} \cup {cur}
    <3>1. 1 .. n+1 = (1 .. n) \cup {n+1}
      BY <1>8
    <3> QED BY <1>8, <1>9, <3>1
  <2>2. {y \in 0 .. (node+1)-1 : y \notin matrix[K]} = {y \in 0 .. node-1 : y \notin matrix[K]} \cup {node}
    BY <1>1, <1>5
  <2> QED BY <1>2, <1>6, <2>1, <2>2
<1>13. \A c \in DOMAIN res' : \E x \in res'[c] : x < node+1 /\ \A y \in res'[c] : x <= y
  <2> SUFFICES ASSUME NEW c \in 1 .. n+1
               PROVE  \E x \in res'[c] : x < node+1 /\ \A y \in res'[c] : x <= y
    BY <1>9
  <2>1. CASE c = n+1
    BY <1>1, <1>7, <1>9, <2>1
  <2>2. CASE c \in 1 .. n
    <3>1. PICK x \in res[c] : x < node /\ \A y \in res[c] : x <= y
      BY <1>2, <1>8, <2>2
    <3>2. x \in Nat
      BY <1>8, <2>2, <3>1
    <3> QED BY <1>1, <1>9, <2>2, <3>1, <3>2
  <2> QED BY <1>8, <2>1, <2>2
<1>14. \A c, d \in DOMAIN res' : c < d => \E x \in res'[c] : \A y \in res'[d] : x < y
  <2> SUFFICES ASSUME NEW c \in 1 .. n+1, NEW d \in 1 .. n+1, c < d
               PROVE  \E x \in res'[c] : \A y \in res'[d] : x < y
    BY <1>9
  <2>1. c \in 1 .. n
    BY <1>8
  <2>2. CASE d \in 1 .. n
    BY <1>2, <1>8, <1>9, <2>1, <2>2
  <2>3. CASE d = n+1
    <3>1. PICK x \in res[c] : x < node
      BY <1>2, <1>8, <2>1
    <3>2. x \in Nat /\ cur \subseteq Nat
      BY <1>7, <1>8, <2>1, <3>1
    <3>3. \A y \in cur : x < y
      BY <1>1, <1>7, <3>1, <3>2
    <3> QED BY <1>9, <2>1, <2>3, <3>1, <3>3
  <2> QED BY <1>8, <2>2, <2>3
<1>15. TypeOK'
  BY <1>0, <1>1, <1>7, <1>9 DEF TypeOK
<1>16. ReadSoFar'
  <2>1. pc' # "build" /\ pc' # "done" /\ node' \in 0 .. K
    BY <1>0, <1>1
  <2>2. /\ done' = {x \in 0 .. K-1 : x \notin matrix'[K] /\ \E y \in 0 .. node'-1 : y \in matrix'[x]}
        /\ {res'[c] : c \in DOMAIN res'} =
             {matrix'[x] : x \in {y \in 0 .. node'-1 : y \notin matrix'[K]}}
    BY <1>0, <1>11, <1>12
  <2>3. \A c \in DOMAIN res' : \E x \in res'[c] : x < node' /\ \A y \in res'[c] : x <= y
    BY <1>0, <1>13
  <2> QED BY <1>14, <2>1, <2>2, <2>3 DEF ReadSoFar
<1> QED BY <1>0, <1>15, <1>16, MatrixKept DEF CInv

LEMMA RestHolds ==
    ASSUME CInv, Finish \/ Terminated \/ UNCHANGED vars
    PROVE  CInv'
<1> USE NodeFacts
<1>1. CASE Finish
  <2>0. /\ TypeOK /\ ReadSoFar /\ pc = "read" /\ pc' = "done" /\ node = K
        /\ data' = data /\ node' = node /\ matrix' = matrix /\ done' = done /\ res' = res
    BY <1>1 DEF CInv, Finish
  <2>1. TypeOK'
    BY <2>0 DEF TypeOK
  <2>2. ReadSoFar'
    <3>0. /\ done = {x \in 0 .. K-1 : x \notin matrix[K] /\ \E y \in 0 .. node-1 : y \in matrix[x]}
          /\ {res[c] : c \in DOMAIN res} =
               {matrix[x] : x \in {y \in 0 .. node-1 : y \notin matrix[K]}}
      BY <2>0 DEF ReadSoFar
    <3>1. /\ done' = {x \in 0 .. K-1 : x \notin matrix'[K] /\ \E y \in 0 .. node'-1 : y \in matrix'[x]}
          /\ {res'[c] : c \in DOMAIN res'} =
               {matrix'[x] : x \in {y \in 0 .. node'-1 : y \notin matrix'[K]}}
      BY <2>0, <3>0
    <3>2. \A c \in DOMAIN res' : \E x \in res'[c] : x < node' /\ \A y \in res'[c] : x <= y
      BY <2>0 DEF ReadSoFar
    <3>3. \A c, d \in DOMAIN res' :
             c < d => \E x \in res'[c] : \A y \in res'[d] : x < y
      BY <2>0 DEF ReadSoFar
    <3>4. node' \in 0 .. K /\ node' = K /\ pc' = "done"
      BY <2>0
    <3> QED BY <3>1, <3>2, <3>3, <3>4 DEF ReadSoFar
  <2> QED BY <2>0, <2>1, <2>2, MatrixKept DEF CInv
<1>2. CASE Terminated \/ UNCHANGED vars
  <2>0. /\ TypeOK /\ DataOK /\ Equivalence /\ LinksKnown /\ BitsJustified /\ ReadSoFar
        /\ pc' = pc /\ data' = data /\ node' = node /\ matrix' = matrix
        /\ done' = done /\ res' = res
    BY <1>2 DEF CInv, Terminated, vars
  <2>1. Added' = Added
    BY <2>0 DEF Added
  <2>2. \A x \in Node : Row(x)' = Row(x)
    BY <2>0 DEF Row
  <2>3. \A S : LinksWithin(S)' = LinksWithin(S)
    BY <2>2 DEF Links, LinksWithin
  <2>4. TypeOK' /\ DataOK' /\ Equivalence'
    BY <2>0, <2>1 DEF TypeOK, DataOK, Equivalence
  <2>5. LinksKnown'
    <3>1. Added \subseteq Node
      BY <2>0 DEF Added, TypeOK
    <3> QED BY <2>0, <2>1, <2>2, <3>1 DEF LinksKnown
  <2>6. BitsJustified'
    BY <2>0, <2>1, <2>3 DEF BitsJustified, Connected
  <2>7. ReadSoFar'
    BY <2>0 DEF ReadSoFar
  <2> QED BY <2>4, <2>5, <2>6, <2>7 DEF CInv
<1> QED BY <1>1, <1>2

\* CInv holds in every state of the circuit and of the reading loop.
THEOREM CircuitInvariance == Spec => []CInv
<1>1. Init => CInv
  BY InitHolds
<1>2. CInv /\ [Next]_vars => CInv'
  BY AddNodeHolds, OpenHolds, ReadComponentHolds, SkipNodeHolds, RestHolds DEF Next
<1> QED BY <1>1, <1>2, PTL DEF Spec

-----------------------------------------------------------------------------
(* What the invariant says of the opened bits and of the components.       *)

LEMMA ClassesClosed ==
    ASSUME CInv, NEW a \in Node
    PROVE  ClosedUnder(LinksWithin(Added), matrix[a])
<1> SUFFICES ASSUME NEW l \in LinksWithin(Added), l \cap matrix[a] # {}
             PROVE  l \subseteq matrix[a]
  BY DEF ClosedUnder
<1>1. PICK n \in Node : \E x \in Row(n) : l = {n, x}
  BY DEF LinksWithin, Links
<1>2. PICK x \in Row(n) : l = {n, x}
  BY <1>1
<1>3. n \in Added /\ x \in Node /\ x \in matrix[n]
  <2>1. Row(n) \subseteq Node
    BY ConnectivityAssumption DEF Row, Party, CInv, DataOK
  <2> QED BY <1>2, <2>1 DEF LinksWithin, CInv, LinksKnown
<1>4. /\ \A c, d \in Node : d \in matrix[c] => c \in matrix[d]
      /\ \A b, c, d \in Node : c \in matrix[b] /\ d \in matrix[c] => d \in matrix[b]
  BY DEF CInv, Equivalence
<1> QED BY <1>2, <1>3, <1>4

\* After every node added, a bit is set exactly when the links of both
\* parties among the nodes added connect its two nodes.
THEOREM MatrixCorrect == Spec => []MatrixIsConnectivity
<1>1. CInv => MatrixIsConnectivity
  <2> SUFFICES ASSUME CInv, NEW a \in Node
               PROVE  matrix[a] = {b \in Added : a \in Added /\ Connected(a, b, Added)}
    BY DEF MatrixIsConnectivity
  <2>1. /\ a \notin Added => matrix[a] = {}
        /\ a \in Added => a \in matrix[a] /\ matrix[a] \subseteq Added
    BY DEF CInv, Equivalence
  <2>2. a \in Added => \A b \in matrix[a] : Connected(a, b, Added)
    BY DEF CInv, BitsJustified
  <2>3. a \in Added => \A b \in Added : Connected(a, b, Added) => b \in matrix[a]
    BY <2>1, ClassesClosed DEF Connected
  <2> QED BY <2>1, <2>2, <2>3
<1> QED BY <1>1, CircuitInvariance, PTL

\* The components read off the opened matrix are the ones Msf takes them to
\* be: the least sets of clusters that no link leaves, each once and in order.
THEOREM ComponentsCorrect == Spec => []ComponentsRight
<1> USE NodeFacts
<1>1. CInv => ComponentsRight
  <2> SUFFICES ASSUME CInv, pc = "done"
               PROVE  /\ {res[c] : c \in DOMAIN res} = LeastClosed(Links, 0 .. K-1)
                      /\ \A c, d \in DOMAIN res :
                           c < d => \E x \in res[c] : \A y \in res[d] : x < y
    BY DEF ComponentsRight
  <2>1. /\ ReadSoFar /\ Equivalence /\ BitsJustified /\ Added = Node
        /\ \A x \in 0 .. K-1 : x \in Node
    BY DEF CInv, Added
  <2>2. {res[c] : c \in DOMAIN res} = {matrix[x] : x \in {y \in 0 .. K-1 : y \notin matrix[K]}}
    BY <2>1 DEF ReadSoFar
  <2>3. LinksWithin(Node) = Links
    <3>1. \A n \in Node : Row(n) \subseteq Node
      BY ConnectivityAssumption DEF Row, Party, CInv, DataOK
    <3> QED BY <3>1 DEF LinksWithin, Links
  <2>4. /\ \A a \in Node : a \in matrix[a] /\ matrix[a] \subseteq Node
        /\ \A c, d \in Node : d \in matrix[c] => c \in matrix[d]
        /\ \A b, c, d \in Node : c \in matrix[b] /\ d \in matrix[c] => d \in matrix[b]
    BY <2>1 DEF Equivalence
  <2>5. \A a \in Node : ClosedUnder(Links, matrix[a])
    BY <2>1, <2>3, ClassesClosed
  <2>6. \A T \in SUBSET Node : \A a \in T :
           ClosedUnder(Links, T) => matrix[a] \subseteq T
    BY <2>1, <2>3 DEF BitsJustified, Connected
  <2>7. ASSUME NEW x \in 0 .. K-1, x \notin matrix[K]
        PROVE  matrix[x] \in LeastClosed(Links, 0 .. K-1)
    <3>1. K \notin matrix[x] /\ x \in Node /\ x \in matrix[x]
      BY <2>1, <2>4, <2>7
    <3>2. matrix[x] \subseteq 0 .. K-1
      <4>1. \A y \in matrix[x] : y \in 0 .. K /\ y # K
        BY <2>4, <3>1
      <4> QED BY <4>1
    <3>3. ASSUME NEW D \in SUBSET matrix[x], D # {}, D # matrix[x], ClosedUnder(Links, D)
          PROVE  FALSE
      <4>1. PICK d \in D : TRUE
        BY <3>3
      <4>2. d \in matrix[x] /\ d \in Node /\ D \subseteq Node
        BY <2>4, <3>1, <4>1
      <4>3. matrix[x] \subseteq matrix[d]
        BY <2>4, <3>1, <4>2
      <4>4. matrix[d] \subseteq D
        BY <2>6, <3>3, <4>1, <4>2
      <4> QED BY <3>3, <4>3, <4>4
    <3> QED BY <2>5, <3>1, <3>2, <3>3 DEF LeastClosed
  <2>8. ASSUME NEW C \in LeastClosed(Links, 0 .. K-1)
        PROVE  \E x \in {y \in 0 .. K-1 : y \notin matrix[K]} : C = matrix[x]
    <3>1. /\ C \in SUBSET (0 .. K-1) /\ C # {} /\ ClosedUnder(Links, C)
          /\ \A D \in (SUBSET C) \ {{}, C} : ~ ClosedUnder(Links, D)
      BY <2>8 DEF LeastClosed
    <3>2. PICK x \in C : TRUE
      BY <3>1
    <3>3. x \in 0 .. K-1 /\ x \in Node /\ C \in SUBSET Node
      BY <2>1, <3>1, <3>2
    <3>4. matrix[x] \subseteq C /\ x \in matrix[x]
      BY <2>4, <2>6, <3>1, <3>2, <3>3
    <3>5. K \notin matrix[x]
      BY <3>1, <3>4
    <3>6. x \notin matrix[K]
      BY <2>4, <3>3, <3>5
    <3>7. matrix[x] = C
      BY <2>5, <3>1, <3>3, <3>4
    <3> QED BY <3>3, <3>6, <3>7
  <2>9. {matrix[x] : x \in {y \in 0 .. K-1 : y \notin matrix[K]}} = LeastClosed(Links, 0 .. K-1)
    BY <2>7, <2>8
  <2> QED BY <2>1, <2>2, <2>9 DEF ReadSoFar
<1> QED BY <1>1, CircuitInvariance, PTL
==============================================================================
