--------------------------- MODULE SubgraphProofs ---------------------------
(***************************************************************************)
(* Machine-checked proofs about the spanning-tree circuit of msf.cpp: SInv *)
(* of SubgraphInvariant is inductive, and a draw is fair, for every number *)
(* of clusters, of tries and of parallel edges, and every width.           *)
(***************************************************************************)
EXTENDS SubgraphInvariant, FiniteSetTheorems, WellFoundedInduction, TLAPS

(***************************************************************************)
(* Natural numbers and recursion.                                          *)
(***************************************************************************)

\* The library states this for operators on relations; here it is for <=.
NatLess == {ss \in Nat \X Nat : ss[1] < ss[2]}

\* Every non-empty set of natural numbers has a least element: the first set
\* flag, the slot a number falls on.
LEMMA LeastNat ==
    ASSUME NEW T, T \subseteq Nat, T # {}
    PROVE  \E x \in T : \A y \in T : x <= y
<1>1. NatLess = OpToRel(<, Nat)
  BY DEF OpToRel, NatLess
<1>2. IsWellFoundedOn(NatLess, Nat)
  BY <1>1, NatLessThanWellFounded
<1>3. PICK x \in T : \A y \in T : ~ (<<y, x>> \in NatLess)
  BY <1>2, WFMin
<1>4. ASSUME NEW y \in T PROVE x <= y
  <2>1. /\ <<y, x>> \in Nat \X Nat
        /\ <<y, x>>[1] = y /\ <<y, x>>[2] = x
    OBVIOUS
  <2>2. ~ (y < x)
    BY <1>3, <2>1 DEF NatLess
  <2> QED BY <2>2
<1> QED BY <1>4

\* f is B where the rank is zero, and else what F makes of its value at p.
Recursive(f, D, rank, B, p, F) ==
    \A d \in D : f[d] = IF rank[d] = 0 THEN B[d] ELSE F[d][f[p[d]]]

\* A function that is recursive through arguments of a lesser rank exists: the
\* prefix sums, the padded bound and the trees of multiplexers are defined.
LEMMA RecursiveFunction ==
    ASSUME NEW D, NEW S, NEW n \in Nat, NEW rank \in [D -> 0 .. n], NEW B \in [D -> S],
           NEW p \in [D -> D], \A d \in D : rank[d] # 0 => rank[p[d]] < rank[d],
           NEW F \in [D -> [S -> S]]
    PROVE  \E f \in [D -> S] : Recursive(f, D, rank, B, p, F)
<1> DEFINE Below(m) == {d \in D : rank[d] <= m}
           Good == {m \in 0 .. n : \E f \in [Below(m) -> S] : Recursive(f, Below(m), rank, B, p, F)}
           Bad == (0 .. n) \ Good
<1>1. ASSUME Bad # {} PROVE FALSE
  <2>1. Bad \subseteq Nat
    OBVIOUS
  <2>2. PICK m \in Bad : \A k \in Bad : m <= k
    <3> HIDE DEF Bad
    <3> QED BY <1>1, <2>1, LeastNat
  <2>3. m # 0
    <3> DEFINE f == [d \in Below(0) |-> B[d]]
    <3>1. \A d \in Below(0) : rank[d] = 0
      OBVIOUS
    <3>2. f \in [Below(0) -> S] /\ Recursive(f, Below(0), rank, B, p, F)
      BY <3>1 DEF Recursive
    <3> QED BY <3>2
  <2>4. PICK g \in [Below(m-1) -> S] : Recursive(g, Below(m-1), rank, B, p, F)
    <3>1. m-1 \in Good
      <4> HIDE DEF Good
      <4> QED BY <2>2, <2>3
    <3> QED BY <3>1
  <2> DEFINE f == [d \in Below(m) |-> IF rank[d] = 0 THEN B[d] ELSE F[d][g[p[d]]]]
  <2>5. \A d \in Below(m) : rank[d] # 0 => p[d] \in Below(m-1)
    BY <2>3
  <2>6. f \in [Below(m) -> S]
    BY <2>5
  <2>7. \A d \in Below(m-1) : d \in Below(m) /\ f[d] = g[d]
    BY <2>4 DEF Recursive
  <2>8. \A d \in Below(m) : rank[d] # 0 => f[p[d]] = g[p[d]]
    BY <2>5, <2>7
  <2>9. Recursive(f, Below(m), rank, B, p, F)
    BY <2>8 DEF Recursive
  <2> QED BY <2>2, <2>6, <2>9
<1>2. n \in Good
  <2> HIDE DEF Good
  <2> QED BY <1>1
<1>3. Below(n) = D
  OBVIOUS
<1> QED BY <1>2, <1>3

(***************************************************************************)
(* Prefix sums.                                                            *)
(***************************************************************************)

LEMMA Sizes ==
    /\ K \in Nat /\ K >= 2 /\ K * (K-1) \in Nat /\ K * (K-1) >= 2
    /\ Slot \subseteq Nat /\ Cluster \subseteq Nat
    /\ Modulus \in Nat /\ Modulus >= 1 /\ Dummy \in Nat
<1>1. \A k \in Nat : k >= 2 => k * (k-1) \in Nat /\ k * (k-1) >= 2
  <2>1. SUFFICES ASSUME NEW k \in Nat, k >= 2 PROVE k * (k-1) >= 2
    OBVIOUS
  <2>1a. PICK j \in Nat : k = j + 2
    <3>1. k - 2 \in Nat /\ k = (k-2) + 2
      BY <2>1
    <3> QED BY <3>1
  <2>2. k * (k-1) = j * j + 3 * j + 2 /\ j * j \in Nat
    BY <2>1a
  <2> QED BY <2>2
<1> QED BY <1>1, SubgraphAssumption DEF Slot, Cluster, Dummy

\* The adders' results: each is the one before plus the slot's count.
LEMMA PrefixStep ==
    ASSUME NEW c \in [Slot -> Nat]
    PROVE  /\ Prefix(c, -1) = 0
           /\ \A q \in Slot :
                /\ Prefix(c, q-1) \in 0 .. Modulus - 1 /\ Prefix(c, q) \in 0 .. Modulus - 1
                /\ Prefix(c, q) = (Prefix(c, q-1) + c[q]) % Modulus
<1> DEFINE N == K * (K-1)
           D == 0 .. N
           S == 0 .. Modulus - 1
           Sums(f) == f = [n \in 0 .. N |-> IF n = 0 THEN 0 ELSE (f[n-1] + c[n-1]) % Modulus]
           sums == CHOOSE f : Sums(f)
<1>1. N \in Nat /\ N >= 2 /\ Slot = 0 .. N-1
  BY Sizes DEF Slot
<1>2. \E f : Sums(f)
  <2> HIDE DEF N
  <2> DEFINE rank == [d \in D |-> d]
             B == [d \in D |-> 0]
             p == [d \in D |-> IF d = 0 THEN 0 ELSE d-1]
             F == [d \in D |-> [x \in S |-> IF d = 0 THEN 0 ELSE (x + c[d-1]) % Modulus]]
  <2>1. rank \in [D -> 0 .. N] /\ p \in [D -> D] /\ \A d \in D : rank[d] # 0 => rank[p[d]] < rank[d]
    BY <1>1
  <2>2. B \in [D -> S]
    BY Sizes
  <2>3. F \in [D -> [S -> S]]
    BY <1>1, Sizes
  <2>4. \E f \in [D -> S] : Recursive(f, D, rank, B, p, F)
    <3> HIDE DEF rank, B, p, F, D, S
    <3> QED BY <1>1, <2>1, <2>2, <2>3, RecursiveFunction
  <2>5. PICK f \in [D -> S] : Recursive(f, D, rank, B, p, F)
    BY <2>4
  <2>6. \A d \in D : f[d] = IF d = 0 THEN 0 ELSE (f[d-1] + c[d-1]) % Modulus
    <3>1. ASSUME NEW d \in D PROVE f[d] = IF d = 0 THEN 0 ELSE (f[d-1] + c[d-1]) % Modulus
      <4>1. f[d] = IF rank[d] = 0 THEN B[d] ELSE F[d][f[p[d]]]
        BY <2>5 DEF Recursive
      <4>2. CASE d = 0
        BY <4>1, <4>2
      <4>3. CASE d # 0
        <5>1. d-1 \in D /\ p[d] = d-1 /\ rank[d] # 0 /\ f[d-1] \in S
          BY <4>3, <1>1
        <5>2. F[d][f[d-1]] = (f[d-1] + c[d-1]) % Modulus
          BY <5>1, <4>3
        <5> QED BY <4>1, <4>3, <5>1, <5>2
      <4> QED BY <4>2, <4>3
    <3> QED BY <3>1
  <2>7. f = [n \in 0 .. N |-> IF n = 0 THEN 0 ELSE (f[n-1] + c[n-1]) % Modulus]
    BY <2>6
  <2> QED BY <2>7
<1>3. Sums(sums)
  <2> HIDE DEF Sums
  <2> QED BY <1>2
<1>4. \A q : Prefix(c, q) = sums[q+1]
  BY DEF Prefix
<1> HIDE DEF sums, N
<1>5. \A q \in Slot : q \in D /\ q+1 \in D /\ q+1 # 0 /\ q+1-1 = q /\ q-1+1 = q
  BY <1>1
<1>6. sums[0] = 0 /\ \A n \in D : n # 0 => sums[n] = (sums[n-1] + c[n-1]) % Modulus
  BY <1>3, <1>1
<1>7. \A n \in D : sums[n] \in S
  <2> DEFINE Bad == {n \in D : sums[n] \notin S}
  <2>1. ASSUME Bad # {} PROVE FALSE
    <3>1. PICK n \in Bad : \A m \in Bad : n <= m
      <4>1. Bad \subseteq Nat
        BY <1>1
      <4> HIDE DEF Bad
      <4> QED BY <2>1, <4>1, LeastNat
    <3>2. n # 0
      BY <1>6, Sizes
    <3>3. n-1 \in D /\ n-1 \in Slot
      BY <3>2, <1>1
    <3>4. sums[n-1] \in S /\ c[n-1] \in Nat
      BY <3>1, <3>3
    <3>5. (sums[n-1] + c[n-1]) % Modulus \in S
      BY <3>4, Sizes
    <3> QED BY <3>1, <3>2, <3>5, <1>6
  <2> QED BY <2>1
<1>8. -1+1 = 0
  OBVIOUS
<1> QED BY <1>4, <1>5, <1>6, <1>7, <1>8

LEMMA ModSmall ==
    ASSUME NEW m \in Nat, m >= 1, NEW a \in Nat
    PROVE  /\ a < m => a % m = a
           /\ a >= m /\ a < 2 * m => a % m = a - m
<1>1. ASSUME NEW b \in Nat, NEW d \in Int, NEW r \in 0 .. m-1, b = m * d + r
      PROVE  /\ b < m => r = b
             /\ b >= m /\ b < 2 * m => r = b - m
  <2>1. d <= -1 => m * d <= -m
    OBVIOUS
  <2>2. d >= 2 => m * d >= 2 * m
    OBVIOUS
  <2>3. d = 0 => m * d = 0
    OBVIOUS
  <2>4. d = 1 => m * d = m
    OBVIOUS
  <2>5. d <= -1 \/ d = 0 \/ d = 1 \/ d >= 2
    OBVIOUS
  <2>6. m * d \in Int
    OBVIOUS
  <2> QED BY <1>1, <2>1, <2>2, <2>3, <2>4, <2>5, <2>6
<1>2. a \div m \in Int /\ a % m \in 0 .. m-1
  OBVIOUS
<1>3. a = m * (a \div m) + (a % m)
  OBVIOUS
<1> QED BY <1>1, <1>2, <1>3

\* Nothing wraps around when one summand is at most the result.
LEMMA NoWrap ==
    ASSUME NEW x \in 0 .. Modulus - 1, NEW y \in Nat, y <= (x + y) % Modulus
    PROVE  (x + y) % Modulus = x + y
<1>1. (x + y) % Modulus \in 0 .. Modulus - 1
  BY Sizes
<1>2. x + y < 2 * Modulus
  BY <1>1, Sizes
<1>3. x + y \in Nat /\ x + y < Modulus => (x + y) % Modulus = x + y
  BY Sizes, ModSmall
<1>4. x + y >= Modulus => (x + y) % Modulus = x + y - Modulus
  BY <1>2, Sizes, ModSmall
<1>5. x + y - Modulus < y
  BY Sizes
<1> QED BY <1>3, <1>4, <1>5, Sizes

\* The counts of the slots that are left never overflow, as the inputs do not.
Remaining(c, s) == c \in [Slot -> Nat] /\ s \in Inputs /\ \A q \in Slot : c[q] <= s[q]

LEMMA PrefixAdds ==
    ASSUME NEW c, NEW s, Remaining(c, s)
    PROVE  \A q \in Slot : Prefix(c, q) = Prefix(c, q-1) + c[q]
<1>1. /\ c \in [Slot -> Nat] /\ s \in [Slot -> Nat]
      /\ \A q \in Slot : c[q] <= s[q] /\ s[q] <= Prefix(s, q)
  BY SubgraphAssumption DEF Remaining
<1>2. /\ Prefix(c, -1) = 0 /\ Prefix(s, -1) = 0
      /\ \A q \in Slot : /\ Prefix(c, q-1) \in 0 .. Modulus - 1 /\ Prefix(s, q-1) \in 0 .. Modulus - 1
                         /\ Prefix(c, q) = (Prefix(c, q-1) + c[q]) % Modulus
                         /\ Prefix(s, q) = (Prefix(s, q-1) + s[q]) % Modulus
                         /\ Prefix(s, q) \in 0 .. Modulus - 1
  BY <1>1, PrefixStep
<1>3. \A q \in Slot : Prefix(s, q) = Prefix(s, q-1) + s[q]
  BY <1>1, <1>2, NoWrap
<1> DEFINE Bad == {q \in Slot : ~ (Prefix(c, q) = Prefix(c, q-1) + c[q] /\ Prefix(c, q) <= Prefix(s, q))}
<1>4. ASSUME Bad # {} PROVE FALSE
  <2>1. PICK q \in Bad : \A n \in Bad : q <= n
    <3>1. Bad \subseteq Nat
      BY Sizes
    <3> HIDE DEF Bad
    <3> QED BY <1>4, <3>1, LeastNat
  <2>2. Prefix(c, q-1) <= Prefix(s, q-1)
    <3>1. CASE q = 0
      BY <3>1, <1>2
    <3>2. CASE q # 0
      <4>1. q-1 \in Slot /\ ~ (q-1 >= q)
        BY <3>2, Sizes DEF Slot
      <4> QED BY <2>1, <4>1
    <3> QED BY <3>1, <3>2
  <2>3. /\ Prefix(c, q-1) \in Nat /\ Prefix(s, q-1) \in Nat /\ c[q] \in Nat /\ s[q] \in Nat
        /\ c[q] <= s[q] /\ Prefix(s, q-1) + s[q] < Modulus
    <3>1. q \in Slot
      OBVIOUS
    <3>2. Prefix(s, q-1) + s[q] < Modulus
      <4>1. Prefix(s, q) = Prefix(s, q-1) + s[q] /\ Prefix(s, q) \in 0 .. Modulus - 1
        BY <1>2, <1>3, <3>1
      <4> QED BY <4>1, Sizes
    <3>3. Prefix(c, q-1) \in Nat /\ Prefix(s, q-1) \in Nat
      BY <1>2, <3>1, Sizes
    <3>4. c[q] \in Nat /\ s[q] \in Nat /\ c[q] <= s[q]
      BY <1>1, <3>1
    <3> QED BY <3>2, <3>3, <3>4
  <2>4. Prefix(c, q-1) + c[q] < Modulus /\ Prefix(c, q-1) + c[q] \in Nat
    BY <2>2, <2>3, Sizes
  <2>5. (Prefix(c, q-1) + c[q]) % Modulus = Prefix(c, q-1) + c[q]
    BY <2>4, Sizes, ModSmall
  <2>6. Prefix(c, q) = Prefix(c, q-1) + c[q] /\ Prefix(c, q) <= Prefix(s, q)
    BY <1>2, <1>3, <2>2, <2>3, <2>5
  <2> QED BY <2>6
<1> QED BY <1>4

\* So they ascend from zero to the total.
LEMMA PrefixAscends ==
    ASSUME NEW c, NEW s, Remaining(c, s)
    PROVE  /\ Prefix(c, -1) = 0 /\ Total(c) \in 0 .. Modulus - 1
           /\ \A q \in Slot : Prefix(c, q) \in 0 .. Modulus - 1 /\ Prefix(c, q-1) \in 0 .. Modulus - 1
           /\ \A p, q \in Slot : p <= q => Prefix(c, p) <= Prefix(c, q)
           /\ \A q \in Slot : Prefix(c, q) <= Total(c)
<1>1. c \in [Slot -> Nat]
  BY DEF Remaining
<1>2. /\ Prefix(c, -1) = 0
      /\ \A q \in Slot : Prefix(c, q) \in 0 .. Modulus - 1 /\ Prefix(c, q-1) \in 0 .. Modulus - 1
  BY <1>1, PrefixStep
<1>3. ASSUME NEW p \in Slot, NEW q \in Slot, p <= q
      PROVE  Prefix(c, p) <= Prefix(c, q)
  <2> DEFINE Bad == {n \in Slot : p <= n /\ ~ (Prefix(c, p) <= Prefix(c, n))}
  <2>1. ASSUME Bad # {} PROVE FALSE
    <3>1. PICK n \in Bad : \A k \in Bad : n <= k
      <4>1. Bad \subseteq Nat
        BY Sizes
      <4> HIDE DEF Bad
      <4> QED BY <2>1, <4>1, LeastNat
    <3>2. n # p
      BY <1>2
    <3>3. n-1 \in Slot /\ p <= n-1 /\ ~ (n <= n-1)
      BY <3>1, <3>2, Sizes DEF Slot
    <3>4. Prefix(c, p) <= Prefix(c, n-1)
      BY <3>1, <3>3
    <3>5. Prefix(c, n) = Prefix(c, n-1) + c[n] /\ c[n] \in Nat
      BY <1>1, PrefixAdds
    <3> QED BY <1>2, <3>1, <3>4, <3>5
  <2> QED BY <1>3, <2>1
<1>4. K * (K-1) - 1 \in Slot /\ \A q \in Slot : q <= K * (K-1) - 1
  BY Sizes DEF Slot
<1> QED BY <1>2, <1>3, <1>4 DEF Total

(***************************************************************************)
(* The order of the slots.                                                 *)
(***************************************************************************)

\* Row x of the triangle of pairs has x of them.
LEMMA Triangle ==
    ASSUME NEW x \in Nat
    PROVE  /\ (x * (x-1)) \div 2 \in Nat
           /\ (x * (x+1)) \div 2 = (x * (x-1)) \div 2 + x
<1>1. \A z \in Int, y \in Int : (z + 2 * y) \div 2 = z \div 2 + y
  OBVIOUS
<1>2. x * (x+1) = x * (x-1) + 2 * x /\ x * (x-1) \in Int
  OBVIOUS
<1>3. x * (x-1) \in Nat
  <2>1. CASE x = 0
    BY <2>1
  <2>2. CASE x # 0
    BY <2>2
  <2> QED BY <2>1, <2>2
<1>4. \A z \in Nat : z \div 2 \in Nat
  OBVIOUS
<1>5. (x * (x-1)) \div 2 \in Nat
  BY <1>3, <1>4
<1>6. (x * (x+1)) \div 2 = (x * (x-1)) \div 2 + x
  BY <1>1, <1>2
<1> QED BY <1>5, <1>6

LEMMA ProductEven == \E h \in Nat : K * (K-1) = 2 * h
<1>1. PICK h \in Nat : K = 2 * h \/ K = 2 * h + 1
  <2>1. K \div 2 \in Nat /\ (K = 2 * (K \div 2) \/ K = 2 * (K \div 2) + 1)
    BY Sizes
  <2> QED BY <2>1
<1>2. CASE K = 2 * h
  <2>1. K * (K-1) = 2 * (h * (K-1)) /\ h * (K-1) \in Int
    BY <1>2, Sizes
  <2>2. h * (K-1) \in Nat
    BY <2>1, Sizes
  <2> QED BY <2>1, <2>2
<1>3. CASE K = 2 * h + 1
  <2>1. K * (K-1) = 2 * (K * h) /\ K * h \in Nat
    BY <1>3, Sizes
  <2> QED BY <2>1
<1> QED BY <1>1, <1>2, <1>3

\* A slot stands for two clusters, the greater first.
LEMMA EndsAreClusters ==
    ASSUME NEW q \in Slot
    PROVE  /\ Ends(q)[1] \in Cluster /\ Ends(q)[2] \in Cluster
           /\ Ends(q)[2] < Ends(q)[1]
<1> DEFINE t == q \div 2
           In(x) == (x * (x-1)) \div 2 <= t /\ t < (x * (x+1)) \div 2
           i == CHOOSE x \in Cluster : In(x)
           Rows == {x \in Nat : t < (x * (x+1)) \div 2}
<1>1. t \in Nat
  BY Sizes
<1>2. K - 1 \in Rows
  <2>1. PICK h \in Nat : K * (K-1) = 2 * h
    BY ProductEven
  <2>2. (2 * h) \div 2 = h /\ q \in Nat /\ q < 2 * h
    BY <2>1, Sizes DEF Slot
  <2>3. t < h
    BY <2>2
  <2>4. K - 1 \in Nat /\ (K-1) * (K-1+1) = K * (K-1)
    BY Sizes
  <2> QED BY <2>1, <2>2, <2>3, <2>4
<1>3. PICK x \in Rows : \A y \in Rows : x <= y
  <2>1. Rows \subseteq Nat
    OBVIOUS
  <2> HIDE DEF Rows
  <2> QED BY <1>2, <2>1, LeastNat
<1>4. x # 0
  <2>1. (0 * (0+1)) \div 2 = 0
    OBVIOUS
  <2> QED BY <1>1, <2>1
<1>5. x - 1 \in Nat /\ x - 1 \notin Rows
  <2>1. x \in Nat /\ x - 1 \in Nat /\ ~ (x <= x - 1)
    BY <1>4
  <2> HIDE DEF Rows
  <2> QED BY <1>3, <2>1
<1>6. (x * (x-1)) \div 2 <= t
  <2>1. ~ (t < ((x-1) * (x-1+1)) \div 2)
    BY <1>5
  <2>2. (x-1) * (x-1+1) = x * (x-1)
    OBVIOUS
  <2>3. (x * (x-1)) \div 2 \in Nat
    BY Triangle
  <2> QED BY <1>1, <2>1, <2>2, <2>3
<1>7. x \in Cluster /\ In(x)
  <2>1. x <= K - 1 /\ x \in Nat
    BY <1>2, <1>3
  <2> QED BY <2>1, <1>6, Sizes DEF Cluster
<1>8. i \in Cluster /\ In(i)
  <2> HIDE DEF In
  <2> QED BY <1>7
<1>9. Ends(q) = <<i, t - (i * (i-1)) \div 2>>
  BY DEF Ends
<1>10. i \in Nat
  BY <1>8, Sizes
<1> HIDE DEF i
<1>11. t - (i * (i-1)) \div 2 \in 0 .. i-1
  <2>1. (i * (i-1)) \div 2 \in Nat /\ (i * (i+1)) \div 2 = (i * (i-1)) \div 2 + i
    BY <1>10, Triangle
  <2> QED BY <1>1, <1>8, <1>10, <2>1
<1>12. Ends(q)[1] = i /\ Ends(q)[2] \in 0 .. i-1
  BY <1>9, <1>11
<1> QED BY <1>8, <1>10, <1>12, Sizes DEF Cluster

(***************************************************************************)
(* Trees of multiplexers.                                                  *)
(***************************************************************************)

\* Position i of n has the first flag set, or is the last if none is.
Selects(flags, n, i) == (\A j \in 1 .. i-1 : ~ flags[j]) /\ (flags[i] \/ i = n)

Wire(V) == [value : V, flag : BOOLEAN]
Flags(list, m) == [k \in 1 .. m |-> list[k].flag]

LEMMA MuxWire ==
    ASSUME NEW V, NEW a \in Wire(V), NEW b \in Wire(V)
    PROVE  /\ Mux(a, b) \in Wire(V)
           /\ a.flag => Mux(a, b).value = a.value
           /\ ~ a.flag => Mux(a, b).value = b.value
           /\ Mux(a, b).flag <=> a.flag \/ b.flag
BY DEF Mux, Wire

\* Half of the wires.
IsHalf(half, list, m) ==
    \A k \in 1 .. (m + 1) \div 2 :
        half[k] = IF 2*k > m THEN list[2*k-1] ELSE Mux(list[2*k-1], list[2*k])

LEMMA HalvedIs ==
    ASSUME NEW V, NEW m \in Nat \ {0}, NEW list \in [1 .. m -> Wire(V)]
    PROVE  /\ (m + 1) \div 2 \in 1 .. m /\ (m > 1 => (m + 1) \div 2 < m)
           /\ Halved(list) \in [1 .. (m + 1) \div 2 -> Wire(V)]
           /\ IsHalf(Halved(list), list, m)
           /\ Len(list) = m
<1>1. Len(list) = m
  OBVIOUS
<1>2. (m + 1) \div 2 \in 1 .. m /\ (m > 1 => (m + 1) \div 2 < m)
  OBVIOUS
<1>3. ASSUME NEW k \in 1 .. (m + 1) \div 2
      PROVE  (IF 2*k > m THEN list[2*k-1] ELSE Mux(list[2*k-1], list[2*k])) \in Wire(V)
  <2>1. CASE 2*k > m
    <3>1. 2*k-1 \in 1 .. m
      OBVIOUS
    <3> QED BY <2>1, <3>1
  <2>2. CASE ~ (2*k > m)
    <3>1. 2*k-1 \in 1 .. m /\ 2*k \in 1 .. m
      BY <2>2
    <3>2. list[2*k-1] \in Wire(V) /\ list[2*k] \in Wire(V)
      BY <3>1
    <3> QED BY <2>2, <3>2, MuxWire
  <2> QED BY <2>1, <2>2
<1>4. Halved(list) = [k \in 1 .. (m + 1) \div 2 |->
                        IF 2*k > m THEN list[2*k-1] ELSE Mux(list[2*k-1], list[2*k])]
  BY <1>1 DEF Halved
<1>5. IsHalf(Halved(list), list, m)
  BY <1>4 DEF IsHalf
<1> QED BY <1>1, <1>2, <1>3, <1>4, <1>5

\* The wire selected of a list is that of the half it goes to.
LEMMA HalvedSelects ==
    ASSUME NEW V, NEW m \in Nat \ {0}, m > 1, NEW list \in [1 .. m -> Wire(V)],
           NEW i \in 1 .. m, Selects(Flags(list, m), m, i)
    PROVE  \E k \in 1 .. (m + 1) \div 2 :
             /\ Selects(Flags(Halved(list), (m + 1) \div 2), (m + 1) \div 2, k)
             /\ Halved(list)[k].value = list[i].value
<1>h. /\ (m + 1) \div 2 \in 1 .. m
      /\ \A k \in 1 .. (m + 1) \div 2 :
            Halved(list)[k] = IF 2*k > m THEN list[2*k-1] ELSE Mux(list[2*k-1], list[2*k])
  <2>1. (m + 1) \div 2 \in 1 .. m
    OBVIOUS
  <2>2. \A k \in 1 .. (m + 1) \div 2 :
            Halved(list)[k] = IF 2*k > m THEN list[2*k-1] ELSE Mux(list[2*k-1], list[2*k])
    <3>1. IsHalf(Halved(list), list, m)
      BY HalvedIs
    <3> QED BY <3>1 DEF IsHalf
  <2> QED BY <2>1, <2>2
<1> DEFINE h == (m + 1) \div 2
<1>0. /\ h \in 1 .. m
      /\ \A k \in 1 .. h : Halved(list)[k] = IF 2*k > m THEN list[2*k-1] ELSE Mux(list[2*k-1], list[2*k])
  BY <1>h
<1>m. \A a, b \in Wire(V) :
        /\ a.flag => Mux(a, b).value = a.value
        /\ ~ a.flag => Mux(a, b).value = b.value
        /\ Mux(a, b).flag <=> a.flag \/ b.flag
  BY MuxWire
<1>f. \A j \in 1 .. m : Flags(list, m)[j] = list[j].flag
  BY DEF Flags
<1>1. ASSUME NEW j \in 1 .. i-1 PROVE ~ list[j].flag
  <2>1. j \in 1 .. m
    OBVIOUS
  <2> QED BY <2>1, <1>f DEF Selects
<1>2. list[i].flag \/ i = m
  BY <1>f DEF Selects
<1>3. PICK k \in 1 .. h : i = 2*k - 1 \/ i = 2*k
  <2>1. (i + 1) \div 2 \in 1 .. h /\ (i = 2 * ((i+1) \div 2) - 1 \/ i = 2 * ((i+1) \div 2))
    OBVIOUS
  <2> QED BY <2>1
<1>4. ASSUME NEW j \in 1 .. k-1 PROVE j \in 1 .. h /\ ~ Halved(list)[j].flag
  <2>1. 2*j-1 \in 1 .. i-1 /\ 2*j \in 1 .. i-1 /\ 2*j-1 \in 1 .. m /\ 2*j \in 1 .. m
        /\ ~ (2*j > m) /\ j \in 1 .. h
    BY <1>3
  <2>2. Halved(list)[j] = Mux(list[2*j-1], list[2*j])
    BY <1>0, <2>1
  <2>3. list[2*j-1] \in Wire(V) /\ list[2*j] \in Wire(V)
    BY <2>1
  <2> QED BY <1>1, <2>1, <2>2, <2>3, <1>m
<1>5. /\ Halved(list)[k].value = list[i].value
      /\ Halved(list)[k].flag \/ k = h
  <2>1. CASE i = 2*k - 1 /\ 2*k > m
    <3>1. Halved(list)[k] = list[i] /\ k = h
      BY <1>0, <2>1
    <3> QED BY <3>1
  <2>2. CASE i = 2*k - 1 /\ ~ (2*k > m)
    <3>1. Halved(list)[k] = Mux(list[i], list[2*k]) /\ 2*k \in 1 .. m /\ i # m
      BY <1>0, <2>2
    <3>2. list[i] \in Wire(V) /\ list[2*k] \in Wire(V) /\ list[i].flag
      BY <1>2, <3>1
    <3> QED BY <3>1, <3>2, <1>m
  <2>3. CASE i = 2*k
    <3>1. Halved(list)[k] = Mux(list[2*k-1], list[i]) /\ 2*k-1 \in 1 .. i-1 /\ 2*k-1 \in 1 .. m
      BY <1>0, <2>3
    <3>2. list[i] \in Wire(V) /\ list[2*k-1] \in Wire(V) /\ ~ list[2*k-1].flag
      BY <1>1, <3>1
    <3>3. /\ Halved(list)[k].value = list[i].value
          /\ Halved(list)[k].flag <=> list[2*k-1].flag \/ list[i].flag
      BY <3>1, <3>2, <1>m
    <3>4. i = m => k = h
      BY <2>3
    <3> QED BY <1>2, <3>3, <3>4
  <2> QED BY <1>3, <2>1, <2>2, <2>3
<1> HIDE DEF h
<1>6. Selects(Flags(Halved(list), h), h, k)
  <2>1. \A j \in 1 .. k-1 : ~ Flags(Halved(list), h)[j]
    BY <1>4 DEF Flags
  <2>2. Flags(Halved(list), h)[k] \/ k = h
    BY <1>5 DEF Flags
  <2> QED BY <2>1, <2>2 DEF Selects
<1>7. \E j \in 1 .. h : Selects(Flags(Halved(list), h), h, j) /\ Halved(list)[j].value = list[i].value
  BY <1>5, <1>6
<1> QED BY <1>7 DEF h

\* The lists that halving passes.
Lists(V, n) == UNION {[1 .. m -> Wire(V)] : m \in 1 .. n}

\* mux is the function that halves a list until one wire is left.
IsMux(mux, V, n) ==
    mux = [list \in Lists(V, n) |-> IF Len(list) = 1 THEN list[1].value ELSE mux[Halved(list)]]

LEMMA MuxExists ==
    ASSUME NEW V, NEW n \in Nat \ {0}
    PROVE  \E mux : IsMux(mux, V, n)
<1> DEFINE D == Lists(V, n)
           rank == [l \in D |-> Len(l) - 1]
           B == [l \in D |-> l[1].value]
           p == [l \in D |-> IF Len(l) = 1 THEN l ELSE Halved(l)]
           F == [l \in D |-> [x \in V |-> x]]
<1>1. ASSUME NEW l \in D
      PROVE  /\ Len(l) \in 1 .. n
             /\ l[1].value \in V
             /\ Halved(l) \in D
             /\ Len(l) > 1 => Len(Halved(l)) < Len(l) /\ Len(Halved(l)) \in 1 .. n
  <2>1. PICK m \in 1 .. n : l \in [1 .. m -> Wire(V)]
    BY DEF Lists
  <2>2. m \in Nat \ {0}
    OBVIOUS
  <2>3. /\ (m + 1) \div 2 \in 1 .. m /\ (m > 1 => (m + 1) \div 2 < m)
        /\ Halved(l) \in [1 .. (m + 1) \div 2 -> Wire(V)]
        /\ Len(l) = m
    BY <2>1, <2>2, HalvedIs
  <2>4. (m + 1) \div 2 \in 1 .. n /\ (m + 1) \div 2 \in Nat \ {0}
    BY <2>3
  <2>5. Len(Halved(l)) = (m + 1) \div 2
    BY <2>3, <2>4, HalvedIs
  <2>6. Halved(l) \in D
    BY <2>3, <2>4 DEF Lists
  <2>7. 1 \in 1 .. m /\ l[1] \in Wire(V)
    BY <2>1, <2>2
  <2>8. l[1].value \in V
    BY <2>7 DEF Wire
  <2> QED BY <2>3, <2>4, <2>5, <2>6, <2>8
<1> HIDE DEF D
<1>2. n \in Nat /\ rank \in [D -> 0 .. n] /\ B \in [D -> V] /\ p \in [D -> D] /\ F \in [D -> [V -> V]]
  BY <1>1
<1>r. \A l \in D : /\ rank[l] = Len(l) - 1
                   /\ p[l] = IF Len(l) = 1 THEN l ELSE Halved(l)
  OBVIOUS
<1>3. \A l \in D : rank[l] # 0 => rank[p[l]] < rank[l]
  <2> HIDE DEF rank, p
  <2>1. SUFFICES ASSUME NEW l \in D, rank[l] # 0 PROVE rank[p[l]] < rank[l]
    OBVIOUS
  <2>2. Len(l) \in 1 .. n /\ rank[l] = Len(l) - 1
    BY <1>1, <1>r
  <2>3. Len(l) # 1
    BY <2>1, <2>2
  <2>3a. Len(l) > 1
    <3>1. \A a \in 1 .. n : a # 1 => a > 1
      OBVIOUS
    <3>2. Len(l) \in 1 .. n
      BY <2>2
    <3> QED BY <2>3, <3>1, <3>2
  <2>4. Halved(l) \in D /\ Len(Halved(l)) < Len(l) /\ Len(Halved(l)) \in 1 .. n
    BY <1>1, <2>3a
  <2>5. rank[Halved(l)] = Len(Halved(l)) - 1
    BY <1>r, <2>4
  <2>6. p[l] = Halved(l)
    BY <1>r, <2>3
  <2> QED BY <2>2, <2>4, <2>5, <2>6
<1>4. PICK f \in [D -> V] : Recursive(f, D, rank, B, p, F)
  <2> HIDE DEF rank, B, p, F
  <2> QED BY <1>2, <1>3, RecursiveFunction
<1>5. ASSUME NEW l \in D
      PROVE  f[l] = IF Len(l) = 1 THEN l[1].value ELSE f[Halved(l)]
  <2>1. f[l] = IF rank[l] = 0 THEN B[l] ELSE F[l][f[p[l]]]
    BY <1>4 DEF Recursive
  <2>2. CASE Len(l) = 1
    BY <2>1, <2>2
  <2>3. CASE Len(l) # 1
    <3>1. rank[l] # 0 /\ p[l] = Halved(l)
      BY <1>1, <2>3
    <3>2. f[Halved(l)] \in V
      BY <1>1, <1>4
    <3> QED BY <2>1, <2>3, <3>1, <3>2
  <2> QED BY <2>2, <2>3
<1>6. f = [l \in D |-> IF Len(l) = 1 THEN l[1].value ELSE f[Halved(l)]]
  BY <1>4, <1>5
<1> QED BY <1>6 DEF IsMux, D

LEMMA MuxSelects ==
    ASSUME NEW V, NEW n \in Nat \ {0}, NEW mux, IsMux(mux, V, n),
           NEW m \in 1 .. n, NEW list \in [1 .. m -> Wire(V)],
           NEW i \in 1 .. m, Selects(Flags(list, m), m, i)
    PROVE  mux[list] = list[i].value
<1> DEFINE Wrong(k) == \E l \in [1 .. k -> Wire(V)] : \E j \in 1 .. k :
                           Selects(Flags(l, k), k, j) /\ mux[l] # l[j].value
           Bad == {k \in 1 .. n : Wrong(k)}
<1>1. ASSUME Bad # {} PROVE FALSE
  <2>1. PICK k \in Bad : \A b \in Bad : k <= b
    <3>1. Bad \subseteq Nat
      OBVIOUS
    <3> HIDE DEF Bad
    <3> QED BY <1>1, <3>1, LeastNat
  <2>2. PICK l \in [1 .. k -> Wire(V)], j \in 1 .. k :
            Selects(Flags(l, k), k, j) /\ mux[l] # l[j].value
    BY <2>1
  <2>3. k \in Nat \ {0} /\ k \in 1 .. n
    OBVIOUS
  <2> HIDE DEF Bad
  <2>4. /\ (k + 1) \div 2 \in 1 .. k /\ (k > 1 => (k + 1) \div 2 < k)
        /\ Halved(l) \in [1 .. (k + 1) \div 2 -> Wire(V)]
        /\ Len(l) = k
    BY <2>3, HalvedIs
  <2>5. l \in Lists(V, n)
    BY <2>3 DEF Lists
  <2>6. mux[l] = IF k = 1 THEN l[1].value ELSE mux[Halved(l)]
    BY <2>4, <2>5 DEF IsMux
  <2>7. k > 1
    BY <2>2, <2>3, <2>6
  <2>8. PICK h \in 1 .. (k + 1) \div 2 :
            /\ Selects(Flags(Halved(l), (k + 1) \div 2), (k + 1) \div 2, h)
            /\ Halved(l)[h].value = l[j].value
    BY <2>2, <2>3, <2>7, HalvedSelects
  <2>9. (k + 1) \div 2 \in 1 .. n /\ ~ (k <= (k + 1) \div 2)
    BY <2>3, <2>4, <2>7
  <2>10. ~ Wrong((k + 1) \div 2)
    BY <2>1, <2>9 DEF Bad
  <2>11. mux[Halved(l)] = l[j].value
    BY <2>4, <2>8, <2>10
  <2> QED BY <2>2, <2>6, <2>7, <2>11
<1>2. ~ Wrong(m)
  BY <1>1
<1> QED BY <1>2

\* A tree of multiplexers gives the value at the first flag set, or the last
\* value, however many there are.
LEMMA MuxTreeSelects ==
    ASSUME NEW n \in Nat \ {0}, NEW V, NEW values \in [1 .. n -> V],
           NEW flags \in [1 .. n -> BOOLEAN], NEW i \in 1 .. n, Selects(flags, n, i)
    PROVE  MuxTree(values, flags) = values[i]
<1> DEFINE W == {values[k] : k \in 1 .. n}
           start == [k \in 1 .. n |-> [value |-> values[k], flag |-> flags[k]]]
           mux == CHOOSE f : IsMux(f, W, n)
<1>1. Len(values) = n
  OBVIOUS
<1>2. MuxTree(values, flags) = mux[start]
  BY <1>1 DEF MuxTree, IsMux, Lists, Wire
<1>3. IsMux(mux, W, n)
  <2> HIDE DEF W
  <2> QED BY MuxExists
<1>4. start \in [1 .. n -> Wire(W)]
  BY DEF Wire
<1>5. start[i].value = values[i] /\ \A k \in 1 .. n : start[k].flag = flags[k]
  OBVIOUS
<1> HIDE DEF W, start, mux
<1>6. \A k \in 1 .. n : Flags(start, n)[k] = flags[k]
  BY <1>5 DEF Flags
<1>7. Selects(Flags(start, n), n, i)
  <2>1. \A j \in 1 .. i-1 : j \in 1 .. n
    OBVIOUS
  <2> QED BY <1>6, <2>1 DEF Selects
<1>8. n \in 1 .. n
  OBVIOUS
<1>9. mux[start] = start[i].value
  BY <1>3, <1>4, <1>7, <1>8, MuxSelects
<1> QED BY <1>2, <1>5, <1>9

\* There is one position that is selected.
LEMMA OneSelected ==
    ASSUME NEW n \in Nat \ {0}, NEW flags \in [1 .. n -> BOOLEAN]
    PROVE  \E i \in 1 .. n : Selects(flags, n, i)
<1> DEFINE T == {i \in 1 .. n : flags[i] \/ i = n}
<1>1. T \subseteq Nat /\ n \in T
  OBVIOUS
<1>2. PICK i \in T : \A j \in T : i <= j
  <2> HIDE DEF T
  <2> QED BY <1>1, LeastNat
<1>3. ASSUME NEW j \in 1 .. i-1 PROVE ~ flags[j]
  <2>1. j \in 1 .. n /\ ~ (i <= j)
    OBVIOUS
  <2> QED BY <1>2, <2>1
<1>4. i \in 1 .. n /\ (flags[i] \/ i = n)
  OBVIOUS
<1> QED BY <1>3, <1>4 DEF Selects

(***************************************************************************)
(* Random numbers.                                                         *)
(***************************************************************************)

\* The padded bound is no less than the bound.
LEMMA PaddedBound ==
    ASSUME NEW bound \in Nat
    PROVE  Padded(bound) \in Nat /\ Padded(bound) >= bound
<1> DEFINE D == 0 .. bound
           Pads(f) == f = [b \in 0 .. bound |-> IF b = 0 THEN 0 ELSE 2 * f[b \div 2] + 1]
           pad == CHOOSE f : Pads(f)
<1>0. \A b \in D : /\ b \div 2 \in D /\ (b # 0 => b \div 2 < b)
                   /\ b <= 2 * (b \div 2) + 1
  OBVIOUS
<1>1. \E f : Pads(f)
  <2> DEFINE rank == [d \in D |-> d]
             B == [d \in D |-> 0]
             p == [d \in D |-> d \div 2]
             F == [d \in D |-> [x \in Nat |-> 2 * x + 1]]
  <2>1. rank \in [D -> 0 .. bound] /\ p \in [D -> D] /\ \A d \in D : rank[d] # 0 => rank[p[d]] < rank[d]
    BY <1>0
  <2>2. B \in [D -> Nat] /\ F \in [D -> [Nat -> Nat]]
    OBVIOUS
  <2>3. PICK f \in [D -> Nat] : Recursive(f, D, rank, B, p, F)
    <3> HIDE DEF rank, B, p, F, D
    <3> QED BY <2>1, <2>2, RecursiveFunction
  <2>4. ASSUME NEW d \in D PROVE f[d] = IF d = 0 THEN 0 ELSE 2 * f[d \div 2] + 1
    <3>1. f[d] = IF rank[d] = 0 THEN B[d] ELSE F[d][f[p[d]]]
      BY <2>3 DEF Recursive
    <3>2. d \div 2 \in D /\ f[d \div 2] \in Nat
      BY <1>0, <2>3
    <3> QED BY <3>1, <3>2
  <2>5. f = [b \in 0 .. bound |-> IF b = 0 THEN 0 ELSE 2 * f[b \div 2] + 1]
    BY <2>3, <2>4
  <2> QED BY <2>5
<1>2. Pads(pad)
  <2> HIDE DEF Pads
  <2> QED BY <1>1
<1>3. Padded(bound) = pad[bound]
  BY DEF Padded
<1>4. \A b \in D : pad[b] = IF b = 0 THEN 0 ELSE 2 * pad[b \div 2] + 1
  BY <1>2
<1> HIDE DEF pad
<1> DEFINE Bad == {b \in D : ~ (pad[b] \in Nat /\ pad[b] >= b)}
<1>5. ASSUME Bad # {} PROVE FALSE
  <2>1. PICK b \in Bad : \A d \in Bad : b <= d
    <3>1. Bad \subseteq Nat
      OBVIOUS
    <3> HIDE DEF Bad
    <3> QED BY <1>5, <3>1, LeastNat
  <2>2. b \in D /\ b # 0
    BY <1>4
  <2>3. b \div 2 \in D /\ ~ (b <= b \div 2) /\ b <= 2 * (b \div 2) + 1
    BY <1>0, <2>2
  <2>4. pad[b \div 2] \in Nat /\ pad[b \div 2] >= b \div 2
    BY <2>1, <2>3
  <2>5. pad[b] = 2 * pad[b \div 2] + 1
    BY <1>4, <2>2
  <2> QED BY <2>2, <2>3, <2>4, <2>5
<1>6. bound \in D
  OBVIOUS
<1> QED BY <1>3, <1>5, <1>6

Candidates(bound) == [1 .. Kappa -> 0 .. Padded(bound)]
Below(c, bound) == [t \in 1 .. Kappa |-> bound > c[t]]

\* The random number is one of the candidates, the first below the bound if
\* there is one.
LEMMA RandIntIs ==
    ASSUME NEW bound \in Nat, NEW c \in Candidates(bound), NEW t \in 1 .. Kappa,
           Selects(Below(c, bound), Kappa, t)
    PROVE  RandInt(c, bound) = c[t]
<1>1. Kappa \in Nat \ {0}
  BY SubgraphAssumption
<1>2. c \in [1 .. Kappa -> 0 .. Padded(bound)]
  BY DEF Candidates
<1>3. Below(c, bound) \in [1 .. Kappa -> BOOLEAN]
  BY DEF Below
<1>4. MuxTree(c, Below(c, bound)) = c[t]
  BY <1>1, <1>2, <1>3, MuxTreeSelects
<1> QED BY <1>4 DEF RandInt, Below

LEMMA RandIntSelects ==
    ASSUME NEW bound \in Nat, NEW c \in Candidates(bound)
    PROVE  \E t \in 1 .. Kappa : Selects(Below(c, bound), Kappa, t) /\ RandInt(c, bound) = c[t]
<1>1. Kappa \in Nat \ {0} /\ Below(c, bound) \in [1 .. Kappa -> BOOLEAN]
  BY SubgraphAssumption DEF Below
<1>2. PICK t \in 1 .. Kappa : Selects(Below(c, bound), Kappa, t)
  BY <1>1, OneSelected
<1> QED BY <1>2, RandIntIs

(***************************************************************************)
(* The slot a number falls on.                                             *)
(***************************************************************************)

LEMMA FallsBetween ==
    ASSUME Remaining(count, sizes), NEW q \in Slot, NEW r \in Nat
    PROVE  /\ Falls(q, r) <=> Prefix(count, q-1) <= r /\ r < Prefix(count, q)
           /\ Falls(q, r) => Offset(q, r) = r - Prefix(count, q-1) /\ Offset(q, r) \in 0 .. count[q] - 1
<1>1. /\ Prefix(count, -1) = 0
      /\ Prefix(count, q) \in 0 .. Modulus - 1 /\ Prefix(count, q-1) \in 0 .. Modulus - 1
      /\ Prefix(count, q) = Prefix(count, q-1) + count[q]
      /\ count[q] \in Nat
  BY PrefixAscends, PrefixAdds DEF Remaining
<1>2. q \in Nat /\ Modulus \in Nat
  BY Sizes
<1>3. Falls(q, r) <=> Prefix(count, q-1) <= r /\ r < Prefix(count, q)
  <2>1. CASE q = 0
    <3>1. q - 1 = -1
      BY <2>1
    <3> QED BY <1>1, <1>2, <2>1, <3>1 DEF Falls, Hit
  <2>2. CASE q > 0
    BY <1>1, <1>2, <2>2 DEF Falls, Hit
  <2> QED BY <1>2, <2>1, <2>2
<1>4. ASSUME Falls(q, r)
      PROVE  Offset(q, r) = r - Prefix(count, q-1) /\ Offset(q, r) \in 0 .. count[q] - 1
  <2>1. Prefix(count, q-1) <= r /\ r < Prefix(count, q)
    BY <1>3, <1>4
  <2>2. r - Prefix(count, q-1) \in 0 .. count[q] - 1 /\ r - Prefix(count, q-1) < Modulus
        /\ r - Prefix(count, q-1) \in Nat
    BY <1>1, <1>2, <2>1
  <2>3. (r - Prefix(count, q-1)) % Modulus = r - Prefix(count, q-1)
    BY <2>2, Sizes, ModSmall
  <2> QED BY <2>2, <2>3 DEF Offset
<1> QED BY <1>3, <1>4

\* A number below the total falls on one slot, any other on none.
LEMMA FallsOnce ==
    ASSUME Remaining(count, sizes), NEW r \in Nat
    PROVE  /\ r < Total(count) => \E q \in Slot : Falls(q, r)
           /\ \A p, q \in Slot : Falls(p, r) /\ Falls(q, r) => p = q
           /\ r >= Total(count) => \A q \in Slot : ~ Hit(q, r)
           /\ \A q \in Slot : Hit(q, r) => r < Total(count)
<1>1. /\ Prefix(count, -1) = 0 /\ Total(count) \in 0 .. Modulus - 1
      /\ \A q \in Slot : Prefix(count, q) \in 0 .. Modulus - 1 /\ Prefix(count, q-1) \in 0 .. Modulus - 1
      /\ \A p, q \in Slot : p <= q => Prefix(count, p) <= Prefix(count, q)
      /\ \A q \in Slot : Prefix(count, q) <= Total(count)
  BY PrefixAscends
<1>2. ASSUME r < Total(count) PROVE \E q \in Slot : Falls(q, r)
  <2> DEFINE T == {q \in Slot : Hit(q, r)}
  <2>1. K * (K-1) - 1 \in T
    <3>1. K * (K-1) - 1 \in Slot
      BY Sizes DEF Slot
    <3> QED BY <1>2, <3>1, <1>1 DEF Hit, Total
  <2>2. PICK q \in T : \A p \in T : q <= p
    <3>1. T \subseteq Nat
      BY Sizes
    <3> HIDE DEF T
    <3> QED BY <2>1, <3>1, LeastNat
  <2>3. ASSUME q > 0 PROVE ~ Hit(q-1, r)
    <3>1. q-1 \in Slot /\ ~ (q <= q-1)
      BY <2>3, Sizes DEF Slot
    <3> QED BY <2>2, <3>1
  <2> QED BY <2>3 DEF Falls
<1>3. ASSUME NEW p \in Slot, NEW q \in Slot, Falls(p, r), Falls(q, r), p < q
      PROVE  FALSE
  <2>1. r < Prefix(count, p) /\ Prefix(count, q-1) <= r
    BY <1>3, FallsBetween
  <2>2. q-1 \in Slot /\ p <= q-1
    BY <1>3, Sizes DEF Slot
  <2>3. Prefix(count, p) <= Prefix(count, q-1)
    BY <1>1, <2>2
  <2>4. Prefix(count, p) \in Int /\ Prefix(count, q-1) \in Int
    BY <1>1, Sizes
  <2> QED BY <2>1, <2>3, <2>4
<1>4. \A p, q \in Slot : p < q \/ q < p \/ p = q
  BY Sizes
<1>5. ASSUME NEW q \in Slot, Hit(q, r) PROVE r < Total(count)
  <2>1. Prefix(count, q) \in Int /\ Total(count) \in Int /\ Prefix(count, q) <= Total(count)
    BY <1>1, Sizes
  <2> QED BY <1>5, <2>1 DEF Hit
<1>6. Total(count) \in Int
  BY <1>1, Sizes
<1>7. \A p, q \in Slot : Falls(p, r) /\ Falls(q, r) => p = q
  BY <1>3, <1>4
<1>8. r >= Total(count) => \A q \in Slot : ~ Hit(q, r)
  BY <1>5, <1>6
<1> QED BY <1>2, <1>5, <1>7, <1>8

\* The components joined are those of the ends of the slot drawn; after a
\* number that is too large they are those of some slot.
LEMMA SelectJoins ==
    ASSUME Remaining(count, sizes), label \in [Cluster -> Cluster], NEW r \in Nat, Select(r)
    PROVE  \E q \in Slot : /\ label' = Relabel(label[Ends(q)[1]], label[Ends(q)[2]])
                           /\ Falls(q, r) \/ r >= Total(count)
<1> DEFINE N == K * (K-1)
           flags == [n \in 1 .. N |-> Hit(n-1, r)]
           values(e) == [n \in 1 .. N |-> label[Ends(n-1)[e]]]
<1>1. N \in Nat \ {0} /\ Slot = 0 .. N-1
  BY Sizes DEF Slot
<1>2. flags \in [1 .. N -> BOOLEAN]
  BY DEF Hit
<1>3. values(1) \in [1 .. N -> Cluster] /\ values(2) \in [1 .. N -> Cluster]
  <2>1. \A n \in 1 .. N : n-1 \in Slot
    BY <1>1
  <2> HIDE DEF N
  <2> QED BY <2>1, EndsAreClusters
<1>4. label' = Relabel(MuxTree(values(1), flags), MuxTree(values(2), flags))
  BY DEF Select
<1>5. \A i \in 1 .. N : flags[i] = Hit(i-1, r) /\ values(1)[i] = label[Ends(i-1)[1]]
                        /\ values(2)[i] = label[Ends(i-1)[2]]
  OBVIOUS
<1>6. r < Total(count) \/ r >= Total(count)
  <2>1. Total(count) \in Int
    BY PrefixAscends, Sizes
  <2> QED BY <2>1
<1> HIDE DEF N, flags, values
<1>7. PICK i \in 1 .. N : Selects(flags, N, i)
  BY <1>1, <1>2, OneSelected
<1>8. MuxTree(values(1), flags) = values(1)[i] /\ MuxTree(values(2), flags) = values(2)[i]
  BY <1>1, <1>2, <1>3, <1>7, MuxTreeSelects
<1>9. i-1 \in Slot /\ label' = Relabel(label[Ends(i-1)[1]], label[Ends(i-1)[2]])
  BY <1>1, <1>4, <1>5, <1>8
<1>10. ASSUME r < Total(count) PROVE Falls(i-1, r)
  <2>1. PICK q \in Slot : Falls(q, r)
    BY <1>10, FallsOnce
  <2>2. q+1 \in 1 .. N /\ q+1-1 = q
    BY <1>1
  <2>3. flags[q+1] = Hit(q, r) /\ Hit(q, r)
    <3>1. PICK n \in 1 .. N : n = q+1 /\ n-1 = q
      BY <1>1, <2>2
    <3>2. flags[n] = Hit(n-1, r)
      BY <1>5, Zenon
    <3> QED BY <2>1, <3>1, <3>2 DEF Falls
  <2>4. ~ (q+1 < i)
    <3>1. q+1 < i => q+1 \in 1 .. i-1
      BY <2>2
    <3> QED BY <1>7, <2>3, <3>1 DEF Selects
  <2>5. flags[i]
    <3>1. i = N => q+1 = i
      BY <2>2, <2>4
    <3> QED BY <1>7, <2>3, <3>1 DEF Selects
  <2>6. Hit(i-1, r)
    BY <1>5, <2>5
  <2>7. ASSUME i-1 > 0 PROVE ~ Hit(i-1-1, r)
    <3>1. i-1 \in 1 .. i-1 /\ i-1 \in 1 .. N
      BY <1>1, <2>7
    <3>2. flags[i-1] = Hit(i-1-1, r)
      BY <1>5, <3>1
    <3> QED BY <1>7, <3>1, <3>2 DEF Selects
  <2> QED BY <2>6, <2>7 DEF Falls
<1> QED BY <1>6, <1>9, <1>10

(***************************************************************************)
(* Rounds.                                                                 *)
(***************************************************************************)

LEMMA CountsRemain ==
    ASSUME SInv
    PROVE  /\ Remaining(count, sizes)
           /\ \A q \in Slot : count[q] \in 0 .. Dummy /\ sizes[q] \in 0 .. Dummy
<1>1. /\ sizes \in Inputs
      /\ \A q \in Slot : count[q] \in 0 .. Dummy /\ sizes[q] \in 0 .. Dummy
      /\ count \in [Slot -> 0 .. Dummy]
  BY DEF SInv, TypeOK
<1>2. count \in [Slot -> Nat]
  BY <1>1, Sizes
<1>3. ASSUME NEW q \in Slot PROVE count[q] <= sizes[q]
  <2>1. count[q] = 0 \/ count[q] = sizes[q]
    BY DEF SInv, CountsOK
  <2>2. count[q] \in Int /\ sizes[q] \in Int /\ 0 <= sizes[q]
    BY <1>1, Sizes
  <2> QED BY <2>1, <2>2
<1> QED BY <1>1, <1>2, <1>3 DEF Remaining

\* What joining the components labelled x and y does to all labels.
LEMMA RelabelIs ==
    ASSUME label \in [Cluster -> Cluster], NEW x \in Cluster, NEW y \in Cluster,
           label' = Relabel(x, y)
    PROVE  /\ label' \in [Cluster -> Cluster]
           /\ \A c \in Cluster : label'[c] = IF label[c] = y THEN x ELSE label[c]
           /\ \A a, b \in Cluster : label[a] = label[b] => label'[a] = label'[b]
           /\ \A a, b \in Cluster : label'[a] = label'[b] =>
                label[a] = label[b] \/ (label[a] \in {x, y} /\ label[b] \in {x, y})
<1>1. label' \in [Cluster -> Cluster]
  BY DEF Relabel
<1>2. \A c \in Cluster : label'[c] = IF label[c] = y THEN x ELSE label[c]
  BY DEF Relabel
<1> QED BY <1>1, <1>2

\* A draw hits one slot between two components and joins them there, or it
\* misses all and joins some.
Drawn(q, r) ==
    /\ r < Total(count) /\ missed' = missed
    /\ Falls(q, r) /\ q \notin Taken /\ count[q] > 0
    /\ label[Ends(q)[1]] # label[Ends(q)[2]]
    /\ selected' = [p \in Slot |-> IF p = q THEN Offset(q, r) ELSE selected[p]]
    /\ Offset(q, r) \in 0 .. count[q] - 1
    /\ Taken' = Taken \cup {q}

Failed(r) == r >= Total(count) /\ missed' = missed + 1 /\ selected' = selected /\ Taken' = Taken

LEMMA DrawIs ==
    ASSUME SInv, Draw
    PROVE  \E q \in Slot, r \in Nat :
             /\ label' = Relabel(label[Ends(q)[1]], label[Ends(q)[2]])
             /\ count' = Kept(label')
             /\ Drawn(q, r) \/ Failed(r)
<1>0. /\ Remaining(count, sizes)
      /\ \A q \in Slot : count[q] \in 0 .. Dummy /\ sizes[q] \in 0 .. Dummy
      /\ label \in [Cluster -> Cluster] /\ selected \in [Slot -> 0 .. Dummy]
      /\ Total(count) \in Nat
  <2>1. Total(count) \in Nat
    BY CountsRemain, PrefixAscends, Sizes
  <2> QED BY <2>1, CountsRemain DEF SInv, TypeOK
<1>1. PICK c \in Candidates(Total(count)) :
        /\ Select(RandInt(c, Total(count)))
        /\ missed' = IF RandInt(c, Total(count)) < Total(count) THEN missed ELSE missed + 1
  BY DEF Draw, Candidates
<1> DEFINE r == RandInt(c, Total(count))
<1>2. r \in Nat
  <2>1. PICK t \in 1 .. Kappa : r = c[t]
    BY <1>0, RandIntSelects
  <2>2. c[t] \in 0 .. Padded(Total(count)) /\ Padded(Total(count)) \in Nat
    BY <1>0, PaddedBound DEF Candidates
  <2> QED BY <2>1, <2>2
<1>3. Select(r) /\ missed' = IF r < Total(count) THEN missed ELSE missed + 1
  BY <1>1
<1> HIDE DEF r
<1>4. PICK q \in Slot : /\ label' = Relabel(label[Ends(q)[1]], label[Ends(q)[2]])
                        /\ Falls(q, r) \/ r >= Total(count)
  BY <1>0, <1>2, <1>3, SelectJoins
<1>5. /\ count' = Kept(label')
      /\ selected' = [p \in Slot |-> IF Falls(p, r) THEN Offset(p, r) ELSE selected[p]]
  BY <1>3 DEF Select
<1>6. ASSUME r < Total(count) PROVE Drawn(q, r)
  <2>1. Falls(q, r)
    BY <1>0, <1>2, <1>4, <1>6
  <2>2. Offset(q, r) \in 0 .. count[q] - 1
    BY <1>0, <1>2, <2>1, FallsBetween
  <2>3. \A p \in Slot : Falls(p, r) <=> p = q
    BY <1>0, <1>2, <2>1, FallsOnce
  <2>4. selected' = [p \in Slot |-> IF p = q THEN Offset(q, r) ELSE selected[p]]
    BY <1>5, <2>3
  <2>5. count[q] \in 0 .. Dummy /\ Dummy \in Nat
    BY <1>0, Sizes
  <2>6. count[q] > 0 /\ Offset(q, r) # Dummy
    BY <2>2, <2>5
  <2>7. label[Ends(q)[1]] # label[Ends(q)[2]]
    BY <2>5, <2>6 DEF SInv, CountsOK
  <2>8. q \notin Taken
    BY <2>7 DEF SInv, TakenOK
  <2>9. Taken' = Taken \cup {q}
    BY <2>4, <2>6 DEF Taken
  <2> QED BY <1>3, <1>6, <2>1, <2>2, <2>4, <2>6, <2>7, <2>8, <2>9 DEF Drawn
<1>7. ASSUME r >= Total(count) PROVE Failed(r)
  <2>1. \A p \in Slot : ~ Falls(p, r)
    BY <1>0, <1>2, <1>7, FallsOnce DEF Falls
  <2>2. selected' = selected
    BY <1>0, <1>5, <2>1
  <2>3. missed' = missed + 1
    BY <1>0, <1>2, <1>3, <1>7
  <2> QED BY <1>7, <2>2, <2>3 DEF Failed, Taken
<1>8. Drawn(q, r) \/ Failed(r)
  BY <1>0, <1>2, <1>6, <1>7
<1> QED BY <1>2, <1>4, <1>5, <1>8

LEMMA DrawLabels ==
    ASSUME SInv, Draw
    PROVE  /\ label' \in [Cluster -> Cluster]
           /\ CountsOK' /\ count' \in [Slot -> 0 .. Dummy]
<1>1. PICK q \in Slot, r \in Nat :
        /\ label' = Relabel(label[Ends(q)[1]], label[Ends(q)[2]])
        /\ count' = Kept(label')
        /\ Drawn(q, r) \/ Failed(r)
  BY DrawIs
<1>2. /\ label \in [Cluster -> Cluster]
      /\ label[Ends(q)[1]] \in Cluster /\ label[Ends(q)[2]] \in Cluster
  BY EndsAreClusters DEF SInv, TypeOK
<1>3. /\ label' \in [Cluster -> Cluster]
      /\ \A a, b \in Cluster : label[a] = label[b] => label'[a] = label'[b]
  BY <1>1, <1>2, RelabelIs
<1>4. sizes' = sizes
  BY DEF Draw
<1>5. \A p \in Slot : count'[p] = IF label'[Ends(p)[1]] = label'[Ends(p)[2]] THEN 0 ELSE count[p]
  BY <1>1 DEF Kept
<1>6. \A p \in Slot : count[p] = IF label[Ends(p)[1]] = label[Ends(p)[2]] THEN 0 ELSE sizes[p]
  BY DEF SInv, CountsOK
<1>7. ASSUME NEW p \in Slot
      PROVE  count'[p] = IF label'[Ends(p)[1]] = label'[Ends(p)[2]] THEN 0 ELSE sizes[p]
  <2>1. label[Ends(p)[1]] = label[Ends(p)[2]] => label'[Ends(p)[1]] = label'[Ends(p)[2]]
    BY <1>3, EndsAreClusters
  <2> QED BY <1>5, <1>6, <2>1
<1>8. CountsOK'
  BY <1>4, <1>7 DEF CountsOK
<1>9. count' \in [Slot -> 0 .. Dummy]
  <2>1. \A p \in Slot : count[p] \in 0 .. Dummy /\ 0 \in 0 .. Dummy
    BY CountsRemain, Sizes
  <2> QED BY <1>1, <2>1 DEF Kept
<1> QED BY <1>3, <1>8, <1>9

\* The set of clusters labelled x is apart from the others by the edges taken.
LEMMA ComponentApart ==
    ASSUME SInv, NEW x
    PROVE  Apart({c \in Cluster : label[c] = x}, Taken)
<1>1. \A q \in Taken : q \in Slot /\ label[Ends(q)[1]] = label[Ends(q)[2]]
  BY DEF SInv, TakenOK, Taken
<1>2. \A q \in Taken : Ends(q)[1] \in Cluster /\ Ends(q)[2] \in Cluster
  BY <1>1, EndsAreClusters
<1> QED BY <1>1, <1>2 DEF Apart

\* The new edge joins two components, so that whatever cut shows an older edge
\* to be needed can be changed to one that the new edge does not cross.
LEMMA CycleFreeGrows ==
    ASSUME SInv, NEW q \in Slot, label[Ends(q)[1]] # label[Ends(q)[2]], q \notin Taken,
           NEW p \in Taken \cup {q}
    PROVE  \E S \in SUBSET Cluster : Apart(S, (Taken \cup {q}) \ {p}) /\ ~ Apart(S, {p})
<1> DEFINE T == {c \in Cluster : label[c] = label[Ends(q)[1]]}
<1>1. Apart(T, Taken)
  BY ComponentApart
<1>2. /\ Ends(q)[1] \in Cluster /\ Ends(q)[2] \in Cluster
      /\ Ends(q)[1] \in T /\ Ends(q)[2] \notin T /\ T \in SUBSET Cluster
  BY EndsAreClusters
<1> HIDE DEF T
<1>3. CASE p = q
  <2>1. Apart(T, (Taken \cup {q}) \ {p}) /\ ~ Apart(T, {p})
    BY <1>1, <1>2, <1>3 DEF Apart
  <2> QED BY <1>2, <2>1
<1>4. CASE p # q
  <2>1. PICK S \in SUBSET Cluster : Apart(S, Taken \ {p}) /\ ~ Apart(S, {p})
    BY <1>4 DEF SInv, CycleFree
  <2>2. CASE Ends(q)[1] \in S <=> Ends(q)[2] \in S
    BY <1>4, <2>1, <2>2 DEF Apart
  <2>3. CASE ~ (Ends(q)[1] \in S <=> Ends(q)[2] \in S)
    <3> DEFINE R == (S \ T) \cup (T \ S)
    <3>1. \A s \in Taken : s \in Slot
      BY DEF Taken
    <3>2. \A s \in Taken \cup {q} : /\ Ends(s)[1] \in R <=> (Ends(s)[1] \in S <=> Ends(s)[1] \notin T)
                                    /\ Ends(s)[2] \in R <=> (Ends(s)[2] \in S <=> Ends(s)[2] \notin T)
      OBVIOUS
    <3> HIDE DEF R
    <3>3. Ends(q)[1] \in R <=> Ends(q)[2] \in R
      BY <1>2, <2>3, <3>2
    <3>4. ASSUME NEW s \in Taken
          PROVE  (Ends(s)[1] \in R <=> Ends(s)[2] \in R) <=> (Ends(s)[1] \in S <=> Ends(s)[2] \in S)
      <4>1. Ends(s)[1] \in T <=> Ends(s)[2] \in T
        BY <1>1 DEF Apart
      <4> QED BY <3>2, <4>1
    <3>5. Apart(R, (Taken \cup {q}) \ {p}) /\ ~ Apart(R, {p})
      BY <1>4, <2>1, <3>3, <3>4 DEF Apart
    <3>6. R \in SUBSET Cluster
      BY <1>2 DEF R
    <3> QED BY <3>5, <3>6
  <2> QED BY <2>2, <2>3
<1> QED BY <1>3, <1>4

\* The edges taken link what is labelled alike, also after q has joined the
\* components of its ends.
LEMMA LinksGrow ==
    ASSUME SInv, missed = 0, NEW q \in Slot,
           label' = Relabel(label[Ends(q)[1]], label[Ends(q)[2]]),
           NEW a \in Cluster, NEW b \in Cluster, label'[a] = label'[b]
    PROVE  Linked(a, b, Taken \cup {q})
<1>1. /\ label \in [Cluster -> Cluster]
      /\ Ends(q)[1] \in Cluster /\ Ends(q)[2] \in Cluster
      /\ label[Ends(q)[1]] \in Cluster /\ label[Ends(q)[2]] \in Cluster
  BY EndsAreClusters DEF SInv, TypeOK
<1>2. \/ label[a] = label[b]
      \/ /\ label[a] = label[Ends(q)[1]] \/ label[a] = label[Ends(q)[2]]
         /\ label[b] = label[Ends(q)[1]] \/ label[b] = label[Ends(q)[2]]
  BY <1>1, RelabelIs
<1>3. SUFFICES ASSUME NEW S \in SUBSET Cluster, a \in S, Apart(S, Taken \cup {q})
               PROVE  b \in S
  BY DEF Linked
<1>4. Apart(S, Taken) /\ (Ends(q)[1] \in S <=> Ends(q)[2] \in S)
  BY <1>3 DEF Apart
<1>5. \A c, d \in Cluster : label[c] = label[d] /\ c \in S => d \in S
  BY <1>4 DEF SInv, LabelsLinked, Linked
<1> QED BY <1>1, <1>2, <1>3, <1>4, <1>5

LEMMA LabelsFinite ==
    ASSUME SInv
    PROVE  IsFiniteSet(Labels) /\ IsFiniteSet(Taken) /\ IsFiniteSet(Cluster) /\ IsFiniteSet(Slot)
<1>1. IsFiniteSet(Cluster) /\ IsFiniteSet(Slot)
  BY Sizes, FS_Interval DEF Cluster, Slot
<1>2. Labels \in SUBSET Cluster /\ Taken \in SUBSET Slot
  BY DEF SInv, TypeOK, Labels, Taken
<1> QED BY <1>1, <1>2, FS_Subset

\* The round leaves one label less.
LEMMA LabelsShrink ==
    ASSUME SInv, NEW q \in Slot, label[Ends(q)[1]] # label[Ends(q)[2]],
           label' = Relabel(label[Ends(q)[1]], label[Ends(q)[2]])
    PROVE  Labels' = Labels \ {label[Ends(q)[2]]} /\ label[Ends(q)[2]] \in Labels
<1>1. /\ label \in [Cluster -> Cluster]
      /\ Ends(q)[1] \in Cluster /\ Ends(q)[2] \in Cluster
      /\ label[Ends(q)[1]] \in Cluster /\ label[Ends(q)[2]] \in Cluster
  BY EndsAreClusters DEF SInv, TypeOK
<1>2. \A c \in Cluster : label'[c] = IF label[c] = label[Ends(q)[2]] THEN label[Ends(q)[1]] ELSE label[c]
  BY <1>1, RelabelIs
<1>3. ASSUME NEW x \in Labels' PROVE x \in Labels \ {label[Ends(q)[2]]}
  <2>1. PICK c \in Cluster : x = label'[c]
    BY DEF Labels
  <2> QED BY <1>1, <1>2, <2>1 DEF Labels
<1>4. ASSUME NEW x \in Labels \ {label[Ends(q)[2]]} PROVE x \in Labels'
  <2>1. PICK c \in Cluster : x = label[c]
    BY DEF Labels
  <2>2. label'[c] = x
    BY <1>2, <2>1
  <2> QED BY <2>2 DEF Labels
<1>5. label[Ends(q)[2]] \in Labels
  BY <1>1 DEF Labels
<1> QED BY <1>3, <1>4, <1>5

(***************************************************************************)
(* The invariant.                                                          *)
(***************************************************************************)

LEMMA InitSubgraph == Init => SInv
<1> SUFFICES ASSUME Init PROVE SInv
  OBVIOUS
<1>1. sizes \in Inputs /\ sizes \in [Slot -> Nat]
  BY SubgraphAssumption DEF Init
<1>2. sizes \in [Slot -> 0 .. Dummy]
  <2>1. \A q \in Slot : sizes[q] <= Prefix(sizes, q) /\ Prefix(sizes, q) \in 0 .. Modulus - 1
    BY <1>1, SubgraphAssumption, PrefixStep
  <2>2. \A q \in Slot : sizes[q] \in 0 .. Dummy
    BY <1>1, <2>1, Sizes DEF Dummy
  <2> QED BY <1>1, <2>2
<1>3. /\ label = [c \in Cluster |-> c] /\ count = sizes
      /\ selected = [q \in Slot |-> Dummy] /\ round = 0 /\ missed = 0 /\ tree = {} /\ pc = "circuit"
  BY DEF Init
<1>4. TypeOK
  <2>1. selected \in [Slot -> 0 .. Dummy] /\ round \in 0 .. K-1 /\ missed \in 0 .. round
    BY <1>3, Sizes
  <2> QED BY <1>2, <1>3, <2>1 DEF TypeOK
<1>5. Taken = {}
  BY <1>3 DEF Taken
<1>6. CountsOK
  <2>1. \A q \in Slot : label[Ends(q)[1]] # label[Ends(q)[2]]
    <3>1. SUFFICES ASSUME NEW q \in Slot PROVE label[Ends(q)[1]] # label[Ends(q)[2]]
      OBVIOUS
    <3>2. /\ Ends(q)[1] \in Cluster /\ Ends(q)[2] \in Cluster /\ Ends(q)[2] < Ends(q)[1]
          /\ Ends(q)[1] \in Nat /\ Ends(q)[2] \in Nat
      BY EndsAreClusters, Sizes
    <3> QED BY <1>3, <3>2
  <2> QED BY <1>3, <2>1 DEF CountsOK
<1>7. LabelsLinked
  BY <1>3 DEF LabelsLinked, Linked
<1>8. Labels = Cluster
  BY <1>3 DEF Labels
<1>9. Counted
  <2>1. Cardinality(Taken) = 0
    BY <1>5, FS_EmptySet
  <2>2. Cardinality(Labels) = K
    BY <1>8, Sizes, FS_Interval DEF Cluster
  <2> QED BY <1>3, <2>1, <2>2, Sizes DEF Counted
<1>10. TakenOK /\ CycleFree /\ TreeOK
  BY <1>3, <1>5 DEF TakenOK, CycleFree, TreeOK
<1> QED BY <1>1, <1>4, <1>6, <1>7, <1>9, <1>10 DEF SInv

LEMMA DrawKeeps ==
    ASSUME SInv, Draw
    PROVE  SInv'
<1>1. PICK q \in Slot, r \in Nat :
        /\ label' = Relabel(label[Ends(q)[1]], label[Ends(q)[2]])
        /\ count' = Kept(label')
        /\ Drawn(q, r) \/ Failed(r)
  BY DrawIs
<1>2. /\ sizes' = sizes /\ tree' = tree /\ pc' = pc /\ pc = "circuit"
      /\ round' = round + 1 /\ round < K - 1
  BY DEF Draw, Rounds
<1>3. /\ label \in [Cluster -> Cluster] /\ selected \in [Slot -> 0 .. Dummy]
      /\ round \in 0 .. K-1 /\ missed \in 0 .. round
      /\ sizes \in [Slot -> 0 .. Dummy] /\ count \in [Slot -> 0 .. Dummy]
  BY DEF SInv, TypeOK
<1>4. /\ label' \in [Cluster -> Cluster]
      /\ CountsOK' /\ count' \in [Slot -> 0 .. Dummy]
  BY DrawLabels
<1>5. /\ Ends(q)[1] \in Cluster /\ Ends(q)[2] \in Cluster
      /\ label[Ends(q)[1]] \in Cluster /\ label[Ends(q)[2]] \in Cluster
  BY <1>3, EndsAreClusters
<1>6. /\ \A c \in Cluster : label'[c] = IF label[c] = label[Ends(q)[2]] THEN label[Ends(q)[1]] ELSE label[c]
      /\ \A a, b \in Cluster : label[a] = label[b] => label'[a] = label'[b]
  BY <1>1, <1>3, <1>5, RelabelIs
<1>7. \A p \in Taken : p \in Slot /\ selected[p] < sizes[p] /\ label'[Ends(p)[1]] = label'[Ends(p)[2]]
  BY <1>6, EndsAreClusters DEF SInv, TakenOK, Taken
<1>8. CASE Drawn(q, r)
  <2>1. /\ missed' = missed /\ q \notin Taken /\ Taken' = Taken \cup {q}
        /\ label[Ends(q)[1]] # label[Ends(q)[2]]
        /\ selected' = [p \in Slot |-> IF p = q THEN Offset(q, r) ELSE selected[p]]
        /\ Offset(q, r) \in 0 .. count[q] - 1
    BY <1>8 DEF Drawn
  <2>2. /\ count[q] \in 0 .. Dummy /\ Dummy \in Nat
        /\ Offset(q, r) \in 0 .. Dummy /\ Offset(q, r) < sizes[q]
    <3>1. count[q] = 0 \/ count[q] = sizes[q]
      BY DEF SInv, CountsOK
    <3>2. count[q] \in 0 .. Dummy /\ sizes[q] \in 0 .. Dummy /\ Dummy \in Nat
      BY <1>3, Sizes
    <3> QED BY <2>1, <3>1, <3>2
  <2>3. TypeOK'
    <3>1. selected' \in [Slot -> 0 .. Dummy]
      BY <1>3, <2>1, <2>2
    <3>2. round' \in 0 .. K-1 /\ missed' \in 0 .. round'
      BY <1>2, <1>3, <2>1, Sizes
    <3> QED BY <1>2, <1>3, <1>4, <3>1, <3>2 DEF SInv, TypeOK
  <2>4. TakenOK'
    <3>1. ASSUME NEW p \in Taken'
          PROVE  selected'[p] < sizes'[p] /\ label'[Ends(p)[1]] = label'[Ends(p)[2]]
      <4>1. CASE p = q
        <5>1. label'[Ends(q)[1]] = label'[Ends(q)[2]]
          BY <1>5, <1>6, <2>1
        <5> QED BY <1>2, <2>1, <2>2, <4>1, <5>1
      <4>2. CASE p # q
        <5>1. p \in Taken /\ selected'[p] = selected[p]
          BY <2>1, <4>2, <3>1, <1>7
        <5> QED BY <1>2, <1>7, <5>1
      <4> QED BY <4>1, <4>2
    <3> QED BY <3>1 DEF TakenOK
  <2>5. LabelsLinked'
    <3>1. ASSUME missed' = 0, NEW a \in Cluster, NEW b \in Cluster, label'[a] = label'[b]
          PROVE  Linked(a, b, Taken')
      <4>1. missed = 0
        BY <2>1, <3>1
      <4>2. Linked(a, b, Taken \cup {q})
        BY <1>1, <3>1, <4>1, LinksGrow
      <4> QED BY <2>1, <4>2
    <3> QED BY <3>1 DEF LabelsLinked
  <2>6. CycleFree'
    <3>1. \A p \in Taken \cup {q} : \E S \in SUBSET Cluster :
            Apart(S, (Taken \cup {q}) \ {p}) /\ ~ Apart(S, {p})
      BY <2>1, CycleFreeGrows
    <3>2. \A p \in Taken' : \E S \in SUBSET Cluster : Apart(S, Taken' \ {p}) /\ ~ Apart(S, {p})
      BY <2>1, <3>1
    <3> QED BY <3>2 DEF CycleFree
  <2>7. Counted'
    <3>1. Cardinality(Taken') = Cardinality(Taken) + 1 /\ Cardinality(Taken) \in Nat
      BY <2>1, LabelsFinite, FS_AddElement, FS_CardinalityType
    <3>2. Cardinality(Labels') = Cardinality(Labels) - 1 /\ Cardinality(Labels) \in Nat
      <4>1. Labels' = Labels \ {label[Ends(q)[2]]} /\ label[Ends(q)[2]] \in Labels
        BY <1>1, <2>1, LabelsShrink
      <4>2. IsFiniteSet(Labels)
        BY LabelsFinite
      <4> QED BY <4>1, <4>2, FS_RemoveElement, FS_CardinalityType
    <3>3. /\ Cardinality(Taken) + missed = round
          /\ missed = 0 => Cardinality(Labels) + round = K
      BY DEF SInv, Counted
    <3>4. Cardinality(Taken') + missed' = round'
      BY <1>2, <1>3, <2>1, <3>1, <3>3
    <3>5. missed' = 0 => Cardinality(Labels') + round' = K
      BY <1>2, <1>3, <2>1, <3>2, <3>3, Sizes
    <3> QED BY <3>4, <3>5 DEF Counted
  <2>8. TreeOK' /\ sizes' \in Inputs
    BY <1>2 DEF TreeOK, SInv
  <2> QED BY <1>4, <2>3, <2>4, <2>5, <2>6, <2>7, <2>8 DEF SInv
<1>9. CASE Failed(r)
  <2>1. missed' = missed + 1 /\ selected' = selected /\ Taken' = Taken
    BY <1>9 DEF Failed
  <2>2. missed' # 0
    BY <1>3, <2>1, Sizes
  <2>3. TypeOK'
    <3>1. round' \in 0 .. K-1 /\ missed' \in 0 .. round'
      BY <1>2, <1>3, <2>1, Sizes
    <3> QED BY <1>2, <1>3, <1>4, <2>1, <3>1 DEF SInv, TypeOK
  <2>4. TakenOK'
    BY <1>2, <1>7, <2>1 DEF TakenOK
  <2>5. LabelsLinked'
    BY <2>2 DEF LabelsLinked
  <2>6. CycleFree'
    BY <2>1 DEF SInv, CycleFree
  <2>7. Counted'
    <3>1. Cardinality(Taken) + missed = round /\ Cardinality(Taken) \in Nat
      BY LabelsFinite, FS_CardinalityType DEF SInv, Counted
    <3>2. Cardinality(Taken') + missed' = round'
      BY <1>2, <1>3, <2>1, <3>1, Sizes
    <3> QED BY <2>2, <3>2 DEF Counted
  <2>8. TreeOK' /\ sizes' \in Inputs
    BY <1>2 DEF TreeOK, SInv
  <2> QED BY <1>4, <2>3, <2>4, <2>5, <2>6, <2>7, <2>8 DEF SInv
<1> QED BY <1>1, <1>8, <1>9

LEMMA ReadOutKeeps ==
    ASSUME SInv, ReadOut
    PROVE  SInv'
<1>1. /\ pc' = "done" /\ round = K - 1 /\ tree' = {<<q, selected[q]>> : q \in Taken}
      /\ UNCHANGED <<sizes, label, count, selected, round, missed>>
  BY DEF ReadOut, Rounds, Taken
<1>2. Taken' = Taken /\ Labels' = Labels
  BY <1>1 DEF Taken, Labels
<1>3. tree' \subseteq Slot \X (0 .. Dummy - 1)
  <2>1. ASSUME NEW q \in Taken PROVE <<q, selected[q]>> \in Slot \X (0 .. Dummy - 1)
    <3>1. q \in Slot /\ selected[q] \in 0 .. Dummy /\ selected[q] # Dummy
      BY DEF Taken, SInv, TypeOK
    <3> QED BY <3>1, Sizes
  <2> QED BY <1>1, <2>1
<1>4. TypeOK'
  BY <1>1, <1>3 DEF SInv, TypeOK
<1>5. CountsOK' /\ TakenOK' /\ sizes' \in Inputs
  BY <1>1, <1>2 DEF SInv, CountsOK, TakenOK
<1>6. LabelsLinked' /\ CycleFree' /\ Counted'
  BY <1>1, <1>2 DEF SInv, LabelsLinked, CycleFree, Counted
<1>7. TreeOK'
  BY <1>1, <1>2 DEF TreeOK
<1> QED BY <1>4, <1>5, <1>6, <1>7 DEF SInv

LEMMA SameSubgraph ==
    ASSUME SInv, UNCHANGED vars
    PROVE  SInv'
<1>1. UNCHANGED <<sizes, label, count, selected, round, missed, tree, pc>>
  BY DEF vars
<1>2. Taken' = Taken /\ Labels' = Labels
  BY <1>1 DEF Taken, Labels
<1>3. TypeOK' /\ CountsOK' /\ TakenOK' /\ sizes' \in Inputs /\ TreeOK'
  BY <1>1, <1>2 DEF SInv, TypeOK, CountsOK, TakenOK, TreeOK
<1>4. LabelsLinked' /\ CycleFree' /\ Counted'
  BY <1>1, <1>2 DEF SInv, LabelsLinked, CycleFree, Counted
<1> QED BY <1>3, <1>4 DEF SInv

\* SInv always holds: the labels are the components of the edges selected,
\* which never close a cycle, and only edges between components are left.
THEOREM SubgraphInvariance == Spec => []SInv
<1>1. SInv /\ [Next]_vars => SInv'
  BY DrawKeeps, ReadOutKeeps, SameSubgraph DEF Next, Terminated
<1> QED BY InitSubgraph, <1>1, PTL DEF Spec

\* Every variable keeps its type, in every state of the circuit.
THEOREM SubgraphTypes == Spec => []TypeOK
<1>1. SInv => TypeOK
  BY DEF SInv
<1> QED BY <1>1, SubgraphInvariance, PTL

\* No party reads an index that it has no edge for, also when draws failed.
THEOREM IndicesAlwaysValid == Spec => []IndicesValid
<1>1. SInv => IndicesValid
  BY DEF SInv, TakenOK, IndicesValid
<1> QED BY <1>1, SubgraphInvariance, PTL

\* The labels are the components of the edges selected, and these are a forest.
THEOREM LabelsCorrect == Spec => []LabelsAreComponents
<1>1. ASSUME SInv, NEW a \in Cluster, NEW b \in Cluster, Linked(a, b, Taken)
      PROVE  label[a] = label[b]
  <2> DEFINE T == {c \in Cluster : label[c] = label[a]}
  <2>1. Apart(T, Taken) /\ a \in T /\ T \in SUBSET Cluster
    BY <1>1, ComponentApart
  <2>2. b \in T
    BY <1>1, <2>1 DEF Linked
  <2> QED BY <2>2
<1>2. ASSUME SInv PROVE LabelsAreComponents
  <2>1. missed = 0 => \A a, b \in Cluster : label[a] = label[b] <=> Linked(a, b, Taken)
    BY <1>1, <1>2 DEF SInv, LabelsLinked
  <2>2. \A q \in Taken : \E S \in SUBSET Cluster : Apart(S, Taken \ {q}) /\ ~ Apart(S, {q})
    BY <1>2 DEF SInv, CycleFree
  <2> QED BY <2>1, <2>2 DEF LabelsAreComponents, Linked
<1> QED BY <1>2, SubgraphInvariance, PTL

\* K-1 rounds without a failed draw leave one label, and the K-1 edges read
\* out connect all clusters: a spanning tree, as Msf has it.
THEOREM TreeAlwaysComplete == Spec => []TreeComplete
<1>1. ASSUME SInv, pc = "done", missed = 0
      PROVE  /\ Cardinality(tree) = K - 1
             /\ \A S \in (SUBSET Cluster) \ {{}, Cluster} : ~ Apart(S, {t[1] : t \in tree})
  <2>1. round = K - 1 /\ tree = {<<q, selected[q]>> : q \in Taken}
    BY <1>1 DEF SInv, TreeOK
  <2>2. IsFiniteSet(Labels) /\ IsFiniteSet(Taken)
    BY <1>1, LabelsFinite
  <2>3. Cardinality(Taken) = K - 1 /\ Cardinality(Labels) = 1
    <3>1. Cardinality(Taken) \in Nat /\ Cardinality(Labels) \in Nat
      BY <2>2, FS_CardinalityType
    <3>2. Cardinality(Taken) + missed = round /\ Cardinality(Labels) + round = K
      BY <1>1 DEF SInv, Counted
    <3> QED BY <1>1, <2>1, <3>1, <3>2, Sizes
  <2>4. Cardinality(tree) = K - 1
    <3> DEFINE f == [q \in Taken |-> <<q, selected[q]>>]
    <3>1. f \in Bijection(Taken, tree)
      BY <2>1 DEF Bijection, Injection, Surjection, IsInjective
    <3>2. ExistsBijection(Taken, tree)
      BY <3>1 DEF ExistsBijection
    <3> QED BY <2>2, <2>3, <3>2, FS_Bijection
  <2>5. {t[1] : t \in tree} = Taken
    <3>1. ASSUME NEW q \in Taken PROVE q \in {t[1] : t \in tree}
      <4>1. <<q, selected[q]>> \in tree /\ <<q, selected[q]>>[1] = q
        BY <2>1
      <4> QED BY <4>1
    <3>2. ASSUME NEW t \in tree PROVE t[1] \in Taken
      <4>1. PICK q \in Taken : t = <<q, selected[q]>>
        BY <2>1
      <4> QED BY <4>1
    <3> QED BY <3>1, <3>2
  <2>6. PICK x : Labels = {x}
    BY <2>2, <2>3, FS_Singleton
  <2>7. \A c \in Cluster : label[c] = x
    BY <2>6 DEF Labels
  <2>8. ASSUME NEW S \in (SUBSET Cluster) \ {{}, Cluster}, Apart(S, Taken) PROVE FALSE
    <3>1. PICK a \in Cluster, b \in Cluster : a \in S /\ b \notin S
      BY <2>8
    <3>2. Linked(a, b, Taken)
      BY <1>1, <2>7 DEF SInv, LabelsLinked
    <3> QED BY <2>8, <3>1, <3>2 DEF Linked
  <2> QED BY <2>4, <2>5, <2>8
<1>2. SInv => TreeComplete
  BY <1>1 DEF TreeComplete
<1> QED BY <1>2, SubgraphInvariance, PTL

\* As long as no draw failed, each round has an edge to draw, as the inputs
\* connect all clusters: the two fairness properties below are never vacuous
\* before the tree is complete.
THEOREM EdgeAlwaysLeft == Spec => []EdgeLeft
<1>1. ASSUME SInv, missed = 0, round < K - 1
      PROVE  Total(count) > 0
  <2>1. IsFiniteSet(Labels) /\ Cardinality(Labels) \in Nat
    BY <1>1, LabelsFinite, FS_CardinalityType
  <2>2. Cardinality(Labels) + round = K /\ round \in Nat
    BY <1>1, Sizes DEF SInv, Counted, TypeOK
  <2>3. Cardinality(Labels) > 1
    BY <1>1, <2>1, <2>2, Sizes
  <2>4. 0 \in Cluster
    BY Sizes DEF Cluster
  <2>5. PICK b \in Cluster : label[b] # label[0]
    <3>1. ASSUME \A b \in Cluster : label[b] = label[0] PROVE FALSE
      <4>1. Labels = {label[0]}
        BY <2>4, <3>1 DEF Labels
      <4>2. Cardinality(Labels) = 1
        BY <4>1, FS_Singleton
      <4> QED BY <2>3, <4>2
    <3> QED BY <3>1
  <2> DEFINE S == {c \in Cluster : label[c] = label[0]}
  <2>6. S \in (SUBSET Cluster) \ {{}, Cluster}
    BY <2>4, <2>5
  <2> HIDE DEF S
  <2>7. PICK q \in Slot : sizes[q] > 0 /\ (Ends(q)[1] \in S) # (Ends(q)[2] \in S)
    BY <1>1, <2>6, SubgraphAssumption DEF SInv
  <2>8. label[Ends(q)[1]] # label[Ends(q)[2]]
    BY <2>7, EndsAreClusters DEF S
  <2>9. count[q] = sizes[q]
    BY <1>1, <2>8 DEF SInv, CountsOK
  <2>10. /\ Prefix(count, q) = Prefix(count, q-1) + count[q]
         /\ Prefix(count, q-1) \in 0 .. Modulus - 1 /\ Prefix(count, q) <= Total(count)
         /\ Total(count) \in 0 .. Modulus - 1
    BY <1>1, CountsRemain, PrefixAdds, PrefixAscends
  <2>11. count[q] \in Nat
    BY <1>1, CountsRemain, Sizes
  <2> QED BY <2>7, <2>9, <2>10, <2>11, Sizes
<1>2. SInv => EdgeLeft
  BY <1>1 DEF EdgeLeft
<1> QED BY <1>2, SubgraphInvariance, PTL

(***************************************************************************)
(* Every edge is drawn by one number.                                      *)
(***************************************************************************)

\* The edges between two components, as slot and index.
Live == {e \in Slot \X (0 .. Dummy) :
            e[2] < sizes[e[1]] /\ label[Ends(e[1])[1]] # label[Ends(e[1])[2]]}
Draws(r) == {e \in Slot \X (0 .. Dummy) : Falls(e[1], r) /\ e[2] = Offset(e[1], r)}

LEMMA PairIs ==
    ASSUME NEW A, NEW B, NEW e \in A \X B
    PROVE  e[1] \in A /\ e[2] \in B /\ e = <<e[1], e[2]>>
OBVIOUS

\* A number below the total draws one edge, at its distance from the edge's
\* prefix sum.
LEMMA NumberDraws ==
    ASSUME SInv, NEW r \in 0 .. Total(count) - 1
    PROVE  \E e \in Live : Draws(r) = {e} /\ r = Prefix(count, e[1] - 1) + e[2]
<1>1. /\ Remaining(count, sizes)
      /\ \A q \in Slot : count[q] \in 0 .. Dummy /\ sizes[q] \in 0 .. Dummy
      /\ Total(count) \in Nat /\ Dummy \in Nat
  BY CountsRemain, PrefixAscends, Sizes
<1>2. r \in Nat /\ r < Total(count)
  BY <1>1
<1>3. PICK q \in Slot : Falls(q, r)
  BY <1>1, <1>2, FallsOnce
<1>4. Offset(q, r) = r - Prefix(count, q-1) /\ Offset(q, r) \in 0 .. count[q] - 1
  BY <1>1, <1>2, <1>3, FallsBetween
<1>5. Prefix(count, q-1) \in Int
  BY <1>1, PrefixAscends, Sizes
<1>6. label[Ends(q)[1]] # label[Ends(q)[2]] /\ count[q] = sizes[q]
  <2>1. count[q] \in 0 .. Dummy /\ count[q] # 0
    BY <1>1, <1>4
  <2> QED BY <2>1 DEF SInv, CountsOK
<1> DEFINE e == <<q, Offset(q, r)>>
<1>7. e \in Slot \X (0 .. Dummy) /\ e[1] = q /\ e[2] = Offset(q, r)
  BY <1>1, <1>4
<1> HIDE DEF e
<1>8. e \in Live
  <2>1. e[2] < sizes[e[1]]
    BY <1>1, <1>4, <1>6, <1>7
  <2> QED BY <1>6, <1>7, <2>1 DEF Live
<1>9. ASSUME NEW d \in Draws(r) PROVE d = e
  <2>1. d \in Slot \X (0 .. Dummy) /\ Falls(d[1], r) /\ d[2] = Offset(d[1], r)
    BY DEF Draws
  <2>2. d[1] \in Slot /\ d = <<d[1], d[2]>>
    BY <2>1, PairIs
  <2>3. d[1] = q
    BY <1>1, <1>2, <1>3, <2>1, <2>2, FallsOnce
  <2> QED BY <2>1, <2>2, <2>3 DEF e
<1>10. e \in Draws(r)
  BY <1>3, <1>7 DEF Draws
<1>11. r = Prefix(count, e[1] - 1) + e[2]
  BY <1>2, <1>4, <1>5, <1>7
<1> QED BY <1>8, <1>9, <1>10, <1>11

LEMMA EdgeDrawn ==
    ASSUME SInv, NEW e \in Live
    PROVE  \E r \in 0 .. Total(count) - 1 : e \in Draws(r)
<1>1. /\ Remaining(count, sizes)
      /\ \A q \in Slot : count[q] \in 0 .. Dummy /\ sizes[q] \in 0 .. Dummy
      /\ Total(count) \in Nat /\ Dummy \in Nat
  BY CountsRemain, PrefixAscends, Sizes
<1>2. /\ e \in Slot \X (0 .. Dummy) /\ e[2] < sizes[e[1]]
      /\ label[Ends(e[1])[1]] # label[Ends(e[1])[2]]
  BY DEF Live
<1>3. e[1] \in Slot /\ e[2] \in 0 .. Dummy
  BY <1>2, PairIs
<1>4. count[e[1]] = sizes[e[1]]
  BY <1>2, <1>3 DEF SInv, CountsOK
<1>5. PICK q \in Slot, n \in Nat : q = e[1] /\ n = e[2] /\ n < count[q]
  BY <1>1, <1>2, <1>3, <1>4
<1>6. /\ Prefix(count, q-1) \in Nat /\ Prefix(count, q) \in Nat /\ count[q] \in Nat
      /\ Prefix(count, q) = Prefix(count, q-1) + count[q]
      /\ Prefix(count, q) <= Total(count)
  BY <1>1, PrefixAscends, PrefixAdds, Sizes
<1> DEFINE r == Prefix(count, q-1) + n
<1>7. r \in Nat /\ r \in 0 .. Total(count) - 1 /\ Prefix(count, q-1) <= r /\ r < Prefix(count, q)
      /\ r - Prefix(count, q-1) = n
  BY <1>1, <1>5, <1>6
<1> HIDE DEF r
<1>8. Falls(q, r) /\ Offset(q, r) = n
  BY <1>1, <1>7, FallsBetween
<1>9. e \in Draws(r)
  BY <1>2, <1>5, <1>8 DEF Draws
<1> QED BY <1>7, <1>9

\* Each number below the total draws one edge between two components, each
\* such edge is drawn, and there are as many of both: a uniform number draws a
\* uniform edge.
THEOREM EveryEdgeDrawn == Spec => []DrawsEveryEdgeOnce
<1>1. ASSUME SInv PROVE Total(count) = Cardinality(Live)
  <2> DEFINE R == 0 .. Total(count) - 1
             f == [r \in R |-> CHOOSE e \in Live : Draws(r) = {e} /\ r = Prefix(count, e[1] - 1) + e[2]]
  <2>1. ASSUME NEW r \in R
        PROVE  f[r] \in Live /\ Draws(r) = {f[r]} /\ r = Prefix(count, f[r][1] - 1) + f[r][2]
    BY <1>1, NumberDraws
  <2>2. Total(count) \in Nat
    BY <1>1, CountsRemain, PrefixAscends, Sizes
  <2>3. f \in [R -> Live]
    BY <2>1
  <2> HIDE DEF f
  <2>4. \A r, s \in R : f[r] = f[s] => r = s
    BY <2>1
  <2>5. \A e \in Live : \E r \in R : f[r] = e
    BY <1>1, <2>1, EdgeDrawn
  <2>6. f \in Bijection(R, Live)
    BY <2>3, <2>4, <2>5 DEF Bijection, Injection, Surjection, IsInjective
  <2>7. IsFiniteSet(R) /\ Cardinality(R) = Total(count)
    BY <2>2, FS_Interval
  <2>8. ExistsBijection(R, Live)
    BY <2>6 DEF ExistsBijection
  <2> QED BY <2>7, <2>8, FS_Bijection
<1>2. ASSUME SInv, NEW r \in 0 .. Total(count) - 1 PROVE Cardinality(Draws(r)) = 1
  BY <1>2, NumberDraws, FS_Singleton
<1>3. ASSUME SInv PROVE UNION {Draws(r) : r \in 0 .. Total(count) - 1} = Live
  <2>1. \A r \in 0 .. Total(count) - 1 : Draws(r) \subseteq Live
    BY <1>3, NumberDraws
  <2>2. \A e \in Live : \E r \in 0 .. Total(count) - 1 : e \in Draws(r)
    BY <1>3, EdgeDrawn
  <2> QED BY <2>1, <2>2
<1>4. SInv => DrawsEveryEdgeOnce
  BY <1>1, <1>2, <1>3 DEF DrawsEveryEdgeOnce, Live, Draws
<1> QED BY <1>4, SubgraphInvariance, PTL

(***************************************************************************)
(* Every number below the bound has the same chance.                       *)
(***************************************************************************)

LEMMA FiniteLists ==
    ASSUME NEW V, IsFiniteSet(V), NEW n \in Nat
    PROVE  IsFiniteSet([1 .. n -> V])
<1> DEFINE Bad == {m \in Nat : ~ IsFiniteSet([1 .. m -> V])}
<1>1. ASSUME Bad # {} PROVE FALSE
  <2>1. PICK m \in Bad : \A k \in Bad : m <= k
    <3>1. Bad \subseteq Nat
      OBVIOUS
    <3> HIDE DEF Bad
    <3> QED BY <1>1, <3>1, LeastNat
  <2>2. m # 0
    <3> DEFINE f == [k \in 1 .. 0 |-> 0]
    <3>1. ASSUME NEW g \in [1 .. 0 -> V] PROVE g = f
      OBVIOUS
    <3>2. [1 .. 0 -> V] \in SUBSET {f}
      BY <3>1
    <3>3. IsFiniteSet({f})
      BY FS_Singleton
    <3>4. IsFiniteSet([1 .. 0 -> V])
      BY <3>2, <3>3, FS_Subset
    <3> QED BY <3>4
  <2>3. m \in Nat /\ m-1 \in Nat /\ ~ (m <= m-1)
    BY <2>2
  <2>4. IsFiniteSet([1 .. m-1 -> V])
    BY <2>1, <2>3
  <2> DEFINE P == [1 .. m-1 -> V] \X V
             T == [1 .. m -> V]
             g == [x \in P |-> [k \in 1 .. m |-> IF k = m THEN x[2] ELSE x[1][k]]]
  <2>5. IsFiniteSet(P)
    BY <2>4, FS_Product
  <2>6. ASSUME NEW x \in P PROVE [k \in 1 .. m |-> IF k = m THEN x[2] ELSE x[1][k]] \in T
    <3>1. x[1] \in [1 .. m-1 -> V] /\ x[2] \in V
      BY PairIs
    <3>2. ASSUME NEW k \in 1 .. m PROVE (IF k = m THEN x[2] ELSE x[1][k]) \in V
      <4>1. k # m => k \in 1 .. m-1
        BY <2>3
      <4> QED BY <3>1, <4>1
    <3> QED BY <3>2
  <2>7. ASSUME NEW h \in T PROVE \E x \in P : g[x] = h
    <3> DEFINE x == <<[k \in 1 .. m-1 |-> h[k]], h[m]>>
    <3>1. m \in 1 .. m /\ \A k \in 1 .. m-1 : k \in 1 .. m
      BY <2>3
    <3>2. x \in P
      BY <3>1
    <3>3. \A k \in 1 .. m : k = m \/ k \in 1 .. m-1
      BY <2>3
    <3>4. x[2] = h[m] /\ \A k \in 1 .. m-1 : x[1][k] = h[k]
      OBVIOUS
    <3>5. g[x] = [k \in 1 .. m |-> IF k = m THEN x[2] ELSE x[1][k]]
      BY <3>2
    <3> HIDE DEF x
    <3>6. [k \in 1 .. m |-> IF k = m THEN x[2] ELSE x[1][k]] = h
      BY <3>3, <3>4
    <3> QED BY <3>2, <3>5, <3>6
  <2>8. g \in Surjection(P, T)
    <3>1. g \in [P -> T]
      BY <2>6
    <3> HIDE DEF g, P, T
    <3> QED BY <3>1, <2>7 DEF Surjection
  <2>9. IsFiniteSet(T)
    <3> HIDE DEF g, P, T
    <3> QED BY <2>5, <2>8, FS_Surjection
  <2> QED BY <2>3, <2>9
<1> QED BY <1>1

\* x with r and 0 exchanged.
Swap(x, r) == IF x = r THEN 0 ELSE IF x = 0 THEN r ELSE x

LEMMA SwapIs ==
    ASSUME NEW m \in Nat, NEW r \in 0 .. m, NEW x \in 0 .. m
    PROVE  Swap(x, r) \in 0 .. m /\ Swap(Swap(x, r), r) = x /\ (Swap(x, r) = 0 <=> x = r)
BY DEF Swap

SwapAll(c, r) == [t \in 1 .. Kappa |-> Swap(c[t], r)]

\* Exchanging two numbers below the bound in every try exchanges them in the
\* outcome, as it is the same try that succeeds.
LEMMA SwapOutcome ==
    ASSUME NEW bound \in Nat, NEW r \in 0 .. bound - 1, NEW c \in Candidates(bound)
    PROVE  /\ SwapAll(c, r) \in Candidates(bound)
           /\ SwapAll(SwapAll(c, r), r) = c
           /\ RandInt(SwapAll(c, r), bound) = 0 <=> RandInt(c, bound) = r
<1>1. Padded(bound) \in Nat /\ bound <= Padded(bound) /\ r \in 0 .. Padded(bound)
  BY PaddedBound
<1>2. c \in [1 .. Kappa -> 0 .. Padded(bound)]
  BY DEF Candidates
<1> DEFINE d == SwapAll(c, r)
<1>3. ASSUME NEW t \in 1 .. Kappa
      PROVE  /\ c[t] \in 0 .. Padded(bound)
             /\ d[t] = Swap(c[t], r)
             /\ d[t] \in 0 .. Padded(bound)
             /\ Swap(d[t], r) = c[t]
             /\ d[t] = 0 <=> c[t] = r
  <2>1. c[t] \in 0 .. Padded(bound)
    BY <1>2
  <2>2. d[t] = Swap(c[t], r)
    BY DEF SwapAll
  <2>3. /\ Swap(c[t], r) \in 0 .. Padded(bound)
        /\ Swap(Swap(c[t], r), r) = c[t]
        /\ Swap(c[t], r) = 0 <=> c[t] = r
    <3> DEFINE m == Padded(bound)
               x == c[t]
    <3>1. m \in Nat /\ r \in 0 .. m /\ x \in 0 .. m
      BY <1>1, <2>1
    <3> HIDE DEF m, x
    <3>2. Swap(x, r) \in 0 .. m /\ Swap(Swap(x, r), r) = x /\ (Swap(x, r) = 0 <=> x = r)
      BY <3>1, SwapIs
    <3> QED BY <3>2 DEF m, x
  <2> HIDE DEF d
  <2> QED BY <2>1, <2>2, <2>3
<1>4. d \in [1 .. Kappa -> 0 .. Padded(bound)]
  BY <1>3 DEF SwapAll
<1>5. SwapAll(d, r) = c
  <2>1. SwapAll(d, r) = [t \in 1 .. Kappa |-> c[t]]
    BY <1>3 DEF SwapAll
  <2> QED BY <1>2, <2>1
<1>6. Below(d, bound) = Below(c, bound)
  <2>1. \A t \in 1 .. Kappa : bound > d[t] <=> bound > c[t]
    BY <1>1, <1>3 DEF Swap
  <2> QED BY <2>1 DEF Below
<1>7. PICK t \in 1 .. Kappa : Selects(Below(c, bound), Kappa, t) /\ RandInt(c, bound) = c[t]
  BY RandIntSelects
<1>8. d \in Candidates(bound)
  BY <1>4 DEF Candidates
<1>9. RandInt(d, bound) = d[t]
  BY <1>6, <1>7, <1>8, RandIntIs
<1> QED BY <1>3, <1>5, <1>7, <1>8, <1>9

Outcome(r, bound) == {c \in Candidates(bound) : RandInt(c, bound) = r}

LEMMA OutcomesEqual ==
    ASSUME NEW bound \in Nat, NEW r \in 0 .. bound - 1
    PROVE  Cardinality(Outcome(r, bound)) = Cardinality(Outcome(0, bound))
           /\ Cardinality(Outcome(r, bound)) > 0
<1>1. Padded(bound) \in Nat /\ bound <= Padded(bound) /\ Kappa \in Nat \ {0}
  BY PaddedBound, SubgraphAssumption
<1>2. IsFiniteSet(Candidates(bound))
  <2>1. IsFiniteSet(0 .. Padded(bound))
    BY <1>1, FS_Interval
  <2> QED BY <1>1, <2>1, FiniteLists DEF Candidates
<1>3. IsFiniteSet(Outcome(r, bound))
  <2>1. Outcome(r, bound) \in SUBSET Candidates(bound)
    BY DEF Outcome
  <2> QED BY <1>2, <2>1, FS_Subset
<1> DEFINE f == [c \in Outcome(r, bound) |-> SwapAll(c, r)]
<1>4. ASSUME NEW c \in Outcome(r, bound)
      PROVE  SwapAll(c, r) \in Outcome(0, bound) /\ SwapAll(SwapAll(c, r), r) = c
  BY SwapOutcome DEF Outcome
<1>5. ASSUME NEW c \in Outcome(0, bound)
      PROVE  SwapAll(c, r) \in Outcome(r, bound) /\ SwapAll(SwapAll(c, r), r) = c
  <2>1. c \in Candidates(bound) /\ RandInt(c, bound) = 0
    BY DEF Outcome
  <2>2. SwapAll(c, r) \in Candidates(bound) /\ SwapAll(SwapAll(c, r), r) = c
    BY <2>1, SwapOutcome
  <2>3. RandInt(SwapAll(SwapAll(c, r), r), bound) = 0 <=> RandInt(SwapAll(c, r), bound) = r
    BY <2>2, SwapOutcome
  <2> QED BY <2>1, <2>2, <2>3 DEF Outcome
<1>6. f \in Bijection(Outcome(r, bound), Outcome(0, bound))
  <2>1. f \in [Outcome(r, bound) -> Outcome(0, bound)]
    BY <1>4
  <2>2. \A c, d \in Outcome(r, bound) : f[c] = f[d] => c = d
    BY <1>4
  <2>3. \A d \in Outcome(0, bound) : \E c \in Outcome(r, bound) : f[c] = d
    BY <1>5
  <2> HIDE DEF f
  <2> QED BY <2>1, <2>2, <2>3 DEF Bijection, Injection, Surjection, IsInjective
<1>7. Cardinality(Outcome(r, bound)) = Cardinality(Outcome(0, bound))
  <2>1. ExistsBijection(Outcome(r, bound), Outcome(0, bound))
    BY <1>6 DEF ExistsBijection
  <2> QED BY <1>3, <2>1, FS_Bijection
<1>8. Outcome(r, bound) # {}
  <2> DEFINE c == [t \in 1 .. Kappa |-> r]
  <2>1. c \in Candidates(bound)
    BY <1>1 DEF Candidates
  <2>2. \A t \in 1 .. Kappa : c[t] = r
    OBVIOUS
  <2> HIDE DEF c
  <2>3. RandInt(c, bound) = r
    BY <2>1, <2>2, RandIntSelects
  <2> QED BY <2>1, <2>3 DEF Outcome
<1>9. Cardinality(Outcome(r, bound)) \in Nat /\ Cardinality(Outcome(r, bound)) # 0
  BY <1>3, <1>8, FS_EmptySet, FS_CardinalityType
<1> QED BY <1>7, <1>9

\* Of the lists of candidates, equally many give each number below the bound,
\* and some do: the numbers drawn are uniform whatever the bound.
THEOREM RandIntAlwaysFair == Spec => []RandIntFair
<1>1. ASSUME SInv, NEW r \in 0 .. Total(count) - 1
      PROVE  /\ Cardinality(Outcome(r, Total(count))) = Cardinality(Outcome(0, Total(count)))
             /\ Cardinality(Outcome(r, Total(count))) > 0
  <2>1. Total(count) \in Nat
    BY <1>1, CountsRemain, PrefixAscends, Sizes
  <2> QED BY <2>1, OutcomesEqual
<1>2. SInv => RandIntFair
  BY <1>1 DEF RandIntFair, Outcome, Candidates
<1> QED BY <1>2, SubgraphInvariance, PTL
=============================================================================
