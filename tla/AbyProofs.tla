------------------------------- MODULE AbyProofs -------------------------------
(***************************************************************************)
(* The invariant of AbyInvariant holds, for every workload of circuits:    *)
(* what a party takes of the triples, and asks for of the conversions, is  *)
(* what the gates of its layers weigh.                                     *)
(*                                                                         *)
(* First sums over the gates by layers, and what the lists of ids that the *)
(* queues hold weigh; then, of each sharing, what its gates take in a      *)
(* layer and at its end; then all sharings together, and the steps.        *)
(* Every loop of the code is a fold, for which Folding is taken with the   *)
(* step of the loop and what the step keeps.                               *)
(***************************************************************************)
EXTENDS AbyInvariant, TLAPS, WellFoundedInduction

-------------------------------------------------------------------------------
(***************************************************************************)
(* Natural numbers.                                                        *)
(***************************************************************************)
\* < on the natural numbers, as a set of pairs.
NatLess == {ss \in Nat \X Nat : ss[1] < ss[2]}

LEMMA LeastNat == \A T \in SUBSET Nat : T # {} => \E x \in T : \A y \in T : x <= y
<1> SUFFICES ASSUME NEW T \in SUBSET Nat, T # {} PROVE \E x \in T : \A y \in T : x <= y
  OBVIOUS
<1>1. NatLess = OpToRel(<, Nat)
  BY DEF OpToRel, NatLess
<1>2. PICK x \in T : \A y \in T : ~ (<<y, x>> \in NatLess)
  BY <1>1, NatLessThanWellFounded, WFMin, Zenon
<1>3. ASSUME NEW y \in T PROVE x <= y
  <2>1. <<y, x>> \in Nat \X Nat /\ <<y, x>>[1] = y /\ <<y, x>>[2] = x
    OBVIOUS
  <2> QED BY <1>2, <2>1 DEF NatLess
<1> QED BY <1>3

\* Induction up to n: a set that has the 0, and with a number the next.
LEMMA UpToInduction ==
    ASSUME NEW n \in Nat, NEW T, 0 \in T, \A m \in 1 .. n : m - 1 \in T => m \in T
    PROVE  \A m \in 0 .. n : m \in T
<1> DEFINE Bad == (0 .. n) \ T
<1> SUFFICES ASSUME Bad # {} PROVE FALSE
  OBVIOUS
<1>1. PICK m \in Bad : \A k \in Bad : m <= k
  <2>1. Bad \subseteq Nat OBVIOUS
  <2> HIDE DEF Bad
  <2> QED BY <2>1, LeastNat
<1>2. m \in 1 .. n /\ m - 1 \in 0 .. n /\ ~ (m <= m - 1)
  OBVIOUS
<1> QED BY <1>1, <1>2

(***************************************************************************)
(* Sums.                                                                   *)
(***************************************************************************)
IsSum(f, w, m) == f = [k \in 0 .. m |-> IF k = 0 THEN 0 ELSE f[k - 1] + w[k]]

LEMMA SumExists ==
    ASSUME NEW w, NEW m \in Nat
    PROVE  \E f : IsSum(f, w, m)
<1> DEFINE Missing == {n \in Nat : ~ \E f : IsSum(f, w, n)}
<1> SUFFICES ASSUME Missing # {} PROVE FALSE
  OBVIOUS
<1>1. PICK n \in Missing : \A k \in Missing : n <= k
  <2> HIDE DEF Missing
  <2>1. Missing \subseteq Nat BY DEF Missing
  <2> QED BY <2>1, LeastNat
<1>2. n # 0
  <2>1. IsSum([k \in 0 .. 0 |-> 0], w, 0)
    BY DEF IsSum
  <2> QED BY <2>1
<1>3. PICK f : IsSum(f, w, n - 1)
  BY <1>1, <1>2
<1> DEFINE g == [k \in 0 .. n |-> IF k < n THEN f[k] ELSE f[n - 1] + w[n]]
<1>4. ASSUME NEW k \in 0 .. n
      PROVE  g[k] = IF k = 0 THEN 0 ELSE g[k - 1] + w[k]
  <2>1. CASE k = 0
    BY <2>1, <1>2, <1>3 DEF IsSum
  <2>2. CASE k # 0 /\ k < n
    <3>1. g[k] = f[k] /\ g[k - 1] = f[k - 1]
      BY <2>2
    <3>2. f[k] = f[k - 1] + w[k]
      BY <2>2, <1>3 DEF IsSum
    <3> QED BY <3>1, <3>2, <2>2
  <2>3. CASE k = n
    <3>1. g[k] = f[n - 1] + w[n] /\ g[k - 1] = f[n - 1]
      BY <2>3, <1>2
    <3> QED BY <3>1, <2>3, <1>2
  <2> QED BY <2>1, <2>2, <2>3
<1>5. IsSum(g, w, n)
  <2>1. g = [k \in 0 .. n |-> IF k = 0 THEN 0 ELSE g[k - 1] + w[k]]
    <3>1. g = [k \in 0 .. n |-> g[k]]
      OBVIOUS
    <3> HIDE DEF g
    <3> QED BY <1>4, <3>1, Zenon
  <2> QED BY <2>1 DEF IsSum
<1> QED BY <1>5

LEMMA SameSum ==
    ASSUME NEW w, NEW m \in Nat, NEW f, IsSum(f, w, m), NEW n \in Nat, NEW g, IsSum(g, w, n),
           NEW k \in Nat, k <= m, k <= n
    PROVE  f[k] = g[k]
<1> DEFINE Bad == {l \in 0 .. k : f[l] # g[l]}
<1> SUFFICES ASSUME Bad # {} PROVE FALSE
  OBVIOUS
<1>1. PICK l \in Bad : \A j \in Bad : l <= j
  <2>1. Bad \subseteq Nat OBVIOUS
  <2> HIDE DEF Bad
  <2> QED BY <2>1, LeastNat
<1>2. l # 0
  BY DEF IsSum
<1>3. l - 1 \in 0 .. k /\ ~ (l <= l - 1)
  BY <1>2
<1>4. f[l - 1] = g[l - 1]
  BY <1>3, <1>1
<1>5. f[l] = f[l - 1] + w[l] /\ g[l] = g[l - 1] + w[l]
  BY <1>2 DEF IsSum
<1> QED BY <1>4, <1>5

LEMMA TotalIs ==
    ASSUME NEW w, NEW m \in Nat, NEW n \in 0 .. m, NEW f, IsSum(f, w, m)
    PROVE  Total(w, n) = f[n]
<1> DEFINE Is(h) == h = [k \in 0 .. n |-> IF k = 0 THEN 0 ELSE h[k - 1] + w[k]]
           sum == CHOOSE h : Is(h)
<1>1. Total(w, n) = sum[n]
  BY DEF Total
<1>2. IsSum(sum, w, n)
  <2>1. PICK h : Is(h)
    <3>1. PICK h : IsSum(h, w, n)
      BY SumExists
    <3>2. Is(h)
      BY <3>1 DEF IsSum
    <3> HIDE DEF Is
    <3> QED BY <3>2
  <2>2. Is(sum)
    <3> HIDE DEF Is
    <3> QED BY <2>1
  <2> QED BY <2>2, Zenon DEF IsSum
<1> HIDE DEF sum
<1>3. sum[n] = f[n]
  BY <1>2, SameSum
<1> QED BY <1>1, <1>3

LEMMA TotalNothing == ASSUME NEW w PROVE Total(w, 0) = 0
<1>1. PICK f : IsSum(f, w, 0)
  BY SumExists
<1>2. 0 \in 0 .. 0 /\ 0 \in Nat
  OBVIOUS
<1>3. Total(w, 0) = f[0]
  BY <1>1, <1>2, TotalIs
<1> QED BY <1>1, <1>3 DEF IsSum

LEMMA TotalOneMore ==
    ASSUME NEW w, NEW n \in Nat
    PROVE  Total(w, n + 1) = Total(w, n) + w[n + 1]
<1>1. PICK f : IsSum(f, w, n + 1)
  BY SumExists
<1>2. n \in 0 .. n + 1 /\ n + 1 \in 0 .. n + 1 /\ n + 1 \in Nat
  OBVIOUS
<1>3. Total(w, n) = f[n] /\ Total(w, n + 1) = f[n + 1]
  BY <1>1, <1>2, TotalIs
<1>4. f[n + 1] = f[n] + w[n + 1]
  BY <1>1, <1>2 DEF IsSum
<1> QED BY <1>3, <1>4

LEMMA TotalStep ==
    ASSUME NEW w, NEW n \in Nat, NEW m \in 1 .. n
    PROVE  Total(w, m) = Total(w, m - 1) + w[m]
<1>1. m - 1 \in Nat /\ (m - 1) + 1 = m
  OBVIOUS
<1> QED BY <1>1, TotalOneMore

LEMMA TotalNat ==
    ASSUME NEW w, NEW n \in Nat, \A k \in 1 .. n : w[k] \in Nat
    PROVE  \A m \in 0 .. n : Total(w, m) \in Nat
<1> DEFINE T == {m \in 0 .. n : Total(w, m) \in Nat}
<1>1. 0 \in T
  BY TotalNothing
<1>2. ASSUME NEW m \in 1 .. n, m - 1 \in T PROVE m \in T
  BY <1>2, TotalStep
<1> HIDE DEF T
<1>3. \A m \in 0 .. n : m \in T
  BY <1>1, <1>2, UpToInduction
<1> QED BY <1>3 DEF T

LEMMA TotalSame ==
    ASSUME NEW n \in Nat, NEW v, NEW w, \A k \in 1 .. n : v[k] = w[k]
    PROVE  Total(v, n) = Total(w, n)
<1> DEFINE T == {m \in 0 .. n : Total(v, m) = Total(w, m)}
<1>1. 0 \in T
  BY TotalNothing
<1>2. ASSUME NEW m \in 1 .. n, m - 1 \in T PROVE m \in T
  <2>1. Total(v, m) = Total(v, m - 1) + v[m] /\ Total(w, m) = Total(w, m - 1) + w[m]
    BY TotalStep
  <2> QED BY <1>2, <2>1
<1> HIDE DEF T
<1>3. \A m \in 0 .. n : m \in T
  BY <1>1, <1>2, UpToInduction
<1> QED BY <1>3 DEF T

LEMMA TotalPlus ==
    ASSUME NEW n \in Nat, NEW u, NEW v, NEW w,
           \A k \in 1 .. n : v[k] \in Nat /\ w[k] \in Nat /\ u[k] = v[k] + w[k]
    PROVE  Total(u, n) = Total(v, n) + Total(w, n)
<1> DEFINE T == {m \in 0 .. n : Total(u, m) = Total(v, m) + Total(w, m)}
<1>1. 0 \in T
  BY TotalNothing
<1>2. ASSUME NEW m \in 1 .. n, m - 1 \in T PROVE m \in T
  <2>1. /\ Total(u, m) = Total(u, m - 1) + u[m]
        /\ Total(v, m) = Total(v, m - 1) + v[m]
        /\ Total(w, m) = Total(w, m - 1) + w[m]
    BY TotalStep
  <2>2. /\ Total(v, m - 1) \in Nat /\ Total(w, m - 1) \in Nat
        /\ v[m] \in Nat /\ w[m] \in Nat /\ u[m] = v[m] + w[m]
    <3>1. m - 1 \in 0 .. n
      OBVIOUS
    <3> QED BY <3>1, TotalNat
  <2>3. Total(u, m - 1) = Total(v, m - 1) + Total(w, m - 1)
    BY <1>2
  <2>4. Total(u, m) = Total(v, m) + Total(w, m)
    BY ONLY <2>1, <2>2, <2>3
  <2> QED BY <2>4
<1> HIDE DEF T
<1>3. \A m \in 0 .. n : m \in T
  BY <1>1, <1>2, UpToInduction
<1> QED BY <1>3 DEF T

LEMMA TotalLeq ==
    ASSUME NEW n \in Nat, NEW v, NEW w,
           \A k \in 1 .. n : v[k] \in Nat /\ w[k] \in Nat /\ v[k] <= w[k]
    PROVE  Total(v, n) <= Total(w, n)
<1> DEFINE T == {m \in 0 .. n : Total(v, m) <= Total(w, m)}
<1>1. 0 \in T
  BY TotalNothing
<1>2. ASSUME NEW m \in 1 .. n, m - 1 \in T PROVE m \in T
  <2>1. /\ Total(v, m) = Total(v, m - 1) + v[m]
        /\ Total(w, m) = Total(w, m - 1) + w[m]
    BY TotalStep
  <2>2. /\ Total(v, m - 1) \in Nat /\ Total(w, m - 1) \in Nat
        /\ v[m] \in Nat /\ w[m] \in Nat /\ v[m] <= w[m]
    <3>1. m - 1 \in 0 .. n
      OBVIOUS
    <3> QED BY <3>1, TotalNat
  <2>3. Total(v, m - 1) <= Total(w, m - 1)
    BY <1>2
  <2>4. Total(v, m) <= Total(w, m)
    BY ONLY <2>1, <2>2, <2>3
  <2> QED BY <2>4
<1> HIDE DEF T
<1>3. \A m \in 0 .. n : m \in T
  BY <1>1, <1>2, UpToInduction
<1> QED BY <1>3 DEF T

(***************************************************************************)
(* Ids in their order.                                                     *)
(***************************************************************************)
\* w of the elements, and 0 of others.
Only(S, w, n) == [i \in 1 .. n |-> IF i \in S THEN w[i] ELSE 0]
Of(w, q) == [k \in 1 .. Len(q) |-> w[q[k]]]

LEMMA PicksLast ==
    ASSUME NEW n \in Nat \ {0}, NEW S, NEW q, Picks(q, S), S \subseteq 1 .. n, n \in S
    PROVE  Len(q) > 0 /\ q[Len(q)] = n
<1>1. PICK k \in 1 .. Len(q) : q[k] = n
  BY DEF Picks
<1>2. k = Len(q)
  <2> SUFFICES ASSUME k # Len(q) PROVE FALSE
    OBVIOUS
  <2>0. Len(q) \in Nat
    BY DEF Picks
  <2>1. Len(q) \in 1 .. Len(q) /\ k < Len(q)
    BY ONLY <2>0, k \in 1 .. Len(q), k # Len(q)
  <2>2. q[k] < q[Len(q)] /\ q[Len(q)] \in 1 .. n
    BY <2>1, Zenon DEF Picks
  <2> QED BY <1>1, <2>2
<1> QED BY <1>1, <1>2 DEF Picks

LEMMA PicksFront ==
    ASSUME NEW n \in Nat \ {0}, NEW S, NEW q, Picks(q, S), S \subseteq 1 .. n, n \in S
    PROVE  Picks([k \in 1 .. Len(q) - 1 |-> q[k]], S \ {n})
<1> DEFINE f == [k \in 1 .. Len(q) - 1 |-> q[k]]
<1>1. Len(q) > 0 /\ q[Len(q)] = n /\ Len(q) \in Nat
  BY PicksLast DEF Picks
<1>2. Len(f) = Len(q) - 1 /\ DOMAIN f = 1 .. Len(f)
  BY <1>1
<1>3. ASSUME NEW k \in 1 .. Len(f) PROVE f[k] \in S \ {n}
  <2>1. k \in 1 .. Len(q) /\ k < Len(q) /\ Len(q) \in 1 .. Len(q) /\ f[k] = q[k]
    BY <1>1, <1>2
  <2>2. q[k] \in S /\ q[k] < q[Len(q)]
    BY <2>1 DEF Picks
  <2> QED BY <2>1, <2>2, <1>1
<1>4. ASSUME NEW i \in S \ {n} PROVE \E k \in 1 .. Len(f) : f[k] = i
  <2>1. PICK k \in 1 .. Len(q) : q[k] = i
    BY DEF Picks
  <2>2. k \in 1 .. Len(f)
    BY <2>1, <1>1, <1>2
  <2> QED BY <2>1, <2>2, <1>2
<1>5. ASSUME NEW k \in 1 .. Len(f), NEW l \in 1 .. Len(f), k < l PROVE f[k] < f[l]
  <2>1. k \in 1 .. Len(q) /\ l \in 1 .. Len(q) /\ f[k] = q[k] /\ f[l] = q[l]
    BY <1>1, <1>2
  <2> QED BY <2>1, <1>5 DEF Picks
<1>6. f \in Seq(Nat) /\ S \ {n} \subseteq Nat \ {0}
  <2>1. \A k \in 1 .. Len(q) - 1 : q[k] \in Nat
    BY DEF Picks
  <2>2. Len(q) - 1 \in Nat
    BY <1>1
  <2> QED BY <2>1, <2>2 DEF Picks
<1> HIDE DEF f
<1>7. Picks(f, S \ {n})
  BY <1>2, <1>3, <1>4, <1>5, <1>6 DEF Picks
<1> QED BY <1>7 DEF f

LEMMA PicksNothing ==
    ASSUME NEW q, Picks(q, {})
    PROVE  Len(q) = 0
<1>1. Len(q) \in Nat /\ ~ (1 \in 1 .. Len(q))
  BY DEF Picks
<1> QED BY ONLY <1>1

\* What the picked ids weigh is what the set weighs.
LEMMA TotalPicked ==
    ASSUME NEW n \in Nat, NEW w, \A i \in 1 .. n : w[i] \in Nat,
           NEW S \in SUBSET (1 .. n), NEW q, Picks(q, S)
    PROVE  Total(Of(w, q), Len(q)) = Total(Only(S, w, n), n)
<1> DEFINE Fits(m) == \A R \in SUBSET (1 .. m) : \A r :
                          Picks(r, R) => Total(Of(w, r), Len(r)) = Total(Only(R, w, m), m)
           T == {m \in 0 .. n : Fits(m)}
<1>1. 0 \in T
  <2>1. ASSUME NEW R \in SUBSET (1 .. 0), NEW r, Picks(r, R)
        PROVE  Total(Of(w, r), Len(r)) = Total(Only(R, w, 0), 0)
    <3>1. R = {}
      OBVIOUS
    <3>2. Len(r) = 0
      BY <2>1, <3>1, PicksNothing
    <3> QED BY <3>2, TotalNothing
  <2> QED BY <2>1
<1>2. ASSUME NEW m \in 1 .. n, m - 1 \in T PROVE m \in T
  <2>1. ASSUME NEW R \in SUBSET (1 .. m), NEW r, Picks(r, R)
        PROVE  Total(Of(w, r), Len(r)) = Total(Only(R, w, m), m)
    <3>0. m \in Nat \ {0} /\ m - 1 \in Nat /\ Fits(m - 1)
      BY <1>2
    <3>1. Total(Only(R, w, m), m) = Total(Only(R, w, m), m - 1) + Only(R, w, m)[m]
      <4>1. m \in 1 .. m
        OBVIOUS
      <4> QED BY <4>1, <3>0, TotalStep
    <3>2. Total(Only(R, w, m), m - 1) = Total(Only(R \ {m}, w, m - 1), m - 1)
      <4>1. \A k \in 1 .. m - 1 : Only(R, w, m)[k] = Only(R \ {m}, w, m - 1)[k]
        BY DEF Only
      <4> QED BY <4>1, <3>0, TotalSame, Zenon
    <3>3. CASE m \notin R
      <4>1. R \ {m} = R /\ R \in SUBSET (1 .. m - 1)
        BY <3>3
      <4>2. Total(Of(w, r), Len(r)) = Total(Only(R, w, m - 1), m - 1)
        <5> HIDE DEF T
        <5> QED BY <2>1, <4>1, <3>0
      <4>3. Only(R, w, m)[m] = 0
        BY <3>3 DEF Only
      <4>4. Total(Only(R, w, m - 1), m - 1) \in Nat
        <5>1. \A k \in 1 .. m - 1 : Only(R, w, m - 1)[k] \in Nat
          BY DEF Only
        <5>2. m - 1 \in 0 .. m - 1
          BY <3>0
        <5> QED BY <5>1, <5>2, <3>0, TotalNat, Zenon
      <4>5. Total(Only(R, w, m), m - 1) = Total(Only(R, w, m - 1), m - 1)
        BY ONLY <3>2, <4>1
      <4> QED BY ONLY <3>1, <4>2, <4>3, <4>4, <4>5
    <3>4. CASE m \in R
      <4> DEFINE f == [k \in 1 .. Len(r) - 1 |-> r[k]]
      <4>1. Len(r) > 0 /\ r[Len(r)] = m /\ Len(r) \in Nat
        <5>1. Len(r) > 0 /\ r[Len(r)] = m
          BY <2>1, <3>0, <3>4, PicksLast, Zenon
        <5> QED BY <5>1, <2>1 DEF Picks
      <4>2. Picks(f, R \ {m})
        BY <2>1, <3>0, <3>4, PicksFront, Zenon
      <4>3. Len(f) = Len(r) - 1
        BY <4>1
      <4> HIDE DEF f
      <4>4. R \ {m} \in SUBSET (1 .. m - 1)
        OBVIOUS
      <4>5. Total(Of(w, f), Len(f)) = Total(Only(R \ {m}, w, m - 1), m - 1)
        BY <3>0, <4>2, <4>4
      <4>6. Total(Of(w, r), Len(r)) = Total(Of(w, r), Len(r) - 1) + Of(w, r)[Len(r)]
        <5>1. Len(r) \in 1 .. Len(r)
          BY <4>1
        <5> QED BY <5>1, <4>1, TotalStep
      <4>7. Total(Of(w, r), Len(r) - 1) = Total(Of(w, f), Len(r) - 1)
        <5>1. \A k \in 1 .. Len(r) - 1 : Of(w, r)[k] = Of(w, f)[k]
          <6>1. ASSUME NEW k \in 1 .. Len(r) - 1 PROVE Of(w, r)[k] = Of(w, f)[k]
            <7>1. k \in 1 .. Len(r) /\ k \in 1 .. Len(f) /\ f[k] = r[k]
              BY <4>1, <4>3 DEF f
            <7> QED BY <7>1 DEF Of
          <6> QED BY <6>1
        <5>2. Len(r) - 1 \in Nat
          BY <4>1
        <5> QED BY <5>1, <5>2, TotalSame, Zenon
      <4>8. Of(w, r)[Len(r)] = w[m] /\ Only(R, w, m)[m] = w[m]
        <5>1. Len(r) \in 1 .. Len(r)
          BY <4>1
        <5> QED BY <5>1, <4>1, <3>4 DEF Of, Only
      <4> QED BY <3>1, <3>2, <4>3, <4>5, <4>6, <4>7, <4>8
    <3> QED BY <3>3, <3>4
  <2>2. Fits(m)
    BY <2>1
  <2> QED BY <2>2
<1> HIDE DEF T
<1>3. \A m \in 0 .. n : m \in T
  BY <1>1, <1>2, UpToInduction
<1>4. n \in T
  BY <1>3
<1>5. Fits(n)
  BY <1>4 DEF T
<1> QED BY <1>5

-------------------------------------------------------------------------------
(***************************************************************************)
(* What InOrder and Selected give.                                         *)
(***************************************************************************)
PickOne(S, t, i) == IF i \in S THEN Append(t, i) ELSE t
PickedSoFar(S, b, n, t) == t \in Seq(Nat) /\ Picks(t, {i \in S : i <= n})
Picking == INSTANCE Folding WITH Op <- PickOne, Inv <- PickedSoFar

LEMMA PicksAppend ==
    ASSUME NEW t \in Seq(Nat), NEW R, Picks(t, R), NEW i \in Nat \ {0}, \A j \in R : j < i
    PROVE  Picks(Append(t, i), R \cup {i})
<1> DEFINE u == Append(t, i)
<1>1. /\ Len(u) = Len(t) + 1 /\ DOMAIN u = 1 .. Len(u) /\ Len(t) \in Nat /\ u[Len(u)] = i
      /\ \A k \in 1 .. Len(t) : u[k] = t[k]
  OBVIOUS
<1> HIDE DEF u
<1>2. \A k \in 1 .. Len(u) : k \in 1 .. Len(t) \/ k = Len(u)
  BY <1>1
<1>3. \A k \in 1 .. Len(t) : u[k] \in R /\ u[k] < i
  BY <1>1, Zenon DEF Picks
<1>4. ASSUME NEW k \in 1 .. Len(u) PROVE u[k] \in R \cup {i}
  BY <1>1, <1>2, <1>3
<1>5. ASSUME NEW j \in R \cup {i} PROVE \E k \in 1 .. Len(u) : u[k] = j
  <2>1. CASE j \in R
    <3>1. PICK k \in 1 .. Len(t) : t[k] = j
      BY <2>1 DEF Picks
    <3>2. k \in 1 .. Len(u) /\ u[k] = j
      BY <3>1, <1>1
    <3> QED BY <3>2
  <2>2. CASE j = i
    <3>1. Len(u) \in 1 .. Len(u)
      BY <1>1
    <3> QED BY <3>1, <1>1, <2>2
  <2> QED BY <2>1, <2>2
<1>6. ASSUME NEW k \in 1 .. Len(u), NEW l \in 1 .. Len(u), k < l PROVE u[k] < u[l]
  <2>1. k \in 1 .. Len(t)
    BY <1>6, <1>1
  <2>2. CASE l \in 1 .. Len(t)
    BY <2>1, <2>2, <1>6, <1>1 DEF Picks
  <2>3. CASE l = Len(u)
    BY <2>1, <2>3, <1>1, <1>3
  <2> QED BY <2>2, <2>3, <1>2
<1>7. u \in Seq(Nat) /\ R \cup {i} \subseteq Nat \ {0}
  BY <1>1 DEF Picks, u
<1>8. Picks(u, R \cup {i})
  BY <1>1, <1>4, <1>5, <1>6, <1>7 DEF Picks
<1> QED BY <1>8 DEF u

LEMMA InOrderPicks ==
    ASSUME NEW n \in Nat, NEW S \in SUBSET (1 .. n)
    PROVE  Picks(InOrder(S, n), S) /\ InOrder(S, n) \in Seq(Nat)
<1> DEFINE ids == [i \in 1 .. n |-> i]
<1>1. Len(ids) = n /\ \A k \in 1 .. n : ids[k] = k
  OBVIOUS
<1>0. \A i \in S : i \in Nat /\ i >= 1 /\ i <= n
  OBVIOUS
<1>2. PickedSoFar(S, 0, 0, <<>>)
  <2>1. {i \in S : i <= 0} = {}
    <3>1. \A i \in S : ~ (i <= 0)
      BY <1>0
    <3> QED BY <3>1, Zenon
  <2>2. Len(<<>>) = 0 /\ DOMAIN <<>> = 1 .. 0 /\ <<>> \in Seq(Nat)
    OBVIOUS
  <2> QED BY <2>1, <2>2 DEF PickedSoFar, Picks
<1>3. Picking!Kept(S, 0, ids)
  <2>1. ASSUME NEW m \in 1 .. n, NEW t, PickedSoFar(S, 0, m - 1, t)
        PROVE  PickedSoFar(S, 0, m, PickOne(S, t, m))
    <3>1. CASE m \in S
      <4>0. \A i \in S : i <= m <=> i <= m - 1 \/ i = m
        BY <1>0
      <4>1. {i \in S : i <= m} = {i \in S : i <= m - 1} \cup {m}
        BY <3>1, <4>0, Zenon
      <4>2. Picks(Append(t, m), {i \in S : i <= m - 1} \cup {m})
        <5>1. \A j \in {i \in S : i <= m - 1} : j < m
          BY <1>0
        <5>2. t \in Seq(Nat) /\ Picks(t, {i \in S : i <= m - 1}) /\ m \in Nat \ {0}
          BY <2>1 DEF PickedSoFar
        <5> HIDE DEF ids
        <5> QED BY <5>1, <5>2, PicksAppend, Zenon
      <4>3. Append(t, m) \in Seq(Nat)
        BY <2>1 DEF PickedSoFar
      <4> QED BY <4>1, <4>2, <4>3, <3>1, Zenon DEF PickedSoFar, PickOne
    <3>2. CASE m \notin S
      <4>0. \A i \in S : i <= m <=> i <= m - 1
        BY <1>0, <3>2
      <4>1. {i \in S : i <= m} = {i \in S : i <= m - 1}
        BY <4>0, Zenon
      <4> QED BY <4>1, <3>2, <2>1, Zenon DEF PickedSoFar, PickOne
    <3> QED BY <3>1, <3>2
  <2> QED BY <1>1, <2>1 DEF Picking!Kept
<1>4. InOrder(S, n) = Picking!ThroughAll(S, <<>>, ids)
  BY DEF InOrder, Through, Once, Picking!ThroughAll, PickOne
<1> HIDE DEF ids
<1>5. PickedSoFar(S, 0, n, InOrder(S, n))
  BY <1>1, <1>2, <1>3, <1>4, LeastNat, Picking!ThroughInvariant
<1>6. {i \in S : i <= n} = S
  BY <1>0, Zenon
<1> QED BY <1>5, <1>6, Zenon DEF PickedSoFar

-------------------------------------------------------------------------------
(***************************************************************************)
(* What the gates of a circuit weigh, by layers.                           *)
(***************************************************************************)
LEMMA TotalZero ==
    ASSUME NEW n \in Nat, NEW w, \A k \in 1 .. n : w[k] = 0
    PROVE  Total(w, n) = 0
<1> DEFINE T == {m \in 0 .. n : Total(w, m) = 0}
<1>1. 0 \in T
  BY TotalNothing
<1>2. ASSUME NEW m \in 1 .. n, m - 1 \in T PROVE m \in T
  <2>1. Total(w, m) = Total(w, m - 1) + w[m]
    BY TotalStep
  <2> QED BY <1>2, <2>1
<1> HIDE DEF T
<1>3. \A m \in 0 .. n : m \in T
  BY <1>1, <1>2, UpToInduction
<1> QED BY <1>3 DEF T

Weights(c, w) == Len(c.gates) \in Nat /\ \A i \in Newer(c) : w[i] \in Nat

LEMMA SumsAreNat ==
    ASSUME NEW c, HasGatesInOrder(c), NEW w, Weights(c, w), NEW d \in Int
    PROVE  BeforeLayer(c, w, d) \in Nat /\ AtLayer(c, w, d) \in Nat /\ InAll(c, w) \in Nat
<1>1. Len(c.gates) \in Nat /\ Len(c.gates) \in 0 .. Len(c.gates)
  BY DEF HasGatesInOrder
<1>2. \A i \in 1 .. Len(c.gates) : w[i] \in Nat
  BY DEF Weights, Newer
<1>3. \A i \in 1 .. Len(c.gates) : BeforeDepth(c, w, d)[i] \in Nat
  BY <1>2 DEF BeforeDepth, Newer
<1>4. \A i \in 1 .. Len(c.gates) : AtDepthOnly(c, w, d)[i] \in Nat
  BY <1>2 DEF AtDepthOnly, Newer
<1> QED BY <1>1, <1>2, <1>3, <1>4, TotalNat, Zenon DEF BeforeLayer, AtLayer, InAll

LEMMA BeforeNone ==
    ASSUME NEW c, HasGatesInOrder(c), NEW w
    PROVE  BeforeLayer(c, w, 0) = 0
<1>1. \A i \in 1 .. Len(c.gates) : BeforeDepth(c, w, 0)[i] = 0
  BY DEF BeforeDepth, Newer, HasGatesInOrder, IsGate
<1> QED BY <1>1, TotalZero DEF BeforeLayer, HasGatesInOrder

LEMMA BeforeNext ==
    ASSUME NEW c, HasGatesInOrder(c), NEW w, Weights(c, w), NEW d \in Nat
    PROVE  BeforeLayer(c, w, d + 1) = BeforeLayer(c, w, d) + AtLayer(c, w, d)
<1>1. ASSUME NEW i \in 1 .. Len(c.gates)
      PROVE  /\ BeforeDepth(c, w, d)[i] \in Nat /\ AtDepthOnly(c, w, d)[i] \in Nat
             /\ BeforeDepth(c, w, d + 1)[i] = BeforeDepth(c, w, d)[i] + AtDepthOnly(c, w, d)[i]
  <2>1. c.gates[i].depth \in Nat /\ w[i] \in Nat
    BY DEF HasGatesInOrder, IsGate, Weights, Newer
  <2> QED BY <2>1 DEF BeforeDepth, AtDepthOnly, Newer
<1>2. Len(c.gates) \in Nat
  BY DEF HasGatesInOrder
<1> DEFINE u == BeforeDepth(c, w, d + 1)
           v == BeforeDepth(c, w, d)
           t == AtDepthOnly(c, w, d)
<1>3. \A i \in 1 .. Len(c.gates) : v[i] \in Nat /\ t[i] \in Nat /\ u[i] = v[i] + t[i]
  BY <1>1
<1> HIDE DEF u, v, t
<1>4. ASSUME NEW n \in Nat, \A i \in 1 .. n : v[i] \in Nat /\ t[i] \in Nat /\ u[i] = v[i] + t[i]
      PROVE  Total(u, n) = Total(v, n) + Total(t, n)
  BY ONLY <1>4, TotalPlus
<1>5. Total(u, Len(c.gates)) = Total(v, Len(c.gates)) + Total(t, Len(c.gates))
  BY ONLY <1>2, <1>3, <1>4
<1> QED BY <1>5 DEF BeforeLayer, AtLayer, u, v, t

LEMMA BeforeAll ==
    ASSUME NEW c, HasGatesInOrder(c), NEW w, Weights(c, w), NEW d \in Nat,
           \A i \in 1 .. Len(c.gates) : w[i] = 0 \/ c.gates[i].depth < d
    PROVE  BeforeLayer(c, w, d) = InAll(c, w)
<1>1. \A i \in 1 .. Len(c.gates) : BeforeDepth(c, w, d)[i] = w[i]
  BY DEF BeforeDepth, Newer
<1> QED BY <1>1, TotalSame, Zenon DEF BeforeLayer, InAll, HasGatesInOrder

LEMMA BeforeLeqAll ==
    ASSUME NEW c, HasGatesInOrder(c), NEW w, Weights(c, w), NEW d \in Nat
    PROVE  BeforeLayer(c, w, d) <= InAll(c, w)
<1>1. \A i \in 1 .. Len(c.gates) :
          /\ BeforeDepth(c, w, d)[i] \in Nat /\ w[i] \in Nat
          /\ BeforeDepth(c, w, d)[i] <= w[i]
  BY DEF BeforeDepth, Newer, Weights
<1> QED BY <1>1, TotalLeq DEF BeforeLayer, InAll, HasGatesInOrder

\* What a queue weighs that has the gates of a layer.
LEMMA QueueWeighs ==
    ASSUME NEW c, HasGatesInOrder(c), NEW w, Weights(c, w), NEW d \in Nat,
           NEW S \in SUBSET Newer(c), NEW q, Picks(q, S),
           \A i \in S : c.gates[i].depth = d,
           \A i \in Newer(c) : c.gates[i].depth = d /\ w[i] # 0 => i \in S
    PROVE  Total(Of(w, q), Len(q)) = AtLayer(c, w, d)
<1>1. Total(Of(w, q), Len(q)) = Total(Only(S, w, Len(c.gates)), Len(c.gates))
  <2>1. Len(c.gates) \in Nat
    BY DEF HasGatesInOrder
  <2>2. S \in SUBSET (1 .. Len(c.gates))
    BY DEF Newer
  <2>3. \A i \in 1 .. Len(c.gates) : w[i] \in Nat
    BY DEF Weights, Newer
  <2> QED BY ONLY <2>1, <2>2, <2>3, Picks(q, S), TotalPicked, Zenon
<1>2. \A i \in 1 .. Len(c.gates) : Only(S, w, Len(c.gates))[i] = AtDepthOnly(c, w, d)[i]
  BY DEF Only, AtDepthOnly, Newer, Weights
<1> QED BY <1>1, <1>2, TotalSame, Zenon DEF AtLayer, HasGatesInOrder

LEMMA QueuesPick ==
    ASSUME NEW c, HasGatesInOrder(c), HasLayers(c), NEW x \in ToSet(Sharings), NEW d \in Nat
    PROVE  /\ Picks(QueueOnLvl(c.interactive[x], d), GatesAt(c, x, d, TRUE))
           /\ Picks(QueueOnLvl(c.local[x], d), GatesAt(c, x, d, FALSE))
<1>0. /\ c.maxdepth[x] \in Nat
      /\ Len(c.interactive[x]) \in 0 .. c.maxdepth[x] /\ Len(c.local[x]) \in 0 .. c.maxdepth[x]
  BY Zenon DEF HasLayers
<1>1. CASE d < c.maxdepth[x]
  <2>1. d \in 0 .. c.maxdepth[x] - 1
    BY <1>0, <1>1
  <2> QED BY <2>1, Zenon DEF HasLayers
<1>2. CASE ~ (d < c.maxdepth[x])
  <2>0. ~ (d < Len(c.interactive[x])) /\ ~ (d < Len(c.local[x]))
    BY ONLY <1>0, <1>2, d \in Nat
  <2>1. QueueOnLvl(c.interactive[x], d) = <<>> /\ QueueOnLvl(c.local[x], d) = <<>>
    BY <2>0 DEF QueueOnLvl
  <2>2. GatesAt(c, x, d, TRUE) = {} /\ GatesAt(c, x, d, FALSE) = {}
    BY <1>2 DEF HasLayers, GatesAt
  <2>3. Picks(<<>>, {})
    BY DEF Picks
  <2> QED BY <2>1, <2>2, <2>3, Zenon
<1> QED BY <1>1, <1>2, Zenon

LEMMA GatesAtAre ==
    ASSUME NEW c, HasGatesInOrder(c), NEW x, NEW d, NEW interactive
    PROVE  GatesAt(c, x, d, interactive) \in SUBSET Newer(c)
BY DEF GatesAt, HasGatesInOrder, Newer

-------------------------------------------------------------------------------
(***************************************************************************)
(* The conversions to numbers.                                             *)
(***************************************************************************)

LEMMA ConvBitsAre ==
    ASSUME NEW c, HasGatesInOrder(c)
    PROVE  /\ Weights(c, ConvBits(c))
           /\ \A i \in Newer(c) : ConvBits(c)[i] # 0 <=> IsConversion(c.gates[i])
<1>1. ASSUME NEW i \in Newer(c)
      PROVE  /\ ConvBits(c)[i] \in Nat
             /\ ConvBits(c)[i] # 0 <=> IsConversion(c.gates[i])
  <2>1. /\ c.gates[i].nvals \in Nat \ {0} /\ Len(c.gates[i].ins) \in Nat
        /\ IsConversion(c.gates[i]) => Len(c.gates[i].ins) > 0
    BY DEF HasGatesInOrder, IsGate, IsConversion, Newer
  <2>2. IsConversion(c.gates[i]) => c.gates[i].nvals * Len(c.gates[i].ins) \in Nat \ {0}
    BY ONLY <2>1
  <2> QED BY <2>1, <2>2 DEF ConvBits
<1> QED BY <1>1 DEF Weights, HasGatesInOrder

LEMMA NumCONVGatesIs ==
    ASSUME NEW c, HasGatesInOrder(c)
    PROVE  NumCONVGates(c) = InAll(c, ConvBits(c))
<1> DEFINE S == {i \in DOMAIN c.gates : IsConversion(c.gates[i])}
           q == InOrder(S, Len(c.gates))
           w == ConvBits(c)
<1>1. GatesWhere(c, LAMBDA g : g.context = "ARITH" /\ g.type = "CONV") = q
  BY DEF GatesWhere, IsConversion
<1>2. S \in SUBSET (1 .. Len(c.gates)) /\ Len(c.gates) \in Nat
  BY DEF HasGatesInOrder
<1>3. Picks(q, S)
  BY <1>2, InOrderPicks
<1>4. NumCONVGates(c) = CountBits(c, q)
  BY <1>1 DEF NumCONVGates
<1>5. CountBits(c, q) = Total(Of(w, q), Len(q))
  <2>1. Len(q) \in Nat /\ DOMAIN q = 1 .. Len(q)
    BY <1>3 DEF Picks
  <2>2. ASSUME NEW k \in 1 .. Len(q)
        PROVE  c.gates[q[k]].nvals * Len(c.gates[q[k]].ins) = Of(w, q)[k]
    <3>1. q[k] \in S
      BY <1>3, Zenon DEF Picks
    <3>2. w[q[k]] = c.gates[q[k]].nvals * Len(c.gates[q[k]].ins)
      BY <3>1, <1>2, Zenon DEF ConvBits, Newer
    <3> QED BY <3>2 DEF Of
  <2> HIDE DEF q
  <2>3. \A k \in 1 .. Len(q) :
            [k_1 \in DOMAIN q |-> c.gates[q[k_1]].nvals * Len(c.gates[q[k_1]].ins)][k] = Of(w, q)[k]
    BY <2>1, <2>2
  <2> QED BY <2>1, <2>3, TotalSame, Zenon DEF CountBits
<1>6. \A i \in 1 .. Len(c.gates) : w[i] \in Nat /\ Only(S, w, Len(c.gates))[i] = w[i]
  BY ConvBitsAre, <1>2, Zenon DEF Weights, Newer, Only, ConvBits, HasGatesInOrder
<1> HIDE DEF q, S, w
<1>7. Total(Of(w, q), Len(q)) = Total(Only(S, w, Len(c.gates)), Len(c.gates))
  BY <1>2, <1>3, <1>6, TotalPicked, Zenon
<1>8. Total(Only(S, w, Len(c.gates)), Len(c.gates)) = Total(w, Len(c.gates))
  BY <1>2, <1>6, TotalSame, Zenon
<1> QED BY <1>4, <1>5, <1>7, <1>8 DEF InAll, w

-------------------------------------------------------------------------------
(***************************************************************************)
(* The gates of a party, which its sharings share.                         *)
(***************************************************************************)

HasValue(c, s, i) == i \in Newer(c) /\ Len(s.val[i]) = c.gates[i].nvals

\* What t has of s: all values, and the sharings' states.
KeepsValues(c, s, t) == IsStore(c, t) /\ \A i : HasValue(c, s, i) => HasValue(c, t, i)
KeepsSides(s, t) == t.bool = s.bool /\ t.arith = s.arith /\ t.lut = s.lut /\ t.yao = s.yao
Moves(c, s, t) == KeepsValues(c, s, t) /\ KeepsSides(s, t)

LEMMA MovesNot ==
    ASSUME NEW c, NEW s, IsStore(c, s)
    PROVE  Moves(c, s, s)
BY DEF Moves, KeepsValues, KeepsSides

LEMMA MovesOn ==
    ASSUME NEW c, NEW s, NEW t, NEW u, Moves(c, s, t), Moves(c, t, u)
    PROVE  Moves(c, s, u)
BY DEF Moves, KeepsValues, KeepsSides

LEMMA GatesAre ==
    ASSUME HasGatesInOrder(circ)
    PROVE  /\ Gates = Newer(circ)
           /\ \A i \in Newer(circ) : Gate(i) = circ.gates[i] /\ Gate(i).nvals \in Nat \ {0}
BY DEF HasGatesInOrder, IsGate, Gates, Gate, Newer

LEMMA AssignMoves ==
    ASSUME HasGatesInOrder(circ), NEW s, IsStore(circ, s), NEW i, NEW v
    PROVE  /\ Moves(circ, s, Assign(s, i, v))
           /\ i \in Newer(circ) => HasValue(circ, Assign(s, i, v), i)
<1> DEFINE t == Assign(s, i, v)
<1>1. DOMAIN t = DOMAIN s /\ KeepsSides(s, t)
  BY DEF Assign, KeepsSides, IsStore, Common, Sides
<1>2. t.live = [s.live EXCEPT ![i] = TRUE] /\ t.val = [s.val EXCEPT ![i] = SubSeq(v, 1, Gate(i).nvals)]
  BY DEF Assign, IsStore, Common, Sides
<1>3. i \in Newer(circ) =>
          Len(t.val[i]) = circ.gates[i].nvals /\ DOMAIN t.val[i] = 1 .. circ.gates[i].nvals
  BY <1>2, GatesAre DEF IsStore
<1>4. \A j \in Newer(circ) : j # i => t.val[j] = s.val[j]
  BY <1>2 DEF IsStore
<1>5. IsStore(circ, t)
  BY <1>1, <1>2, <1>3, <1>4, Zenon DEF IsStore
<1> HIDE DEF t
<1>6. \A j : HasValue(circ, s, j) => HasValue(circ, t, j)
  BY <1>3, <1>4 DEF HasValue
<1>7. Moves(circ, s, t)
  BY <1>1, <1>5, <1>6 DEF Moves, KeepsValues
<1> QED BY <1>3, <1>7 DEF HasValue, t

LEMMA UsedGateMoves ==
    ASSUME NEW s, IsStore(circ, s), NEW i
    PROVE  Moves(circ, s, UsedGate(s, i))
<1> DEFINE t == UsedGate(s, i)
<1>1. DOMAIN t = DOMAIN s /\ KeepsSides(s, t) /\ t.val = s.val
  BY DEF UsedGate, KeepsSides, IsStore, Common, Sides
<1>2. t.live \in [Newer(circ) -> BOOLEAN]
  <2>1. CASE ~s.live[i]
    BY <2>1 DEF UsedGate, IsStore
  <2>2. CASE s.live[i]
    <3>1. t.live = [s.live EXCEPT ![i] = (s.nused[i] # 1 \/ Gate(i).type = "CONV")]
      BY <2>2 DEF UsedGate, IsStore, Common, Sides
    <3>2. (s.nused[i] # 1 \/ Gate(i).type = "CONV") \in BOOLEAN
      OBVIOUS
    <3> HIDE DEF t
    <3> QED BY <3>1, <3>2, Zenon DEF IsStore
  <2> QED BY <2>1, <2>2
<1> HIDE DEF t
<1>3. Moves(circ, s, t)
  BY <1>1, <1>2 DEF Moves, KeepsValues, IsStore, HasValue
<1> QED BY <1>3 DEF t

LEMMA ReadsMoves ==
    ASSUME NEW s, IsStore(circ, s), NEW ins
    PROVE  Moves(circ, s, Reads(s, ins))
<1> DEFINE t == Reads(s, ins)
<1>1. DOMAIN t = DOMAIN s /\ KeepsSides(s, t) /\ t.val = s.val /\ t.live = s.live
  BY DEF Reads, KeepsSides, IsStore, Common, Sides
<1> HIDE DEF t
<1>2. Moves(circ, s, t)
  BY <1>1 DEF Moves, KeepsValues, IsStore, HasValue
<1> QED BY <1>2 DEF t

\* One use after the other.
UseOne(a, t, i) == UsedGate(t, i)
UsesMove(a, b, n, t) == Moves(circ, b, t)
Uses == INSTANCE Folding WITH Op <- UseOne, Inv <- UsesMove

LEMMA UsedGatesMoves ==
    ASSUME NEW s, IsStore(circ, s), NEW ins, Len(ins) \in Nat
    PROVE  Moves(circ, s, UsedGates(s, ins))
<1>1. UsesMove(0, s, 0, s)
  BY MovesNot DEF UsesMove
<1>2. Uses!Kept(0, s, ins)
  <2>1. ASSUME NEW t, Moves(circ, s, t), NEW i PROVE Moves(circ, s, UsedGate(t, i))
    <3>1. IsStore(circ, t)
      BY <2>1 DEF Moves, KeepsValues
    <3> QED BY <2>1, <3>1, UsedGateMoves, MovesOn
  <2> QED BY <2>1 DEF Uses!Kept, UsesMove, UseOne
<1>4. UsesMove(0, s, Len(ins), Uses!ThroughAll(0, s, ins))
  BY <1>1, <1>2, LeastNat, Uses!ThroughInvariant
<1>5. UsedGates(s, ins) = Uses!ThroughAll(0, s, ins)
  BY DEF UsedGates, Through, Once, Uses!ThroughAll, UseOne
<1> QED BY <1>4, <1>5 DEF UsesMove

LEMMA ComputedMoves ==
    ASSUME HasGatesInOrder(circ), NEW s, IsStore(circ, s), NEW i \in Newer(circ), NEW v
    PROVE  Moves(circ, s, Computed(s, i, v)) /\ HasValue(circ, Computed(s, i, v), i)
<1> DEFINE r == Reads(s, Gate(i).ins)
           t == Assign(r, i, v)
           u == UsedGates(t, Gate(i).ins)
<1>1. Moves(circ, s, r) /\ IsStore(circ, r)
  BY ReadsMoves DEF Moves, KeepsValues
<1> HIDE DEF r
<1>2. Moves(circ, r, t) /\ IsStore(circ, t) /\ HasValue(circ, t, i)
  BY <1>1, AssignMoves DEF Moves, KeepsValues
<1> HIDE DEF t
<1>3. Len(Gate(i).ins) \in Nat
  BY DEF HasGatesInOrder, IsGate, Gate, Newer
<1>4. Moves(circ, t, u)
  BY <1>2, <1>3, UsedGatesMoves
<1>5. HasValue(circ, u, i)
  BY <1>2, <1>4 DEF Moves, KeepsValues
<1> HIDE DEF u
<1>6. Moves(circ, s, u)
  BY <1>1, <1>2, <1>4, MovesOn
<1> QED BY <1>5, <1>6 DEF Computed, u, t, r

\* One stretch of the values after the other.
HandOne(a, t, m) == Assign(t, a[1][m], Stretch(a[1], m, a[2]))
HandsMove(a, b, n, t) ==
    Moves(circ, b, t) /\ \A k \in 1 .. n : a[1][k] \in Newer(circ) => HasValue(circ, t, a[1][k])
Hands == INSTANCE Folding WITH Op <- HandOne, Inv <- HandsMove

LEMMA AssignPairMoves ==
    ASSUME HasGatesInOrder(circ), NEW s, IsStore(circ, s), NEW a, a[1] \in Seq(Nat)
    PROVE  HandsMove(a, s, Len(a[1]), AssignInOrder(s, a[1], a[2]))
<1> DEFINE ids == [m \in DOMAIN a[1] |-> m]
<1>1. Len(ids) = Len(a[1]) /\ Len(a[1]) \in Nat /\ \A m \in 1 .. Len(a[1]) : ids[m] = m
  OBVIOUS
<1>2. HandsMove(a, s, 0, s)
  BY MovesNot DEF HandsMove
<1>3. Hands!Kept(a, s, ids)
  <2>1. ASSUME NEW n \in 1 .. Len(a[1]), NEW t, HandsMove(a, s, n - 1, t)
        PROVE  HandsMove(a, s, n, HandOne(a, t, n))
    <3>1. Moves(circ, s, t) /\ IsStore(circ, t)
      BY <2>1 DEF Moves, KeepsValues, HandsMove
    <3> DEFINE u == HandOne(a, t, n)
    <3>2. Moves(circ, t, u) /\ (a[1][n] \in Newer(circ) => HasValue(circ, u, a[1][n]))
      BY <3>1, AssignMoves DEF HandOne
    <3> HIDE DEF u
    <3>3. Moves(circ, s, u)
      BY <3>1, <3>2, MovesOn
    <3>4. \A k \in 1 .. n - 1 : a[1][k] \in Newer(circ) => HasValue(circ, u, a[1][k])
      BY <2>1, <3>2 DEF HandsMove, Moves, KeepsValues
    <3>5. \A k \in 1 .. n : k \in 1 .. n - 1 \/ k = n
      OBVIOUS
    <3>6. HandsMove(a, s, n, u)
      BY <3>2, <3>3, <3>4, <3>5, Zenon DEF HandsMove
    <3> QED BY <3>6 DEF u
  <2> HIDE DEF ids
  <2> QED BY <1>1, <2>1 DEF Hands!Kept
<1>5. HandsMove(a, s, Len(a[1]), Hands!ThroughAll(a, s, ids))
  <2> HIDE DEF ids
  <2> QED BY <1>1, <1>2, <1>3, LeastNat, Hands!ThroughInvariant
<1>6. CASE a[1] # <<>>
  <2>1. AssignInOrder(s, a[1], a[2]) = Hands!ThroughAll(a, s, ids)
    <3>1. AssignInOrder(s, a[1], a[2]) = AssignStretches(s, a[1], a[2])
      BY <1>6 DEF AssignInOrder, Once
    <3>2. @ = Hands!ThroughAll(a, s, ids)
      BY DEF AssignStretches, Through, Once, Hands!ThroughAll, HandOne
    <3> QED BY <3>1, <3>2
  <2> QED BY <1>5, <2>1
<1>7. CASE a[1] = <<>>
  <2>1. AssignInOrder(s, a[1], a[2]) = s /\ Len(a[1]) = 0
    BY <1>7 DEF AssignInOrder
  <2> QED BY <1>2, <2>1
<1> QED BY <1>6, <1>7

LEMMA AssignInOrderMoves ==
    ASSUME HasGatesInOrder(circ), NEW s, IsStore(circ, s), NEW ids \in Seq(Nat), NEW values
    PROVE  /\ Moves(circ, s, AssignInOrder(s, ids, values))
           /\ \A k \in 1 .. Len(ids) : ids[k] \in Newer(circ) =>
                  HasValue(circ, AssignInOrder(s, ids, values), ids[k])
<1> DEFINE a == <<ids, values>>
<1>1. a[1] = ids /\ a[2] = values
  OBVIOUS
<1> HIDE DEF a
<1>2. HandsMove(a, s, Len(ids), AssignInOrder(s, ids, values))
  BY <1>1, AssignPairMoves
<1> QED BY <1>1, <1>2 DEF HandsMove

-------------------------------------------------------------------------------
(***************************************************************************)
(* A sharing changes the gates and its own state only, whose lists hold    *)
(* gates of the circuit.                                                   *)
(***************************************************************************)

IsSide(side, p, c, a) ==
    /\ side = "arith" => IsArith(c, a)
    /\ side = "bool" => IsBool(c, a)
    /\ side = "lut" => IsLut(c, a)
    /\ side = "yao" => IsYao(p, c, a)

Runs(side, p, c, s, t) ==
    KeepsValues(c, s, t) /\ (\A z \in Sides \ {side} : t[z] = s[z]) /\ IsSide(side, p, c, t[side])

\* One side's state is another.
With(s, side, a) == [s EXCEPT ![side] = a]

LEMMA SideSet ==
    ASSUME NEW side \in Sides, NEW p, NEW c, NEW s, IsStore(c, s), NEW a, IsSide(side, p, c, a)
    PROVE  /\ Runs(side, p, c, s, With(s, side, a)) /\ With(s, side, a)[side] = a
           /\ IsStore(c, With(s, side, a))
<1> DEFINE t == With(s, side, a)
<1>1. /\ DOMAIN t = DOMAIN s /\ t[side] = a /\ t.val = s.val /\ t.live = s.live
      /\ \A z \in Sides \ {side} : t[z] = s[z]
  BY DEF IsStore, Common, Sides, With
<1> HIDE DEF t
<1>2. KeepsValues(c, s, t)
  BY <1>1 DEF KeepsValues, IsStore, HasValue
<1> QED BY <1>1, <1>2 DEF Runs, KeepsValues, t

LEMMA RunsOn ==
    ASSUME NEW side \in Sides, NEW p, NEW c, NEW s, NEW t, NEW u
    PROVE  /\ Runs(side, p, c, s, t) /\ Runs(side, p, c, t, u) => Runs(side, p, c, s, u)
           /\ Runs(side, p, c, s, t) /\ Moves(c, t, u) => Runs(side, p, c, s, u) /\ u[side] = t[side]
           /\ IsSide(side, p, c, s[side]) /\ Moves(c, s, t) =>
                  Runs(side, p, c, s, t) /\ t[side] = s[side]
           /\ Runs(side, p, c, s, t) => IsStore(c, t)
BY DEF Runs, Moves, KeepsValues, KeepsSides, Sides

LEMMA ArithSet ==
    ASSUME NEW p, NEW c, NEW s, IsStore(c, s), NEW a, IsArith(c, a)
    PROVE  /\ Runs("arith", p, c, s, With(s, "arith", a)) /\ With(s, "arith", a).arith = a
           /\ IsStore(c, With(s, "arith", a))
<1>1. "arith" \in Sides /\ IsSide("arith", p, c, a)
  BY DEF Sides, IsSide
<1> QED BY <1>1, SideSet

LEMMA ArithOn ==
    ASSUME NEW p, NEW c, NEW s, NEW t, NEW u
    PROVE  /\ Runs("arith", p, c, s, t) /\ Runs("arith", p, c, t, u) => Runs("arith", p, c, s, u)
           /\ Runs("arith", p, c, s, t) /\ Moves(c, t, u) =>
                  Runs("arith", p, c, s, u) /\ u.arith = t.arith
           /\ IsArith(c, s.arith) /\ Moves(c, s, t) =>
                  Runs("arith", p, c, s, t) /\ t.arith = s.arith
           /\ Runs("arith", p, c, s, t) => IsStore(c, t) /\ IsArith(c, t.arith)
<1>1. "arith" \in Sides
  BY DEF Sides
<1>2. \A v : IsSide("arith", p, c, v.arith) <=> IsArith(c, v.arith)
  BY DEF IsSide
<1>3. Runs("arith", p, c, s, t) => IsSide("arith", p, c, t.arith)
  BY DEF Runs
<1> QED BY <1>1, <1>2, <1>3, RunsOn

LEMMA BoolSet ==
    ASSUME NEW p, NEW c, NEW s, IsStore(c, s), NEW a, IsBool(c, a)
    PROVE  /\ Runs("bool", p, c, s, With(s, "bool", a)) /\ With(s, "bool", a).bool = a
           /\ IsStore(c, With(s, "bool", a))
<1>1. "bool" \in Sides /\ IsSide("bool", p, c, a)
  BY DEF Sides, IsSide
<1> QED BY <1>1, SideSet

LEMMA BoolOn ==
    ASSUME NEW p, NEW c, NEW s, NEW t, NEW u
    PROVE  /\ Runs("bool", p, c, s, t) /\ Runs("bool", p, c, t, u) => Runs("bool", p, c, s, u)
           /\ Runs("bool", p, c, s, t) /\ Moves(c, t, u) =>
                  Runs("bool", p, c, s, u) /\ u.bool = t.bool
           /\ IsBool(c, s.bool) /\ Moves(c, s, t) =>
                  Runs("bool", p, c, s, t) /\ t.bool = s.bool
           /\ Runs("bool", p, c, s, t) => IsStore(c, t) /\ IsBool(c, t.bool)
<1>1. "bool" \in Sides
  BY DEF Sides
<1>2. \A v : IsSide("bool", p, c, v.bool) <=> IsBool(c, v.bool)
  BY DEF IsSide
<1>3. Runs("bool", p, c, s, t) => IsSide("bool", p, c, t.bool)
  BY DEF Runs
<1> QED BY <1>1, <1>2, <1>3, RunsOn

LEMMA LutSet ==
    ASSUME NEW p, NEW c, NEW s, IsStore(c, s), NEW a, IsLut(c, a)
    PROVE  /\ Runs("lut", p, c, s, With(s, "lut", a)) /\ With(s, "lut", a).lut = a
           /\ IsStore(c, With(s, "lut", a))
<1>1. "lut" \in Sides /\ IsSide("lut", p, c, a)
  BY DEF Sides, IsSide
<1> QED BY <1>1, SideSet

LEMMA LutOn ==
    ASSUME NEW p, NEW c, NEW s, NEW t, NEW u
    PROVE  /\ Runs("lut", p, c, s, t) /\ Runs("lut", p, c, t, u) => Runs("lut", p, c, s, u)
           /\ Runs("lut", p, c, s, t) /\ Moves(c, t, u) =>
                  Runs("lut", p, c, s, u) /\ u.lut = t.lut
           /\ IsLut(c, s.lut) /\ Moves(c, s, t) =>
                  Runs("lut", p, c, s, t) /\ t.lut = s.lut
           /\ Runs("lut", p, c, s, t) => IsStore(c, t) /\ IsLut(c, t.lut)
<1>1. "lut" \in Sides
  BY DEF Sides
<1>2. \A v : IsSide("lut", p, c, v.lut) <=> IsLut(c, v.lut)
  BY DEF IsSide
<1>3. Runs("lut", p, c, s, t) => IsSide("lut", p, c, t.lut)
  BY DEF Runs
<1> QED BY <1>1, <1>2, <1>3, RunsOn

LEMMA YaoSet ==
    ASSUME NEW p, NEW c, NEW s, IsStore(c, s), NEW a, IsYao(p, c, a)
    PROVE  /\ Runs("yao", p, c, s, With(s, "yao", a)) /\ With(s, "yao", a).yao = a
           /\ IsStore(c, With(s, "yao", a))
<1>1. "yao" \in Sides /\ IsSide("yao", p, c, a)
  BY DEF Sides, IsSide
<1> QED BY <1>1, SideSet

LEMMA YaoOn ==
    ASSUME NEW p, NEW c, NEW s, NEW t, NEW u
    PROVE  /\ Runs("yao", p, c, s, t) /\ Runs("yao", p, c, t, u) => Runs("yao", p, c, s, u)
           /\ Runs("yao", p, c, s, t) /\ Moves(c, t, u) =>
                  Runs("yao", p, c, s, u) /\ u.yao = t.yao
           /\ IsYao(p, c, s.yao) /\ Moves(c, s, t) =>
                  Runs("yao", p, c, s, t) /\ t.yao = s.yao
           /\ Runs("yao", p, c, s, t) => IsStore(c, t) /\ IsYao(p, c, t.yao)
<1>1. "yao" \in Sides
  BY DEF Sides
<1>2. \A v : IsSide("yao", p, c, v.yao) <=> IsYao(p, c, v.yao)
  BY DEF IsSide
<1>3. Runs("yao", p, c, s, t) => IsSide("yao", p, c, t.yao)
  BY DEF Runs
<1> QED BY <1>1, <1>2, <1>3, RunsOn

\* What an interactive gate of a sharing is.
Asks(x, i) ==
    LET g == Gate(i)
    IN  /\ i \in Newer(circ) /\ g.context = x /\ Len(g.ins) \in Nat /\ g.nvals \in Nat
        /\ g.type = "IN" => g.gs \in Party
        /\ g.type = "OUT" => g.gs \in Role
        /\ g.type \in CASE x = "BOOL" -> {"IN", "OUT", "TT", "NON_LIN", "NON_LIN_VEC"}
                         [] x = "ARITH" -> {"IN", "OUT", "NON_LIN", "CONV"}
                         [] x = "SPLUT" -> {"IN", "OUT", "TT"}
                         [] x \in Yao -> {"IN", "OUT", "CONV"}

LEMMA InteractiveTypes ==
    ASSUME HasGatesInOrder(circ), NEW x \in ToSet(Sharings), NEW d, NEW i \in GatesAt(circ, x, d, TRUE)
    PROVE  Asks(x, i)
<1>1. i \in Newer(circ) /\ IsGate(circ, i) /\ Interactive(Gate(i)) /\ Gate(i).context = x /\ Gate(i).depth = d
  BY DEF GatesAt, HasGatesInOrder, Newer, Gate
<1>2. ToSet(Sharings) = {"BOOL", "YAO", "ARITH", "YAO_REV", "SPLUT"}
  BY DEF ToSet, Sharings
<1>3. x \in {"BOOL", "YAO", "ARITH", "YAO_REV", "SPLUT"}
  BY <1>2
<1> QED BY <1>1, <1>3 DEF Asks, IsGate, Interactive, Gate, Yao

-------------------------------------------------------------------------------
(***************************************************************************)
(* The instances have the operators on gates as their own.                 *)
(***************************************************************************)
LEMMA ArithIsOne ==
    ASSUME NEW s, NEW i, NEW v, NEW w
    PROVE  /\ Arith!Gate(i) = Gate(i)
           /\ Arith!Assign(s, i, v) = Assign(s, i, v)
           /\ Arith!Reads(s, v) = Reads(s, v)
           /\ Arith!UsedGates(s, v) = UsedGates(s, v)
           /\ Arith!Computed(s, i, v) = Computed(s, i, v)
           /\ Arith!SumNvals(circ, v) = SumNvals(circ, v)
           /\ Arith!AssignInOrder(s, v, w) = AssignInOrder(s, v, w)
           /\ Arith!QueueOnLvl(v, i) = QueueOnLvl(v, i)
<1>1. \A j : Arith!Gate(j) = Gate(j)
  BY DEF Arith!Gate, Gate
<1>2. \A t, j, u : Arith!Assign(t, j, u) = Assign(t, j, u)
  BY DEF Arith!Gate, Gate, Arith!Assign, Assign
<1>3. \A t, u : Arith!Reads(t, u) = Reads(t, u)
  BY DEF Arith!Reads, Reads, Arith!ToSet, ToSet
<1>4. \A t, u : Arith!UsedGates(t, u) = UsedGates(t, u)
  BY DEF Arith!UsedGates, UsedGates, Arith!UsedGate, UsedGate, Arith!Gate, Gate,
         Arith!Through, Through, Arith!Once, Once
<1>5. Arith!Computed(s, i, v) = Computed(s, i, v)
  BY <1>1, <1>2, <1>3, <1>4 DEF Arith!Computed, Computed
<1>6. \A u : Arith!SumNvals(circ, u) = SumNvals(circ, u)
  BY DEF Arith!SumNvals, SumNvals, Arith!Total, Total
<1>7. \A t, u : Arith!AssignStretches(t, v, u) = AssignStretches(t, v, u)
  BY DEF Arith!AssignStretches, AssignStretches, Arith!Stretch, Stretch,
         Arith!Assign, Assign, Arith!Gate, Gate, Arith!SumNvals, SumNvals, Arith!Total, Total,
         Arith!Through, Through, Arith!Once, Once
<1>8. Arith!AssignInOrder(s, v, w) = AssignInOrder(s, v, w)
  BY <1>7 DEF Arith!AssignInOrder, AssignInOrder, Arith!Once, Once
<1>9. Arith!QueueOnLvl(v, i) = QueueOnLvl(v, i)
  BY DEF Arith!QueueOnLvl, QueueOnLvl
<1> QED BY <1>1, <1>2, <1>3, <1>4, <1>5, <1>6, <1>8, <1>9

-------------------------------------------------------------------------------
(***************************************************************************)
(* ArithSharing.                                                           *)
(***************************************************************************)

\* From a to b, so many triples and bits are taken.
ArithTakes(p, a, b, muls, bits) ==
    /\ b.mtIdx = a.mtIdx + muls /\ Asked(p, b) = Asked(p, a) + bits
    /\ b.convIdx = a.convIdx /\ b.CONVGates2 = a.CONVGates2
    /\ p = "CLIENT" => b.convRcvCtr = a.convRcvCtr
    /\ AsksForAll(p, a) => AsksForAll(p, b)

\* The records that differ in what is said of none.
LEMMA SameTakes ==
    ASSUME NEW p, NEW a, IsArith(circ, a), NEW b, b.mtIdx = a.mtIdx, b.convSndCtr = a.convSndCtr,
           b.convRcvCtr = a.convRcvCtr, b.convIdx = a.convIdx, b.CONVGates2 = a.CONVGates2,
           b.CONVGates = a.CONVGates
    PROVE  ArithTakes(p, a, b, 0, 0)
BY DEF ArithTakes, Asked, AsksForAll, IsArith

LEMMA ArithSelectiveOpen ==
    ASSUME HasGatesInOrder(circ), NEW p, NEW s, IsStore(circ, s), IsArith(circ, s.arith), NEW i \in Newer(circ)
    PROVE  LET t == Arith!SelectiveOpen(p, s, i)
           IN  Runs("arith", p, circ, s, t) /\ ArithTakes(p, s.arith, t.arith, Gate(i).nvals, 0)
<1> DEFINE g == Gate(i)
           d == [k \in 1 .. g.nvals |-> Arith!Mod(s.val[g.ins[1]][k] - Arith!TripleA(p, s.arith.mtIdx + k))]
           e == [k \in 1 .. g.nvals |-> Arith!Mod(s.val[g.ins[2]][k] - Arith!TripleB(p, s.arith.mtIdx + k))]
           r == Reads(s, g.ins)
           u == [r EXCEPT !.arith.D = @ \o d, !.arith.E = @ \o e, !.arith.mtIdx = @ + g.nvals,
                          !.arith.MULGates = Append(@, i)]
           a == [r.arith EXCEPT !.D = r.arith.D \o d, !.E = r.arith.E \o e,
                                !.mtIdx = r.arith.mtIdx + g.nvals, !.MULGates = Append(r.arith.MULGates, i)]
           t == UsedGates(u, g.ins)
<1>1. Arith!SelectiveOpen(p, s, i) = t
  BY ArithIsOne, Zenon DEF Arith!SelectiveOpen
<1>2. g.nvals \in Nat /\ Len(g.ins) \in Nat /\ i \in Nat
  BY DEF HasGatesInOrder, IsGate, Newer, Gate
<1> HIDE DEF g, d, e
<1>3. Moves(circ, s, r) /\ IsStore(circ, r) /\ r.arith = s.arith
  BY ReadsMoves DEF Moves, KeepsValues, KeepsSides
<1> HIDE DEF r
<1>0. u = With(r, "arith", a)
  BY <1>3, Zenon DEF With, IsStore, Common, Sides, IsArith, ArithFields
<1>4. IsArith(circ, a) /\ ArithTakes(p, s.arith, a, g.nvals, 0)
  <2> DEFINE o == r.arith
  <2>1. /\ DOMAIN a = DOMAIN o /\ a.mtIdx = o.mtIdx + g.nvals /\ a.MULGates = Append(o.MULGates, i)
        /\ a.inGates = o.inGates /\ a.outGates = o.outGates /\ a.CONVGates = o.CONVGates
        /\ a.CONVGates2 = o.CONVGates2 /\ a.convIdx = o.convIdx /\ a.convSndCtr = o.convSndCtr
        /\ a.convRcvCtr = o.convRcvCtr
    BY <1>3 DEF IsArith, ArithFields
  <2> HIDE DEF a, o
  <2>2. IsArith(circ, o) /\ s.arith = o
    BY <1>3 DEF o
  <2>3. IsArith(circ, a)
    BY <1>2, <2>1, <2>2 DEF Ids, IsArith
  <2>4. ArithTakes(p, o, a, g.nvals, 0)
    BY <2>1, <2>2 DEF IsArith, ArithTakes, Asked, AsksForAll
  <2> QED BY <2>2, <2>3, <2>4
<1> HIDE DEF a, u
<1>5. Runs("arith", p, circ, r, u) /\ u.arith = a /\ IsStore(circ, u)
  BY <1>0, <1>3, <1>4, ArithSet
<1>6. Moves(circ, u, t)
  BY <1>2, <1>5, UsedGatesMoves
<1> HIDE DEF t
<1>7. Runs("arith", p, circ, s, t) /\ t.arith = a
  BY <1>3, <1>5, <1>6, ArithOn
<1>8. Runs("arith", p, circ, s, t) /\ ArithTakes(p, s.arith, t.arith, g.nvals, 0)
  BY <1>4, <1>7
<1> QED BY <1>1, <1>8 DEF g

LEMMA ArithEvaluateCONVGate ==
    ASSUME HasGatesInOrder(circ), NEW p \in Party, NEW s, IsStore(circ, s), IsArith(circ, s.arith),
           NEW i \in Newer(circ), IsConversion(circ.gates[i])
    PROVE  LET t == Arith!EvaluateCONVGate(p, s, i)
           IN  Runs("arith", p, circ, s, t) /\ ArithTakes(p, s.arith, t.arith, 0, ConvBits(circ)[i])
<1> DEFINE g == Gate(i)
           n == g.nvals * Len(g.ins)
           o == s.arith
           t == Arith!EvaluateCONVGate(p, s, i)
<1>1. n = ConvBits(circ)[i] /\ n \in Nat \ {0}
  BY ConvBitsAre DEF ConvBits, Gate, Weights
<1>2. i \in Nat /\ p \in {"SERVER", "CLIENT"}
  BY DEF Newer, Party
<1> HIDE DEF n
<1>3. CASE p = "SERVER"
  <2> DEFINE a == [o EXCEPT !.CONVGates = Append(o.CONVGates, i), !.convRcvCtr = o.convRcvCtr + n]
  <2>1. t = With(s, "arith", a)
    BY <1>3, ArithIsOne, Zenon DEF With, Arith!EvaluateCONVGate, IsStore, Common, Sides, IsArith, ArithFields, n
  <2>2. /\ DOMAIN a = DOMAIN o /\ a.mtIdx = o.mtIdx /\ a.MULGates = o.MULGates
        /\ a.inGates = o.inGates /\ a.outGates = o.outGates /\ a.CONVGates = Append(o.CONVGates, i)
        /\ a.CONVGates2 = o.CONVGates2 /\ a.convIdx = o.convIdx /\ a.convSndCtr = o.convSndCtr
        /\ a.convRcvCtr = o.convRcvCtr + n
    BY DEF IsArith, ArithFields
  <2> HIDE DEF a, t
  <2>3. IsArith(circ, a) /\ ArithTakes(p, o, a, 0, n)
    BY <1>1, <1>2, <1>3, <2>2 DEF Ids, IsArith, ArithTakes, Asked, AsksForAll
  <2>4. Runs("arith", p, circ, s, t) /\ t.arith = a
    BY <2>1, <2>3, ArithSet
  <2> QED BY <1>1, <2>3, <2>4 DEF t
<1>4. CASE p = "CLIENT"
  <2> DEFINE q == [s EXCEPT !.arith.CONVGates = Append(@, i)]
             b == [o EXCEPT !.CONVGates = Append(o.CONVGates, i)]
             r == Reads(q, g.ins)
             bits == Arith!XorBits([k \in 1 .. n |-> Arith!ConversionChoice(o.convIdx + o.convSndCtr + k)],
                                   Arith!Concat(Arith!Parents(s, Arith!Gate(i))))
             a == [b EXCEPT !.convSnd = b.convSnd \o bits, !.convSndCtr = b.convSndCtr + n]
  <2>1. t = [r EXCEPT !.arith.convSnd = @ \o bits, !.arith.convSndCtr = @ + n]
    BY <1>4, ArithIsOne, Zenon DEF Arith!EvaluateCONVGate, n
  <2> HIDE DEF bits
  <2>2. /\ DOMAIN a = DOMAIN o /\ a.mtIdx = o.mtIdx /\ a.MULGates = o.MULGates
        /\ a.inGates = o.inGates /\ a.outGates = o.outGates /\ a.CONVGates = Append(o.CONVGates, i)
        /\ a.CONVGates2 = o.CONVGates2 /\ a.convIdx = o.convIdx /\ a.convSndCtr = o.convSndCtr + n
        /\ a.convRcvCtr = o.convRcvCtr
    BY DEF IsArith, ArithFields
  <2>3. DOMAIN b = DOMAIN o /\ b.CONVGates = Append(o.CONVGates, i) /\ IsArith(circ, b)
    BY <1>2 DEF Ids, IsArith, ArithFields
  <2>4. q = With(s, "arith", b)
    BY Zenon DEF With
  <2>5. Runs("arith", p, circ, s, q) /\ q.arith = b /\ IsStore(circ, q)
    <3> HIDE DEF b, q
    <3> QED BY <2>3, <2>4, ArithSet
  <2> HIDE DEF q
  <2>6. Moves(circ, q, r) /\ IsStore(circ, r) /\ r.arith = b
    BY <2>5, ReadsMoves DEF Moves, KeepsValues, KeepsSides
  <2> HIDE DEF r
  <2>7. t = With(r, "arith", a)
    BY <2>1, <2>6, <2>3, Zenon DEF With, IsStore, Common, Sides, IsArith, ArithFields
  <2> HIDE DEF a, b, t
  <2>8. IsArith(circ, a) /\ ArithTakes(p, o, a, 0, n)
    <3>1. IsArith(circ, a)
      BY <1>1, <1>2, <2>2 DEF Ids, IsArith
    <3>2. a.convSndCtr = o.convSndCtr + n /\ o.convSndCtr \in Nat /\ a.mtIdx = o.mtIdx + 0
      BY <2>2 DEF IsArith
    <3>3. a.convSndCtr # 0 /\ Asked(p, a) = a.convSndCtr /\ Asked(p, o) = o.convSndCtr
      BY <1>1, <1>4, <3>2 DEF Asked
    <3> QED BY <2>2, <3>1, <3>2, <3>3 DEF ArithTakes, AsksForAll
  <2>9. Runs("arith", p, circ, r, t) /\ t.arith = a
    BY <2>6, <2>7, <2>8, ArithSet
  <2>10. Runs("arith", p, circ, s, t)
    BY <2>5, <2>6, <2>9, ArithOn
  <2> QED BY <1>1, <2>8, <2>9, <2>10 DEF t
<1> QED BY <1>2, <1>3, <1>4

\* What changes no list that is said anything of, or queues an id.
LEMMA ArithPlain ==
    ASSUME NEW p, NEW a, IsArith(circ, a), NEW i \in Newer(circ), NEW v
    PROVE  /\ LET b == [a EXCEPT !.inSnd = v] IN IsArith(circ, b) /\ ArithTakes(p, a, b, 0, 0)
           /\ LET b == [a EXCEPT !.outSnd = v] IN IsArith(circ, b) /\ ArithTakes(p, a, b, 0, 0)
           /\ LET b == [a EXCEPT !.rcv = v] IN IsArith(circ, b) /\ ArithTakes(p, a, b, 0, 0)
           /\ LET b == [a EXCEPT !.inGates = Append(a.inGates, i)]
              IN  IsArith(circ, b) /\ ArithTakes(p, a, b, 0, 0)
           /\ LET b == [a EXCEPT !.outGates = Append(a.outGates, i)]
              IN  IsArith(circ, b) /\ ArithTakes(p, a, b, 0, 0)
<1>1. DOMAIN a = ArithFields
  BY DEF IsArith
<1>2. ASSUME NEW b, DOMAIN b = DOMAIN a, b.mtIdx = a.mtIdx, b.convSndCtr = a.convSndCtr,
           b.convRcvCtr = a.convRcvCtr, b.convIdx = a.convIdx, b.CONVGates2 = a.CONVGates2,
           b.CONVGates = a.CONVGates, b.MULGates = a.MULGates,
           b.inGates \in Ids(circ), b.outGates \in Ids(circ)
      PROVE  IsArith(circ, b) /\ ArithTakes(p, a, b, 0, 0)
  BY <1>2, SameTakes DEF IsArith
<1>3. a.inGates \in Ids(circ) /\ a.outGates \in Ids(circ)
  BY DEF IsArith
<1>4. Append(a.inGates, i) \in Ids(circ) /\ Append(a.outGates, i) \in Ids(circ)
  BY <1>3 DEF Ids
<1> DEFINE b1 == [a EXCEPT !.inSnd = v]
           b2 == [a EXCEPT !.outSnd = v]
           b3 == [a EXCEPT !.rcv = v]
           b4 == [a EXCEPT !.inGates = Append(a.inGates, i)]
           b5 == [a EXCEPT !.outGates = Append(a.outGates, i)]
<1>5. IsArith(circ, b1) /\ ArithTakes(p, a, b1, 0, 0)
  BY <1>1, <1>2, <1>3 DEF ArithFields
<1>6. IsArith(circ, b2) /\ ArithTakes(p, a, b2, 0, 0)
  BY <1>1, <1>2, <1>3 DEF ArithFields
<1>7. IsArith(circ, b3) /\ ArithTakes(p, a, b3, 0, 0)
  BY <1>1, <1>2, <1>3 DEF ArithFields
<1>8. IsArith(circ, b4) /\ ArithTakes(p, a, b4, 0, 0)
  BY <1>1, <1>2, <1>3, <1>4, Zenon DEF ArithFields
<1>9. IsArith(circ, b5) /\ ArithTakes(p, a, b5, 0, 0)
  BY <1>1, <1>2, <1>3, <1>4, Zenon DEF ArithFields
<1> QED BY <1>5, <1>6, <1>7, <1>8, <1>9

ArithRuns(p, s, t, muls, bits) ==
    Runs("arith", p, circ, s, t) /\ ArithTakes(p, s.arith, t.arith, muls, bits)

LEMMA ArithRunsSet ==
    ASSUME NEW p, NEW s, IsArith(circ, s.arith), NEW u, Moves(circ, s, u),
           NEW a, IsArith(circ, a), NEW muls, NEW bits, ArithTakes(p, s.arith, a, muls, bits)
    PROVE  ArithRuns(p, s, With(u, "arith", a), muls, bits)
<1> DEFINE t == With(u, "arith", a)
<1>1. Runs("arith", p, circ, s, u) /\ IsStore(circ, u)
  BY ArithOn DEF Moves, KeepsValues
<1>2. Runs("arith", p, circ, u, t) /\ t.arith = a
  BY <1>1, ArithSet
<1> HIDE DEF t
<1>3. Runs("arith", p, circ, s, t)
  BY <1>1, <1>2, ArithOn
<1> QED BY <1>2, <1>3 DEF ArithRuns, t

LEMMA ArithRunsMove ==
    ASSUME NEW p, NEW s, NEW t, NEW muls, NEW bits, ArithRuns(p, s, t, muls, bits), NEW u, Moves(circ, t, u)
    PROVE  ArithRuns(p, s, u, muls, bits)
<1>1. Runs("arith", p, circ, s, u) /\ u.arith = t.arith
  BY ArithOn DEF ArithRuns
<1> QED BY <1>1 DEF ArithRuns

LEMMA ArithRunsThen ==
    ASSUME NEW p, NEW s, IsArith(circ, s.arith), NEW t, NEW m \in Nat, NEW b \in Nat, ArithRuns(p, s, t, m, b),
           NEW u, NEW m2 \in Nat, NEW b2 \in Nat, ArithRuns(p, t, u, m2, b2)
    PROVE  ArithRuns(p, s, u, m + m2, b + b2)
<1>1. Runs("arith", p, circ, s, u)
  BY ArithOn DEF ArithRuns
<1>2. s.arith.mtIdx \in Nat /\ Asked(p, s.arith) \in Nat
  BY DEF IsArith, Asked
<1>3. ArithTakes(p, s.arith, u.arith, m + m2, b + b2)
  BY <1>2 DEF ArithRuns, ArithTakes
<1> QED BY <1>1, <1>3 DEF ArithRuns

LEMMA ArithShareValues ==
    ASSUME HasGatesInOrder(circ), NEW p, NEW s, IsStore(circ, s), IsArith(circ, s.arith), NEW i \in Newer(circ)
    PROVE  ArithRuns(p, s, Arith!ShareValues(p, s, i), 0, 0)
<1> DEFINE random == [k \in 1 .. Gate(i).nvals |->
                         Arith!DrawNumber(p, "in", 100 * depth[p] + Len(s.arith.inSnd) + k)]
           u == Assign(s, i, [k \in DOMAIN random |-> Arith!Mod(clear[i][k] - random[k])])
           a == [s.arith EXCEPT !.inSnd = s.arith.inSnd \o random]
           t == Arith!ShareValues(p, s, i)
<1>1. t = [u EXCEPT !.arith.inSnd = @ \o random]
  BY ArithIsOne, Zenon DEF Arith!ShareValues
<1> HIDE DEF random
<1>2. Moves(circ, s, u)
  BY AssignMoves
<1>3. IsArith(circ, a) /\ ArithTakes(p, s.arith, a, 0, 0)
  <2> HIDE DEF t
  <2> QED BY ArithPlain, Zenon
<1> HIDE DEF u
<1>4. t = With(u, "arith", a)
  BY <1>1, <1>2, Zenon DEF With, Moves, KeepsValues, KeepsSides, IsStore, Common, Sides
<1> HIDE DEF a, t
<1>5. ArithRuns(p, s, t, 0, 0)
  BY <1>2, <1>3, <1>4, ArithRunsSet
<1> QED BY <1>5 DEF t

LEMMA ArithReconstructValue ==
    ASSUME HasGatesInOrder(circ), NEW p, NEW s, IsStore(circ, s), IsArith(circ, s.arith), NEW i \in Newer(circ)
    PROVE  ArithRuns(p, s, Arith!ReconstructValue(s, i), 0, 0)
<1> DEFINE g == Gate(i)
           u == Reads(s, g.ins)
           a == [s.arith EXCEPT !.outSnd = s.arith.outSnd \o s.val[g.ins[1]]]
           sent == [u EXCEPT !.arith.outSnd = @ \o s.val[g.ins[1]]]
           t == Arith!ReconstructValue(s, i)
<1>1. t = IF g.gs # "ALL" THEN UsedGates(sent, g.ins) ELSE sent
  BY ArithIsOne, Zenon DEF Arith!ReconstructValue
<1>2. Moves(circ, s, u) /\ Len(g.ins) \in Nat
  BY ReadsMoves DEF HasGatesInOrder, IsGate, Newer, Gate
<1>3. IsArith(circ, a) /\ ArithTakes(p, s.arith, a, 0, 0)
  <2> HIDE DEF t, sent
  <2> QED BY ArithPlain, Zenon
<1> HIDE DEF u, g, t
<1>4. sent = With(u, "arith", a)
  BY <1>2, Zenon DEF With, Moves, KeepsValues, KeepsSides, IsStore, Common, Sides
<1> HIDE DEF a, sent
<1>5. ArithRuns(p, s, sent, 0, 0)
  BY <1>2, <1>3, <1>4, ArithRunsSet
<1>6. Moves(circ, sent, UsedGates(sent, g.ins))
  <2>1. IsStore(circ, sent)
    BY <1>5, ArithOn DEF ArithRuns
  <2> QED BY <1>2, <2>1, UsedGatesMoves
<1>7. ArithRuns(p, s, UsedGates(sent, g.ins), 0, 0)
  BY <1>5, <1>6, ArithRunsMove
<1>8. ArithRuns(p, s, t, 0, 0)
  BY <1>1, <1>5, <1>7
<1> QED BY <1>8 DEF t

\* One more gate that waits.
LEMMA ArithAwaits ==
    ASSUME NEW p, NEW s, IsStore(circ, s), IsArith(circ, s.arith), NEW i \in Newer(circ), NEW t,
           \/ t = [s EXCEPT !.arith.inGates = Append(@, i)]
           \/ t = [s EXCEPT !.arith.outGates = Append(@, i)]
    PROVE  ArithRuns(p, s, t, 0, 0)
<1> DEFINE a == [s.arith EXCEPT !.inGates = Append(s.arith.inGates, i)]
           b == [s.arith EXCEPT !.outGates = Append(s.arith.outGates, i)]
<1>1. /\ IsArith(circ, a) /\ ArithTakes(p, s.arith, a, 0, 0)
      /\ IsArith(circ, b) /\ ArithTakes(p, s.arith, b, 0, 0)
  BY ArithPlain, Zenon
<1>2. t = With(s, "arith", a) \/ t = With(s, "arith", b)
  BY DEF With
<1>3. Moves(circ, s, s)
  BY MovesNot
<1> HIDE DEF a, b
<1>4. ArithRuns(p, s, With(s, "arith", a), 0, 0)
  BY <1>1, <1>3, ArithRunsSet
<1>5. ArithRuns(p, s, With(s, "arith", b), 0, 0)
  BY <1>1, <1>3, ArithRunsSet
<1> QED BY <1>2, <1>4, <1>5

LEMMA ArithEvaluateInteractive ==
    ASSUME HasGatesInOrder(circ), NEW p \in Party, NEW s, IsStore(circ, s), IsArith(circ, s.arith), NEW d,
           NEW i \in GatesAt(circ, "ARITH", d, TRUE)
    PROVE  ArithRuns(p, s, Arith!EvaluateInteractive(p, s, i), MulVals(circ)[i], ConvBits(circ)[i])
<1> DEFINE g == Gate(i)
           t == Arith!EvaluateInteractive(p, s, i)
           awaited == Arith!AwaitOutput(s, i)
<1>0. "ARITH" \in ToSet(Sharings)
  BY DEF ToSet, Sharings
<1> HIDE DEF t
<1>1. /\ i \in Newer(circ) /\ g.type \in {"IN", "OUT", "NON_LIN", "CONV"} /\ g.context = "ARITH"
      /\ g.type = "OUT" => g.gs \in Role
  <2>1. Asks("ARITH", i)
    BY <1>0, InteractiveTypes, Zenon
  <2> QED BY <2>1 DEF Asks, Yao
<1>2. /\ MulVals(circ)[i] = (IF g.type = "NON_LIN" THEN g.nvals ELSE 0)
      /\ g.type # "CONV" => ConvBits(circ)[i] = 0
      /\ IsConversion(circ.gates[i]) <=> g.type = "CONV"
  BY <1>1 DEF MulVals, ConvBits, IsMul, IsConversion, Gate
<1>3. Arith!Gate(i) = g
  BY ArithIsOne
<1> HIDE DEF g
<1>4. ASSUME g.type = "NON_LIN"
      PROVE  ArithRuns(p, s, t, MulVals(circ)[i], ConvBits(circ)[i])
  <2>1. t = Arith!SelectiveOpen(p, s, i)
    BY <1>3, <1>4 DEF t, Arith!EvaluateInteractive
  <2> QED BY <1>1, <1>2, <1>4, <2>1, ArithSelectiveOpen DEF ArithRuns, g
<1>5. ASSUME g.type = "CONV"
      PROVE  ArithRuns(p, s, t, MulVals(circ)[i], ConvBits(circ)[i])
  <2>1. t = Arith!EvaluateCONVGate(p, s, i)
    BY <1>3, <1>5 DEF t, Arith!EvaluateInteractive
  <2> QED BY <1>1, <1>2, <1>5, <2>1, ArithEvaluateCONVGate DEF ArithRuns
<1>6. ASSUME g.type = "IN"
      PROVE  ArithRuns(p, s, t, MulVals(circ)[i], ConvBits(circ)[i])
  <2>1. CASE g.gs = p
    <3>1. t = Arith!ShareValues(p, s, i)
      BY <1>3, <1>6, <2>1 DEF t, Arith!EvaluateInteractive
    <3> QED BY <1>1, <1>2, <1>6, <3>1, ArithShareValues
  <2>2. CASE g.gs # p
    <3>1. t = [s EXCEPT !.arith.inGates = Append(@, i)]
      BY <1>3, <1>6, <2>2 DEF t, Arith!EvaluateInteractive
    <3> QED BY <1>1, <1>2, <1>6, <3>1, ArithAwaits, Zenon
  <2> QED BY <2>1, <2>2
<1>7. ASSUME g.type = "OUT"
      PROVE  ArithRuns(p, s, t, MulVals(circ)[i], ConvBits(circ)[i])
  <2>1. CASE g.gs = p
    <3>1. t = awaited
      BY <1>3, <1>7, <2>1 DEF t, Arith!Other, Party, Arith!EvaluateInteractive
    <3> QED BY <1>1, <1>2, <1>7, <3>1, ArithAwaits DEF Arith!AwaitOutput
  <2>2. CASE g.gs = "ALL"
    <3>1. t = Arith!ReconstructValue(awaited, i)
      BY <1>3, <1>7, <2>2 DEF t, Arith!EvaluateInteractive, Party, Arith!Other
    <3>2. ArithRuns(p, s, awaited, 0, 0)
      BY <1>1, ArithAwaits DEF Arith!AwaitOutput
    <3> HIDE DEF awaited
    <3>3. IsStore(circ, awaited) /\ IsArith(circ, awaited.arith)
      BY <3>2, ArithOn DEF ArithRuns
    <3>4. ArithRuns(p, awaited, t, 0, 0)
      BY <1>1, <3>1, <3>3, ArithReconstructValue
    <3>5. ArithRuns(p, s, t, 0 + 0, 0 + 0)
      BY <3>2, <3>4, ArithRunsThen
    <3> QED BY <1>2, <1>7, <3>5
  <2>3. CASE g.gs = Other(p)
    <3>1. t = Arith!ReconstructValue(s, i)
      BY <1>3, <1>7, <2>3 DEF t, Arith!EvaluateInteractive, Arith!Other, Other, Party
    <3> QED BY <1>1, <1>2, <1>7, <3>1, ArithReconstructValue
  <2>4. g.gs \in {p, "ALL", Other(p)}
    BY <1>1, <1>7 DEF Role, Party, Other
  <2> QED BY <2>1, <2>2, <2>3, <2>4
<1>8. ArithRuns(p, s, t, MulVals(circ)[i], ConvBits(circ)[i])
  BY <1>1, <1>4, <1>5, <1>6, <1>7
<1> QED BY <1>8 DEF t

LEMMA MulValsAre ==
    ASSUME NEW c, HasGatesInOrder(c)
    PROVE  Weights(c, MulVals(c)) /\ \A i \in Newer(c) : MulVals(c)[i] # 0 => IsMul(c.gates[i])
BY DEF Weights, MulVals, HasGatesInOrder, IsGate, Newer

\* The interactive gates of a layer.
Queue(x, d) == QueueOnLvl(circ.interactive[x], d)

LEMMA QueueAsks ==
    ASSUME HasGatesInOrder(circ), HasLayers(circ), NEW x \in ToSet(Sharings), NEW d \in Nat
    PROVE  /\ Queue(x, d) \in Ids(circ) /\ Len(Queue(x, d)) \in Nat
           /\ \A k \in 1 .. Len(Queue(x, d)) : Queue(x, d)[k] \in GatesAt(circ, x, d, TRUE)
<1> DEFINE q == Queue(x, d)
           S == GatesAt(circ, x, d, TRUE)
<1>1. Picks(q, S)
  BY QueuesPick, Zenon DEF Queue
<1>2. S \in SUBSET Newer(circ)
  BY GatesAtAre, Zenon
<1> HIDE DEF q, S
<1>3. q \in Ids(circ) /\ Len(q) \in Nat /\ \A k \in 1 .. Len(q) : q[k] \in S
  <2>1. q \in Seq(Nat) /\ \A k \in 1 .. Len(q) : q[k] \in S
    BY <1>1 DEF Picks
  <2>2. \A k \in 1 .. Len(q) : q[k] \in Newer(circ)
    BY <1>2, <2>1
  <2> QED BY <2>1, <2>2 DEF Ids
<1> QED BY <1>3, Zenon DEF q, S

LEMMA LocalQueue ==
    ASSUME HasGatesInOrder(circ), HasLayers(circ), NEW x \in ToSet(Sharings), NEW d \in Nat
    PROVE  QueueOnLvl(circ.local[x], d) \in Ids(circ) /\ Len(QueueOnLvl(circ.local[x], d)) \in Nat
<1> DEFINE q == QueueOnLvl(circ.local[x], d)
           S == GatesAt(circ, x, d, FALSE)
<1>1. Picks(q, S)
  BY QueuesPick, Zenon
<1>2. S \in SUBSET Newer(circ)
  BY GatesAtAre, Zenon
<1> HIDE DEF q, S
<1>3. q \in Ids(circ) /\ Len(q) \in Nat
  <2>1. q \in Seq(Nat) /\ \A k \in 1 .. Len(q) : q[k] \in Newer(circ)
    BY <1>1, <1>2 DEF Picks
  <2> QED BY <2>1 DEF Ids
<1> QED BY <1>3 DEF q

\* One gate that asks after the other.
ArithAskOne(p, t, i) == Arith!EvaluateInteractive(p, t, i)
ArithAsked(p, b, n, t) ==
    ArithRuns(p, b[1], t, Total(Of(MulVals(circ), b[2]), n), Total(Of(ConvBits(circ), b[2]), n))
ArithAsking == INSTANCE Folding WITH Op <- ArithAskOne, Inv <- ArithAsked

LEMMA ArithInteractive ==
    ASSUME HasGatesInOrder(circ), HasLayers(circ), NEW p \in Party, NEW s, IsStore(circ, s),
           IsArith(circ, s.arith), depth[p] \in Nat
    PROVE  ArithRuns(p, s, Arith!EvaluateInteractiveOperations(p, s),
                     AtLayer(circ, MulVals(circ), depth[p]), AtLayer(circ, ConvBits(circ), depth[p]))
<1> DEFINE q == Queue("ARITH", depth[p])
           b == <<s, q>>
           w == MulVals(circ)
           v == ConvBits(circ)
<1>0. "ARITH" \in ToSet(Sharings)
  BY DEF ToSet, Sharings
<1>1. /\ q \in Ids(circ) /\ Len(q) \in Nat
      /\ \A k \in 1 .. Len(q) : q[k] \in GatesAt(circ, "ARITH", depth[p], TRUE)
  BY <1>0, QueueAsks, Zenon
<1>2. \A k \in 1 .. Len(q) : Of(w, q)[k] = w[q[k]] /\ Of(v, q)[k] = v[q[k]]
  BY DEF Of
<1>3. \A k \in 1 .. Len(q) : w[q[k]] \in Nat /\ v[q[k]] \in Nat
  BY <1>1, MulValsAre, ConvBitsAre DEF Weights, Ids
<1> HIDE DEF w, v, q
<1>4. b[1] = s /\ b[2] = q
  OBVIOUS
<1> HIDE DEF b
<1>5. ArithAsked(p, b, 0, s)
  <2>1. Total(Of(w, q), 0) = 0 /\ Total(Of(v, q), 0) = 0
    BY TotalNothing
  <2>2. Runs("arith", p, circ, s, s)
    BY MovesNot, ArithOn
  <2>3. ArithTakes(p, s.arith, s.arith, 0, 0)
    BY SameTakes
  <2> QED BY <1>4, <2>1, <2>2, <2>3 DEF ArithAsked, ArithRuns, w, v
<1>6. ArithAsking!Kept(p, b, q)
  <2>1. ASSUME NEW n \in 1 .. Len(q), NEW t, ArithAsked(p, b, n - 1, t)
        PROVE  ArithAsked(p, b, n, ArithAskOne(p, t, q[n]))
    <3> DEFINE u == Arith!EvaluateInteractive(p, t, q[n])
               m1 == Total(Of(w, q), n - 1)
               m2 == Total(Of(v, q), n - 1)
    <3>1. ArithRuns(p, s, t, m1, m2)
      BY <1>4, <2>1 DEF ArithAsked, w, v
    <3>2. IsStore(circ, t) /\ IsArith(circ, t.arith)
      BY <3>1, ArithOn DEF ArithRuns
    <3>3. ArithRuns(p, t, u, w[q[n]], v[q[n]])
      BY <1>1, <3>2, ArithEvaluateInteractive, Zenon DEF w, v
    <3>4. m1 \in Nat /\ m2 \in Nat
      <4>1. \A k \in 1 .. Len(q) : Of(w, q)[k] \in Nat /\ Of(v, q)[k] \in Nat
        BY <1>2, <1>3
      <4>2. n - 1 \in 0 .. Len(q)
        OBVIOUS
      <4> QED BY <1>1, <4>1, <4>2, TotalNat, Zenon
    <3>5. Total(Of(w, q), n) = m1 + w[q[n]] /\ Total(Of(v, q), n) = m2 + v[q[n]]
      BY <1>1, <1>2, TotalStep
    <3> HIDE DEF u, m1, m2
    <3>6. ArithRuns(p, s, u, m1 + w[q[n]], m2 + v[q[n]])
      BY <1>3, <3>1, <3>3, <3>4, ArithRunsThen, Zenon
    <3> QED BY <1>4, <3>5, <3>6 DEF ArithAsked, ArithAskOne, u, w, v
  <2> QED BY <2>1 DEF ArithAsking!Kept
<1>8. ArithAsked(p, b, Len(q), ArithAsking!ThroughAll(p, s, q))
  BY <1>1, <1>5, <1>6, LeastNat, ArithAsking!ThroughInvariant
<1>9. Arith!EvaluateInteractiveOperations(p, s) = ArithAsking!ThroughAll(p, s, q)
  BY DEF Arith!EvaluateInteractiveOperations, Arith!Through, Arith!Once, ArithAsking!ThroughAll,
         ArithAskOne, Arith!QueueOnLvl, QueueOnLvl, Queue, q
<1>10. Total(Of(w, q), Len(q)) = AtLayer(circ, w, depth[p]) /\ Total(Of(v, q), Len(q)) = AtLayer(circ, v, depth[p])
  <2> DEFINE S == GatesAt(circ, "ARITH", depth[p], TRUE)
  <2>1. Picks(q, S) /\ S \in SUBSET Newer(circ)
    BY <1>0, QueuesPick, GatesAtAre, Zenon DEF Queue, q
  <2>2. \A i \in S : circ.gates[i].depth = depth[p]
    BY DEF GatesAt
  <2>3. \A i \in Newer(circ) : circ.gates[i].depth = depth[p] /\ w[i] # 0 => i \in S
    BY MulValsAre, Zenon DEF GatesAt, HasGatesInOrder, Newer, Interactive, IsMul, Yao, w
  <2>4. \A i \in Newer(circ) : circ.gates[i].depth = depth[p] /\ v[i] # 0 => i \in S
    BY ConvBitsAre, Zenon DEF GatesAt, HasGatesInOrder, Newer, Interactive, IsConversion, v
  <2>5. Weights(circ, w) /\ Weights(circ, v)
    BY MulValsAre, ConvBitsAre DEF w, v
  <2> HIDE DEF S
  <2>6. Total(Of(w, q), Len(q)) = AtLayer(circ, w, depth[p])
    BY <2>1, <2>2, <2>3, <2>5, QueueWeighs
  <2>7. Total(Of(v, q), Len(q)) = AtLayer(circ, v, depth[p])
    BY <2>1, <2>2, <2>4, <2>5, QueueWeighs
  <2> QED BY <2>6, <2>7
<1> QED BY <1>4, <1>8, <1>9, <1>10 DEF ArithAsked, w, v

\* What only moves on is kept by every step.
OnlyMoves(a, s, n, t) == Moves(circ, s, t)

ArithLocalOne(p, t, i) == Arith!EvaluateLocal(p, t, i)
ArithLocal == INSTANCE Folding WITH Op <- ArithLocalOne, Inv <- OnlyMoves

LEMMA ArithLocalMoves ==
    ASSUME HasGatesInOrder(circ), HasLayers(circ), NEW p, NEW s, IsStore(circ, s), depth[p] \in Nat
    PROVE  Moves(circ, s, Arith!EvaluateLocalOperations(p, s))
<1> DEFINE q == QueueOnLvl(circ.local["ARITH"], depth[p])
<1>1. q \in Ids(circ) /\ Len(q) \in Nat
  <2>1. "ARITH" \in ToSet(Sharings)
    BY DEF ToSet, Sharings
  <2> QED BY <2>1, LocalQueue, Zenon
<1> HIDE DEF q
<1>2. OnlyMoves(p, s, 0, s)
  BY MovesNot DEF OnlyMoves
<1>3. ArithLocal!Kept(p, s, q)
  <2>1. ASSUME NEW i \in Newer(circ), NEW t, Moves(circ, s, t) PROVE Moves(circ, s, Arith!EvaluateLocal(p, t, i))
    <3> DEFINE v == Arith!LocalShare(p, t, Arith!Gate(i), Arith!Parents(t, Arith!Gate(i)))
               u == Arith!EvaluateLocal(p, t, i)
    <3>1. u = t \/ u = Computed(t, i, v)
      BY ArithIsOne DEF Arith!EvaluateLocal
    <3> HIDE DEF u, v
    <3>2. IsStore(circ, t)
      BY <2>1 DEF Moves, KeepsValues
    <3>3. Moves(circ, t, Computed(t, i, v))
      BY <3>2, ComputedMoves
    <3>4. Moves(circ, s, u)
      BY <2>1, <3>1, <3>3, MovesOn
    <3> QED BY <3>4 DEF u
  <2>2. \A n \in 1 .. Len(q) : q[n] \in Newer(circ)
    BY <1>1 DEF Ids
  <2> QED BY <2>1, <2>2 DEF ArithLocal!Kept, OnlyMoves, ArithLocalOne
<1>5. OnlyMoves(p, s, Len(q), ArithLocal!ThroughAll(p, s, q))
  BY <1>1, <1>2, <1>3, LeastNat, ArithLocal!ThroughInvariant
<1>6. Arith!EvaluateLocalOperations(p, s) = ArithLocal!ThroughAll(p, s, q)
  BY DEF Arith!EvaluateLocalOperations, Arith!Through, Arith!Once, ArithLocal!ThroughAll,
         ArithLocalOne, Arith!QueueOnLvl, QueueOnLvl, q
<1> QED BY <1>5, <1>6 DEF OnlyMoves

LEMMA ArithEvaluates ==
    ASSUME HasGatesInOrder(circ), HasLayers(circ), NEW p \in Party, NEW s, IsStore(circ, s),
           IsArith(circ, s.arith), depth[p] \in Nat
    PROVE  ArithRuns(p, s, EvaluateOperations(p, s, "ARITH"),
                     AtLayer(circ, MulVals(circ), depth[p]), AtLayer(circ, ConvBits(circ), depth[p]))
<1> DEFINE u == Arith!EvaluateLocalOperations(p, s)
           t == Arith!EvaluateInteractiveOperations(p, u)
<1>1. EvaluateOperations(p, s, "ARITH") = t
  BY DEF EvaluateOperations, Once, Yao
<1>2. Moves(circ, s, u)
  BY ArithLocalMoves
<1> HIDE DEF u
<1>3. IsStore(circ, u) /\ u.arith = s.arith
  BY <1>2 DEF Moves, KeepsValues, KeepsSides
<1> DEFINE m == AtLayer(circ, MulVals(circ), depth[p])
           b == AtLayer(circ, ConvBits(circ), depth[p])
<1>4. ArithRuns(p, u, t, m, b)
  BY <1>3, ArithInteractive
<1> HIDE DEF t, m, b
<1>5. ArithRuns(p, s, t, m, b)
  <2>1. Runs("arith", p, circ, s, u)
    BY <1>2, ArithOn
  <2>2. Runs("arith", p, circ, s, t)
    BY <2>1, <1>4, ArithOn DEF ArithRuns
  <2> QED BY <2>2, <1>3, <1>4 DEF ArithRuns
<1> QED BY <1>1, <1>5 DEF m, b

\* The elements of a list by their places.
Places(ids) == [m \in DOMAIN ids |-> m]

LEMMA PlacesAre ==
    ASSUME NEW ids \in Ids(circ)
    PROVE  /\ Len(Places(ids)) = Len(ids) /\ Len(ids) \in Nat
           /\ \A m \in 1 .. Len(ids) : Places(ids)[m] = m /\ ids[m] \in Newer(circ)
BY DEF Places, Ids

ArithOutputOne(a, t, m) == Arith!AssignOutputShare(t, a.outGates[m], Arith!Stretch(a.outGates, m, a.rcv.out))
ArithOutputs == INSTANCE Folding WITH Op <- ArithOutputOne, Inv <- OnlyMoves

LEMMA ArithOutputsMove ==
    ASSUME HasGatesInOrder(circ), NEW s, IsStore(circ, s), IsArith(circ, s.arith)
    PROVE  Moves(circ, s, Arith!AssignOutputShares(s))
<1> DEFINE a == s.arith
           q == Places(a.outGates)
<1>1. /\ Len(q) = Len(a.outGates) /\ Len(q) \in Nat
      /\ \A m \in 1 .. Len(q) : q[m] = m /\ a.outGates[m] \in Newer(circ)
  BY PlacesAre, Zenon DEF IsArith
<1>2. Arith!AssignOutputShares(s) = ArithOutputs!ThroughAll(a, s, q)
  BY DEF Arith!AssignOutputShares, Arith!Through, Arith!Once, ArithOutputs!ThroughAll,
         ArithOutputOne, Places
<1> HIDE DEF q, a
<1>3. OnlyMoves(a, s, 0, s)
  BY MovesNot DEF OnlyMoves
<1>4. ArithOutputs!Kept(a, s, q)
  <2>1. ASSUME NEW m \in 1 .. Len(q), NEW t, Moves(circ, s, t)
        PROVE  Moves(circ, s, ArithOutputOne(a, t, m))
    <3> DEFINE i == a.outGates[m]
               v == [k \in 1 .. Gate(i).nvals |->
                        Arith!Mod(t.val[Gate(i).ins[1]][k] + Arith!Stretch(a.outGates, m, a.rcv.out)[k])]
    <3>1. ArithOutputOne(a, t, m) = Computed(t, i, v)
      BY ArithIsOne, Zenon DEF ArithOutputOne, Arith!AssignOutputShare
    <3>2. i \in Newer(circ) /\ IsStore(circ, t)
      BY <1>1, <2>1 DEF Moves, KeepsValues
    <3> HIDE DEF i, v
    <3>3. Moves(circ, t, Computed(t, i, v))
      BY <3>2, ComputedMoves
    <3> QED BY <2>1, <3>1, <3>3, MovesOn
  <2> QED BY <1>1, <2>1 DEF ArithOutputs!Kept, OnlyMoves
<1>6. OnlyMoves(a, s, Len(q), ArithOutputs!ThroughAll(a, s, q))
  BY <1>1, <1>3, <1>4, LeastNat, ArithOutputs!ThroughInvariant
<1> QED BY <1>2, <1>6 DEF OnlyMoves

-------------------------------------------------------------------------------
ArithPairOne(ids, t, m) ==
    Arith!AssignServerConversionShare(t, ids[m], Arith!CountBits(circ, SubSeq(ids, 1, m - 1)))
ArithPaired(ids, s, n, t) == ArithRuns("SERVER", s, t, 0, 0)
ArithPairs == INSTANCE Folding WITH Op <- ArithPairOne, Inv <- ArithPaired

LEMMA ArithPairsRun ==
    ASSUME HasGatesInOrder(circ), NEW s, IsStore(circ, s), IsArith(circ, s.arith), NEW ids \in Ids(circ)
    PROVE  ArithRuns("SERVER", s, Arith!AssignEach(s, ids, Arith!AssignServerConversionShare), 0, 0)
<1> DEFINE q == Places(ids)
<1>1. Len(q) = Len(ids) /\ Len(q) \in Nat /\ \A m \in 1 .. Len(q) : q[m] = m /\ ids[m] \in Newer(circ)
  BY PlacesAre
<1>2. Arith!AssignEach(s, ids, Arith!AssignServerConversionShare) = ArithPairs!ThroughAll(ids, s, q)
  BY DEF Arith!AssignEach, Arith!Through, Arith!Once, ArithPairs!ThroughAll,
         ArithPairOne, Places
<1> HIDE DEF q
<1>3. ArithPaired(ids, s, 0, s)
  <2>1. Runs("arith", "SERVER", circ, s, s)
    BY MovesNot, ArithOn
  <2>2. ArithTakes("SERVER", s.arith, s.arith, 0, 0)
    BY SameTakes
  <2> QED BY <2>1, <2>2 DEF ArithPaired, ArithRuns
<1>4. ArithPairs!Kept(ids, s, q)
  <2>1. ASSUME NEW m \in 1 .. Len(q), NEW t, ArithRuns("SERVER", s, t, 0, 0)
        PROVE  ArithRuns("SERVER", s, ArithPairOne(ids, t, m), 0, 0)
    <3> DEFINE i == ids[m]
               u == ArithPairOne(ids, t, m)
    <3>1. PICK v, w : u = [Computed(t, i, v) EXCEPT !.arith.convSnd = @ \o w]
      BY ArithIsOne, Zenon DEF ArithPairOne, Arith!AssignServerConversionShare
    <3>2. i \in Newer(circ) /\ IsStore(circ, t) /\ IsArith(circ, t.arith)
      BY <1>1, <2>1, ArithOn DEF ArithRuns
    <3> HIDE DEF i, u
    <3>3. Moves(circ, t, Computed(t, i, v))
      BY <3>2, ComputedMoves
    <3> DEFINE r == Computed(t, i, v)
               a == [t.arith EXCEPT !.convSnd = t.arith.convSnd \o w]
    <3>4. IsArith(circ, a) /\ ArithTakes("SERVER", t.arith, a, 0, 0)
      <4>1. /\ DOMAIN a = DOMAIN t.arith /\ a.mtIdx = t.arith.mtIdx /\ a.MULGates = t.arith.MULGates
            /\ a.inGates = t.arith.inGates /\ a.outGates = t.arith.outGates
            /\ a.CONVGates = t.arith.CONVGates /\ a.CONVGates2 = t.arith.CONVGates2
            /\ a.convIdx = t.arith.convIdx /\ a.convSndCtr = t.arith.convSndCtr
            /\ a.convRcvCtr = t.arith.convRcvCtr
        BY <3>2 DEF IsArith, ArithFields
      <4> HIDE DEF a
      <4>2. IsArith(circ, a)
        BY <3>2, <4>1 DEF IsArith
      <4> QED BY <3>2, <4>1, <4>2, SameTakes
    <3>5. u = With(r, "arith", a)
      <4>1. IsStore(circ, r) /\ r.arith = t.arith
        BY <3>3 DEF Moves, KeepsValues, KeepsSides
      <4> HIDE DEF r
      <4> QED BY <3>1, <4>1, Zenon DEF With, IsStore, Common, Sides, r
    <3> HIDE DEF a, r
    <3>6. ArithRuns("SERVER", t, u, 0, 0)
      BY <3>2, <3>3, <3>4, <3>5, ArithRunsSet DEF r
    <3>7. IsArith(circ, s.arith)
      OBVIOUS
    <3>8. ArithRuns("SERVER", s, u, 0 + 0, 0 + 0)
      BY <2>1, <3>6, <3>7, ArithRunsThen
    <3> QED BY <3>8 DEF u
  <2> QED BY <1>1, <2>1 DEF ArithPairs!Kept, ArithPaired
<1>6. ArithPaired(ids, s, Len(q), ArithPairs!ThroughAll(ids, s, q))
  BY <1>1, <1>3, <1>4, LeastNat, ArithPairs!ThroughInvariant
<1> QED BY <1>2, <1>6 DEF ArithPaired

ArithSumOne(ids, t, m) ==
    Arith!AssignClientConversionShare(t, ids[m], Arith!CountBits(circ, SubSeq(ids, 1, m - 1)))
ArithSums == INSTANCE Folding WITH Op <- ArithSumOne, Inv <- OnlyMoves

LEMMA ArithSumsMove ==
    ASSUME HasGatesInOrder(circ), NEW s, IsStore(circ, s), NEW ids \in Ids(circ)
    PROVE  Moves(circ, s, Arith!AssignEach(s, ids, Arith!AssignClientConversionShare))
<1> DEFINE q == Places(ids)
<1>1. Len(q) = Len(ids) /\ Len(q) \in Nat /\ \A m \in 1 .. Len(q) : q[m] = m /\ ids[m] \in Newer(circ)
  BY PlacesAre
<1>2. Arith!AssignEach(s, ids, Arith!AssignClientConversionShare) = ArithSums!ThroughAll(ids, s, q)
  BY DEF Arith!AssignEach, Arith!Through, Arith!Once, ArithSums!ThroughAll,
         ArithSumOne, Places
<1> HIDE DEF q
<1>3. OnlyMoves(ids, s, 0, s)
  BY MovesNot DEF OnlyMoves
<1>4. ArithSums!Kept(ids, s, q)
  <2>1. ASSUME NEW m \in 1 .. Len(q), NEW t, Moves(circ, s, t)
        PROVE  Moves(circ, s, ArithSumOne(ids, t, m))
    <3>1. PICK v : ArithSumOne(ids, t, m) = Computed(t, ids[m], v)
      BY ArithIsOne, Zenon DEF ArithSumOne, Arith!AssignClientConversionShare
    <3>2. ids[m] \in Newer(circ) /\ IsStore(circ, t)
      BY <1>1, <2>1 DEF Moves, KeepsValues
    <3>3. Moves(circ, t, Computed(t, ids[m], v))
      BY <3>2, ComputedMoves
    <3> QED BY <2>1, <3>1, <3>3, MovesOn
  <2> QED BY <1>1, <2>1 DEF ArithSums!Kept, OnlyMoves
<1>6. OnlyMoves(ids, s, Len(q), ArithSums!ThroughAll(ids, s, q))
  BY <1>1, <1>3, <1>4, LeastNat, ArithSums!ThroughInvariant
<1> QED BY <1>2, <1>6 DEF OnlyMoves

LEMMA IdsAreNats ==
    ASSUME NEW c, NEW ids \in Ids(c)
    PROVE  ids \in Seq(Nat)
BY DEF Ids, Newer

LEMMA NoIds ==
    ASSUME NEW c
    PROVE  <<>> \in Ids(c)
BY DEF Ids

LEMMA ArithMULGates ==
    ASSUME HasGatesInOrder(circ), NEW p, NEW s, IsStore(circ, s), IsArith(circ, s.arith)
    PROVE  ArithRuns(p, s, Arith!EvaluateMULGate(p, s), 0, 0)
<1> DEFINE v == [k \in DOMAIN s.arith.D |-> Arith!MTResult(p, s, k)]
           u == AssignInOrder(s, s.arith.MULGates, v)
           a == [s.arith EXCEPT !.mtStartIdx = s.arith.mtIdx]
           t == Arith!EvaluateMULGate(p, s)
<1>1. t = [u EXCEPT !.arith.mtStartIdx = s.arith.mtIdx]
  BY ArithIsOne DEF Arith!EvaluateMULGate
<1> HIDE DEF t, v
<1>2. Moves(circ, s, u)
  <2>1. s.arith.MULGates \in Seq(Nat)
    BY DEF IsArith, Ids, Newer
  <2> QED BY <2>1, AssignInOrderMoves
<1>3. IsArith(circ, a) /\ ArithTakes(p, s.arith, a, 0, 0)
  <2>1. /\ DOMAIN a = DOMAIN s.arith /\ a.mtIdx = s.arith.mtIdx /\ a.MULGates = s.arith.MULGates
        /\ a.inGates = s.arith.inGates /\ a.outGates = s.arith.outGates
        /\ a.CONVGates = s.arith.CONVGates /\ a.CONVGates2 = s.arith.CONVGates2
        /\ a.convIdx = s.arith.convIdx /\ a.convSndCtr = s.arith.convSndCtr
        /\ a.convRcvCtr = s.arith.convRcvCtr
    BY DEF IsArith, ArithFields
  <2> HIDE DEF a
  <2>2. IsArith(circ, a)
    BY <2>1 DEF IsArith
  <2> QED BY <2>1, <2>2, SameTakes
<1>4. t = With(u, "arith", a)
  <2>1. IsStore(circ, u) /\ u.arith = s.arith
    BY <1>2 DEF Moves, KeepsValues, KeepsSides
  <2> HIDE DEF u
  <2> QED BY <1>1, <2>1, Zenon DEF With, IsStore, Common, Sides
<1> HIDE DEF a, u
<1>5. ArithRuns(p, s, t, 0, 0)
  BY <1>2, <1>3, <1>4, ArithRunsSet
<1> QED BY <1>5 DEF t

ArithEnds(p, a, b) ==
    /\ b.mtIdx = a.mtIdx /\ b.convIdx = a.convIdx + Asked(p, a)
    /\ Asked(p, b) = 0
    /\ p = "CLIENT" => b.convRcvCtr = Asked(p, a)
    /\ AsksForAll(p, a) => b.CONVGates = <<>>
    /\ Settled(p, a) => Settled(p, b)

LEMMA ServerConversions ==
    ASSUME HasGatesInOrder(circ), NEW s, IsStore(circ, s), IsArith(circ, s.arith)
    PROVE  LET t == Arith!AssignServerConversionShares(s)
           IN  Runs("arith", "SERVER", circ, s, t) /\ ArithEnds("SERVER", s.arith, t.arith)
<1> DEFINE o == s.arith
           c == [o EXCEPT !.convSnd = <<>>, !.convSndCtr = 0]
           sent == [s EXCEPT !.arith.convSnd = <<>>, !.arith.convSndCtr = 0]
           t == Arith!AssignServerConversionShares(s)
<1>1. sent = With(s, "arith", c)
  BY Zenon DEF With, IsStore, Common, Sides, IsArith, ArithFields
<1>2. /\ DOMAIN c = DOMAIN o /\ c.mtIdx = o.mtIdx /\ c.MULGates = o.MULGates
      /\ c.inGates = o.inGates /\ c.outGates = o.outGates
      /\ c.CONVGates = o.CONVGates /\ c.CONVGates2 = o.CONVGates2
      /\ c.convIdx = o.convIdx /\ c.convSndCtr = 0 /\ c.convRcvCtr = o.convRcvCtr
  BY DEF IsArith, ArithFields
<1> HIDE DEF sent, c
<1>3. IsArith(circ, c)
  BY <1>2 DEF IsArith
<1>4. Runs("arith", "SERVER", circ, s, sent) /\ sent.arith = c /\ IsStore(circ, sent)
  BY <1>1, <1>3, ArithSet
<1>5. CASE o.convRcvCtr = 0
  <2>1. t = sent
    BY <1>5 DEF Arith!AssignServerConversionShares, sent
  <2>2. ArithEnds("SERVER", o, c)
    BY <1>2, <1>5 DEF ArithEnds, Asked, AsksForAll, Settled, IsArith
  <2> QED BY <1>4, <2>1, <2>2
<1>6. CASE o.convRcvCtr # 0
  <2> DEFINE u == Arith!AssignEach(sent, o.CONVGates, Arith!AssignServerConversionShare)
             e == u.arith
             a == [e EXCEPT !.convSndCtr = o.convRcvCtr, !.convRcvCtr = 0,
                            !.convIdx = o.convIdx + o.convRcvCtr, !.CONVGates = <<>>]
  <2>1. t = With(u, "arith", a)
    BY <1>6 DEF Arith!AssignServerConversionShares, sent, With
  <2>2. ArithRuns("SERVER", sent, u, 0, 0)
    <3>1. o.CONVGates \in Ids(circ)
      BY DEF IsArith
    <3> HIDE DEF o
    <3> QED BY <1>3, <1>4, <3>1, ArithPairsRun
  <2> HIDE DEF u, t
  <2>3. IsStore(circ, u) /\ IsArith(circ, e) /\ Runs("arith", "SERVER", circ, sent, u)
    BY <2>2, ArithOn DEF ArithRuns
  <2>4. e.mtIdx = o.mtIdx /\ e.CONVGates2 = o.CONVGates2
    BY <1>2, <1>4, <2>2 DEF ArithRuns, ArithTakes, IsArith
  <2>5. /\ DOMAIN a = DOMAIN e /\ a.mtIdx = e.mtIdx /\ a.MULGates = e.MULGates
        /\ a.inGates = e.inGates /\ a.outGates = e.outGates
        /\ a.CONVGates = <<>> /\ a.CONVGates2 = e.CONVGates2
        /\ a.convIdx = o.convIdx + o.convRcvCtr /\ a.convSndCtr = o.convRcvCtr /\ a.convRcvCtr = 0
    BY <2>3 DEF IsArith, ArithFields
  <2> HIDE DEF a, e
  <2>6. IsArith(circ, a)
    <3>1. o.convIdx + o.convRcvCtr \in Nat /\ o.convRcvCtr \in Nat
      BY DEF IsArith
    <3> HIDE DEF o
    <3> QED BY <2>3, <2>5, <3>1, NoIds DEF IsArith
  <2>7. ArithEnds("SERVER", o, a)
    BY <2>4, <2>5 DEF ArithEnds, Asked, AsksForAll, Settled, IsArith
  <2>8. Runs("arith", "SERVER", circ, u, t) /\ t.arith = a
    BY <2>1, <2>3, <2>6, ArithSet
  <2>9. Runs("arith", "SERVER", circ, s, t)
    BY <1>4, <2>3, <2>8, ArithOn
  <2> QED BY <2>7, <2>8, <2>9 DEF t
<1> QED BY <1>5, <1>6

LEMMA ClientConversions ==
    ASSUME HasGatesInOrder(circ), NEW s, IsStore(circ, s), IsArith(circ, s.arith)
    PROVE  LET t == Arith!AssignClientConversionShares(s)
           IN  Runs("arith", "CLIENT", circ, s, t) /\ ArithEnds("CLIENT", s.arith, t.arith)
<1> DEFINE o == s.arith
           u == Arith!AssignEach(s, o.CONVGates2, Arith!AssignClientConversionShare)
           c == [o EXCEPT !.convRcvCtr = 0, !.CONVGates2 = <<>>]
           v == IF o.convRcvCtr = 0 THEN s ELSE [u EXCEPT !.arith.convRcvCtr = 0, !.arith.CONVGates2 = <<>>]
           w == v.arith
           a == [w EXCEPT !.convIdx2 = o.convIdx, !.convIdx = o.convIdx + o.convSndCtr,
                          !.CONVGates2 = o.CONVGates, !.CONVGates = <<>>,
                          !.convRcvCtr = o.convSndCtr, !.convSndCtr = 0, !.convSnd = <<>>]
           t == Arith!AssignClientConversionShares(s)
<1>1. t = IF o.convSndCtr = 0 THEN v ELSE With(v, "arith", a)
  BY DEF Arith!AssignClientConversionShares, Arith!NextConvIdx, With
<1>2. Moves(circ, s, u)
  <2>1. o.CONVGates2 \in Ids(circ)
    BY DEF IsArith
  <2> HIDE DEF o
  <2> QED BY <2>1, ArithSumsMove
<1>3. IsStore(circ, u) /\ u.arith = o
  BY <1>2 DEF Moves, KeepsValues, KeepsSides
<1>4. v = s \/ v = With(u, "arith", c)
  <2> HIDE DEF u
  <2> QED BY <1>3, Zenon DEF With, IsStore, Common, Sides, IsArith, ArithFields
<1>5. /\ DOMAIN c = DOMAIN o /\ c.mtIdx = o.mtIdx /\ c.MULGates = o.MULGates
      /\ c.inGates = o.inGates /\ c.outGates = o.outGates
      /\ c.CONVGates = o.CONVGates /\ c.CONVGates2 = <<>>
      /\ c.convIdx = o.convIdx /\ c.convSndCtr = o.convSndCtr /\ c.convRcvCtr = 0
  BY DEF IsArith, ArithFields
<1> HIDE DEF c, t, u
<1>6. IsArith(circ, c)
  <2>1. IsArith(circ, o)
    OBVIOUS
  <2> HIDE DEF o
  <2> QED BY <1>5, <2>1, NoIds DEF IsArith
<1>7. Runs("arith", "CLIENT", circ, s, With(u, "arith", c)) /\ With(u, "arith", c).arith = c
  <2>1. Runs("arith", "CLIENT", circ, s, u)
    BY <1>2, ArithOn
  <2>2. Runs("arith", "CLIENT", circ, u, With(u, "arith", c)) /\ With(u, "arith", c).arith = c
    BY <1>3, <1>6, ArithSet
  <2> QED BY <2>1, <2>2, ArithOn
<1>8. Runs("arith", "CLIENT", circ, s, s)
  BY MovesNot, ArithOn
<1>9. (w = o /\ o.convRcvCtr = 0) \/ w = c
  <2>1. CASE o.convRcvCtr = 0
    BY <2>1
  <2>2. CASE o.convRcvCtr # 0
    <3>1. v = [u EXCEPT !.arith.convRcvCtr = 0, !.arith.CONVGates2 = <<>>]
      BY <2>2
    <3>2. v = With(u, "arith", c)
      BY <3>1, <1>3, Zenon DEF With, IsStore, Common, Sides, IsArith, ArithFields, c
    <3> QED BY <3>2, <1>7, Zenon
  <2> QED BY <2>1, <2>2
<1>10. Runs("arith", "CLIENT", circ, s, v)
  BY <1>4, <1>7, <1>8
<1> HIDE DEF v
<1>11. IsStore(circ, v) /\ IsArith(circ, w)
  BY <1>10, ArithOn
<1>12. /\ w.mtIdx = o.mtIdx /\ w.convIdx = o.convIdx /\ w.convSndCtr = o.convSndCtr
       /\ w.CONVGates = o.CONVGates /\ w.convRcvCtr = 0
       /\ w.CONVGates2 = <<>> \/ (o.convRcvCtr = 0 /\ w.CONVGates2 = o.CONVGates2)
  BY <1>5, <1>9
<1>13. CASE o.convSndCtr = 0
  <2>1. t = v
    BY <1>1, <1>13
  <2>2. ArithEnds("CLIENT", o, w)
    BY <1>12, <1>13 DEF ArithEnds, Asked, AsksForAll, Settled, IsArith
  <2> QED BY <1>10, <2>1, <2>2 DEF t
<1>14. CASE o.convSndCtr # 0
  <2>1. t = With(v, "arith", a)
    BY <1>1, <1>14
  <2>2. /\ DOMAIN a = DOMAIN w /\ a.mtIdx = w.mtIdx /\ a.MULGates = w.MULGates
        /\ a.inGates = w.inGates /\ a.outGates = w.outGates
        /\ a.CONVGates = <<>> /\ a.CONVGates2 = o.CONVGates
        /\ a.convIdx = o.convIdx + o.convSndCtr /\ a.convSndCtr = 0 /\ a.convRcvCtr = o.convSndCtr
    BY <1>11 DEF IsArith, ArithFields
  <2> HIDE DEF a, w
  <2>3. IsArith(circ, a)
    <3>1. o.convIdx + o.convSndCtr \in Nat /\ o.convSndCtr \in Nat /\ o.CONVGates \in Ids(circ)
      BY DEF IsArith
    <3> HIDE DEF o
    <3> QED BY <1>11, <2>2, <3>1, NoIds DEF IsArith
  <2>4. ArithEnds("CLIENT", o, a)
    BY <1>12, <1>14, <2>2 DEF ArithEnds, Asked, AsksForAll, Settled, IsArith
  <2>5. Runs("arith", "CLIENT", circ, v, t) /\ t.arith = a
    BY <1>11, <2>1, <2>3, ArithSet
  <2>6. Runs("arith", "CLIENT", circ, s, t)
    BY <1>10, <2>5, ArithOn
  <2> QED BY <2>4, <2>5, <2>6 DEF t
<1> QED BY <1>13, <1>14

LEMMA ArithFinishes ==
    ASSUME HasGatesInOrder(circ), NEW p \in Party, NEW s, IsStore(circ, s), IsArith(circ, s.arith)
    PROVE  LET t == Arith!FinishCircuitLayer(p, s)
           IN  Runs("arith", p, circ, s, t) /\ ArithEnds(p, s.arith, t.arith)
<1> DEFINE muls == Arith!EvaluateMULGate(p, s)
           ins == Arith!AssignInputShares(muls)
           outs == Arith!AssignOutputShares(ins)
           convs == Arith!AssignConversionShares(p, outs)
           t == Arith!FinishCircuitLayer(p, s)
<1>1. t = Arith!InitNewLayer(convs)
  BY DEF Arith!FinishCircuitLayer, Arith!Once
<1>2. ArithRuns(p, s, muls, 0, 0)
  BY ArithMULGates
<1>3. Moves(circ, muls, ins)
  <2>1. IsStore(circ, muls) /\ IsArith(circ, muls.arith)
    BY <1>2, ArithOn DEF ArithRuns
  <2> HIDE DEF muls
  <2>2. muls.arith.inGates \in Seq(Nat)
    BY <2>1, IdsAreNats DEF IsArith
  <2>3. ins = AssignInOrder(muls, muls.arith.inGates, muls.arith.rcv.in)
    BY ArithIsOne DEF Arith!AssignInputShares
  <2> HIDE DEF ins
  <2> QED BY <2>1, <2>2, <2>3, AssignInOrderMoves
<1>4. ArithRuns(p, s, ins, 0, 0)
  <2> HIDE DEF muls, ins
  <2> QED BY <1>2, <1>3, ArithRunsMove
<1> HIDE DEF ins
<1>5. Moves(circ, ins, outs)
  <2>1. IsStore(circ, ins) /\ IsArith(circ, ins.arith)
    BY <1>4, ArithOn DEF ArithRuns
  <2> QED BY <2>1, ArithOutputsMove
<1> HIDE DEF outs
<1>6. ArithRuns(p, s, outs, 0, 0)
  BY <1>4, <1>5, ArithRunsMove
<1>7. IsStore(circ, outs) /\ IsArith(circ, outs.arith) /\ Runs("arith", p, circ, s, outs)
  BY <1>6, ArithOn DEF ArithRuns
<1>8. Runs("arith", p, circ, outs, convs) /\ ArithEnds(p, outs.arith, convs.arith)
  <2>1. CASE p = "SERVER"
    BY <1>7, <2>1, ServerConversions DEF Arith!AssignConversionShares
  <2>2. CASE p = "CLIENT"
    BY <1>7, <2>2, ClientConversions DEF Arith!AssignConversionShares
  <2> QED BY <2>1, <2>2 DEF Party
<1> HIDE DEF convs, t
<1>9. IsStore(circ, convs) /\ IsArith(circ, convs.arith)
  BY <1>8, ArithOn
<1> DEFINE e == convs.arith
           a == [e EXCEPT !.D = <<>>, !.E = <<>>, !.MULGates = <<>>, !.inSnd = <<>>, !.inGates = <<>>,
                          !.outSnd = <<>>, !.outGates = <<>>, !.rcv = <<>>]
<1>10. t = With(convs, "arith", a)
  BY <1>1 DEF Arith!InitNewLayer, With
<1>11. /\ DOMAIN a = DOMAIN e /\ a.mtIdx = e.mtIdx /\ a.MULGates = <<>>
       /\ a.inGates = <<>> /\ a.outGates = <<>>
       /\ a.CONVGates = e.CONVGates /\ a.CONVGates2 = e.CONVGates2
       /\ a.convIdx = e.convIdx /\ a.convSndCtr = e.convSndCtr /\ a.convRcvCtr = e.convRcvCtr
  BY <1>9, Zenon DEF IsArith, ArithFields
<1> HIDE DEF a
<1>12. IsArith(circ, a)
  <2>1. IsArith(circ, e)
    BY <1>9
  <2> HIDE DEF e
  <2> QED BY <1>11, <2>1, NoIds DEF IsArith
<1>13. Runs("arith", p, circ, convs, t) /\ t.arith = a
  BY <1>9, <1>10, <1>12, ArithSet
<1>14. Runs("arith", p, circ, s, t)
  <2>1. Runs("arith", p, circ, s, convs)
    BY <1>7, <1>8, ArithOn
  <2> QED BY <2>1, <1>13, ArithOn
<1>15. ArithEnds(p, outs.arith, a)
  BY <1>8, <1>11 DEF ArithEnds, Asked, AsksForAll, Settled
<1>16. ArithEnds(p, s.arith, a)
  <2>1. /\ outs.arith.mtIdx = s.arith.mtIdx /\ Asked(p, outs.arith) = Asked(p, s.arith)
        /\ outs.arith.convIdx = s.arith.convIdx /\ outs.arith.CONVGates2 = s.arith.CONVGates2
        /\ p = "CLIENT" => outs.arith.convRcvCtr = s.arith.convRcvCtr
        /\ AsksForAll(p, s.arith) => AsksForAll(p, outs.arith)
    BY <1>6 DEF ArithRuns, ArithTakes, IsArith, Asked
  <2>2. Settled(p, s.arith) => Settled(p, outs.arith)
    BY <2>1 DEF Settled, Party
  <2> QED BY <1>15, <2>1, <2>2 DEF ArithEnds
<1> QED BY <1>13, <1>14, <1>16 DEF t

-------------------------------------------------------------------------------
(***************************************************************************)
(* BoolSharing.                                                            *)
(***************************************************************************)
LEMMA BoolIsOne ==
    ASSUME NEW s, NEW i, NEW v, NEW w
    PROVE  /\ Bool!Gate(i) = Gate(i)
           /\ Bool!Assign(s, i, v) = Assign(s, i, v)
           /\ Bool!Reads(s, v) = Reads(s, v)
           /\ Bool!UsedGates(s, v) = UsedGates(s, v)
           /\ Bool!Computed(s, i, v) = Computed(s, i, v)
           /\ Bool!SumNvals(circ, v) = SumNvals(circ, v)
           /\ Bool!AssignInOrder(s, v, w) = AssignInOrder(s, v, w)
           /\ Bool!QueueOnLvl(v, i) = QueueOnLvl(v, i)
<1>1. \A j : Bool!Gate(j) = Gate(j)
  BY DEF Bool!Gate, Gate
<1>2. \A t, j, u : Bool!Assign(t, j, u) = Assign(t, j, u)
  BY DEF Bool!Gate, Gate, Bool!Assign, Assign
<1>3. \A t, u : Bool!Reads(t, u) = Reads(t, u)
  BY DEF Bool!Reads, Reads, Bool!ToSet, ToSet
<1>4. \A t, u : Bool!UsedGates(t, u) = UsedGates(t, u)
  BY DEF Bool!UsedGates, UsedGates, Bool!UsedGate, UsedGate, Bool!Gate, Gate,
         Bool!Through, Through, Bool!Once, Once
<1>5. Bool!Computed(s, i, v) = Computed(s, i, v)
  BY <1>1, <1>2, <1>3, <1>4 DEF Bool!Computed, Computed
<1>6. \A u : Bool!SumNvals(circ, u) = SumNvals(circ, u)
  BY DEF Bool!SumNvals, SumNvals, Bool!Total, Total
<1>7. \A t, u : Bool!AssignStretches(t, v, u) = AssignStretches(t, v, u)
  BY DEF Bool!AssignStretches, AssignStretches, Bool!Stretch, Stretch,
         Bool!Assign, Assign, Bool!Gate, Gate, Bool!SumNvals, SumNvals, Bool!Total, Total,
         Bool!Through, Through, Bool!Once, Once
<1>8. Bool!AssignInOrder(s, v, w) = AssignInOrder(s, v, w)
  BY <1>7 DEF Bool!AssignInOrder, AssignInOrder, Bool!Once, Once
<1>9. Bool!QueueOnLvl(v, i) = QueueOnLvl(v, i)
  BY DEF Bool!QueueOnLvl, QueueOnLvl
<1> QED BY <1>1, <1>2, <1>3, <1>4, <1>5, <1>6, <1>8, <1>9

NoAnds == [k \in DOMAIN circ.ands |-> 0]
AndsOf(i) == [k \in DOMAIN circ.ands |-> AndVals(circ, k)[i]]

\* From a to b, so many triples of every kind are taken.
BoolTakes(a, b, v) ==
    /\ \A k \in DOMAIN circ.ands : b.mtIdx[k] = a.mtIdx[k] + v[k]
    /\ b.mtStartIdx = a.mtStartIdx

BoolRuns(p, s, t, v) == Runs("bool", p, circ, s, t) /\ BoolTakes(s.bool, t.bool, v)

LEMMA BoolRunsSet ==
    ASSUME NEW p, NEW s, IsBool(circ, s.bool), NEW u, Moves(circ, s, u),
           NEW a, IsBool(circ, a), NEW v, BoolTakes(s.bool, a, v)
    PROVE  BoolRuns(p, s, With(u, "bool", a), v)
<1> DEFINE t == With(u, "bool", a)
<1>1. Runs("bool", p, circ, s, u) /\ IsStore(circ, u)
  BY BoolOn DEF Moves, KeepsValues
<1>2. Runs("bool", p, circ, u, t) /\ t.bool = a
  BY <1>1, BoolSet
<1> HIDE DEF t
<1>3. Runs("bool", p, circ, s, t)
  BY <1>1, <1>2, BoolOn
<1> QED BY <1>2, <1>3 DEF BoolRuns, t

LEMMA BoolRunsMove ==
    ASSUME NEW p, NEW s, NEW t, NEW v, BoolRuns(p, s, t, v), NEW u, Moves(circ, t, u)
    PROVE  BoolRuns(p, s, u, v)
<1>1. Runs("bool", p, circ, s, u) /\ u.bool = t.bool
  BY BoolOn DEF BoolRuns
<1> QED BY <1>1 DEF BoolRuns

LEMMA BoolRunsThen ==
    ASSUME NEW p, NEW s, IsBool(circ, s.bool), NEW t, NEW v, BoolRuns(p, s, t, v),
           NEW u, NEW w, BoolRuns(p, t, u, w), NEW x,
           \A k \in DOMAIN circ.ands : v[k] \in Nat /\ w[k] \in Nat /\ x[k] = v[k] + w[k]
    PROVE  BoolRuns(p, s, u, x)
<1>1. Runs("bool", p, circ, s, u)
  BY BoolOn DEF BoolRuns
<1>2. \A k \in DOMAIN circ.ands : s.bool.mtIdx[k] \in Nat
  BY DEF IsBool
<1>3. BoolTakes(s.bool, u.bool, x)
  BY <1>2 DEF BoolRuns, BoolTakes
<1> QED BY <1>1, <1>3 DEF BoolRuns

LEMMA BoolTakesNothing ==
    ASSUME NEW a, IsBool(circ, a), NEW b, b.mtIdx = a.mtIdx, b.mtStartIdx = a.mtStartIdx
    PROVE  BoolTakes(a, b, NoAnds)
BY DEF BoolTakes, NoAnds, IsBool

\* A state that differs in no list and no count.
LEMMA BoolPlain ==
    ASSUME NEW a, IsBool(circ, a), NEW b, DOMAIN b = DOMAIN a, b.mtIdx = a.mtIdx, b.mtStartIdx = a.mtStartIdx,
           b.ANDGates = a.ANDGates, b.inGates \in Ids(circ), b.outGates \in Ids(circ), b.lutGates = a.lutGates
    PROVE  IsBool(circ, b) /\ BoolTakes(a, b, NoAnds)
BY BoolTakesNothing DEF IsBool

LEMMA AppendIds ==
    ASSUME NEW ids \in Ids(circ), NEW i \in Newer(circ)
    PROVE  Append(ids, i) \in Ids(circ)
BY DEF Ids

LEMMA AndValsAre ==
    ASSUME HasGatesInOrder(circ), HasANDsCounted(circ), NEW k \in DOMAIN circ.ands
    PROVE  Weights(circ, AndVals(circ, k))
<1>1. ASSUME NEW i \in Newer(circ) PROVE AndsTaken(circ, i, circ.ands[k].bitlen) \in Nat
  <2>1. circ.gates[i].nvals \in Nat /\ i \in DOMAIN circ.gates
    BY DEF HasGatesInOrder, IsGate, Newer
  <2>2. circ.gates[i].context = "BOOL" /\ circ.gates[i].type \in {"NON_LIN", "NON_LIN_VEC"} =>
            circ.gates[i].gs \in Nat \ {0}
    BY <2>1 DEF HasANDsCounted
  <2> QED BY <2>1, <2>2 DEF AndsTaken
<1> QED BY <1>1 DEF Weights, AndVals

\* The kind of the triples for an AND.
LEMMA AndsOfOne ==
    ASSUME HasGatesInOrder(circ), HasANDsCounted(circ), NEW i \in Newer(circ), Gate(i).context = "BOOL",
           Gate(i).type \in {"NON_LIN", "NON_LIN_VEC"}
    PROVE  LET k == Bool!FindBitLenPosition(Gate(i).gs)
           IN  /\ k \in DOMAIN circ.ands /\ Gate(i).nvals \div Gate(i).gs \in Nat
               /\ AndsOf(i) = [NoAnds EXCEPT ![k] = Gate(i).nvals \div Gate(i).gs]
<1> DEFINE g == Gate(i)
           k == Bool!FindBitLenPosition(g.gs)
<1>1. g = circ.gates[i] /\ i \in DOMAIN circ.gates /\ g.nvals \in Nat
  BY DEF Gate, Newer, HasGatesInOrder, IsGate
<1>2. g.gs \in Nat \ {0} /\ \E l \in DOMAIN circ.ands : circ.ands[l].bitlen = g.gs
  BY <1>1 DEF HasANDsCounted
<1>3. k \in DOMAIN circ.ands /\ circ.ands[k].bitlen = g.gs
  BY <1>2 DEF Bool!FindBitLenPosition
<1>4. \A l \in DOMAIN circ.ands : circ.ands[l].bitlen = g.gs <=> l = k
  BY <1>3 DEF HasANDsCounted
<1>5. g.nvals \div g.gs \in Nat
  BY <1>1, <1>2
<1> HIDE DEF k
<1>6. \A l \in DOMAIN circ.ands : AndVals(circ, l)[i] = IF l = k THEN g.nvals \div g.gs ELSE 0
  BY <1>1, <1>4 DEF AndVals, AndsTaken
<1>7. AndsOf(i) = [NoAnds EXCEPT ![k] = g.nvals \div g.gs]
  BY <1>3, <1>6 DEF AndsOf, NoAnds
<1> QED BY <1>3, <1>5, <1>7 DEF k

LEMMA NoAndsOf ==
    ASSUME NEW i \in Newer(circ), Gate(i).type \notin {"NON_LIN", "NON_LIN_VEC"}
    PROVE  AndsOf(i) = NoAnds
BY DEF AndsOf, NoAnds, AndVals, AndsTaken, Gate

-------------------------------------------------------------------------------
LEMMA BoolSelectiveOpen ==
    ASSUME HasGatesInOrder(circ), HasANDsCounted(circ), NEW p, NEW s, IsStore(circ, s), IsBool(circ, s.bool),
           NEW i \in Newer(circ), Gate(i).context = "BOOL", Gate(i).type \in {"NON_LIN", "NON_LIN_VEC"}
    PROVE  BoolRuns(p, s, Bool!SelectiveOpen(p, s, i), AndsOf(i))
<1> DEFINE g == Bool!Gate(i)
           k == Bool!FindBitLenPosition(g.gs)
           m == g.nvals \div g.gs
           choice == s.val[g.ins[1]]
           vector == s.val[g.ins[2]]
           d == [j \in 1 .. m |-> (choice[j] + Bool!TripleA(p, k, s.bool.mtIdx[k] + j)) % 2]
           e == [j \in 1 .. m |-> Bool!XorBits(SubSeq(vector, (j - 1) * g.gs + 1, j * g.gs),
                                                Bool!TripleB(p, k, s.bool.mtIdx[k] + j))]
           r == Bool!Reads(s, g.ins)
           u == [r EXCEPT !.bool.D[k] = @ \o d, !.bool.E[k] = @ \o e, !.bool.mtIdx[k] = @ + m,
                          !.bool.ANDGates[k] = Append(@, i)]
           o == s.bool
           a == [o EXCEPT !.D = [o.D EXCEPT ![k] = @ \o d], !.E = [o.E EXCEPT ![k] = @ \o e],
                          !.mtIdx = [o.mtIdx EXCEPT ![k] = @ + m],
                          !.ANDGates = [o.ANDGates EXCEPT ![k] = Append(@, i)]]
           t == Bool!UsedGates(u, g.ins)
<1>1. Bool!SelectiveOpen(p, s, i) = t
  BY DEF Bool!SelectiveOpen
<1>0. g = Gate(i) /\ r = Reads(s, g.ins) /\ t = UsedGates(u, g.ins)
  BY BoolIsOne, Zenon
<1>2. k \in DOMAIN circ.ands /\ m \in Nat /\ AndsOf(i) = [NoAnds EXCEPT ![k] = m] /\ Len(g.ins) \in Nat
  BY <1>0, AndsOfOne, Zenon DEF HasGatesInOrder, IsGate, Newer, Gate
<1> HIDE DEF g, d, e, m, k, r
<1>3. Moves(circ, s, r) /\ IsStore(circ, r) /\ r.bool = o
  BY <1>0, ReadsMoves, Zenon DEF Moves, KeepsValues, KeepsSides
<1>4. u = With(r, "bool", a)
  BY <1>3, Zenon DEF With, IsStore, Common, Sides, IsBool, BoolFields
<1>5. /\ DOMAIN a = DOMAIN o /\ a.mtIdx = [o.mtIdx EXCEPT ![k] = @ + m]
      /\ a.ANDGates = [o.ANDGates EXCEPT ![k] = Append(@, i)] /\ a.mtStartIdx = o.mtStartIdx
      /\ a.inGates = o.inGates /\ a.outGates = o.outGates /\ a.lutGates = o.lutGates
  BY DEF IsBool, BoolFields
<1>6. IsBool(circ, o)
  OBVIOUS
<1> HIDE DEF a, u, o, t
<1>7. a.mtIdx \in [DOMAIN circ.ands -> Nat] /\ a.ANDGates \in [DOMAIN circ.ands -> Ids(circ)]
  BY <1>2, <1>5, <1>6, AppendIds DEF IsBool
<1>8. IsBool(circ, a)
  BY <1>5, <1>6, <1>7 DEF IsBool
<1>9. BoolTakes(o, a, AndsOf(i))
  BY <1>2, <1>5, <1>6 DEF BoolTakes, IsBool, NoAnds
<1>10. BoolRuns(p, s, u, AndsOf(i))
  BY <1>3, <1>4, <1>8, <1>9, BoolRunsSet DEF o
<1>11. Moves(circ, u, t)
  BY <1>0, <1>2, <1>10, BoolOn, UsedGatesMoves DEF BoolRuns
<1>12. BoolRuns(p, s, t, AndsOf(i))
  BY <1>10, <1>11, BoolRunsMove
<1> QED BY <1>1, <1>12

LEMMA BoolSelectiveOpenOPLUT ==
    ASSUME HasGatesInOrder(circ), NEW p, NEW s, IsStore(circ, s), IsBool(circ, s.bool), NEW i \in Newer(circ)
    PROVE  BoolRuns(p, s, Bool!SelectiveOpenOPLUT(p, s, i), NoAnds)
<1> DEFINE g == Gate(i)
           o == s.bool
           kind == Bool!KindOf(g)
           nvals == Gate(g.ins[1]).nvals
           openings == [n \in 1 .. nvals |->
               Bool!XorBits(Bool!Selection(Bool!Parents(s, g), n), Bool!Rotation(p, kind, o.selCtr[kind] + n))]
           r == Reads(s, g.ins)
           luts == Bool!WithLast(o.lutGates, kind, i)
           a == [o EXCEPT !.selOpening = [o.selOpening EXCEPT ![kind] = @ \o openings],
                          !.selCtr = [o.selCtr EXCEPT ![kind] = @ + nvals], !.lutGates = luts]
           t == [r EXCEPT !.bool.selOpening[kind] = @ \o openings, !.bool.selCtr[kind] = @ + nvals,
                          !.bool.lutGates = Bool!WithLast(@, kind, i)]
<1>1. Bool!SelectiveOpenOPLUT(p, s, i) = t
  BY BoolIsOne, Zenon DEF Bool!SelectiveOpenOPLUT
<1>2. Moves(circ, s, r) /\ IsStore(circ, r) /\ r.bool = o
  BY ReadsMoves DEF Moves, KeepsValues, KeepsSides
<1>3. \A l \in DOMAIN luts : luts[l] \in Ids(circ)
  <2>1. <<i>> \in Ids(circ) /\ <<>> \in Ids(circ)
    BY DEF Ids
  <2>2. \A x, y \in Ids(circ) : x \o y \in Ids(circ)
    BY DEF Ids
  <2>3. \A l \in DOMAIN o.lutGates : o.lutGates[l] \in Ids(circ)
    BY DEF IsBool
  <2> HIDE DEF o, kind
  <2> QED BY <2>1, <2>2, <2>3 DEF Bool!WithLast
<1> HIDE DEF g, kind, openings, nvals, luts, r
<1>4. t = With(r, "bool", a)
  BY <1>2, Zenon DEF With, IsStore, Common, Sides, IsBool, BoolFields, luts
<1>5. /\ DOMAIN a = DOMAIN o /\ a.mtIdx = o.mtIdx /\ a.mtStartIdx = o.mtStartIdx /\ a.ANDGates = o.ANDGates
      /\ a.inGates = o.inGates /\ a.outGates = o.outGates /\ a.lutGates = luts
  BY DEF IsBool, BoolFields
<1>6. IsBool(circ, o)
  OBVIOUS
<1> HIDE DEF a, t, o
<1>7. IsBool(circ, a) /\ BoolTakes(o, a, NoAnds)
  BY <1>3, <1>5, <1>6, BoolTakesNothing DEF IsBool
<1>8. BoolRuns(p, s, t, NoAnds)
  BY <1>2, <1>4, <1>7, BoolRunsSet DEF o
<1> QED BY <1>1, <1>8

LEMMA BoolShareValues ==
    ASSUME HasGatesInOrder(circ), NEW p, NEW s, IsStore(circ, s), IsBool(circ, s.bool), NEW i
    PROVE  BoolRuns(p, s, Bool!ShareValues(p, s, i), NoAnds)
<1> DEFINE random == Bool!Draw(p, "in", 100 * depth[p] + Len(s.bool.inSnd), Gate(i).nvals)
           o == s.bool
           u == Assign(s, i, Bool!XorBits(random, clear[i]))
           a == [o EXCEPT !.inSnd = o.inSnd \o random]
           t == [u EXCEPT !.bool.inSnd = @ \o random]
<1>1. Bool!ShareValues(p, s, i) = t
  BY BoolIsOne, Zenon DEF Bool!ShareValues
<1> HIDE DEF random
<1>2. Moves(circ, s, u) /\ IsStore(circ, u) /\ u.bool = o
  BY AssignMoves DEF Moves, KeepsValues, KeepsSides
<1> HIDE DEF u
<1>3. t = With(u, "bool", a)
  BY <1>2, Zenon DEF With, IsStore, Common, Sides, IsBool, BoolFields
<1>4. /\ DOMAIN a = DOMAIN o /\ a.mtIdx = o.mtIdx /\ a.mtStartIdx = o.mtStartIdx /\ a.ANDGates = o.ANDGates
      /\ a.inGates = o.inGates /\ a.outGates = o.outGates /\ a.lutGates = o.lutGates /\ IsBool(circ, o)
  BY DEF IsBool, BoolFields
<1> HIDE DEF a, t, o
<1>5. o.inGates \in Ids(circ) /\ o.outGates \in Ids(circ)
  BY <1>4 DEF IsBool
<1>6. IsBool(circ, a) /\ BoolTakes(o, a, NoAnds)
  BY <1>4, <1>5, BoolPlain
<1>7. BoolRuns(p, s, t, NoAnds)
  BY <1>2, <1>3, <1>6, BoolRunsSet DEF o
<1> QED BY <1>1, <1>7

LEMMA BoolReconstructValue ==
    ASSUME HasGatesInOrder(circ), NEW p, NEW s, IsStore(circ, s), IsBool(circ, s.bool), NEW i \in Newer(circ)
    PROVE  BoolRuns(p, s, Bool!ReconstructValue(s, i), NoAnds)
<1> DEFINE g == Gate(i)
           o == s.bool
           u == Reads(s, g.ins)
           bits == s.val[g.ins[1]]
           a == [o EXCEPT !.outSnd = o.outSnd \o bits]
           sent == [u EXCEPT !.bool.outSnd = @ \o bits]
           t == IF g.gs # "ALL" THEN UsedGates(sent, g.ins) ELSE sent
<1>1. Bool!ReconstructValue(s, i) = t
  BY BoolIsOne, Zenon DEF Bool!ReconstructValue
<1>2. Moves(circ, s, u) /\ IsStore(circ, u) /\ u.bool = o /\ Len(g.ins) \in Nat
  BY ReadsMoves DEF HasGatesInOrder, IsGate, Newer, Gate, Moves, KeepsValues, KeepsSides
<1> HIDE DEF g, bits, u
<1>3. sent = With(u, "bool", a)
  BY <1>2, Zenon DEF With, IsStore, Common, Sides, IsBool, BoolFields
<1>4. /\ DOMAIN a = DOMAIN o /\ a.mtIdx = o.mtIdx /\ a.mtStartIdx = o.mtStartIdx /\ a.ANDGates = o.ANDGates
      /\ a.inGates = o.inGates /\ a.outGates = o.outGates /\ a.lutGates = o.lutGates /\ IsBool(circ, o)
  BY DEF IsBool, BoolFields
<1> HIDE DEF a, sent, o
<1>5. o.inGates \in Ids(circ) /\ o.outGates \in Ids(circ)
  BY <1>4 DEF IsBool
<1>6. IsBool(circ, a) /\ BoolTakes(o, a, NoAnds)
  BY <1>4, <1>5, BoolPlain
<1>7. BoolRuns(p, s, sent, NoAnds)
  BY <1>2, <1>3, <1>6, BoolRunsSet DEF o
<1>8. Moves(circ, sent, UsedGates(sent, g.ins))
  BY <1>2, <1>7, BoolOn, UsedGatesMoves DEF BoolRuns
<1>9. BoolRuns(p, s, UsedGates(sent, g.ins), NoAnds)
  BY <1>7, <1>8, BoolRunsMove
<1> QED BY <1>1, <1>7, <1>9

LEMMA BoolAwaits ==
    ASSUME NEW p, NEW s, IsStore(circ, s), IsBool(circ, s.bool), NEW i \in Newer(circ), NEW t,
           \/ t = [s EXCEPT !.bool.inGates = Append(@, i)]
           \/ t = [s EXCEPT !.bool.outGates = Append(@, i)]
    PROVE  BoolRuns(p, s, t, NoAnds)
<1> DEFINE o == s.bool
           a == [o EXCEPT !.inGates = Append(o.inGates, i)]
           b == [o EXCEPT !.outGates = Append(o.outGates, i)]
<1>1. t = With(s, "bool", a) \/ t = With(s, "bool", b)
  BY DEF With
<1>2. /\ DOMAIN a = DOMAIN o /\ a.mtIdx = o.mtIdx /\ a.mtStartIdx = o.mtStartIdx /\ a.ANDGates = o.ANDGates
      /\ a.inGates = Append(o.inGates, i) /\ a.outGates = o.outGates /\ a.lutGates = o.lutGates
  BY DEF IsBool, BoolFields
<1>3. /\ DOMAIN b = DOMAIN o /\ b.mtIdx = o.mtIdx /\ b.mtStartIdx = o.mtStartIdx /\ b.ANDGates = o.ANDGates
      /\ b.inGates = o.inGates /\ b.outGates = Append(o.outGates, i) /\ b.lutGates = o.lutGates
  BY DEF IsBool, BoolFields
<1>4. IsBool(circ, o)
  OBVIOUS
<1> HIDE DEF a, b, o
<1>5. /\ o.inGates \in Ids(circ) /\ o.outGates \in Ids(circ)
      /\ Append(o.inGates, i) \in Ids(circ) /\ Append(o.outGates, i) \in Ids(circ)
  BY <1>4, AppendIds DEF IsBool
<1>6. IsBool(circ, a) /\ BoolTakes(o, a, NoAnds)
  BY <1>2, <1>4, <1>5, BoolPlain, Zenon
<1>7. IsBool(circ, b) /\ BoolTakes(o, b, NoAnds)
  BY <1>3, <1>4, <1>5, BoolPlain, Zenon
<1>8. Moves(circ, s, s)
  BY MovesNot
<1>9. BoolRuns(p, s, With(s, "bool", a), NoAnds) /\ BoolRuns(p, s, With(s, "bool", b), NoAnds)
  BY <1>6, <1>7, <1>8, BoolRunsSet DEF o
<1> QED BY <1>1, <1>9

LEMMA BoolEvaluateInteractive ==
    ASSUME HasGatesInOrder(circ), HasANDsCounted(circ), NEW p \in Party, NEW s, IsStore(circ, s),
           IsBool(circ, s.bool), NEW d, NEW i \in GatesAt(circ, "BOOL", d, TRUE)
    PROVE  BoolRuns(p, s, Bool!EvaluateInteractive(p, s, i), AndsOf(i))
<1> DEFINE g == Gate(i)
           t == Bool!EvaluateInteractive(p, s, i)
           awaited == Bool!AwaitOutput(s, i)
<1>0. "BOOL" \in ToSet(Sharings)
  BY DEF ToSet, Sharings
<1> HIDE DEF t
<1>1. /\ i \in Newer(circ) /\ g.context = "BOOL" /\ g.type \in {"IN", "OUT", "TT", "NON_LIN", "NON_LIN_VEC"}
      /\ g.type = "OUT" => g.gs \in Role
  <2>1. Asks("BOOL", i)
    BY <1>0, InteractiveTypes, Zenon
  <2> QED BY <2>1 DEF Asks, Yao
<1>2. g.type \notin {"NON_LIN", "NON_LIN_VEC"} => AndsOf(i) = NoAnds
  BY <1>1, NoAndsOf
<1>3. Bool!Gate(i) = g
  BY BoolIsOne
<1> HIDE DEF g
<1>4. ASSUME g.type \in {"NON_LIN", "NON_LIN_VEC"}
      PROVE  BoolRuns(p, s, t, AndsOf(i))
  <2>1. t = Bool!SelectiveOpen(p, s, i)
    BY <1>3, <1>4 DEF t, Bool!EvaluateInteractive
  <2> QED BY <1>1, <1>4, <2>1, BoolSelectiveOpen DEF g
<1>5. ASSUME g.type = "TT"
      PROVE  BoolRuns(p, s, t, AndsOf(i))
  <2>1. t = Bool!SelectiveOpenOPLUT(p, s, i)
    BY <1>3, <1>5 DEF t, Bool!EvaluateInteractive
  <2> QED BY <1>1, <1>2, <1>5, <2>1, BoolSelectiveOpenOPLUT
<1>6. ASSUME g.type = "IN"
      PROVE  BoolRuns(p, s, t, AndsOf(i))
  <2>1. CASE g.gs = p
    <3>1. t = Bool!ShareValues(p, s, i)
      BY <1>3, <1>6, <2>1 DEF t, Bool!EvaluateInteractive
    <3> QED BY <1>2, <1>6, <3>1, BoolShareValues
  <2>2. CASE g.gs # p
    <3>1. t = [s EXCEPT !.bool.inGates = Append(@, i)]
      BY <1>3, <1>6, <2>2 DEF t, Bool!EvaluateInteractive
    <3> QED BY <1>1, <1>2, <1>6, <3>1, BoolAwaits
  <2> QED BY <2>1, <2>2
<1>7. ASSUME g.type = "OUT"
      PROVE  BoolRuns(p, s, t, AndsOf(i))
  <2>1. CASE g.gs = p
    <3>1. t = awaited
      BY <1>3, <1>7, <2>1 DEF t, Bool!Other, Party, Bool!EvaluateInteractive
    <3> QED BY <1>1, <1>2, <1>7, <3>1, BoolAwaits DEF Bool!AwaitOutput
  <2>2. CASE g.gs = "ALL"
    <3>1. t = Bool!ReconstructValue(awaited, i)
      BY <1>3, <1>7, <2>2 DEF t, Bool!EvaluateInteractive, Party, Bool!Other
    <3>2. BoolRuns(p, s, awaited, NoAnds)
      BY <1>1, BoolAwaits DEF Bool!AwaitOutput
    <3> HIDE DEF awaited
    <3>3. IsStore(circ, awaited) /\ IsBool(circ, awaited.bool)
      BY <3>2, BoolOn DEF BoolRuns
    <3>4. BoolRuns(p, awaited, t, NoAnds)
      BY <1>1, <3>1, <3>3, BoolReconstructValue
    <3>5. BoolRuns(p, s, t, NoAnds)
      <4>1. \A k \in DOMAIN circ.ands : NoAnds[k] \in Nat /\ NoAnds[k] = NoAnds[k] + NoAnds[k]
        BY DEF NoAnds
      <4> QED BY <3>2, <3>4, <4>1, BoolRunsThen
    <3> QED BY <1>2, <1>7, <3>5
  <2>3. CASE g.gs = Other(p)
    <3>1. t = Bool!ReconstructValue(s, i)
      BY <1>3, <1>7, <2>3 DEF t, Bool!EvaluateInteractive, Bool!Other, Other, Party
    <3> QED BY <1>1, <1>2, <1>7, <3>1, BoolReconstructValue
  <2>4. g.gs \in {p, "ALL", Other(p)}
    BY <1>1, <1>7 DEF Role, Party, Other
  <2> QED BY <2>1, <2>2, <2>3, <2>4
<1>8. BoolRuns(p, s, t, AndsOf(i))
  BY <1>1, <1>4, <1>5, <1>6, <1>7
<1> QED BY <1>8 DEF t

\* One gate that takes triples after the other.
BoolAskOne(p, t, i) == Bool!EvaluateInteractive(p, t, i)
AndsUntil(q, n) == [k \in DOMAIN circ.ands |-> Total(Of(AndVals(circ, k), q), n)]
BoolAsked(p, b, n, t) == BoolRuns(p, b[1], t, AndsUntil(b[2], n))
BoolAsking == INSTANCE Folding WITH Op <- BoolAskOne, Inv <- BoolAsked

\* What a layer takes of every kind.
AndsAt(d) == [k \in DOMAIN circ.ands |-> AtLayer(circ, AndVals(circ, k), d)]

LEMMA AndsOfQueue ==
    ASSUME HasGatesInOrder(circ), HasLayers(circ), HasANDsCounted(circ), NEW d \in Nat
    PROVE  AndsUntil(Queue("BOOL", d), Len(Queue("BOOL", d))) = AndsAt(d)
<1> DEFINE q == Queue("BOOL", d)
           S == GatesAt(circ, "BOOL", d, TRUE)
<1>1. Picks(q, S) /\ S \in SUBSET Newer(circ)
  <2>1. "BOOL" \in ToSet(Sharings)
    BY DEF ToSet, Sharings
  <2> QED BY <2>1, QueuesPick, GatesAtAre, Zenon DEF Queue
<1>2. \A i \in S : circ.gates[i].depth = d
  BY DEF GatesAt
<1>3. ASSUME NEW k \in DOMAIN circ.ands
      PROVE  Total(Of(AndVals(circ, k), q), Len(q)) = AtLayer(circ, AndVals(circ, k), d)
  <2> DEFINE w == AndVals(circ, k)
  <2>1. Weights(circ, w)
    BY AndValsAre
  <2>2. \A i \in Newer(circ) : circ.gates[i].depth = d /\ w[i] # 0 => i \in S
    BY DEF GatesAt, HasGatesInOrder, Newer, Interactive, AndsTaken, AndVals, Yao
  <2> HIDE DEF w, q, S
  <2>3. Total(Of(w, q), Len(q)) = AtLayer(circ, w, d)
    BY <1>1, <1>2, <2>1, <2>2, QueueWeighs
  <2> QED BY <2>3 DEF w
<1> HIDE DEF q
<1>4. AndsUntil(q, Len(q)) = AndsAt(d)
  BY <1>3 DEF AndsUntil, AndsAt
<1> QED BY <1>4 DEF q

LEMMA BoolInteractive ==
    ASSUME HasGatesInOrder(circ), HasLayers(circ), HasANDsCounted(circ), NEW p \in Party, NEW s,
           IsStore(circ, s), IsBool(circ, s.bool), depth[p] \in Nat
    PROVE  BoolRuns(p, s, Bool!EvaluateInteractiveOperations(p, s), AndsAt(depth[p]))
<1> DEFINE q == Queue("BOOL", depth[p])
           b == <<s, q>>
<1>1. /\ q \in Ids(circ) /\ Len(q) \in Nat
      /\ \A n \in 1 .. Len(q) : q[n] \in GatesAt(circ, "BOOL", depth[p], TRUE) /\ q[n] \in Newer(circ)
  <2>1. "BOOL" \in ToSet(Sharings)
    BY DEF ToSet, Sharings
  <2>2. q \in Ids(circ) /\ Len(q) \in Nat /\ \A n \in 1 .. Len(q) : q[n] \in GatesAt(circ, "BOOL", depth[p], TRUE)
    BY <2>1, QueueAsks, Zenon
  <2> HIDE DEF q
  <2>3. \A n \in 1 .. Len(q) : q[n] \in Newer(circ)
    BY <2>2 DEF Ids
  <2> QED BY <2>2, <2>3, Zenon
<1>2. Bool!EvaluateInteractiveOperations(p, s) = BoolAsking!ThroughAll(p, s, q)
  BY DEF Bool!EvaluateInteractiveOperations, Bool!Through, Bool!Once, BoolAsking!ThroughAll,
         BoolAskOne, Bool!QueueOnLvl, QueueOnLvl, Queue
<1>3. AndsUntil(q, Len(q)) = AndsAt(depth[p])
  BY AndsOfQueue, Zenon
<1>4. b[1] = s /\ b[2] = q
  OBVIOUS
<1> HIDE DEF q, b
<1>5. BoolAsked(p, b, 0, s)
  <2>1. AndsUntil(q, 0) = NoAnds
    BY TotalNothing DEF AndsUntil, NoAnds
  <2>2. Runs("bool", p, circ, s, s)
    BY MovesNot, BoolOn
  <2>3. BoolTakes(s.bool, s.bool, NoAnds)
    BY BoolTakesNothing
  <2> QED BY <1>4, <2>1, <2>2, <2>3 DEF BoolAsked, BoolRuns
<1>6. BoolAsking!Kept(p, b, q)
  <2>1. ASSUME NEW n \in 1 .. Len(q), NEW t, BoolRuns(p, s, t, AndsUntil(q, n - 1))
        PROVE  BoolRuns(p, s, Bool!EvaluateInteractive(p, t, q[n]), AndsUntil(q, n))
    <3> DEFINE u == Bool!EvaluateInteractive(p, t, q[n])
    <3>1. IsStore(circ, t) /\ IsBool(circ, t.bool)
      BY <2>1, BoolOn DEF BoolRuns
    <3>2. BoolRuns(p, t, u, AndsOf(q[n]))
      BY <1>1, <3>1, BoolEvaluateInteractive, Zenon
    <3>3. ASSUME NEW k \in DOMAIN circ.ands
          PROVE  /\ AndsUntil(q, n - 1)[k] \in Nat /\ AndsOf(q[n])[k] \in Nat
                 /\ AndsUntil(q, n)[k] = AndsUntil(q, n - 1)[k] + AndsOf(q[n])[k]
      <4> DEFINE w == AndVals(circ, k)
      <4>1. \A j \in 1 .. Len(q) : Of(w, q)[j] = w[q[j]] /\ w[q[j]] \in Nat
        BY <1>1, AndValsAre DEF Weights, Of, Ids
      <4> HIDE DEF w
      <4>2. Total(Of(w, q), n - 1) \in Nat
        <5>1. n - 1 \in 0 .. Len(q)
          BY <1>1
        <5> QED BY <1>1, <4>1, <5>1, TotalNat, Zenon
      <4>3. Total(Of(w, q), n) = Total(Of(w, q), n - 1) + w[q[n]]
        <5> DEFINE a == Of(w, q)
        <5>1. Len(q) \in Nat /\ a[n] = w[q[n]]
          BY <1>1, <4>1
        <5> HIDE DEF a
        <5>2. Total(a, n) = Total(a, n - 1) + a[n]
          BY <5>1, TotalStep
        <5> QED BY ONLY <5>1, <5>2 DEF a
      <4> QED BY <4>1, <4>2, <4>3 DEF AndsUntil, AndsOf, w
    <3> HIDE DEF u
    <3>4. BoolRuns(p, s, u, AndsUntil(q, n))
      BY <2>1, <3>2, <3>3, BoolRunsThen
    <3> QED BY <3>4 DEF u
  <2> QED BY <1>4, <2>1 DEF BoolAsking!Kept, BoolAsked, BoolAskOne
<1>8. BoolAsked(p, b, Len(q), BoolAsking!ThroughAll(p, s, q))
  BY <1>1, <1>5, <1>6, LeastNat, BoolAsking!ThroughInvariant
<1> QED BY <1>2, <1>3, <1>4, <1>8 DEF BoolAsked

BoolLocalOne(p, t, i) == Bool!EvaluateLocal(p, t, i)
BoolLocal == INSTANCE Folding WITH Op <- BoolLocalOne, Inv <- OnlyMoves

LEMMA BoolLocalMoves ==
    ASSUME HasGatesInOrder(circ), HasLayers(circ), NEW p, NEW s, IsStore(circ, s), depth[p] \in Nat
    PROVE  Moves(circ, s, Bool!EvaluateLocalOperations(p, s))
<1> DEFINE q == QueueOnLvl(circ.local["BOOL"], depth[p])
<1>1. q \in Ids(circ) /\ Len(q) \in Nat
  <2>1. "BOOL" \in ToSet(Sharings)
    BY DEF ToSet, Sharings
  <2> QED BY <2>1, LocalQueue, Zenon
<1>2. Bool!EvaluateLocalOperations(p, s) = BoolLocal!ThroughAll(p, s, q)
  BY DEF Bool!EvaluateLocalOperations, Bool!Through, Bool!Once, BoolLocal!ThroughAll,
         BoolLocalOne, Bool!QueueOnLvl, QueueOnLvl
<1> HIDE DEF q
<1>3. OnlyMoves(p, s, 0, s)
  BY MovesNot DEF OnlyMoves
<1>4. BoolLocal!Kept(p, s, q)
  <2>1. ASSUME NEW i \in Newer(circ), NEW t, Moves(circ, s, t) PROVE Moves(circ, s, Bool!EvaluateLocal(p, t, i))
    <3> DEFINE v == Bool!XorShare(p, Bool!Gate(i), Bool!Parents(t, Bool!Gate(i)))
               u == Bool!EvaluateLocal(p, t, i)
    <3>1. u = t \/ u = Computed(t, i, v)
      BY BoolIsOne DEF Bool!EvaluateLocal
    <3> HIDE DEF u, v
    <3>2. IsStore(circ, t)
      BY <2>1 DEF Moves, KeepsValues
    <3>3. Moves(circ, t, Computed(t, i, v))
      BY <3>2, ComputedMoves
    <3>4. Moves(circ, s, u)
      BY <2>1, <3>1, <3>3, MovesOn
    <3> QED BY <3>4 DEF u
  <2>2. \A n \in 1 .. Len(q) : q[n] \in Newer(circ)
    BY <1>1 DEF Ids
  <2> QED BY <2>1, <2>2 DEF BoolLocal!Kept, OnlyMoves, BoolLocalOne
<1>6. OnlyMoves(p, s, Len(q), BoolLocal!ThroughAll(p, s, q))
  BY <1>1, <1>3, <1>4, LeastNat, BoolLocal!ThroughInvariant
<1> QED BY <1>2, <1>6 DEF OnlyMoves

LEMMA BoolEvaluates ==
    ASSUME HasGatesInOrder(circ), HasLayers(circ), HasANDsCounted(circ), NEW p \in Party, NEW s,
           IsStore(circ, s), IsBool(circ, s.bool), depth[p] \in Nat
    PROVE  BoolRuns(p, s, EvaluateOperations(p, s, "BOOL"), AndsAt(depth[p]))
<1> DEFINE u == Bool!EvaluateLocalOperations(p, s)
           t == Bool!EvaluateInteractiveOperations(p, u)
<1>1. EvaluateOperations(p, s, "BOOL") = t
  BY DEF EvaluateOperations, Once, Yao
<1>2. Moves(circ, s, u)
  BY BoolLocalMoves
<1> HIDE DEF u
<1>3. IsStore(circ, u) /\ u.bool = s.bool
  BY <1>2 DEF Moves, KeepsValues, KeepsSides
<1>4. BoolRuns(p, u, t, AndsAt(depth[p]))
  BY <1>3, BoolInteractive
<1> HIDE DEF t
<1>5. Runs("bool", p, circ, s, u)
  BY <1>2, BoolOn
<1>6. Runs("bool", p, circ, s, t)
  BY <1>4, <1>5, BoolOn DEF BoolRuns
<1> QED BY <1>1, <1>3, <1>4, <1>6 DEF BoolRuns

\* The triples that are left of a byte are skipped.
BoolEnds(a, b) ==
    /\ \A k \in DOMAIN circ.ands : b.mtIdx[k] = 8 * ((a.mtIdx[k] + 7) \div 8)
    /\ b.mtStartIdx = b.mtIdx

\* The gates of one kind of triples after those of the other.
BoolAndOne(a, t, k) == Bool!AssignInOrder(t, a[2].bool.ANDGates[k], Bool!MTResults(a[1], a[2], k))
BoolAnds == INSTANCE Folding WITH Op <- BoolAndOne, Inv <- OnlyMoves

LEMMA BoolANDGates ==
    ASSUME HasGatesInOrder(circ), HasANDsCounted(circ), NEW p, NEW s, IsStore(circ, s), IsBool(circ, s.bool)
    PROVE  LET t == Bool!EvaluateANDGates(p, s)
           IN  Runs("bool", p, circ, s, t) /\ BoolEnds(s.bool, t.bool)
<1> DEFINE o == s.bool
           next == [k \in DOMAIN o.mtIdx |-> Bool!PadToByte(o.mtIdx[k])]
           b == Bool!PastTheByte(o)
           u == [s EXCEPT !.bool = b]
           a == <<p, s>>
           q == Places(circ.ands)
           t == Bool!EvaluateANDGates(p, s)
<1>1. t = BoolAnds!ThroughAll(a, u, q)
  <2>1. \A v, ids : Bool!Through(LAMBDA x, k : Bool!AssignInOrder(x, s.bool.ANDGates[k], Bool!MTResults(p, s, k)), v, ids)
            = BoolAnds!ThroughAll(a, v, ids)
    BY DEF Bool!Through, Bool!Once, BoolAnds!ThroughAll, BoolAndOne
  <2> QED BY <2>1, Zenon DEF Bool!EvaluateANDGates, Places
<1>2. Len(q) = Len(circ.ands) /\ Len(q) \in Nat /\ \A k \in 1 .. Len(q) : q[k] = k /\ k \in DOMAIN circ.ands
  BY DEF Places, HasANDsCounted
<1>3. IsBool(circ, b) /\ BoolEnds(o, b)
  <2>1. /\ DOMAIN b = DOMAIN o /\ b.mtIdx = next /\ b.mtStartIdx = next
        /\ b.inGates = o.inGates /\ b.outGates = o.outGates /\ b.ANDGates = o.ANDGates
        /\ b.lutGates = o.lutGates
    BY DEF IsBool, BoolFields, Bool!PastTheByte
  <2>2. IsBool(circ, o)
    OBVIOUS
  <2> HIDE DEF b, o
  <2>3. next \in [DOMAIN circ.ands -> Nat]
        /\ \A k \in DOMAIN circ.ands : next[k] = 8 * ((o.mtIdx[k] + 7) \div 8)
    <3>1. \A n \in Nat : 8 * ((n + 7) \div 8) \in Nat
      OBVIOUS
    <3>2. DOMAIN o.mtIdx = DOMAIN circ.ands /\ \A k \in DOMAIN circ.ands : o.mtIdx[k] \in Nat
      BY <2>2 DEF IsBool
    <3>3. \A n : Bool!PadToByte(n) = 8 * ((n + 7) \div 8)
      BY DEF Bool!PadToByte, Bool!Bytes
    <3> QED BY <3>1, <3>2, <3>3
  <2> HIDE DEF next
  <2> QED BY <2>1, <2>2, <2>3 DEF IsBool, BoolEnds
<1>4. u = With(s, "bool", b)
  BY DEF With
<1> HIDE DEF b, u
<1>5. Runs("bool", p, circ, s, u) /\ u.bool = b /\ IsStore(circ, u)
  BY <1>3, <1>4, BoolSet
<1> HIDE DEF q, t
<1>6. a[1] = p /\ a[2] = s
  OBVIOUS
<1> HIDE DEF a
<1>7. OnlyMoves(a, u, 0, u)
  BY <1>5, MovesNot DEF OnlyMoves
<1>8. BoolAnds!Kept(a, u, q)
  <2>1. ASSUME NEW k \in DOMAIN circ.ands, NEW x, Moves(circ, u, x)
        PROVE  Moves(circ, u, BoolAndOne(a, x, k))
    <3>1. s.bool.ANDGates[k] \in Seq(Nat)
      <4>1. s.bool.ANDGates[k] \in Ids(circ)
        BY DEF IsBool
      <4> QED BY <4>1, IdsAreNats
    <3>2. IsStore(circ, x)
      BY <2>1 DEF Moves, KeepsValues
    <3> DEFINE v == Bool!MTResults(p, s, k)
               y == AssignInOrder(x, s.bool.ANDGates[k], v)
    <3>3. BoolAndOne(a, x, k) = y
      BY <1>6, BoolIsOne DEF BoolAndOne
    <3> HIDE DEF v
    <3>4. Moves(circ, x, y)
      BY <3>1, <3>2, AssignInOrderMoves
    <3> QED BY <2>1, <3>3, <3>4, MovesOn
  <2> QED BY <1>2, <2>1 DEF BoolAnds!Kept, OnlyMoves
<1>10. Moves(circ, u, t)
  BY <1>1, <1>2, <1>7, <1>8, LeastNat, BoolAnds!ThroughInvariant DEF OnlyMoves
<1>11. Runs("bool", p, circ, s, t) /\ t.bool = b
  BY <1>5, <1>10, BoolOn
<1> QED BY <1>3, <1>11 DEF t

-------------------------------------------------------------------------------
LEMMA BoolOPLUTGate ==
    ASSUME HasGatesInOrder(circ), NEW p, NEW s, IsStore(circ, s), IsBool(circ, s.bool), NEW i \in Newer(circ),
           NEW gatectr
    PROVE  BoolRuns(p, s, Bool!EvaluateOPLUTGate(p, s, i, gatectr), NoAnds)
<1> DEFINE g == Bool!Gate(i)
           kind == Bool!KindOf(g)
           nvals == Bool!Gate(g.ins[1]).nvals
           tableid(n) == Bool!XorBits(s.bool.selOpening[kind][gatectr + n], s.bool.rcv.luts[kind][gatectr + n])
           found == [n \in 1 .. nvals |-> Bool!TableMask(p, kind, s.bool.maskCtr[kind] + n, tableid(n))]
           v == Bool!LutLayout(g, nvals, found)
           r == Bool!Assign(s, i, v)
           o == s.bool
           a == [o EXCEPT !.maskCtr = [o.maskCtr EXCEPT ![kind] = @ + nvals]]
           u == [r EXCEPT !.bool.maskCtr[kind] = @ + nvals]
           t == Bool!UsedGates(u, g.ins)
<1>1. Bool!EvaluateOPLUTGate(p, s, i, gatectr) = t
  BY DEF Bool!EvaluateOPLUTGate
<1>2. g = Gate(i) /\ r = Assign(s, i, v) /\ t = UsedGates(u, g.ins)
  BY BoolIsOne, Zenon
<1>3. Len(g.ins) \in Nat
  BY <1>2, Zenon DEF HasGatesInOrder, IsGate, Newer, Gate
<1> HIDE DEF g, kind, nvals, v, r
<1>4. Moves(circ, s, r) /\ IsStore(circ, r) /\ r.bool = o
  BY <1>2, AssignMoves DEF Moves, KeepsValues, KeepsSides
<1>5. u = With(r, "bool", a)
  BY <1>4, Zenon DEF With, IsStore, Common, Sides, IsBool, BoolFields
<1>6. /\ DOMAIN a = DOMAIN o /\ a.mtIdx = o.mtIdx /\ a.mtStartIdx = o.mtStartIdx /\ a.ANDGates = o.ANDGates
      /\ a.inGates = o.inGates /\ a.outGates = o.outGates /\ a.lutGates = o.lutGates /\ IsBool(circ, o)
  BY DEF IsBool, BoolFields
<1> HIDE DEF a, u, o, t
<1>7. o.inGates \in Ids(circ) /\ o.outGates \in Ids(circ)
  BY <1>6 DEF IsBool
<1>8. IsBool(circ, a) /\ BoolTakes(o, a, NoAnds)
  BY <1>6, <1>7, BoolPlain
<1>9. BoolRuns(p, s, u, NoAnds)
  BY <1>4, <1>5, <1>8, BoolRunsSet DEF o
<1>10. Moves(circ, u, t)
  BY <1>2, <1>3, <1>9, BoolOn, UsedGatesMoves DEF BoolRuns
<1>11. BoolRuns(p, s, t, NoAnds)
  BY <1>9, <1>10, BoolRunsMove
<1> QED BY <1>1, <1>11

LEMMA NoAndsTwice ==
    ASSUME NEW p, NEW s, IsBool(circ, s.bool), NEW t, BoolRuns(p, s, t, NoAnds), NEW u, BoolRuns(p, t, u, NoAnds)
    PROVE  BoolRuns(p, s, u, NoAnds)
<1>1. \A k \in DOMAIN circ.ands : NoAnds[k] \in Nat /\ NoAnds[k] = NoAnds[k] + NoAnds[k]
  BY DEF NoAnds
<1> QED BY <1>1, BoolRunsThen

BoolOpened(s, t, i) == t.bool.maskCtr[Bool!KindOf(Bool!Gate(i))] - s.bool.maskCtr[Bool!KindOf(Bool!Gate(i))]
BoolLutOne(a, t, i) == Bool!EvaluateOPLUTGate(a[1], t, i, BoolOpened(a[2], t, i))
BoolTakesNone(a, b, n, t) == BoolRuns(a[1], b, t, NoAnds)
BoolLuts == INSTANCE Folding WITH Op <- BoolLutOne, Inv <- BoolTakesNone

LEMMA BoolOPLUTGates ==
    ASSUME HasGatesInOrder(circ), NEW p, NEW s, IsStore(circ, s), IsBool(circ, s.bool)
    PROVE  BoolRuns(p, s, Bool!EvaluateOPLUTGates(p, s), NoAnds)
<1> DEFINE o == s.bool
           S == UNION {ToSet(o.lutGates[kind]) : kind \in DOMAIN o.lutGates}
           q == InOrder(S, Len(circ.gates))
           a == <<p, s>>
           t == Bool!EvaluateOPLUTGates(p, s)
<1>1. t = BoolLuts!ThroughAll(a, s, q)
  <2>1. UNION {Bool!ToSet(s.bool.lutGates[kind]) : kind \in DOMAIN s.bool.lutGates} = S
    BY DEF Bool!ToSet, ToSet
  <2>2. Bool!InOrder(S, Len(circ.gates)) = q
    BY DEF Bool!InOrder, InOrder, Bool!Through, Through, Bool!Once, Once
  <2> HIDE DEF S, q
  <2>3. \A ids : Bool!Through(LAMBDA x, i : Bool!EvaluateOPLUTGate(p, x, i,
            x.bool.maskCtr[Bool!KindOf(Bool!Gate(i))] - s.bool.maskCtr[Bool!KindOf(Bool!Gate(i))]), s, ids)
                = BoolLuts!ThroughAll(a, s, ids)
    BY DEF Bool!Through, Bool!Once, BoolLuts!ThroughAll, BoolLutOne, BoolOpened
  <2> QED BY <2>1, <2>2, <2>3, Zenon DEF Bool!EvaluateOPLUTGates
<1>2. Len(q) \in Nat /\ \A n \in 1 .. Len(q) : q[n] \in Newer(circ)
  <2>1. S \in SUBSET Newer(circ)
    <3>1. \A kind \in DOMAIN o.lutGates : ToSet(o.lutGates[kind]) \in SUBSET Newer(circ)
      BY DEF IsBool, Ids, ToSet
    <3> HIDE DEF o
    <3> QED BY <3>1
  <2>2. Newer(circ) = 1 .. Len(circ.gates) /\ Len(circ.gates) \in Nat
    BY DEF Newer, HasGatesInOrder
  <2> HIDE DEF S
  <2>3. Picks(q, S)
    BY <2>1, <2>2, InOrderPicks
  <2> HIDE DEF q
  <2> QED BY <2>1, <2>3 DEF Picks
<1> HIDE DEF q, t
<1>3. a[1] = p /\ a[2] = s
  OBVIOUS
<1> HIDE DEF a
<1>4. BoolTakesNone(a, s, 0, s)
  <2>1. Runs("bool", p, circ, s, s) /\ BoolTakes(s.bool, s.bool, NoAnds)
    BY MovesNot, BoolOn, BoolTakesNothing
  <2> QED BY <1>3, <2>1 DEF BoolTakesNone, BoolRuns
<1>5. BoolLuts!Kept(a, s, q)
  <2>1. ASSUME NEW i \in Newer(circ), NEW x, BoolRuns(p, s, x, NoAnds)
        PROVE  BoolRuns(p, s, BoolLutOne(a, x, i), NoAnds)
    <3>1. IsStore(circ, x) /\ IsBool(circ, x.bool)
      BY <2>1, BoolOn DEF BoolRuns
    <3>2. BoolRuns(p, x, BoolLutOne(a, x, i), NoAnds)
      BY <1>3, <3>1, BoolOPLUTGate DEF BoolLutOne
    <3> QED BY <2>1, <3>2, NoAndsTwice
  <2> QED BY <1>2, <1>3, <2>1 DEF BoolLuts!Kept, BoolTakesNone
<1>7. BoolTakesNone(a, s, Len(q), t)
  BY <1>1, <1>2, <1>4, <1>5, LeastNat, BoolLuts!ThroughInvariant, Zenon
<1> QED BY <1>3, <1>7 DEF BoolTakesNone, t

-------------------------------------------------------------------------------
BoolOutputOne(a, t, m) == Bool!AssignOutputShare(t, a.outGates[m], Bool!Stretch(a.outGates, m, a.rcv.out))
BoolOutputs == INSTANCE Folding WITH Op <- BoolOutputOne, Inv <- OnlyMoves

LEMMA BoolOutputsMove ==
    ASSUME HasGatesInOrder(circ), NEW s, IsStore(circ, s), IsBool(circ, s.bool)
    PROVE  Moves(circ, s, Bool!AssignOutputShares(s))
<1> DEFINE a == s.bool
           q == Places(a.outGates)
<1>1. /\ Len(q) = Len(a.outGates) /\ Len(q) \in Nat
      /\ \A m \in 1 .. Len(q) : q[m] = m /\ a.outGates[m] \in Newer(circ)
  BY PlacesAre DEF IsBool
<1>2. Bool!AssignOutputShares(s) = BoolOutputs!ThroughAll(a, s, q)
  BY DEF Bool!AssignOutputShares, Bool!Through, Bool!Once, BoolOutputs!ThroughAll,
         BoolOutputOne, Places
<1> HIDE DEF q, a
<1>3. OnlyMoves(a, s, 0, s)
  BY MovesNot DEF OnlyMoves
<1>4. BoolOutputs!Kept(a, s, q)
  <2>1. ASSUME NEW m \in 1 .. Len(q), NEW t, Moves(circ, s, t)
        PROVE  Moves(circ, s, BoolOutputOne(a, t, m))
    <3> DEFINE i == a.outGates[m]
               v == Bool!XorBits(t.val[Bool!Gate(i).ins[1]], Bool!Stretch(a.outGates, m, a.rcv.out))
    <3>1. BoolOutputOne(a, t, m) = Computed(t, i, v)
      <4>1. BoolOutputOne(a, t, m) = Bool!Computed(t, i, v)
        BY DEF BoolOutputOne, Bool!AssignOutputShare, Bool!Computed
      <4> HIDE DEF v, i
      <4> QED BY <4>1, BoolIsOne
    <3>2. i \in Newer(circ) /\ IsStore(circ, t)
      BY <1>1, <2>1 DEF Moves, KeepsValues
    <3> HIDE DEF i, v
    <3>3. Moves(circ, t, Computed(t, i, v))
      BY <3>2, ComputedMoves
    <3> QED BY <2>1, <3>1, <3>3, MovesOn
  <2> QED BY <1>1, <2>1 DEF BoolOutputs!Kept, OnlyMoves
<1>6. OnlyMoves(a, s, Len(q), BoolOutputs!ThroughAll(a, s, q))
  BY <1>1, <1>3, <1>4, LeastNat, BoolOutputs!ThroughInvariant
<1> QED BY <1>2, <1>6 DEF OnlyMoves

LEMMA BoolNewLayer ==
    ASSUME NEW p, NEW s, IsStore(circ, s), IsBool(circ, s.bool)
    PROVE  BoolRuns(p, s, Bool!InitNewLayer(s), NoAnds)
<1> DEFINE o == s.bool
           a == Bool!NewLayer(o, <<>>)
           t == Bool!InitNewLayer(s)
<1>1. t = With(s, "bool", a)
  BY DEF Bool!InitNewLayer, With
<1>2. /\ DOMAIN a = DOMAIN o /\ a.mtIdx = o.mtIdx /\ a.mtStartIdx = o.mtStartIdx
      /\ a.ANDGates = [k \in DOMAIN o.ANDGates |-> <<>>] /\ a.inGates = <<>> /\ a.outGates = <<>>
      /\ a.lutGates = [kind \in DOMAIN o.lutGates |-> <<>>]
  BY Zenon DEF IsBool, BoolFields, Bool!NewLayer
<1>3. IsBool(circ, o)
  OBVIOUS
<1> HIDE DEF a, o, t
<1>4. IsBool(circ, a) /\ BoolTakes(o, a, NoAnds)
  BY <1>2, <1>3, NoIds, BoolTakesNothing, Zenon DEF IsBool
<1>5. BoolRuns(p, s, With(s, "bool", a), NoAnds)
  BY <1>4, MovesNot, BoolRunsSet DEF o
<1> QED BY <1>1, <1>5 DEF t

LEMMA BoolFinishes ==
    ASSUME HasGatesInOrder(circ), HasANDsCounted(circ), NEW p, NEW s, IsStore(circ, s), IsBool(circ, s.bool)
    PROVE  LET t == Bool!FinishCircuitLayer(p, s)
           IN  Runs("bool", p, circ, s, t) /\ BoolEnds(s.bool, t.bool)
<1> DEFINE ands == Bool!EvaluateANDGates(p, s)
           luts == Bool!EvaluateOPLUTGates(p, ands)
           ins == Bool!AssignInputShares(luts)
           outs == Bool!AssignOutputShares(ins)
           t == Bool!FinishCircuitLayer(p, s)
<1>1. t = Bool!InitNewLayer(outs)
  BY DEF Bool!FinishCircuitLayer, Bool!Once
<1>2. Runs("bool", p, circ, s, ands) /\ BoolEnds(s.bool, ands.bool)
  BY BoolANDGates
<1>3. IsStore(circ, ands) /\ IsBool(circ, ands.bool)
  BY <1>2, BoolOn
<1> HIDE DEF ands
<1>4. BoolRuns(p, ands, luts, NoAnds)
  BY <1>3, BoolOPLUTGates
<1>5. IsStore(circ, luts) /\ IsBool(circ, luts.bool)
  BY <1>4, BoolOn DEF BoolRuns
<1> HIDE DEF luts
<1>6. Moves(circ, luts, ins)
  <2>1. luts.bool.inGates \in Seq(Nat)
    BY <1>5, IdsAreNats DEF IsBool
  <2>2. ins = AssignInOrder(luts, luts.bool.inGates, luts.bool.rcv.in)
    BY BoolIsOne DEF Bool!AssignInputShares
  <2> HIDE DEF ins
  <2> QED BY <1>5, <2>1, <2>2, AssignInOrderMoves
<1> HIDE DEF ins
<1>7. BoolRuns(p, ands, ins, NoAnds)
  BY <1>4, <1>6, BoolRunsMove
<1>8. IsStore(circ, ins) /\ IsBool(circ, ins.bool)
  BY <1>7, BoolOn DEF BoolRuns
<1>9. Moves(circ, ins, outs)
  BY <1>8, BoolOutputsMove
<1> HIDE DEF outs
<1>10. BoolRuns(p, ands, outs, NoAnds)
  BY <1>7, <1>9, BoolRunsMove
<1>11. IsStore(circ, outs) /\ IsBool(circ, outs.bool)
  BY <1>10, BoolOn DEF BoolRuns
<1> HIDE DEF t
<1>12. BoolRuns(p, outs, t, NoAnds)
  BY <1>1, <1>11, BoolNewLayer
<1>13. BoolRuns(p, ands, t, NoAnds)
  BY <1>3, <1>10, <1>12, NoAndsTwice
<1>14. Runs("bool", p, circ, s, t)
  BY <1>2, <1>13, BoolOn DEF BoolRuns
<1>15. BoolEnds(s.bool, t.bool)
  <2>1. t.bool.mtIdx = ands.bool.mtIdx
    <3>1. IsBool(circ, t.bool)
      BY <1>14, BoolOn
    <3> QED BY <1>3, <1>13, <3>1 DEF BoolRuns, BoolTakes, NoAnds, IsBool
  <2> QED BY <1>2, <1>13, <2>1 DEF BoolEnds, BoolRuns, BoolTakes
<1> QED BY <1>14, <1>15 DEF t

-------------------------------------------------------------------------------
(***************************************************************************)
(* SetupLUT.                                                               *)
(***************************************************************************)
LEMMA LutIsOne ==
    ASSUME NEW s, NEW i, NEW v, NEW w
    PROVE  /\ Lut!Gate(i) = Gate(i)
           /\ Lut!Assign(s, i, v) = Assign(s, i, v)
           /\ Lut!Reads(s, v) = Reads(s, v)
           /\ Lut!UsedGates(s, v) = UsedGates(s, v)
           /\ Lut!Computed(s, i, v) = Computed(s, i, v)
           /\ Lut!SumNvals(circ, v) = SumNvals(circ, v)
           /\ Lut!AssignInOrder(s, v, w) = AssignInOrder(s, v, w)
           /\ Lut!QueueOnLvl(v, i) = QueueOnLvl(v, i)
<1>1. \A j : Lut!Gate(j) = Gate(j)
  BY DEF Lut!Gate, Gate
<1>2. \A t, j, u : Lut!Assign(t, j, u) = Assign(t, j, u)
  BY DEF Lut!Gate, Gate, Lut!Assign, Assign
<1>3. \A t, u : Lut!Reads(t, u) = Reads(t, u)
  BY DEF Lut!Reads, Reads, Lut!ToSet, ToSet
<1>4. \A t, u : Lut!UsedGates(t, u) = UsedGates(t, u)
  BY DEF Lut!UsedGates, UsedGates, Lut!UsedGate, UsedGate, Lut!Gate, Gate,
         Lut!Through, Through, Lut!Once, Once
<1>5. Lut!Computed(s, i, v) = Computed(s, i, v)
  BY <1>1, <1>2, <1>3, <1>4 DEF Lut!Computed, Computed
<1>6. \A u : Lut!SumNvals(circ, u) = SumNvals(circ, u)
  BY DEF Lut!SumNvals, SumNvals, Lut!Total, Total
<1>7. \A t, u : Lut!AssignStretches(t, v, u) = AssignStretches(t, v, u)
  BY DEF Lut!AssignStretches, AssignStretches, Lut!Stretch, Stretch,
         Lut!Assign, Assign, Lut!Gate, Gate, Lut!SumNvals, SumNvals, Lut!Total, Total,
         Lut!Through, Through, Lut!Once, Once
<1>8. Lut!AssignInOrder(s, v, w) = AssignInOrder(s, v, w)
  BY <1>7 DEF Lut!AssignInOrder, AssignInOrder, Lut!Once, Once
<1>9. Lut!QueueOnLvl(v, i) = QueueOnLvl(v, i)
  BY DEF Lut!QueueOnLvl, QueueOnLvl
<1> QED BY <1>1, <1>2, <1>3, <1>4, <1>5, <1>6, <1>8, <1>9

LutRuns(p, s, t) == Runs("lut", p, circ, s, t)

LEMMA LutRunsSet ==
    ASSUME NEW p, NEW s, IsLut(circ, s.lut), NEW u, Moves(circ, s, u), NEW a, IsLut(circ, a)
    PROVE  LutRuns(p, s, With(u, "lut", a))
<1> DEFINE t == With(u, "lut", a)
<1>1. Runs("lut", p, circ, s, u) /\ IsStore(circ, u)
  BY LutOn DEF Moves, KeepsValues
<1>2. Runs("lut", p, circ, u, t)
  BY <1>1, LutSet
<1> HIDE DEF t
<1>3. Runs("lut", p, circ, s, t)
  BY <1>1, <1>2, LutOn
<1> QED BY <1>3 DEF LutRuns, t

LEMMA LutRunsOn ==
    ASSUME NEW p, NEW s, NEW t, LutRuns(p, s, t)
    PROVE  IsStore(circ, t) /\ IsLut(circ, t.lut)
BY LutOn DEF LutRuns

LEMMA LutRunsMove ==
    ASSUME NEW p, NEW s, NEW t, LutRuns(p, s, t), NEW u, Moves(circ, t, u)
    PROVE  LutRuns(p, s, u)
BY LutOn DEF LutRuns

LEMMA LutRunsThen ==
    ASSUME NEW p, NEW s, NEW t, LutRuns(p, s, t), NEW u, LutRuns(p, t, u)
    PROVE  LutRuns(p, s, u)
BY LutOn DEF LutRuns

\* Gates that are queued, read, or computed, and a state whose lists are kept.
LEMMA LutEvaluateTTGate ==
    ASSUME HasGatesInOrder(circ), NEW p, NEW s, IsStore(circ, s), IsLut(circ, s.lut), NEW i \in Newer(circ)
    PROVE  LutRuns(p, s, Lut!EvaluateTTGate(p, s, i))
<1> DEFINE g == Lut!Gate(i)
           kind == Lut!KindOf(g)
           in == Lut!Parents(s, g)
           first == s.lut.choiceIdx[kind] + Len(s.lut.choiceSnd[kind])
           choices == [n \in 1 .. Lut!NvalsIn(g) |->
                          Lut!XorBits(Lut!Selection(in, n), Lut!OTChoice(p, kind, first + n))]
           nvals == Lut!NvalsIn(g)
           queued == [s EXCEPT !.lut.TTGates = Append(@, i)]
           r == Lut!Reads(queued, g.ins)
           x == [queued EXCEPT !.lut.choiceRcvCtr[kind] = @ + nvals]
           y == [r EXCEPT !.lut.choiceSnd[kind] = @ \o choices, !.lut.maskRcvCtr[kind] = @ + nvals]
           t == Lut!EvaluateTTGate(p, s, i)
           o == s.lut
           a == [o EXCEPT !.TTGates = Append(o.TTGates, i)]
           b == [a EXCEPT !.choiceRcvCtr = [a.choiceRcvCtr EXCEPT ![kind] = @ + nvals]]
           c == [a EXCEPT !.choiceSnd = [a.choiceSnd EXCEPT ![kind] = @ \o choices],
                          !.maskRcvCtr = [a.maskRcvCtr EXCEPT ![kind] = @ + nvals]]
<1>1. t = x \/ t = y
  BY DEF Lut!EvaluateTTGate
<1>2. r = Reads(queued, g.ins)
  BY LutIsOne
<1> HIDE DEF g, kind, choices, nvals, t, r
<1>3. queued = With(s, "lut", a)
  BY Zenon DEF With
<1>4. /\ DOMAIN a = DOMAIN o /\ a.TTGates = Append(o.TTGates, i)
      /\ a.inGates = o.inGates /\ a.outGates = o.outGates
  BY DEF IsLut, LutFields
<1>5. IsLut(circ, o)
  OBVIOUS
<1>6. x = With(queued, "lut", b) /\ DOMAIN b = DOMAIN a /\ b.TTGates = a.TTGates
      /\ b.inGates = a.inGates /\ b.outGates = a.outGates
  <2>1. queued.lut = a /\ DOMAIN queued = DOMAIN s
    BY <1>3 DEF With, IsStore, Common, Sides
  <2> QED BY <2>1, <1>4, Zenon DEF With, IsStore, Common, Sides, IsLut, LutFields
<1>7. DOMAIN c = DOMAIN a /\ c.TTGates = a.TTGates /\ c.inGates = a.inGates /\ c.outGates = a.outGates
  BY <1>4 DEF IsLut, LutFields
<1> HIDE DEF a, o, queued, x
<1>8. IsLut(circ, a)
  <2>1. Append(o.TTGates, i) \in Ids(circ)
    BY <1>5, AppendIds DEF IsLut
  <2> QED BY <1>4, <1>5, <2>1 DEF IsLut
<1>9. LutRuns(p, s, queued) /\ queued.lut = a
  BY <1>3, <1>8, MovesNot, LutRunsSet, LutSet
<1>10. IsStore(circ, queued)
  BY <1>9, LutRunsOn
<1>11. Moves(circ, queued, r) /\ IsStore(circ, r) /\ r.lut = a
  BY <1>2, <1>9, <1>10, ReadsMoves DEF Moves, KeepsValues, KeepsSides
<1>12. y = With(r, "lut", c)
  BY <1>11, <1>8, Zenon DEF With, IsStore, Common, Sides, IsLut, LutFields
<1> HIDE DEF b, c, y
<1>13. IsLut(circ, b) /\ IsLut(circ, c)
  BY <1>6, <1>7, <1>8 DEF IsLut
<1>14. LutRuns(p, queued, x)
  BY <1>6, <1>8, <1>9, <1>10, <1>13, MovesNot, LutRunsSet
<1>15. LutRuns(p, queued, y)
  BY <1>8, <1>9, <1>11, <1>12, <1>13, LutRunsSet
<1>16. LutRuns(p, s, x) /\ LutRuns(p, s, y)
  BY <1>9, <1>14, <1>15, LutRunsThen
<1> QED BY <1>1, <1>16 DEF t

LEMMA LutShareValues ==
    ASSUME HasGatesInOrder(circ), NEW p, NEW s, IsStore(circ, s), IsLut(circ, s.lut), NEW i
    PROVE  LutRuns(p, s, Lut!ShareValues(p, s, i))
<1> DEFINE random == Lut!Draw(p, "in", 100 * depth[p] + 50 + Len(s.lut.inSnd), Gate(i).nvals)
           o == s.lut
           u == Assign(s, i, Lut!XorBits(random, clear[i]))
           a == [o EXCEPT !.inSnd = o.inSnd \o random]
           t == [u EXCEPT !.lut.inSnd = @ \o random]
<1>1. Lut!ShareValues(p, s, i) = t
  BY LutIsOne, Zenon DEF Lut!ShareValues
<1> HIDE DEF random
<1>2. Moves(circ, s, u) /\ IsStore(circ, u) /\ u.lut = o
  BY AssignMoves DEF Moves, KeepsValues, KeepsSides
<1> HIDE DEF u
<1>3. t = With(u, "lut", a)
  BY <1>2, Zenon DEF With, IsStore, Common, Sides, IsLut, LutFields
<1>4. /\ DOMAIN a = DOMAIN o /\ a.TTGates = o.TTGates /\ a.inGates = o.inGates /\ a.outGates = o.outGates
      /\ IsLut(circ, o)
  BY DEF IsLut, LutFields
<1> HIDE DEF a, t, o
<1>5. IsLut(circ, a)
  BY <1>4 DEF IsLut
<1>6. LutRuns(p, s, t)
  BY <1>2, <1>3, <1>5, LutRunsSet DEF o
<1> QED BY <1>1, <1>6

LEMMA LutReconstructValue ==
    ASSUME HasGatesInOrder(circ), NEW p, NEW s, IsStore(circ, s), IsLut(circ, s.lut), NEW i \in Newer(circ)
    PROVE  LutRuns(p, s, Lut!ReconstructValue(s, i))
<1> DEFINE g == Gate(i)
           o == s.lut
           u == Reads(s, g.ins)
           bits == s.val[g.ins[1]]
           a == [o EXCEPT !.outSnd = o.outSnd \o bits]
           sent == [u EXCEPT !.lut.outSnd = @ \o bits]
           t == IF g.gs # "ALL" THEN UsedGates(sent, g.ins) ELSE sent
<1>1. Lut!ReconstructValue(s, i) = t
  BY LutIsOne, Zenon DEF Lut!ReconstructValue
<1>2. Moves(circ, s, u) /\ IsStore(circ, u) /\ u.lut = o /\ Len(g.ins) \in Nat
  BY ReadsMoves DEF HasGatesInOrder, IsGate, Newer, Gate, Moves, KeepsValues, KeepsSides
<1> HIDE DEF g, bits, u
<1>3. sent = With(u, "lut", a)
  BY <1>2, Zenon DEF With, IsStore, Common, Sides, IsLut, LutFields
<1>4. /\ DOMAIN a = DOMAIN o /\ a.TTGates = o.TTGates /\ a.inGates = o.inGates /\ a.outGates = o.outGates
      /\ IsLut(circ, o)
  BY DEF IsLut, LutFields
<1> HIDE DEF a, sent, o
<1>5. IsLut(circ, a)
  BY <1>4 DEF IsLut
<1>6. LutRuns(p, s, sent)
  BY <1>2, <1>3, <1>5, LutRunsSet DEF o
<1>7. Moves(circ, sent, UsedGates(sent, g.ins))
  BY <1>2, <1>6, LutRunsOn, UsedGatesMoves
<1>8. LutRuns(p, s, UsedGates(sent, g.ins))
  BY <1>6, <1>7, LutRunsMove
<1> QED BY <1>1, <1>6, <1>8

LEMMA LutAwaits ==
    ASSUME NEW p, NEW s, IsStore(circ, s), IsLut(circ, s.lut), NEW i \in Newer(circ), NEW t,
           \/ t = [s EXCEPT !.lut.inGates = Append(@, i)]
           \/ t = [s EXCEPT !.lut.outGates = Append(@, i)]
    PROVE  LutRuns(p, s, t)
<1> DEFINE o == s.lut
           a == [o EXCEPT !.inGates = Append(o.inGates, i)]
           b == [o EXCEPT !.outGates = Append(o.outGates, i)]
<1>1. t = With(s, "lut", a) \/ t = With(s, "lut", b)
  BY DEF With
<1>2. /\ DOMAIN a = DOMAIN o /\ a.TTGates = o.TTGates
      /\ a.inGates = Append(o.inGates, i) /\ a.outGates = o.outGates
  BY DEF IsLut, LutFields
<1>3. /\ DOMAIN b = DOMAIN o /\ b.TTGates = o.TTGates
      /\ b.inGates = o.inGates /\ b.outGates = Append(o.outGates, i)
  BY DEF IsLut, LutFields
<1>4. IsLut(circ, o)
  OBVIOUS
<1> HIDE DEF a, b, o
<1>5. Append(o.inGates, i) \in Ids(circ) /\ Append(o.outGates, i) \in Ids(circ)
  BY <1>4, AppendIds DEF IsLut
<1>6. IsLut(circ, a) /\ IsLut(circ, b)
  BY <1>2, <1>3, <1>4, <1>5 DEF IsLut
<1>7. LutRuns(p, s, With(s, "lut", a)) /\ LutRuns(p, s, With(s, "lut", b))
  BY <1>6, MovesNot, LutRunsSet DEF o
<1> QED BY <1>1, <1>7

LEMMA LutEvaluateInteractive ==
    ASSUME HasGatesInOrder(circ), NEW p \in Party, NEW s, IsStore(circ, s),
           IsLut(circ, s.lut), NEW d, NEW i \in GatesAt(circ, "SPLUT", d, TRUE)
    PROVE  LutRuns(p, s, Lut!EvaluateInteractive(p, s, i))
<1> DEFINE g == Gate(i)
           t == Lut!EvaluateInteractive(p, s, i)
           awaited == Lut!AwaitOutput(s, i)
<1>0. "SPLUT" \in ToSet(Sharings)
  BY DEF ToSet, Sharings
<1> HIDE DEF t
<1>1. /\ i \in Newer(circ) /\ g.type \in {"IN", "OUT", "TT"}
      /\ g.type = "OUT" => g.gs \in Role
  <2>1. Asks("SPLUT", i)
    BY <1>0, InteractiveTypes, Zenon
  <2> QED BY <2>1 DEF Asks, Yao
<1>2. Lut!Gate(i) = g
  BY LutIsOne
<1> HIDE DEF g
<1>3. CASE g.type = "TT"
  <2>1. t = Lut!EvaluateTTGate(p, s, i)
    BY <1>2, <1>3 DEF t, Lut!EvaluateInteractive
  <2> QED BY <1>1, <2>1, LutEvaluateTTGate DEF t
<1>4. CASE g.type = "IN" /\ g.gs = p
  <2>1. t = Lut!ShareValues(p, s, i)
    BY <1>2, <1>4 DEF t, Lut!EvaluateInteractive
  <2> QED BY <2>1, LutShareValues DEF t
<1>5. CASE g.type = "IN" /\ g.gs # p
  <2>1. t = [s EXCEPT !.lut.inGates = Append(@, i)]
    BY <1>2, <1>5 DEF t, Lut!EvaluateInteractive
  <2> QED BY <1>1, <2>1, LutAwaits DEF t
<1>6. CASE g.type = "OUT" /\ g.gs = p
  <2>1. t = awaited
    BY <1>2, <1>6 DEF t, Lut!Other, Party, Lut!EvaluateInteractive
  <2> QED BY <1>1, <2>1, LutAwaits DEF Lut!AwaitOutput, t
<1>7. CASE g.type = "OUT" /\ g.gs = "ALL"
  <2>1. t = Lut!ReconstructValue(awaited, i)
    BY <1>2, <1>7 DEF t, Lut!EvaluateInteractive, Party, Lut!Other
  <2>2. LutRuns(p, s, awaited)
    BY <1>1, LutAwaits DEF Lut!AwaitOutput
  <2> HIDE DEF awaited
  <2>3. IsStore(circ, awaited) /\ IsLut(circ, awaited.lut)
    BY <2>2, LutRunsOn
  <2>4. LutRuns(p, awaited, t)
    BY <1>1, <2>1, <2>3, LutReconstructValue
  <2>5. LutRuns(p, s, t)
    BY <2>2, <2>4, LutRunsThen
  <2> QED BY <2>5 DEF t
<1>8. CASE g.type = "OUT" /\ g.gs = Other(p)
  <2>1. t = Lut!ReconstructValue(s, i)
    BY <1>2, <1>8 DEF t, Lut!EvaluateInteractive, Lut!Other, Other, Party
  <2> QED BY <1>1, <2>1, LutReconstructValue DEF t
<1>9. g.type = "OUT" => g.gs \in {p, "ALL", Other(p)}
  BY <1>1 DEF Role, Party, Other
<1> QED BY <1>1, <1>3, <1>4, <1>5, <1>6, <1>7, <1>8, <1>9

LutAskOne(p, t, i) == Lut!EvaluateInteractive(p, t, i)
LutKept(p, s, n, t) == LutRuns(p, s, t)
LutAsking == INSTANCE Folding WITH Op <- LutAskOne, Inv <- LutKept

LEMMA LutStays ==
    ASSUME NEW p, NEW s, IsStore(circ, s), IsLut(circ, s.lut)
    PROVE  LutRuns(p, s, s)
BY MovesNot, LutOn DEF LutRuns

LEMMA LutInteractive ==
    ASSUME HasGatesInOrder(circ), HasLayers(circ), NEW p \in Party, NEW s,
           IsStore(circ, s), IsLut(circ, s.lut), depth[p] \in Nat
    PROVE  LutRuns(p, s, Lut!EvaluateInteractiveOperations(p, s))
<1> DEFINE q == Queue("SPLUT", depth[p])
<1>1. Len(q) \in Nat /\ \A n \in 1 .. Len(q) : q[n] \in GatesAt(circ, "SPLUT", depth[p], TRUE)
  <2>1. "SPLUT" \in ToSet(Sharings)
    BY DEF ToSet, Sharings
  <2> QED BY <2>1, QueueAsks, Zenon
<1>2. Lut!EvaluateInteractiveOperations(p, s) = LutAsking!ThroughAll(p, s, q)
  BY DEF Lut!EvaluateInteractiveOperations, Lut!Through, Lut!Once, LutAsking!ThroughAll,
         LutAskOne, Lut!QueueOnLvl, QueueOnLvl, Queue
<1> HIDE DEF q
<1>3. LutKept(p, s, 0, s)
  BY LutStays DEF LutKept
<1>4. LutAsking!Kept(p, s, q)
  <2>1. ASSUME NEW n \in 1 .. Len(q), NEW t, LutRuns(p, s, t)
        PROVE  LutRuns(p, s, Lut!EvaluateInteractive(p, t, q[n]))
    <3>1. IsStore(circ, t) /\ IsLut(circ, t.lut)
      BY <2>1, LutRunsOn
    <3>2. LutRuns(p, t, Lut!EvaluateInteractive(p, t, q[n]))
      BY <1>1, <3>1, LutEvaluateInteractive, Zenon
    <3> QED BY <2>1, <3>2, LutRunsThen
  <2> QED BY <2>1 DEF LutAsking!Kept, LutKept, LutAskOne
<1>6. LutKept(p, s, Len(q), LutAsking!ThroughAll(p, s, q))
  BY <1>1, <1>3, <1>4, LeastNat, LutAsking!ThroughInvariant
<1> QED BY <1>2, <1>6 DEF LutKept

LutLocalOne(p, t, i) == Lut!EvaluateLocal(p, t, i)
LutLocal == INSTANCE Folding WITH Op <- LutLocalOne, Inv <- OnlyMoves

LEMMA LutLocalMoves ==
    ASSUME HasGatesInOrder(circ), HasLayers(circ), NEW p, NEW s, IsStore(circ, s), depth[p] \in Nat
    PROVE  Moves(circ, s, Lut!EvaluateLocalOperations(p, s))
<1> DEFINE q == QueueOnLvl(circ.local["SPLUT"], depth[p])
<1>1. q \in Ids(circ) /\ Len(q) \in Nat
  <2>1. "SPLUT" \in ToSet(Sharings)
    BY DEF ToSet, Sharings
  <2> QED BY <2>1, LocalQueue, Zenon
<1>2. Lut!EvaluateLocalOperations(p, s) = LutLocal!ThroughAll(p, s, q)
  BY DEF Lut!EvaluateLocalOperations, Lut!Through, Lut!Once, LutLocal!ThroughAll,
         LutLocalOne, Lut!QueueOnLvl, QueueOnLvl
<1> HIDE DEF q
<1>3. OnlyMoves(p, s, 0, s)
  BY MovesNot DEF OnlyMoves
<1>4. LutLocal!Kept(p, s, q)
  <2>1. ASSUME NEW i \in Newer(circ), NEW t, Moves(circ, s, t) PROVE Moves(circ, s, Lut!EvaluateLocal(p, t, i))
    <3> DEFINE v == Lut!LocalShare(p, Lut!Gate(i), Lut!Parents(t, Lut!Gate(i)))
               r == Reads(t, Gate(i).ins)
               u == Lut!EvaluateLocal(p, t, i)
    <3>1. u = t \/ u = Computed(t, i, v) \/ u = Assign(r, i, v)
      BY LutIsOne DEF Lut!EvaluateLocal, Lut!EvaluateSIMD
    <3> HIDE DEF u, v
    <3>2. IsStore(circ, t)
      BY <2>1 DEF Moves, KeepsValues
    <3>3. Moves(circ, t, Computed(t, i, v))
      BY <3>2, ComputedMoves
    <3>5. Moves(circ, t, r) /\ IsStore(circ, r)
      BY <3>2, ReadsMoves DEF Moves, KeepsValues
    <3> HIDE DEF r
    <3>6. Moves(circ, t, Assign(r, i, v))
      BY <3>5, AssignMoves, MovesOn
    <3>4. Moves(circ, s, u)
      BY <2>1, <3>1, <3>3, <3>6, MovesOn
    <3> QED BY <3>4 DEF u
  <2>2. \A n \in 1 .. Len(q) : q[n] \in Newer(circ)
    BY <1>1 DEF Ids
  <2> QED BY <2>1, <2>2 DEF LutLocal!Kept, OnlyMoves, LutLocalOne
<1>6. OnlyMoves(p, s, Len(q), LutLocal!ThroughAll(p, s, q))
  BY <1>1, <1>3, <1>4, LeastNat, LutLocal!ThroughInvariant
<1> QED BY <1>2, <1>6 DEF OnlyMoves

LEMMA LutEvaluates ==
    ASSUME HasGatesInOrder(circ), HasLayers(circ), NEW p \in Party, NEW s,
           IsStore(circ, s), IsLut(circ, s.lut), depth[p] \in Nat
    PROVE  LutRuns(p, s, EvaluateOperations(p, s, "SPLUT"))
<1> DEFINE u == Lut!EvaluateLocalOperations(p, s)
           t == Lut!EvaluateInteractiveOperations(p, u)
<1>1. EvaluateOperations(p, s, "SPLUT") = t
  BY DEF EvaluateOperations, Once, Yao
<1>2. Moves(circ, s, u)
  BY LutLocalMoves
<1> HIDE DEF u
<1>3. IsStore(circ, u) /\ u.lut = s.lut /\ LutRuns(p, s, u)
  BY <1>2, LutOn DEF Moves, KeepsValues, KeepsSides, LutRuns
<1>4. LutRuns(p, u, t)
  BY <1>3, LutInteractive
<1> QED BY <1>1, <1>3, <1>4, LutRunsThen

\* Lists that are made of lists.
LEMMA ListedIds ==
    ASSUME NEW c, NEW n \in Nat, NEW f, f = [k \in 1 .. n |-> f[k]], \A k \in 1 .. n : f[k] \in Newer(c)
    PROVE  Listed(f) \in Ids(c)
<1>1. f \in Seq(Newer(c)) /\ Len(f) = n
  OBVIOUS
<1>2. SubSeq(f, 1, n) \in Seq(Newer(c))
  BY <1>1
<1> QED BY <1>1, <1>2 DEF Listed, Ids

ConcatOne(c, s, t) == s \o t
ConcatKept(c, b, n, t) == t \in Ids(c)
Concats == INSTANCE Folding WITH Op <- ConcatOne, Inv <- ConcatKept

LEMMA ConcatIds ==
    ASSUME NEW c, NEW ss, Len(ss) \in Nat, \A n \in 1 .. Len(ss) : ss[n] \in Ids(c)
    PROVE  Concat(ss) \in Ids(c)
<1>1. Concat(ss) = Concats!ThroughAll(c, <<>>, ss)
  BY DEF Concat, Through, Once, Concats!ThroughAll, ConcatOne
<1>2. ConcatKept(c, 0, 0, <<>>)
  BY NoIds DEF ConcatKept
<1>3. Concats!Kept(c, 0, ss)
  <2>1. ASSUME NEW s \in Ids(c), NEW t \in Ids(c) PROVE s \o t \in Ids(c)
    BY DEF Ids
  <2> QED BY <2>1 DEF Concats!Kept, ConcatKept, ConcatOne
<1>5. ConcatKept(c, 0, Len(ss), Concats!ThroughAll(c, <<>>, ss))
  BY <1>2, <1>3, LeastNat, Concats!ThroughInvariant
<1> QED BY <1>1, <1>5 DEF ConcatKept

LEMMA LutConcat ==
    ASSUME NEW ss
    PROVE  Lut!Concat(ss) = Concat(ss)
BY DEF Lut!Concat, Concat, Lut!Through, Through, Lut!Once, Once

\* The table gates with n inputs.
LutPart(ids, n) == Lut!Selected(ids, LAMBDA i : Len(Lut!Gate(i).ins) = n)

LEMMA LutSelected ==
    ASSUME NEW ids \in Ids(circ), NEW n
    PROVE  LutPart(ids, n) \in Ids(circ)
<1> DEFINE S == {k \in DOMAIN ids : Len(Lut!Gate(ids[k]).ins) = n}
           at == InOrder(S, Len(ids))
           f == [k \in DOMAIN at |-> ids[at[k]]]
<1>1. LutPart(ids, n) = Listed(f)
  <2>1. Lut!InOrder(S, Len(ids)) = at
    BY DEF Lut!InOrder, InOrder, Lut!Through, Through, Lut!Once, Once
  <2> QED BY <2>1, Zenon DEF LutPart, Lut!Selected, Lut!Listed, Listed
<1>2. Len(ids) \in Nat /\ DOMAIN ids = 1 .. Len(ids) /\ \A k \in DOMAIN ids : ids[k] \in Newer(circ)
  BY DEF Ids
<1>3. S \in SUBSET (1 .. Len(ids))
  BY <1>2
<1>4. Picks(at, S) /\ at \in Seq(Nat)
  <2> HIDE DEF S
  <2> QED BY <1>2, <1>3, InOrderPicks
<1>5. Len(at) \in Nat /\ DOMAIN at = 1 .. Len(at) /\ \A k \in 1 .. Len(at) : at[k] \in DOMAIN ids
  <2> HIDE DEF at
  <2>1. \A k \in 1 .. Len(at) : at[k] \in S
    BY <1>4 DEF Picks
  <2> QED BY <1>4, <2>1, <1>3, <1>2
<1> HIDE DEF at, S
<1>6. f = [k \in 1 .. Len(at) |-> f[k]] /\ \A k \in 1 .. Len(at) : f[k] \in Newer(circ)
  BY <1>2, <1>5
<1> HIDE DEF f
<1>7. Listed(f) \in Ids(circ)
  BY <1>5, <1>6, ListedIds, Zenon
<1> QED BY <1>1, <1>7

LEMMA LutInOrderOfInputs ==
    ASSUME NEW ids \in Ids(circ)
    PROVE  Lut!InOrderOfInputs(ids) \in Ids(circ)
<1> DEFINE ss == [n \in 1 .. 8 |-> LutPart(ids, n)]
<1>1. Lut!InOrderOfInputs(ids) = Lut!Concat(ss)
  BY DEF Lut!InOrderOfInputs, Lut!MaxInputs, LutPart
<1>3. Len(ss) = 8 /\ \A n \in 1 .. 8 : ss[n] \in Ids(circ)
  BY LutSelected
<1> HIDE DEF ss
<1>4. Concat(ss) \in Ids(circ)
  BY <1>3, ConcatIds
<1> QED BY <1>1, <1>4, LutConcat

-------------------------------------------------------------------------------
\* A table gate of the sender, or of the receiver: it has a value, and of the
\* sharing's state only the OTs that are used and what is sent change.
LEMMA LutSent ==
    ASSUME HasGatesInOrder(circ), NEW p, NEW s, IsStore(circ, s), IsLut(circ, s.lut), NEW i \in Newer(circ), NEW asked
    PROVE  LutRuns(p, s, Lut!SenderEvaluateTTGate(p, s, i, asked))
<1> DEFINE g == Lut!Gate(i)
           kind == Lut!KindOf(g)
           in == Lut!Parents(s, g)
           first == s.lut.maskIdx[kind]
           out == [n \in 1 .. Lut!NvalsIn(g) |-> Lut!TableRnd(p, kind, first + n)]
           tables == [n \in 1 .. Lut!NvalsIn(g) |->
                         Lut!MaskedTable(p, g, kind, first + n, Lut!Selection(in, n), asked[n])]
           v == Lut!LutLayout(g, Lut!NvalsIn(g), out)
           used == first + Lut!NvalsIn(g)
           r == Lut!Reads(s, g.ins)
           u == Lut!Assign(r, i, v)
           o == s.lut
           a == [o EXCEPT !.maskSnd = [o.maskSnd EXCEPT ![kind] = @ \o tables],
                          !.maskIdx = [o.maskIdx EXCEPT ![kind] = used]]
           x == [u EXCEPT !.lut.maskSnd[kind] = @ \o tables, !.lut.maskIdx[kind] = used]
           t == Lut!UsedGates(x, g.ins)
<1>1. Lut!SenderEvaluateTTGate(p, s, i, asked) = t
  BY DEF Lut!SenderEvaluateTTGate
<1>2. g = Gate(i) /\ r = Reads(s, g.ins) /\ u = Assign(r, i, v) /\ t = UsedGates(x, g.ins)
  BY LutIsOne, Zenon
<1>3. Len(g.ins) \in Nat
  BY <1>2, Zenon DEF HasGatesInOrder, IsGate, Newer, Gate
<1> HIDE DEF g, kind, tables, used, v, r, u, t
<1>4. Moves(circ, s, r) /\ IsStore(circ, r)
  BY <1>2, ReadsMoves DEF Moves, KeepsValues
<1>5. Moves(circ, r, u)
  BY <1>2, <1>4, AssignMoves
<1>6. Moves(circ, s, u) /\ IsStore(circ, u) /\ u.lut = o
  BY <1>4, <1>5, MovesOn DEF Moves, KeepsValues, KeepsSides
<1>7. x = With(u, "lut", a)
  BY <1>6, Zenon DEF With, IsStore, Common, Sides, IsLut, LutFields
<1>8. /\ DOMAIN a = DOMAIN o /\ a.TTGates = o.TTGates /\ a.inGates = o.inGates /\ a.outGates = o.outGates
      /\ IsLut(circ, o)
  BY DEF IsLut, LutFields
<1> HIDE DEF a, x, o
<1>9. IsLut(circ, a)
  BY <1>8 DEF IsLut
<1>10. LutRuns(p, s, x)
  BY <1>6, <1>7, <1>9, LutRunsSet DEF o
<1>11. Moves(circ, x, t)
  BY <1>2, <1>3, <1>10, LutRunsOn, UsedGatesMoves
<1> QED BY <1>1, <1>10, <1>11, LutRunsMove

LEMMA LutReceived ==
    ASSUME HasGatesInOrder(circ), NEW p, NEW s, IsStore(circ, s), IsLut(circ, s.lut), NEW i \in Newer(circ), NEW masks
    PROVE  LutRuns(p, s, Lut!ReceiverEvaluateTTGate(p, s, i, masks))
<1> DEFINE g == Lut!Gate(i)
           kind == Lut!KindOf(g)
           first == s.lut.choiceIdx[kind]
           row(n) == Lut!OTChoice(p, kind, first + n)
           out == [n \in 1 .. Lut!NvalsIn(g) |->
                      Lut!XorBits(masks[n][row(n)], Lut!OTString(Lut!Other(p), kind, first + n, row(n)))]
           v == Lut!LutLayout(g, Lut!NvalsIn(g), out)
           used == first + Lut!NvalsIn(g)
           u == Lut!Assign(s, i, v)
           o == s.lut
           a == [o EXCEPT !.choiceIdx = [o.choiceIdx EXCEPT ![kind] = used]]
           x == [u EXCEPT !.lut.choiceIdx[kind] = used]
           t == Lut!UsedGates(x, g.ins)
<1>1. Lut!ReceiverEvaluateTTGate(p, s, i, masks) = t
  BY DEF Lut!ReceiverEvaluateTTGate
<1>2. g = Gate(i) /\ u = Assign(s, i, v) /\ t = UsedGates(x, g.ins)
  BY LutIsOne, Zenon
<1>3. Len(g.ins) \in Nat
  BY <1>2, Zenon DEF HasGatesInOrder, IsGate, Newer, Gate
<1> HIDE DEF g, kind, used, v, u, t
<1>6. Moves(circ, s, u) /\ IsStore(circ, u) /\ u.lut = o
  BY <1>2, AssignMoves DEF Moves, KeepsValues, KeepsSides
<1>7. x = With(u, "lut", a)
  BY <1>6, Zenon DEF With, IsStore, Common, Sides, IsLut, LutFields
<1>8. /\ DOMAIN a = DOMAIN o /\ a.TTGates = o.TTGates /\ a.inGates = o.inGates /\ a.outGates = o.outGates
      /\ IsLut(circ, o)
  BY DEF IsLut, LutFields
<1> HIDE DEF a, x, o
<1>9. IsLut(circ, a)
  BY <1>8 DEF IsLut
<1>10. LutRuns(p, s, x)
  BY <1>6, <1>7, <1>9, LutRunsSet DEF o
<1>11. Moves(circ, x, t)
  BY <1>2, <1>3, <1>10, LutRunsOn, UsedGatesMoves
<1> QED BY <1>1, <1>10, <1>11, LutRunsMove

LutSentOne(a, t, i) ==
    Lut!SenderEvaluateTTGate(a[1], t, i, Lut!ChoicesLeft(a[2], t, Lut!KindOf(Lut!Gate(i))))
LutReceivedOne(a, t, i) ==
    Lut!ReceiverEvaluateTTGate(a[1], t, i, Lut!MasksLeft(a[2], t, Lut!KindOf(Lut!Gate(i))))
LutPairKept(a, s, n, t) == LutRuns(a[1], s, t)
LutSends == INSTANCE Folding WITH Op <- LutSentOne, Inv <- LutPairKept
LutReceives == INSTANCE Folding WITH Op <- LutReceivedOne, Inv <- LutPairKept

LEMMA LutTTGates ==
    ASSUME HasGatesInOrder(circ), NEW p, NEW s, IsStore(circ, s), IsLut(circ, s.lut)
    PROVE  LutRuns(p, s, Lut!EvaluateTTGates(p, s))
<1> DEFINE a == <<p, s>>
           q == Lut!InOrderOfInputs(s.lut.TTGates)
           sent == LutSends!ThroughAll(a, s, q)
           received == LutReceives!ThroughAll(a, s, q)
           u == IF s.lut.playSender THEN sent ELSE received
           t == [u EXCEPT !.lut.TTGates = <<>>]
<1>1. Lut!EvaluateTTGates(p, s) = t
  <2>1. \A ids : Lut!Through(LAMBDA x, i :
            Lut!SenderEvaluateTTGate(p, x, i, Lut!ChoicesLeft(s, x, Lut!KindOf(Lut!Gate(i)))), s, ids)
                = LutSends!ThroughAll(a, s, ids)
    BY DEF Lut!Through, Lut!Once, LutSends!ThroughAll, LutSentOne
  <2>2. \A ids : Lut!Through(LAMBDA x, i :
            Lut!ReceiverEvaluateTTGate(p, x, i, Lut!MasksLeft(s, x, Lut!KindOf(Lut!Gate(i)))), s, ids)
                = LutReceives!ThroughAll(a, s, ids)
    BY DEF Lut!Through, Lut!Once, LutReceives!ThroughAll, LutReceivedOne
  <2> HIDE DEF a, q
  <2> QED BY <2>1, <2>2, Zenon DEF Lut!EvaluateTTGates, q
<1>2. q \in Ids(circ)
  BY LutInOrderOfInputs DEF IsLut
<1>3. a[1] = p
  OBVIOUS
<1> HIDE DEF a, q
<1>4. Len(q) \in Nat /\ \A n \in 1 .. Len(q) : q[n] \in Newer(circ)
  BY <1>2 DEF Ids
<1>5. LutPairKept(a, s, 0, s)
  BY <1>3, LutStays DEF LutPairKept
<1>6. LutSends!Kept(a, s, q) /\ LutReceives!Kept(a, s, q)
  <2>1. ASSUME NEW i \in Newer(circ), NEW x, LutRuns(p, s, x)
        PROVE  LutRuns(p, s, LutSentOne(a, x, i)) /\ LutRuns(p, s, LutReceivedOne(a, x, i))
    <3>1. IsStore(circ, x) /\ IsLut(circ, x.lut)
      BY <2>1, LutRunsOn
    <3>2. LutRuns(p, x, LutSentOne(a, x, i))
      BY <1>3, <3>1, LutSent DEF LutSentOne
    <3>3. LutRuns(p, x, LutReceivedOne(a, x, i))
      BY <1>3, <3>1, LutReceived DEF LutReceivedOne
    <3> QED BY <2>1, <3>2, <3>3, LutRunsThen
  <2>2. LutSends!Kept(a, s, q)
    BY <1>3, <1>4, <2>1 DEF LutSends!Kept, LutPairKept
  <2>3. LutReceives!Kept(a, s, q)
    BY <1>3, <1>4, <2>1 DEF LutReceives!Kept, LutPairKept
  <2> QED BY <2>2, <2>3
<1>8. LutPairKept(a, s, Len(q), sent)
  BY <1>4, <1>5, <1>6, LeastNat, LutSends!ThroughInvariant
<1>9. LutPairKept(a, s, Len(q), received)
  BY <1>4, <1>5, <1>6, LeastNat, LutReceives!ThroughInvariant
<1> HIDE DEF sent, received
<1>10. LutRuns(p, s, u)
  BY <1>3, <1>8, <1>9 DEF LutPairKept
<1> HIDE DEF u
<1>11. IsStore(circ, u) /\ IsLut(circ, u.lut)
  BY <1>10, LutRunsOn
<1> DEFINE o == u.lut
           b == [o EXCEPT !.TTGates = <<>>]
<1>12. t = With(u, "lut", b)
  BY DEF With
<1>13. /\ DOMAIN b = DOMAIN o /\ b.TTGates = <<>> /\ b.inGates = o.inGates /\ b.outGates = o.outGates
  BY <1>11 DEF IsLut, LutFields
<1> HIDE DEF b, t
<1>14. IsLut(circ, b)
  BY <1>11, <1>13, NoIds DEF IsLut
<1>15. LutRuns(p, u, t)
  BY <1>11, <1>12, <1>14, MovesNot, LutRunsSet
<1>16. LutRuns(p, s, t)
  BY <1>10, <1>15, LutRunsThen
<1> QED BY <1>1, <1>16

-------------------------------------------------------------------------------
LutOutputOne(a, t, m) == Lut!AssignOutputShare(t, a.outGates[m], Lut!Stretch(a.outGates, m, a.rcv.out))
LutOutputs == INSTANCE Folding WITH Op <- LutOutputOne, Inv <- OnlyMoves

LEMMA LutOutputsMove ==
    ASSUME HasGatesInOrder(circ), NEW s, IsStore(circ, s), IsLut(circ, s.lut)
    PROVE  Moves(circ, s, Lut!AssignOutputShares(s))
<1> DEFINE a == s.lut
           q == Places(a.outGates)
<1>1. /\ Len(q) = Len(a.outGates) /\ Len(q) \in Nat
      /\ \A m \in 1 .. Len(q) : q[m] = m /\ a.outGates[m] \in Newer(circ)
  BY PlacesAre DEF IsLut
<1>2. Lut!AssignOutputShares(s) = LutOutputs!ThroughAll(a, s, q)
  BY DEF Lut!AssignOutputShares, Lut!Through, Lut!Once, LutOutputs!ThroughAll,
         LutOutputOne, Places
<1> HIDE DEF q, a
<1>3. OnlyMoves(a, s, 0, s)
  BY MovesNot DEF OnlyMoves
<1>4. LutOutputs!Kept(a, s, q)
  <2>1. ASSUME NEW m \in 1 .. Len(q), NEW t, Moves(circ, s, t)
        PROVE  Moves(circ, s, LutOutputOne(a, t, m))
    <3> DEFINE i == a.outGates[m]
               v == Lut!XorBits(t.val[Lut!Gate(i).ins[1]], Lut!Stretch(a.outGates, m, a.rcv.out))
    <3>1. LutOutputOne(a, t, m) = Computed(t, i, v)
      <4>1. LutOutputOne(a, t, m) = Lut!Computed(t, i, v)
        BY DEF LutOutputOne, Lut!AssignOutputShare
      <4> HIDE DEF v, i
      <4> QED BY <4>1, LutIsOne
    <3>2. i \in Newer(circ) /\ IsStore(circ, t)
      BY <1>1, <2>1 DEF Moves, KeepsValues
    <3> HIDE DEF i, v
    <3>3. Moves(circ, t, Computed(t, i, v))
      BY <3>2, ComputedMoves
    <3> QED BY <2>1, <3>1, <3>3, MovesOn
  <2> QED BY <1>1, <2>1 DEF LutOutputs!Kept, OnlyMoves
<1>6. OnlyMoves(a, s, Len(q), LutOutputs!ThroughAll(a, s, q))
  BY <1>1, <1>3, <1>4, LeastNat, LutOutputs!ThroughInvariant
<1> QED BY <1>2, <1>6 DEF OnlyMoves

LEMMA LutNewLayer ==
    ASSUME NEW p, NEW s, IsStore(circ, s), IsLut(circ, s.lut)
    PROVE  LutRuns(p, s, [Lut!InitNewLayer(s) EXCEPT !.lut.playSender = ~@])
<1> DEFINE o == s.lut
           none == [kind \in Lut!Kinds(circ) |-> 0]
           a == [o EXCEPT
                    !.inSnd = <<>>, !.inGates = <<>>, !.outSnd = <<>>, !.outGates = <<>>,
                    !.stash = IF o.playSender THEN o.stash ELSE Lut!Nothing,
                    !.choiceSnd = Lut!NoValues(circ), !.choiceRcvCtr = none, !.maskRcvCtr = none, !.rcv = <<>>]
           b == [a EXCEPT !.playSender = ~@]
           u == Lut!InitNewLayer(s)
           t == [u EXCEPT !.lut.playSender = ~@]
<1>1. u = With(s, "lut", a)
  BY DEF Lut!InitNewLayer, With
<1>2. DOMAIN a = DOMAIN o /\ a.TTGates = o.TTGates /\ a.inGates = <<>> /\ a.outGates = <<>>
  BY Zenon DEF IsLut, LutFields
<1>3. IsLut(circ, o)
  OBVIOUS
<1> HIDE DEF a, u, o
<1>4. DOMAIN b = DOMAIN o /\ b.TTGates = o.TTGates /\ b.inGates = <<>> /\ b.outGates = <<>>
  BY <1>2, <1>3 DEF IsLut, LutFields
<1> HIDE DEF b
<1>5. IsLut(circ, a) /\ IsLut(circ, b)
  BY <1>2, <1>3, <1>4, NoIds DEF IsLut
<1>6. LutRuns(p, s, u) /\ u.lut = a
  BY <1>1, <1>5, MovesNot, LutRunsSet, LutSet
<1>7. IsStore(circ, u)
  BY <1>6, LutRunsOn
<1>8. t = With(u, "lut", b)
  BY <1>6, <1>7, Zenon DEF With, b, IsStore, Common, Sides
<1> HIDE DEF t
<1>9. LutRuns(p, u, t)
  BY <1>5, <1>6, <1>7, <1>8, MovesNot, LutRunsSet
<1>10. LutRuns(p, s, t)
  BY <1>6, <1>9, LutRunsThen
<1> QED BY <1>10 DEF t, u

LEMMA LutFinishes ==
    ASSUME HasGatesInOrder(circ), NEW p, NEW s, IsStore(circ, s), IsLut(circ, s.lut)
    PROVE  LutRuns(p, s, Lut!FinishCircuitLayer(p, s))
<1> DEFINE tts == Lut!EvaluateTTGates(p, s)
           ins == Lut!AssignInputShares(tts)
           outs == Lut!AssignOutputShares(ins)
           t == Lut!FinishCircuitLayer(p, s)
<1>1. t = [Lut!InitNewLayer(outs) EXCEPT !.lut.playSender = ~@]
  BY DEF Lut!FinishCircuitLayer, Lut!Once
<1>2. LutRuns(p, s, tts)
  BY LutTTGates
<1>3. IsStore(circ, tts) /\ IsLut(circ, tts.lut)
  BY <1>2, LutRunsOn
<1> HIDE DEF tts
<1>4. Moves(circ, tts, ins)
  <2>1. tts.lut.inGates \in Seq(Nat)
    BY <1>3, IdsAreNats DEF IsLut
  <2>2. ins = AssignInOrder(tts, tts.lut.inGates, tts.lut.rcv.in)
    BY LutIsOne DEF Lut!AssignInputShares
  <2> HIDE DEF ins
  <2> QED BY <1>3, <2>1, <2>2, AssignInOrderMoves
<1> HIDE DEF ins
<1>5. LutRuns(p, s, ins)
  BY <1>2, <1>4, LutRunsMove
<1>6. IsStore(circ, ins) /\ IsLut(circ, ins.lut)
  BY <1>5, LutRunsOn
<1>7. Moves(circ, ins, outs)
  BY <1>6, LutOutputsMove
<1> HIDE DEF outs
<1>8. LutRuns(p, s, outs)
  BY <1>5, <1>7, LutRunsMove
<1>9. IsStore(circ, outs) /\ IsLut(circ, outs.lut)
  BY <1>8, LutRunsOn
<1> HIDE DEF t
<1>10. LutRuns(p, outs, t)
  BY <1>1, <1>9, LutNewLayer
<1>11. LutRuns(p, s, t)
  BY <1>8, <1>10, LutRunsThen
<1> QED BY <1>11 DEF t

\* What is taken to be sent, and what is received.
LEMMA LutDataSent ==
    ASSUME NEW p, NEW s, IsStore(circ, s), IsLut(circ, s.lut)
    PROVE  LutRuns(p, s, Lut!DataSent(s))
<1> DEFINE o == s.lut
           stashed == [in |-> o.stash.in \o o.inSnd, out |-> o.stash.out \o o.outSnd]
           a == [o EXCEPT !.stash = stashed]
           b == [o EXCEPT !.maskSnd = Lut!NoValues(circ)]
           t == Lut!DataSent(s)
<1>1. t = With(s, "lut", a) \/ t = With(s, "lut", b)
  BY Zenon DEF Lut!DataSent, With, IsStore, Common, Sides, IsLut, LutFields
<1>2. /\ DOMAIN a = DOMAIN o /\ a.TTGates = o.TTGates /\ a.inGates = o.inGates /\ a.outGates = o.outGates
      /\ DOMAIN b = DOMAIN o /\ b.TTGates = o.TTGates /\ b.inGates = o.inGates /\ b.outGates = o.outGates
      /\ IsLut(circ, o)
  BY DEF IsLut, LutFields
<1> HIDE DEF a, b, o, t
<1>3. IsLut(circ, a) /\ IsLut(circ, b)
  BY <1>2 DEF IsLut
<1>4. LutRuns(p, s, With(s, "lut", a)) /\ LutRuns(p, s, With(s, "lut", b))
  BY <1>3, MovesNot, LutRunsSet DEF o
<1>5. LutRuns(p, s, t)
  BY <1>1, <1>4
<1> QED BY <1>5 DEF t

-------------------------------------------------------------------------------
(***************************************************************************)
(* The two Yao objects.                                                    *)
(***************************************************************************)
LEMMA GarblingIsOne ==
    ASSUME NEW s, NEW i, NEW v, NEW w
    PROVE  /\ Garbling!Gate(i) = Gate(i)
           /\ Garbling!Assign(s, i, v) = Assign(s, i, v)
           /\ Garbling!Reads(s, v) = Reads(s, v)
           /\ Garbling!UsedGates(s, v) = UsedGates(s, v)
           /\ Garbling!Computed(s, i, v) = Computed(s, i, v)
           /\ Garbling!SumNvals(circ, v) = SumNvals(circ, v)
           /\ Garbling!AssignInOrder(s, v, w) = AssignInOrder(s, v, w)
           /\ Garbling!QueueOnLvl(v, i) = QueueOnLvl(v, i)
<1>1. \A j : Garbling!Gate(j) = Gate(j)
  BY DEF Garbling!Gate, Gate
<1>2. \A t, j, u : Garbling!Assign(t, j, u) = Assign(t, j, u)
  BY DEF Garbling!Gate, Gate, Garbling!Assign, Assign
<1>3. \A t, u : Garbling!Reads(t, u) = Reads(t, u)
  BY DEF Garbling!Reads, Reads, Garbling!ToSet, ToSet
<1>4. \A t, u : Garbling!UsedGates(t, u) = UsedGates(t, u)
  BY DEF Garbling!UsedGates, UsedGates, Garbling!UsedGate, UsedGate, Garbling!Gate, Gate,
         Garbling!Through, Through, Garbling!Once, Once
<1>5. Garbling!Computed(s, i, v) = Computed(s, i, v)
  BY <1>1, <1>2, <1>3, <1>4 DEF Garbling!Computed, Computed
<1>6. \A u : Garbling!SumNvals(circ, u) = SumNvals(circ, u)
  BY DEF Garbling!SumNvals, SumNvals, Garbling!Total, Total
<1>7. \A t, u : Garbling!AssignStretches(t, v, u) = AssignStretches(t, v, u)
  BY DEF Garbling!AssignStretches, AssignStretches, Garbling!Stretch, Stretch,
         Garbling!Assign, Assign, Garbling!Gate, Gate, Garbling!SumNvals, SumNvals, Garbling!Total, Total,
         Garbling!Through, Through, Garbling!Once, Once
<1>8. Garbling!AssignInOrder(s, v, w) = AssignInOrder(s, v, w)
  BY <1>7 DEF Garbling!AssignInOrder, AssignInOrder, Garbling!Once, Once
<1>9. Garbling!QueueOnLvl(v, i) = QueueOnLvl(v, i)
  BY DEF Garbling!QueueOnLvl, QueueOnLvl
<1> QED BY <1>1, <1>2, <1>3, <1>4, <1>5, <1>6, <1>8, <1>9

LEMMA EvaluationIsOne ==
    ASSUME NEW s, NEW i, NEW v, NEW w
    PROVE  /\ Evaluation!Gate(i) = Gate(i)
           /\ Evaluation!Assign(s, i, v) = Assign(s, i, v)
           /\ Evaluation!Reads(s, v) = Reads(s, v)
           /\ Evaluation!UsedGates(s, v) = UsedGates(s, v)
           /\ Evaluation!Computed(s, i, v) = Computed(s, i, v)
           /\ Evaluation!SumNvals(circ, v) = SumNvals(circ, v)
           /\ Evaluation!AssignInOrder(s, v, w) = AssignInOrder(s, v, w)
           /\ Evaluation!QueueOnLvl(v, i) = QueueOnLvl(v, i)
<1>1. \A j : Evaluation!Gate(j) = Gate(j)
  BY DEF Evaluation!Gate, Gate
<1>2. \A t, j, u : Evaluation!Assign(t, j, u) = Assign(t, j, u)
  BY DEF Evaluation!Gate, Gate, Evaluation!Assign, Assign
<1>3. \A t, u : Evaluation!Reads(t, u) = Reads(t, u)
  BY DEF Evaluation!Reads, Reads, Evaluation!ToSet, ToSet
<1>4. \A t, u : Evaluation!UsedGates(t, u) = UsedGates(t, u)
  BY DEF Evaluation!UsedGates, UsedGates, Evaluation!UsedGate, UsedGate, Evaluation!Gate, Gate,
         Evaluation!Through, Through, Evaluation!Once, Once
<1>5. Evaluation!Computed(s, i, v) = Computed(s, i, v)
  BY <1>1, <1>2, <1>3, <1>4 DEF Evaluation!Computed, Computed
<1>6. \A u : Evaluation!SumNvals(circ, u) = SumNvals(circ, u)
  BY DEF Evaluation!SumNvals, SumNvals, Evaluation!Total, Total
<1>7. \A t, u : Evaluation!AssignStretches(t, v, u) = AssignStretches(t, v, u)
  BY DEF Evaluation!AssignStretches, AssignStretches, Evaluation!Stretch, Stretch,
         Evaluation!Assign, Assign, Evaluation!Gate, Gate, Evaluation!SumNvals, SumNvals, Evaluation!Total, Total,
         Evaluation!Through, Through, Evaluation!Once, Once
<1>8. Evaluation!AssignInOrder(s, v, w) = AssignInOrder(s, v, w)
  BY <1>7 DEF Evaluation!AssignInOrder, AssignInOrder, Evaluation!Once, Once
<1>9. Evaluation!QueueOnLvl(v, i) = QueueOnLvl(v, i)
  BY DEF Evaluation!QueueOnLvl, QueueOnLvl
<1> QED BY <1>1, <1>2, <1>3, <1>4, <1>5, <1>6, <1>8, <1>9

YaoRuns(p, s, t) == Runs("yao", p, circ, s, t)

\* The record of one object is another.
SetYao(s, x, y) == [s EXCEPT !.yao = [s.yao EXCEPT ![x] = y]]

IsYaoOf(p, c, x, y) == IF Garbles(p, x) THEN IsGarbler(c, y) ELSE IsEvaluator(c, y)

LEMMA YaoRunsSet ==
    ASSUME NEW p, NEW s, IsYao(p, circ, s.yao), NEW u, Moves(circ, s, u),
           NEW x \in Yao, NEW y, IsYaoOf(p, circ, x, y)
    PROVE  YaoRuns(p, s, SetYao(u, x, y)) /\ SetYao(u, x, y).yao[x] = y
<1> DEFINE a == [s.yao EXCEPT ![x] = y]
           t == SetYao(u, x, y)
<1>1. Runs("yao", p, circ, s, u) /\ IsStore(circ, u) /\ u.yao = s.yao
  BY YaoOn DEF Moves, KeepsValues
<1>2. t = With(u, "yao", a)
  BY <1>1 DEF With, SetYao
<1>3. IsYao(p, circ, a) /\ a[x] = y
  BY DEF IsYao, IsYaoOf
<1> HIDE DEF t, a
<1>4. Runs("yao", p, circ, u, t) /\ t.yao = a
  BY <1>1, <1>2, <1>3, YaoSet
<1>5. Runs("yao", p, circ, s, t)
  BY <1>1, <1>4, YaoOn
<1>6. YaoRuns(p, s, t) /\ t.yao[x] = y
  BY <1>3, <1>4, <1>5 DEF YaoRuns
<1> QED BY <1>6 DEF t

LEMMA YaoStays ==
    ASSUME NEW p, NEW s, IsStore(circ, s), IsYao(p, circ, s.yao)
    PROVE  YaoRuns(p, s, s)
BY MovesNot, YaoOn DEF YaoRuns

LEMMA YaoRunsOn ==
    ASSUME NEW p, NEW s, NEW t, YaoRuns(p, s, t)
    PROVE  IsStore(circ, t) /\ IsYao(p, circ, t.yao)
BY YaoOn DEF YaoRuns

LEMMA YaoRunsMove ==
    ASSUME NEW p, NEW s, NEW t, YaoRuns(p, s, t), NEW u, Moves(circ, t, u)
    PROVE  YaoRuns(p, s, u)
BY YaoOn DEF YaoRuns

LEMMA YaoRunsThen ==
    ASSUME NEW p, NEW s, NEW t, YaoRuns(p, s, t), NEW u, YaoRuns(p, t, u)
    PROVE  YaoRuns(p, s, u)
BY YaoOn DEF YaoRuns

\* A garbler's, and an evaluator's, when only what is no list of gates changes,
\* or the lists that are named.
LEMMA GarblerSet ==
    ASSUME NEW p, NEW s, IsYao(p, circ, s.yao), NEW u, Moves(circ, s, u),
           NEW x \in Yao, Garbles(p, x), NEW y, DOMAIN y = DOMAIN s.yao[x],
           y.clientGates \in Ids(circ), y.outGates \in Ids(circ)
    PROVE  YaoRuns(p, s, SetYao(u, x, y))
<1>1. IsYaoOf(p, circ, x, y)
  BY DEF IsYaoOf, IsYao, IsGarbler
<1> QED BY <1>1, YaoRunsSet

LEMMA EvaluatorSet ==
    ASSUME NEW p, NEW s, IsYao(p, circ, s.yao), NEW u, Moves(circ, s, u),
           NEW x \in Yao, ~Garbles(p, x), NEW y, DOMAIN y = DOMAIN s.yao[x],
           y.serverGates \in Ids(circ), y.sndGates \in Ids(circ), y.rcvGates \in Seq(Nat)
    PROVE  YaoRuns(p, s, SetYao(u, x, y))
<1>1. IsYaoOf(p, circ, x, y)
  BY DEF IsYaoOf, IsYao, IsEvaluator
<1> QED BY <1>1, YaoRunsSet

LEMMA GarblerLists ==
    ASSUME NEW p, NEW s, IsYao(p, circ, s.yao), NEW x \in Yao, Garbles(p, x)
    PROVE  /\ DOMAIN s.yao = Yao /\ DOMAIN s.yao[x] = GarblerFields
           /\ s.yao[x].clientGates \in Ids(circ) /\ s.yao[x].outGates \in Ids(circ)
BY DEF IsYao, IsGarbler

LEMMA EvaluatorLists ==
    ASSUME NEW p, NEW s, IsYao(p, circ, s.yao), NEW x \in Yao, ~Garbles(p, x)
    PROVE  /\ DOMAIN s.yao = Yao /\ DOMAIN s.yao[x] = EvaluatorFields
           /\ s.yao[x].serverGates \in Ids(circ) /\ s.yao[x].sndGates \in Ids(circ)
           /\ s.yao[x].rcvGates \in Seq(Nat)
BY DEF IsYao, IsEvaluator

-------------------------------------------------------------------------------
(***************************************************************************)
(* The garbler, gate by gate.                                              *)
(***************************************************************************)
\* A field that is no list of gates.
LEMMA GarblerCounts ==
    ASSUME NEW p, NEW s, IsYao(p, circ, s.yao), NEW u, Moves(circ, s, u), NEW x \in Yao, Garbles(p, x),
           NEW v, NEW t,
           \/ t = [u EXCEPT !.yao[x].permCtr = v]
           \/ t = [u EXCEPT !.yao[x].destCtr = v]
           \/ t = [u EXCEPT !.yao[x].tables = v]
           \/ t = [u EXCEPT !.yao[x].univ = v]
           \/ t = [u EXCEPT !.yao[x].dests = v]
           \/ t = [u EXCEPT !.yao[x].keyCtr = v]
           \/ t = [u EXCEPT !.yao[x].keySnd = v]
           \/ t = [u EXCEPT !.yao[x].serverSnd = v]
           \/ t = [u EXCEPT !.yao[x].clientInCtr = v]
    PROVE  YaoRuns(p, s, t)
<1> DEFINE o == s.yao[x]
<1>1. IsStore(circ, u) /\ u.yao = s.yao /\ u.yao[x] = o
  BY DEF Moves, KeepsValues, KeepsSides
<1>2. /\ DOMAIN o = GarblerFields /\ o.clientGates \in Ids(circ) /\ o.outGates \in Ids(circ)
  BY GarblerLists
<1>3. PICK f \in {"permCtr", "destCtr", "tables", "univ", "dests", "keyCtr", "keySnd", "serverSnd", "clientInCtr"} :
          t = SetYao(u, x, [o EXCEPT ![f] = v])
  BY <1>1 DEF SetYao
<1> DEFINE y == [o EXCEPT ![f] = v]
<1>4. DOMAIN y = DOMAIN o /\ y.clientGates = o.clientGates /\ y.outGates = o.outGates
  BY <1>2 DEF GarblerFields
<1> HIDE DEF y, o
<1>5. t = SetYao(u, x, y)
  BY <1>3 DEF y, o
<1>6. YaoRuns(p, s, SetYao(u, x, y))
  BY <1>2, <1>4, GarblerSet DEF o
<1> QED BY <1>5, <1>6

LEMMA GarbleServerInputRuns ==
    ASSUME HasGatesInOrder(circ), NEW x \in Yao, NEW p, Garbles(p, x), NEW s,
           IsStore(circ, s), IsYao(p, circ, s.yao), NEW i
    PROVE  YaoRuns(p, s, Garbling!GarbleServerInput(x, s, i))
<1> DEFINE n == Garbling!Gate(i).nvals
           at == s.yao[x].permCtr
           v == [k \in 1 .. n |-> [key |-> Garbling!ServerInputKey(x, at + k), pi |-> Garbling!PermBit(x, at + k)]]
           u == Garbling!Assign(s, i, v)
           t == [u EXCEPT !.yao[x].permCtr = @ + n]
<1>1. Garbling!GarbleServerInput(x, s, i) = t
  BY DEF Garbling!GarbleServerInput
<1>2. u = Assign(s, i, v)
  BY GarblingIsOne
<1> HIDE DEF v, n, u
<1>3. Moves(circ, s, u)
  BY <1>2, AssignMoves
<1>4. YaoRuns(p, s, t)
  BY <1>3, GarblerCounts, Zenon
<1> QED BY <1>1, <1>4

LEMMA GarbleClientInputRuns ==
    ASSUME HasGatesInOrder(circ), NEW x \in Yao, NEW p, Garbles(p, x), NEW s,
           IsStore(circ, s), IsYao(p, circ, s.yao), NEW i \in Newer(circ), NEW permuted
    PROVE  YaoRuns(p, s, Garbling!GarbleClientInput(x, s, i, permuted))
<1> DEFINE n == Garbling!Gate(i).nvals
           y == s.yao[x]
           wireOf(k) == [key |-> Garbling!ClientInputKey(x, y.clientInCtr + k),
                    pi |-> IF permuted THEN Garbling!PermBit(x, y.permCtr + k) ELSE 0]
           v == [k \in 1 .. n |-> wireOf(k)]
           u == Garbling!Assign(s, i, v)
           z == [y EXCEPT
                    !.clientInCtr = y.clientInCtr + n, !.clientGates = Append(y.clientGates, i),
                    !.permCtr = y.permCtr + (IF permuted THEN n ELSE 0)]
           t == [u EXCEPT !.yao[x] = z]
<1>1. Garbling!GarbleClientInput(x, s, i, permuted) = t
  BY DEF Garbling!GarbleClientInput
<1>2. u = Assign(s, i, v)
  BY GarblingIsOne
<1> HIDE DEF v, n, u
<1>3. Moves(circ, s, u) /\ u.yao = s.yao
  BY <1>2, AssignMoves DEF Moves, KeepsSides
<1>4. /\ DOMAIN y = GarblerFields /\ y.clientGates \in Ids(circ) /\ y.outGates \in Ids(circ)
  BY GarblerLists
<1>5. DOMAIN z = DOMAIN y /\ z.clientGates = Append(y.clientGates, i) /\ z.outGates = y.outGates
  BY <1>4 DEF GarblerFields
<1>6. t = SetYao(u, x, z)
  BY DEF SetYao
<1> HIDE DEF z, t, y
<1>7. z.clientGates \in Ids(circ)
  BY <1>4, <1>5, AppendIds
<1>8. YaoRuns(p, s, t)
  BY <1>3, <1>4, <1>5, <1>6, <1>7, GarblerSet, Zenon DEF y
<1> QED BY <1>1, <1>8

LEMMA GarbleConversionRuns ==
    ASSUME HasGatesInOrder(circ), NEW x \in Yao, NEW p, Garbles(p, x), NEW s,
           IsStore(circ, s), IsYao(p, circ, s.yao), NEW i \in Newer(circ)
    PROVE  YaoRuns(p, s, Garbling!GarbleConversion(x, s, i))
<1> DEFINE b == Garbling!ParentContext(Garbling!Gate(i)) # "ARITH"
<1>1. \/ Garbling!GarbleConversion(x, s, i) = Garbling!GarbleServerInput(x, s, i)
      \/ Garbling!GarbleConversion(x, s, i) = Garbling!GarbleClientInput(x, s, i, b)
  BY DEF Garbling!GarbleConversion
<1> HIDE DEF b
<1> QED BY <1>1, GarbleServerInputRuns, GarbleClientInputRuns

LEMMA GarbleGateRuns ==
    ASSUME HasGatesInOrder(circ), NEW x \in Yao, NEW p, Garbles(p, x), NEW s,
           IsStore(circ, s), IsYao(p, circ, s.yao), NEW i \in Newer(circ), NEW v, NEW w, NEW t,
           \/ t = Garbling!Computed(s, i, v)
           \/ t = [Garbling!Computed(s, i, v) EXCEPT !.yao[x].tables = @ \o w]
           \/ t = [Garbling!Computed(s, i, v) EXCEPT !.yao[x].univ = @ \o w]
           \/ t = [Garbling!Computed(s, i, v) EXCEPT !.yao[x].dests = Append(@, w)]
    PROVE  YaoRuns(p, s, t)
<1> DEFINE u == Garbling!Computed(s, i, v)
<1>1. u = Computed(s, i, v)
  BY GarblingIsOne
<1> HIDE DEF u
<1>2. Moves(circ, s, u)
  BY <1>1, ComputedMoves
<1>3. \/ t = u
      \/ t = [u EXCEPT !.yao[x].tables = u.yao[x].tables \o w]
      \/ t = [u EXCEPT !.yao[x].univ = u.yao[x].univ \o w]
      \/ t = [u EXCEPT !.yao[x].dests = Append(u.yao[x].dests, w)]
  BY Zenon DEF u
<1>4. YaoRuns(p, s, u)
  BY <1>2, YaoStays, YaoRunsMove
<1> DEFINE a == u.yao[x].tables \o w
           b == u.yao[x].univ \o w
           c == Append(u.yao[x].dests, w)
<1>5. \/ t = u \/ t = [u EXCEPT !.yao[x].tables = a]
      \/ t = [u EXCEPT !.yao[x].univ = b] \/ t = [u EXCEPT !.yao[x].dests = c]
  BY <1>3, Zenon
<1> HIDE DEF a, b, c
<1>6. ASSUME t = [u EXCEPT !.yao[x].tables = a] PROVE YaoRuns(p, s, t)
  BY <1>2, <1>6, GarblerCounts, Zenon
<1>7. ASSUME t = [u EXCEPT !.yao[x].univ = b] PROVE YaoRuns(p, s, t)
  BY <1>2, <1>7, GarblerCounts, Zenon
<1>8. ASSUME t = [u EXCEPT !.yao[x].dests = c] PROVE YaoRuns(p, s, t)
  BY <1>2, <1>8, GarblerCounts, Zenon
<1> QED BY <1>4, <1>5, <1>6, <1>7, <1>8

LEMMA PrecomputeRuns ==
    ASSUME HasGatesInOrder(circ), NEW x \in Yao, NEW p, Garbles(p, x), NEW s,
           IsStore(circ, s), IsYao(p, circ, s.yao), NEW i \in Newer(circ)
    PROVE  YaoRuns(p, s, Garbling!PrecomputeGC(x, s, i))
<1> DEFINE g == Garbling!Gate(i)
           t == Garbling!PrecomputeGC(x, s, i)
           c == Len(s.yao[x].tables)
           ands == Garbling!GarbledBits(s, i, LAMBDA l, r, k : Garbling!HalfGates(x, l, r, c + k - 1))
           rows == Garbling!GarbledBits(s, i, LAMBDA l, r, k : Garbling!GarbledRows(x, l, r, g.gs))
           parent == s.val[g.ins[1]]
           pis == [k \in DOMAIN parent |-> parent[k].pi]
<1>1. CASE g.type = "NON_LIN"
  <2>1. t = [Garbling!Computed(s, i, Garbling!Wires(ands)) EXCEPT !.yao[x].tables = @ \o Garbling!TablesOf(ands)]
    BY <1>1, Zenon DEF Garbling!PrecomputeGC, Garbling!GarbleAND, Garbling!Once
  <2> HIDE DEF t, ands
  <2>2. YaoRuns(p, s, t)
    BY <2>1, GarbleGateRuns, Zenon
  <2> QED BY <2>2 DEF t
<1>2. CASE g.type = "UNIV"
  <2>1. t = [Garbling!Computed(s, i, Garbling!Wires(rows)) EXCEPT !.yao[x].univ = @ \o Garbling!TablesOf(rows)]
    BY <1>2, Zenon DEF Garbling!PrecomputeGC, Garbling!GarbleUniversal, Garbling!Once
  <2> HIDE DEF t, rows
  <2>2. YaoRuns(p, s, t)
    BY <2>1, GarbleGateRuns, Zenon
  <2> QED BY <2>2 DEF t
<1>3. CASE g.type = "IN" /\ g.gs = "SERVER"
  <2>1. t = Garbling!GarbleServerInput(x, s, i)
    BY <1>3 DEF Garbling!PrecomputeGC
  <2> QED BY <2>1, GarbleServerInputRuns
<1>4. CASE g.type = "IN" /\ g.gs = "CLIENT"
  <2>1. t = Garbling!GarbleClientInput(x, s, i, FALSE)
    BY <1>4 DEF Garbling!PrecomputeGC
  <2> QED BY <2>1, GarbleClientInputRuns, Zenon
<1>5. CASE g.type = "CONV"
  <2>1. t = Garbling!GarbleConversion(x, s, i)
    BY <1>5 DEF Garbling!PrecomputeGC
  <2> QED BY <2>1, GarbleConversionRuns
<1>6. CASE g.type = "OUT"
  <2>1. t = [Garbling!Computed(s, i, pis) EXCEPT !.yao[x].dests = Append(@, g.gs)]
    BY <1>6, Zenon DEF Garbling!PrecomputeGC, Garbling!GarbleOutput
  <2> HIDE DEF t, pis, g
  <2>2. YaoRuns(p, s, t)
    BY <2>1, GarbleGateRuns, Zenon
  <2> QED BY <2>2 DEF t
<1>7. CASE g.type \notin {"NON_LIN", "UNIV", "IN", "CONV", "OUT"} \/ (g.type = "IN" /\ g.gs \notin {"SERVER", "CLIENT"})
  <2> DEFINE v == Garbling!GarbleLocal(s, g)
  <2>1. t = Garbling!Computed(s, i, v)
    BY <1>7, Zenon DEF Garbling!PrecomputeGC
  <2> HIDE DEF t, v
  <2>2. YaoRuns(p, s, t)
    BY <2>1, GarbleGateRuns
  <2> QED BY <2>2 DEF t
<1> HIDE DEF g
<1> QED BY <1>1, <1>2, <1>3, <1>4, <1>5, <1>6, <1>7

-------------------------------------------------------------------------------
(***************************************************************************)
(* Garbling a circuit.                                                     *)
(***************************************************************************)
GarbleKept(a, s, n, t) == YaoRuns(a[1], s, t)
GarbleOneOf(a, t, i) == Garbling!PrecomputeGC(a[2], t, i)
GarbleAll == INSTANCE Folding WITH Op <- GarbleOneOf, Inv <- GarbleKept

LEMMA GarblingOrder ==
    ASSUME HasGatesInOrder(circ), HasLayers(circ), NEW x \in Yao
    PROVE  Garbling!Concat([d \in 1 .. circ.maxdepth[x] |->
               Garbling!QueueOnLvl(circ.local[x], d - 1) \o Garbling!QueueOnLvl(circ.interactive[x], d - 1)])
                   \in Ids(circ)
<1> DEFINE ss == [d \in 1 .. circ.maxdepth[x] |->
               Garbling!QueueOnLvl(circ.local[x], d - 1) \o Garbling!QueueOnLvl(circ.interactive[x], d - 1)]
<1>1. x \in ToSet(Sharings) /\ circ.maxdepth[x] \in Nat
  <2>1. x \in ToSet(Sharings)
    BY DEF ToSet, Sharings, Yao
  <2> QED BY <2>1, Zenon DEF HasLayers
<1>2. ASSUME NEW d \in 1 .. circ.maxdepth[x] PROVE ss[d] \in Ids(circ)
  <2>1. d - 1 \in Nat
    OBVIOUS
  <2>2. QueueOnLvl(circ.local[x], d - 1) \in Ids(circ)
    BY <1>1, <2>1, LocalQueue
  <2>3. QueueOnLvl(circ.interactive[x], d - 1) \in Ids(circ)
    BY <1>1, <2>1, QueueAsks, Zenon DEF Queue
  <2>4. ss[d] = QueueOnLvl(circ.local[x], d - 1) \o QueueOnLvl(circ.interactive[x], d - 1)
    BY GarblingIsOne, Zenon
  <2> HIDE DEF ss
  <2> QED BY <2>2, <2>3, <2>4 DEF Ids
<1>3. Len(ss) = circ.maxdepth[x]
  BY <1>1
<1>4. Garbling!Concat(ss) = Concat(ss)
  BY DEF Garbling!Concat, Concat, Garbling!Through, Through, Garbling!Once, Once
<1> HIDE DEF ss
<1>5. Concat(ss) \in Ids(circ)
  BY <1>1, <1>2, <1>3, ConcatIds
<1>6. Garbling!Concat(ss) \in Ids(circ)
  BY <1>4, <1>5
<1> QED BY <1>6 DEF ss

LEMMA GarbledRuns ==
    ASSUME HasGatesInOrder(circ), NEW x \in Yao, NEW p, Garbles(p, x), NEW s,
           IsStore(circ, s), IsYao(p, circ, s.yao), NEW q \in Ids(circ)
    PROVE  YaoRuns(p, s, GarbleAll!ThroughAll(<<p, x>>, s, q))
<1> DEFINE a == <<p, x>>
<1>1. a[1] = p /\ a[2] = x /\ Len(q) \in Nat /\ \A n \in 1 .. Len(q) : q[n] \in Newer(circ)
  BY DEF Ids
<1> HIDE DEF a
<1>2. GarbleKept(a, s, 0, s)
  BY <1>1, YaoStays DEF GarbleKept
<1>3. GarbleAll!Kept(a, s, q)
  <2>1. ASSUME NEW i \in Newer(circ), NEW t, YaoRuns(p, s, t)
        PROVE  YaoRuns(p, s, Garbling!PrecomputeGC(x, t, i))
    <3>1. IsStore(circ, t) /\ IsYao(p, circ, t.yao)
      BY <2>1, YaoRunsOn
    <3>2. YaoRuns(p, t, Garbling!PrecomputeGC(x, t, i))
      BY <3>1, PrecomputeRuns
    <3> QED BY <2>1, <3>2, YaoRunsThen
  <2> QED BY <1>1, <2>1 DEF GarbleAll!Kept, GarbleKept, GarbleOneOf
<1>5. GarbleKept(a, s, Len(q), GarbleAll!ThroughAll(a, s, q))
  BY <1>1, <1>2, <1>3, LeastNat, GarbleAll!ThroughInvariant
<1> QED BY <1>1, <1>5 DEF GarbleKept, a

LEMMA GarblerSetup ==
    ASSUME HasGatesInOrder(circ), HasLayers(circ), NEW x \in Yao, NEW p, Garbles(p, x), NEW s,
           IsStore(circ, s), IsYao(p, circ, s.yao)
    PROVE  YaoRuns(p, s, Garbling!PerformSetupPhase(x, s))
<1> DEFINE q == Garbling!Concat([d \in 1 .. circ.maxdepth[x] |->
               Garbling!QueueOnLvl(circ.local[x], d - 1) \o Garbling!QueueOnLvl(circ.interactive[x], d - 1)])
           u == GarbleAll!ThroughAll(<<p, x>>, s, q)
           t == [u EXCEPT !.yao[x].permCtr = 0, !.yao[x].clientInCtr = 0, !.yao[x].destCtr = 0]
           o == u.yao[x]
           y == [o EXCEPT !.permCtr = 0, !.clientInCtr = 0, !.destCtr = 0]
<1>1. Garbling!PerformSetupPhase(x, s) = t
  <2>1. \A ids : Garbling!Through(LAMBDA z, i : Garbling!PrecomputeGC(x, z, i), s, ids)
                     = GarbleAll!ThroughAll(<<p, x>>, s, ids)
    BY DEF Garbling!Through, Garbling!Once, GarbleAll!ThroughAll, GarbleOneOf
  <2> QED BY <2>1, Zenon DEF Garbling!PerformSetupPhase
<1>2. q \in Ids(circ)
  BY GarblingOrder
<1> HIDE DEF q
<1>3. YaoRuns(p, s, u)
  BY <1>2, GarbledRuns
<1> HIDE DEF u
<1>4. IsStore(circ, u) /\ IsYao(p, circ, u.yao)
  BY <1>3, YaoRunsOn
<1>5. DOMAIN u.yao = Yao /\ DOMAIN o = GarblerFields /\ o.clientGates \in Ids(circ) /\ o.outGates \in Ids(circ)
  BY <1>4, GarblerLists
<1>6. t = SetYao(u, x, y)
  BY <1>4, <1>5, Zenon DEF SetYao, IsStore, Common, Sides, GarblerFields
<1>7. DOMAIN y = DOMAIN o /\ y.clientGates = o.clientGates /\ y.outGates = o.outGates
  BY <1>5 DEF GarblerFields
<1> HIDE DEF y, t
<1>8. YaoRuns(p, u, t)
  BY <1>4, <1>5, <1>6, <1>7, MovesNot, GarblerSet
<1>9. YaoRuns(p, s, t)
  BY <1>3, <1>8, YaoRunsThen
<1> QED BY <1>1, <1>9

-------------------------------------------------------------------------------
(***************************************************************************)
(* A layer of the garbler.                                                 *)
(***************************************************************************)
LEMMA SendServerInputKeyRuns ==
    ASSUME NEW x \in Yao, NEW p, Garbles(p, x), NEW s, IsStore(circ, s), IsYao(p, circ, s.yao), NEW i, NEW bits
    PROVE  YaoRuns(p, s, Garbling!SendServerInputKey(x, s, i, bits))
<1> DEFINE at == s.yao[x].permCtr
           key(k) == Garbling!XorBits(Garbling!ServerInputKey(x, at + k),
                         Garbling!If((bits[k] + Garbling!PermBit(x, at + k)) % 2, Garbling!GlobalKey(x)))
           keys == [k \in DOMAIN bits |-> key(k)]
           o == s.yao[x]
           y == [o EXCEPT !.serverSnd = o.serverSnd \o keys, !.permCtr = o.permCtr + Len(bits)]
           t == [s EXCEPT !.yao[x].serverSnd = @ \o keys, !.yao[x].permCtr = @ + Len(bits)]
<1>1. Garbling!SendServerInputKey(x, s, i, bits) = t
  BY DEF Garbling!SendServerInputKey
<1> HIDE DEF keys
<1>2. DOMAIN s.yao = Yao /\ DOMAIN o = GarblerFields /\ o.clientGates \in Ids(circ) /\ o.outGates \in Ids(circ)
  BY GarblerLists
<1>3. t = SetYao(s, x, y)
  BY <1>2, Zenon DEF SetYao, IsStore, Common, Sides, GarblerFields
<1>4. DOMAIN y = DOMAIN o /\ y.clientGates = o.clientGates /\ y.outGates = o.outGates
  BY <1>2 DEF GarblerFields
<1> HIDE DEF y, t
<1>5. YaoRuns(p, s, t)
  BY <1>2, <1>3, <1>4, MovesNot, GarblerSet
<1> QED BY <1>1, <1>5

LEMMA SendClientInputKeyRuns ==
    ASSUME NEW x \in Yao, NEW p, Garbles(p, x), NEW s, IsStore(circ, s), IsYao(p, circ, s.yao), NEW i \in Newer(circ)
    PROVE  YaoRuns(p, s, Garbling!SendClientInputKey(x, s, i))
<1> DEFINE n == Garbling!Gate(i).nvals
           o == s.yao[x]
           y == [o EXCEPT !.clientInCtr = o.clientInCtr + n, !.clientGates = Append(o.clientGates, i)]
           t == [s EXCEPT !.yao[x].clientInCtr = @ + n, !.yao[x].clientGates = Append(@, i)]
<1>1. Garbling!SendClientInputKey(x, s, i) = t
  BY DEF Garbling!SendClientInputKey
<1> HIDE DEF n
<1>2. DOMAIN s.yao = Yao /\ DOMAIN o = GarblerFields /\ o.clientGates \in Ids(circ) /\ o.outGates \in Ids(circ)
  BY GarblerLists
<1>3. t = SetYao(s, x, y)
  BY <1>2, Zenon DEF SetYao, IsStore, Common, Sides, GarblerFields
<1>4. DOMAIN y = DOMAIN o /\ y.clientGates = Append(o.clientGates, i) /\ y.outGates = o.outGates
  BY <1>2 DEF GarblerFields
<1> HIDE DEF y, t
<1>5. y.clientGates \in Ids(circ)
  BY <1>2, <1>4, AppendIds
<1>6. YaoRuns(p, s, t)
  BY <1>2, <1>3, <1>4, <1>5, MovesNot, GarblerSet, Zenon
<1> QED BY <1>1, <1>6

LEMMA SendConversionRuns ==
    ASSUME NEW x \in Yao, NEW p, Garbles(p, x), NEW s, IsStore(circ, s), IsYao(p, circ, s.yao), NEW i \in Newer(circ)
    PROVE  YaoRuns(p, s, Garbling!SendConversionValues(x, s, i))
<1> DEFINE g == Garbling!Gate(i)
           shares == s.val[g.ins[1]]
           bits == [k \in DOMAIN shares |-> Garbling!ShareBit(shares[k], g.gs)]
           r == Garbling!Reads(s, g.ins)
           t == Garbling!SendConversionValues(x, s, i)
<1>1. t = Garbling!SendServerInputKey(x, r, i, bits) \/ t = Garbling!SendClientInputKey(x, r, i)
  BY DEF Garbling!SendConversionValues
<1>2. r = Reads(s, g.ins)
  BY GarblingIsOne
<1> HIDE DEF bits, r, t
<1>3. YaoRuns(p, s, r)
  BY <1>2, ReadsMoves, YaoStays, YaoRunsMove
<1>4. IsStore(circ, r) /\ IsYao(p, circ, r.yao)
  BY <1>3, YaoRunsOn
<1>5. YaoRuns(p, r, t)
  BY <1>1, <1>4, SendServerInputKeyRuns, SendClientInputKeyRuns
<1>6. YaoRuns(p, s, t)
  BY <1>3, <1>5, YaoRunsThen
<1> QED BY <1>6 DEF t

LEMMA GarblerAwaitsOutput ==
    ASSUME NEW x \in Yao, NEW p, Garbles(p, x), NEW s, IsStore(circ, s), IsYao(p, circ, s.yao), NEW i \in Newer(circ)
    PROVE  YaoRuns(p, s, Garbling!AwaitOutput(x, s, i))
<1> DEFINE o == s.yao[x]
           b == o.dests[o.destCtr + 1] \in {"SERVER", "ALL"}
           n == o.destCtr + 1
           gates == IF b THEN Append(o.outGates, i) ELSE o.outGates
           y == [o EXCEPT !.destCtr = n, !.outGates = gates]
           t == Garbling!AwaitOutput(x, s, i)
<1>2. DOMAIN s.yao = Yao /\ DOMAIN o = GarblerFields /\ o.clientGates \in Ids(circ) /\ o.outGates \in Ids(circ)
  BY GarblerLists
<1>3. t = SetYao(s, x, y)
  BY <1>2, Zenon DEF Garbling!AwaitOutput, SetYao, IsStore, Common, Sides, GarblerFields
<1>4. gates \in Ids(circ)
  BY <1>2, AppendIds
<1> HIDE DEF b, n, gates
<1>5. DOMAIN y = DOMAIN o /\ y.clientGates = o.clientGates /\ y.outGates = gates
  BY <1>2 DEF GarblerFields
<1> HIDE DEF y, t
<1>6. YaoRuns(p, s, t)
  BY <1>2, <1>3, <1>4, <1>5, MovesNot, GarblerSet
<1> QED BY <1>6 DEF t

LEMMA GarblerEvaluatesOne ==
    ASSUME HasGatesInOrder(circ), NEW x \in Yao, NEW p, Garbles(p, x), NEW s, IsStore(circ, s),
           IsYao(p, circ, s.yao), NEW d, NEW i \in GatesAt(circ, x, d, TRUE)
    PROVE  YaoRuns(p, s, Garbling!EvaluateInteractive(x, s, i))
<1> DEFINE g == Gate(i)
           t == Garbling!EvaluateInteractive(x, s, i)
<1>0. x \in ToSet(Sharings)
  BY DEF ToSet, Sharings, Yao
<1>1. /\ i \in Newer(circ) /\ g.type \in {"IN", "OUT", "CONV"}
      /\ g.type = "IN" => g.gs \in {"SERVER", "CLIENT"}
  <2>1. Asks(x, i)
    BY <1>0, InteractiveTypes, Zenon
  <2> QED BY <2>1 DEF Asks, Yao, Party
<1>2. Garbling!Gate(i) = g
  BY GarblingIsOne
<1> HIDE DEF g
<1>3. CASE g.type = "IN" /\ g.gs = "SERVER"
  <2>1. t = Garbling!SendServerInputKey(x, s, i, clear[i])
    BY <1>2, <1>3 DEF Garbling!EvaluateInteractive
  <2> QED BY <2>1, SendServerInputKeyRuns
<1>4. CASE g.type = "IN" /\ g.gs = "CLIENT"
  <2>1. t = Garbling!SendClientInputKey(x, s, i)
    BY <1>2, <1>4 DEF Garbling!EvaluateInteractive
  <2> QED BY <1>1, <2>1, SendClientInputKeyRuns
<1>5. CASE g.type = "OUT"
  <2>1. t = Garbling!AwaitOutput(x, s, i)
    BY <1>2, <1>5 DEF Garbling!EvaluateInteractive
  <2> QED BY <1>1, <2>1, GarblerAwaitsOutput
<1>6. CASE g.type = "CONV"
  <2>1. t = Garbling!SendConversionValues(x, s, i) \/ t = Garbling!GarbleConversion(x, s, i)
    BY <1>2, <1>6 DEF Garbling!EvaluateInteractive
  <2> HIDE DEF t
  <2>2. YaoRuns(p, s, t)
    BY <1>1, <2>1, SendConversionRuns, GarbleConversionRuns
  <2> QED BY <2>2 DEF t
<1> QED BY <1>1, <1>3, <1>4, <1>5, <1>6

GarblerAskOne(a, t, i) == Garbling!EvaluateInteractive(a[2], t, i)
GarblerAsking == INSTANCE Folding WITH Op <- GarblerAskOne, Inv <- GarbleKept

LEMMA GarblerEvaluates ==
    ASSUME HasGatesInOrder(circ), HasLayers(circ), NEW x \in Yao, NEW p, Garbles(p, x), NEW s,
           IsStore(circ, s), IsYao(p, circ, s.yao), depth[p] \in Nat
    PROVE  YaoRuns(p, s, Garbling!EvaluateOperations(x, s))
<1> DEFINE q == Queue(x, depth[p])
           a == <<p, x>>
<1>1. Len(q) \in Nat /\ \A n \in 1 .. Len(q) : q[n] \in GatesAt(circ, x, depth[p], TRUE)
  <2>1. x \in ToSet(Sharings)
    BY DEF ToSet, Sharings, Yao
  <2> QED BY <2>1, QueueAsks, Zenon
<1>2. Garbling!EvaluateOperations(x, s) = GarblerAsking!ThroughAll(a, s, q)
  <2>1. Garbling!QueueOnLvl(circ.interactive[x], depth[Garbling!Me(x)]) = q
    BY GarblingIsOne DEF Queue, Garbling!Me, Garbles
  <2> HIDE DEF q
  <2>2. \A ids : Garbling!Through(LAMBDA z, i : Garbling!EvaluateInteractive(x, z, i), s, ids)
                     = GarblerAsking!ThroughAll(<<p, x>>, s, ids)
    BY DEF Garbling!Through, Garbling!Once, GarblerAsking!ThroughAll,
           GarblerAskOne
  <2> QED BY <2>1, <2>2, Zenon DEF Garbling!EvaluateOperations
<1>3. a[1] = p /\ a[2] = x
  OBVIOUS
<1> HIDE DEF q, a
<1>4. GarbleKept(a, s, 0, s)
  BY <1>3, YaoStays DEF GarbleKept
<1>5. GarblerAsking!Kept(a, s, q)
  <2>1. ASSUME NEW n \in 1 .. Len(q), NEW t, YaoRuns(p, s, t)
        PROVE  YaoRuns(p, s, Garbling!EvaluateInteractive(x, t, q[n]))
    <3>1. IsStore(circ, t) /\ IsYao(p, circ, t.yao)
      BY <2>1, YaoRunsOn
    <3>2. YaoRuns(p, t, Garbling!EvaluateInteractive(x, t, q[n]))
      BY <1>1, <3>1, GarblerEvaluatesOne, Zenon
    <3> QED BY <2>1, <3>2, YaoRunsThen
  <2> QED BY <1>3, <2>1 DEF GarblerAsking!Kept, GarbleKept, GarblerAskOne
<1>7. GarbleKept(a, s, Len(q), GarblerAsking!ThroughAll(a, s, q))
  BY <1>1, <1>4, <1>5, LeastNat, GarblerAsking!ThroughInvariant
<1> QED BY <1>2, <1>3, <1>7 DEF GarbleKept

-------------------------------------------------------------------------------
(***************************************************************************)
(* The end of a layer at the garbler.                                      *)
(***************************************************************************)
LEMMA PrepareKeysRuns ==
    ASSUME HasGatesInOrder(circ), NEW x \in Yao, NEW p, Garbles(p, x), NEW s,
           IsStore(circ, s), IsYao(p, circ, s.yao), NEW i \in Newer(circ)
    PROVE  YaoRuns(p, s, Garbling!PrepareKeys(x, s, i))
<1> DEFINE y == s.yao[x]
           g == Garbling!Gate(i)
           first == Len(y.keySnd)
           pairs == [k \in 1 .. g.nvals |->
                        Garbling!KeyPair(x, s, i, k, y.keyIdx + k, y.rcv.choices[first + k])]
           z == [y EXCEPT !.keySnd = y.keySnd \o pairs,
                          !.keyIdx = y.keyIdx + g.nvals, !.keyCtr = y.keyCtr + g.nvals]
           u == [s EXCEPT !.yao[x] = z]
           r == Garbling!Reads(u, g.ins)
           t == Garbling!PrepareKeys(x, s, i)
<1>1. t = u \/ t = Garbling!UsedGates(r, g.ins)
  BY DEF Garbling!PrepareKeys
<1>2. g = Gate(i) /\ r = Reads(u, g.ins) /\ Garbling!UsedGates(r, g.ins) = UsedGates(r, g.ins)
  BY GarblingIsOne
<1>3. Len(g.ins) \in Nat
  BY <1>2, Zenon DEF HasGatesInOrder, IsGate, Newer, Gate
<1> HIDE DEF pairs, g, r, t
<1>4. DOMAIN y = GarblerFields /\ y.clientGates \in Ids(circ) /\ y.outGates \in Ids(circ)
  BY GarblerLists
<1>5. DOMAIN z = DOMAIN y /\ z.clientGates = y.clientGates /\ z.outGates = y.outGates
  BY <1>4 DEF GarblerFields
<1>6. u = SetYao(s, x, z)
  BY DEF SetYao
<1> HIDE DEF z, u, y
<1>7. YaoRuns(p, s, u)
  BY <1>4, <1>5, <1>6, MovesNot, GarblerSet DEF y
<1>8. IsStore(circ, u)
  BY <1>7, YaoRunsOn
<1>9. Moves(circ, u, r) /\ IsStore(circ, r)
  BY <1>2, <1>8, ReadsMoves DEF Moves, KeepsValues
<1>10. Moves(circ, u, UsedGates(r, g.ins))
  BY <1>3, <1>9, UsedGatesMoves, MovesOn
<1>11. YaoRuns(p, s, t)
  BY <1>1, <1>2, <1>7, <1>10, YaoRunsMove
<1> QED BY <1>11 DEF t

\* Places that ascend are no less than their numbers.
LEMMA AscendingPlaces ==
    ASSUME NEW n \in Nat, NEW at \in Seq(Nat), NEW S \in SUBSET (1 .. n), Picks(at, S)
    PROVE  Len(at) \in 0 .. n
<1> DEFINE T == {k \in 0 .. Len(at) : k = 0 \/ at[k] >= k}
<1>1. Len(at) \in Nat /\ \A k \in 1 .. Len(at) : at[k] \in 1 .. n
  BY DEF Picks
<1>2. 0 \in T
  BY <1>1
<1>3. ASSUME NEW m \in 1 .. Len(at), m - 1 \in T PROVE m \in T
  <2>1. CASE m = 1
    BY <1>1, <2>1
  <2>2. CASE m # 1
    <3>1. m - 1 \in 1 .. Len(at) /\ at[m - 1] >= m - 1 /\ m - 1 < m
      BY <1>1, <1>3, <2>2
    <3>2. at[m - 1] < at[m]
      BY <3>1, Zenon DEF Picks
    <3>3. at[m] \in Nat /\ at[m - 1] \in Nat
      BY <1>1, <3>1
    <3> QED BY <3>1, <3>2, <3>3
  <2> QED BY <2>1, <2>2
<1>4. Len(at) \in 0 .. Len(at)
  BY <1>1
<1>5. Len(at) \in T
  <2> HIDE DEF T
  <2> QED BY <1>1, <1>2, <1>3, <1>4, UpToInduction, Zenon
<1>6. CASE Len(at) = 0
  BY <1>6
<1>7. CASE Len(at) # 0
  <2>1. Len(at) \in 1 .. Len(at)
    BY <1>1, <1>7
  <2> QED BY <1>1, <1>5, <1>7, <2>1
<1> QED BY <1>6, <1>7

LEMMA GatesOfLayerAre ==
    ASSUME NEW y, y.clientGates \in Ids(circ)
    PROVE  LET ids == [m \in DOMAIN Garbling!GatesOfLayer(y) |-> y.clientGates[m]]
           IN  Len(ids) \in Nat /\ \A m \in 1 .. Len(ids) : ids[m] \in Newer(circ)
<1> DEFINE o == y.clientGates
           all == [m \in DOMAIN o |-> m]
           S == {k \in DOMAIN all : Garbling!SumNvals(circ, SubSeq(o, 1, all[k] - 1)) < y.clientInCtr}
           at == InOrder(S, Len(all))
           f == [k \in DOMAIN at |-> all[at[k]]]
           ids == [m \in DOMAIN Garbling!GatesOfLayer(y) |-> o[m]]
<1>1. Garbling!GatesOfLayer(y) = Listed(f)
  <2>1. Garbling!InOrder(S, Len(all)) = at
    BY DEF Garbling!InOrder, InOrder, Garbling!Through, Through, Garbling!Once, Once
  <2> DEFINE gat == Garbling!InOrder(S, Len(all))
  <2>2. Garbling!GatesOfLayer(y) = Garbling!Listed([k \in DOMAIN gat |-> all[gat[k]]])
    BY DEF Garbling!GatesOfLayer, Garbling!Selected
  <2> HIDE DEF at, gat, all, S
  <2>3. gat = at
    BY <2>1 DEF gat
  <2> QED BY <2>2, <2>3 DEF Garbling!Listed, Listed
<1>2. Len(o) \in Nat /\ DOMAIN o = 1 .. Len(o) /\ \A m \in DOMAIN o : o[m] \in Newer(circ)
  BY DEF Ids
<1>3. Len(all) = Len(o) /\ S \in SUBSET (1 .. Len(o))
  BY <1>2
<1>4. Picks(at, S) /\ at \in Seq(Nat)
  <2> HIDE DEF S, all, o
  <2> QED BY <1>2, <1>3, InOrderPicks
<1> HIDE DEF S, o
<1>5. Len(at) \in 0 .. Len(o)
  <2> HIDE DEF at
  <2> QED BY <1>2, <1>3, <1>4, AscendingPlaces
<1>6. DOMAIN at = 1 .. Len(at)
  BY <1>4
<1> HIDE DEF at
<1>7. f \in Seq({f[k] : k \in 1 .. Len(at)}) /\ Len(f) = Len(at)
  BY <1>5, <1>6
<1> HIDE DEF f
<1>8. Len(Listed(f)) = Len(at) /\ DOMAIN Listed(f) = 1 .. Len(at)
  <2>1. Len(at) \in Nat
    BY <1>2, <1>5
  <2> QED BY <1>7, <2>1 DEF Listed
<1>9. ids = [m \in 1 .. Len(at) |-> o[m]]
  BY <1>1, <1>8
<1> HIDE DEF ids
<1>10. Len(ids) = Len(at) /\ \A m \in 1 .. Len(at) : ids[m] \in Newer(circ)
  BY <1>2, <1>5, <1>9
<1>11. Len(ids) \in Nat /\ \A m \in 1 .. Len(ids) : ids[m] \in Newer(circ)
  BY <1>2, <1>5, <1>10
<1> QED BY <1>11 DEF ids, o

PrepareOne(a, t, i) == Garbling!PrepareKeys(a[2], t, i)
Preparing == INSTANCE Folding WITH Op <- PrepareOne, Inv <- GarbleKept

LEMMA PreparedRuns ==
    ASSUME HasGatesInOrder(circ), NEW x \in Yao, NEW p, Garbles(p, x), NEW s,
           IsStore(circ, s), IsYao(p, circ, s.yao), NEW q, Len(q) \in Nat,
           \A n \in 1 .. Len(q) : q[n] \in Newer(circ)
    PROVE  YaoRuns(p, s, Preparing!ThroughAll(<<p, x>>, s, q))
<1> DEFINE a == <<p, x>>
<1>1. a[1] = p /\ a[2] = x
  OBVIOUS
<1> HIDE DEF a
<1>2. GarbleKept(a, s, 0, s)
  BY <1>1, YaoStays DEF GarbleKept
<1>3. Preparing!Kept(a, s, q)
  <2>1. ASSUME NEW i \in Newer(circ), NEW t, YaoRuns(p, s, t)
        PROVE  YaoRuns(p, s, Garbling!PrepareKeys(x, t, i))
    <3>1. IsStore(circ, t) /\ IsYao(p, circ, t.yao)
      BY <2>1, YaoRunsOn
    <3>2. YaoRuns(p, t, Garbling!PrepareKeys(x, t, i))
      BY <3>1, PrepareKeysRuns
    <3> QED BY <2>1, <3>2, YaoRunsThen
  <2> QED BY <1>1, <2>1 DEF Preparing!Kept, GarbleKept, PrepareOne
<1>5. GarbleKept(a, s, Len(q), Preparing!ThroughAll(a, s, q))
  BY <1>2, <1>3, LeastNat, Preparing!ThroughInvariant
<1> QED BY <1>1, <1>5 DEF GarbleKept, a

\* The bits of an output that is there get the other party's part.
LEMMA FlipMoves ==
    ASSUME NEW s, IsStore(circ, s), NEW i \in Newer(circ), NEW bits
    PROVE  Moves(circ, s, Garbling!AssignOutputShare(s, i, bits))
<1> DEFINE o == s.val[i]
           v == [k \in DOMAIN o |-> (o[k] + bits[k]) % 2]
           w == SubSeq(v, 1, Len(v))
           t == Garbling!AssignOutputShare(s, i, bits)
<1>1. t = [s EXCEPT !.val = [s.val EXCEPT ![i] = w]]
  BY DEF Garbling!AssignOutputShare, Garbling!Listed
<1>2. DOMAIN o = 1 .. Len(o) /\ Len(o) \in Nat
  <2>1. Len(o) \in Nat
    BY DEF IsStore
  <2> QED BY <2>1 DEF IsStore
<1>3. Len(v) = Len(o) /\ v \in Seq({v[k] : k \in 1 .. Len(o)})
  BY <1>2
<1> HIDE DEF v
<1>4. Len(w) = Len(o) /\ DOMAIN w = 1 .. Len(w)
  BY <1>2, <1>3
<1> HIDE DEF w, o, t
<1>5. /\ DOMAIN t = DOMAIN s /\ t.live = s.live /\ t.val = [s.val EXCEPT ![i] = w]
      /\ t.bool = s.bool /\ t.arith = s.arith /\ t.lut = s.lut /\ t.yao = s.yao
  BY <1>1 DEF IsStore, Common, Sides
<1>6. /\ DOMAIN t.val = DOMAIN s.val /\ t.val[i] = w
      /\ \A j : j # i => t.val[j] = s.val[j] \/ j \notin DOMAIN s.val
  BY <1>5 DEF IsStore
<1>7. IsStore(circ, t) /\ \A j : HasValue(circ, s, j) => HasValue(circ, t, j)
  BY <1>4, <1>5, <1>6 DEF IsStore, HasValue, o
<1>8. Moves(circ, s, t)
  BY <1>5, <1>7 DEF Moves, KeepsValues, KeepsSides
<1> QED BY <1>8 DEF t

GarblerOutputOne(a, t, m) ==
    Garbling!AssignOutputShare(t, a.outGates[m], Garbling!Stretch(a.outGates, m, a.rcv.out))
GarblerOutputs == INSTANCE Folding WITH Op <- GarblerOutputOne, Inv <- OnlyMoves

LEMMA GarblerOutputsMove ==
    ASSUME HasGatesInOrder(circ), NEW x \in Yao, NEW p, Garbles(p, x), NEW s,
           IsStore(circ, s), IsYao(p, circ, s.yao)
    PROVE  Moves(circ, s, Garbling!AssignOutputShares(x, s))
<1> DEFINE a == s.yao[x]
           q == Places(a.outGates)
<1>1. /\ Len(q) = Len(a.outGates) /\ Len(q) \in Nat
      /\ \A m \in 1 .. Len(q) : q[m] = m /\ a.outGates[m] \in Newer(circ)
  <2>1. a.outGates \in Ids(circ)
    BY GarblerLists
  <2> HIDE DEF a
  <2> QED BY <2>1, PlacesAre
<1>2. Garbling!AssignOutputShares(x, s) = GarblerOutputs!ThroughAll(a, s, q)
  BY DEF Garbling!AssignOutputShares, Garbling!Through, Garbling!Once, GarblerOutputs!ThroughAll,
         GarblerOutputOne, Places
<1> HIDE DEF q, a
<1>3. OnlyMoves(a, s, 0, s)
  BY MovesNot DEF OnlyMoves
<1>4. GarblerOutputs!Kept(a, s, q)
  <2>1. ASSUME NEW m \in 1 .. Len(q), NEW t, Moves(circ, s, t)
        PROVE  Moves(circ, s, GarblerOutputOne(a, t, m))
    <3> DEFINE i == a.outGates[m]
               bits == Garbling!Stretch(a.outGates, m, a.rcv.out)
               u == Garbling!AssignOutputShare(t, i, bits)
    <3>1. i \in Newer(circ) /\ IsStore(circ, t)
      BY <1>1, <2>1 DEF Moves, KeepsValues
    <3>2. GarblerOutputOne(a, t, m) = u
      BY DEF GarblerOutputOne
    <3> HIDE DEF i, bits
    <3>3. Moves(circ, t, u)
      BY <3>1, FlipMoves
    <3> HIDE DEF u
    <3> QED BY <2>1, <3>2, <3>3, MovesOn
  <2> QED BY <1>1, <2>1 DEF GarblerOutputs!Kept, OnlyMoves
<1>6. OnlyMoves(a, s, Len(q), GarblerOutputs!ThroughAll(a, s, q))
  BY <1>1, <1>3, <1>4, LeastNat, GarblerOutputs!ThroughInvariant
<1> QED BY <1>2, <1>6 DEF OnlyMoves

LEMMA GarblerFinishes ==
    ASSUME HasGatesInOrder(circ), NEW x \in Yao, NEW p, Garbles(p, x), NEW s,
           IsStore(circ, s), IsYao(p, circ, s.yao)
    PROVE  YaoRuns(p, s, Garbling!FinishCircuitLayer(x, s))
<1> DEFINE y == s.yao[x]
           ids == [m \in DOMAIN Garbling!GatesOfLayer(y) |-> y.clientGates[m]]
           begun == [s EXCEPT !.yao[x].keySnd = <<>>]
           keys == Preparing!ThroughAll(<<p, x>>, begun, ids)
           b == y.clientInCtr > 0
           u == IF b THEN keys ELSE s
           v == Garbling!AssignOutputShares(x, u)
           o == v.yao[x]
           z == [o EXCEPT !.clientGates = <<>>, !.clientInCtr = 0, !.outGates = <<>>,
                          !.serverSnd = <<>>, !.rcv = <<>>]
           t == SetYao(v, x, z)
<1>1. Garbling!FinishCircuitLayer(x, s) = t
  <2>1. \A w, q : Garbling!Through(LAMBDA r, i : Garbling!PrepareKeys(x, r, i), w, q)
                      = Preparing!ThroughAll(<<p, x>>, w, q)
    BY DEF Garbling!Through, Garbling!Once, Preparing!ThroughAll, PrepareOne
  <2> QED BY <2>1, Zenon DEF Garbling!FinishCircuitLayer, SetYao
<1>2. Len(ids) \in Nat /\ \A m \in 1 .. Len(ids) : ids[m] \in Newer(circ)
  <2>1. y.clientGates \in Ids(circ)
    BY GarblerLists
  <2> HIDE DEF y
  <2> QED BY <2>1, GatesOfLayerAre, Zenon
<1> HIDE DEF ids
<1>3. YaoRuns(p, s, begun)
  BY MovesNot, GarblerCounts, Zenon
<1>4. IsStore(circ, begun) /\ IsYao(p, circ, begun.yao)
  BY <1>3, YaoRunsOn, Zenon
<1> HIDE DEF begun
<1>5. YaoRuns(p, begun, keys)
  BY <1>2, <1>4, PreparedRuns
<1> HIDE DEF keys, b
<1>6. YaoRuns(p, s, u)
  BY <1>3, <1>5, YaoRunsThen, YaoStays
<1>7. IsStore(circ, u) /\ IsYao(p, circ, u.yao)
  BY <1>6, YaoRunsOn
<1> HIDE DEF u
<1>8. Moves(circ, u, v)
  BY <1>7, GarblerOutputsMove
<1> HIDE DEF v
<1>9. YaoRuns(p, s, v)
  BY <1>6, <1>8, YaoRunsMove
<1>10. IsStore(circ, v) /\ IsYao(p, circ, v.yao)
  BY <1>9, YaoRunsOn
<1>11. DOMAIN o = GarblerFields
  BY <1>10, GarblerLists
<1>12. DOMAIN z = DOMAIN o /\ z.clientGates = <<>> /\ z.outGates = <<>>
  BY <1>11 DEF GarblerFields
<1> HIDE DEF z
<1>13. YaoRuns(p, v, t)
  BY <1>10, <1>12, NoIds, MovesNot, GarblerSet
<1> HIDE DEF t
<1>14. YaoRuns(p, s, t)
  BY <1>9, <1>13, YaoRunsThen
<1> QED BY <1>1, <1>14

LEMMA GarblerDataSent ==
    ASSUME NEW x \in Yao, NEW p, Garbles(p, x), NEW s, IsStore(circ, s), IsYao(p, circ, s.yao)
    PROVE  YaoRuns(p, s, Garbling!DataSent(x, s))
<1> DEFINE t == [s EXCEPT !.yao[x].keyCtr = 0]
<1>1. Garbling!DataSent(x, s) = t
  BY DEF Garbling!DataSent
<1>2. YaoRuns(p, s, t)
  BY MovesNot, GarblerCounts, Zenon
<1> QED BY <1>1, <1>2

-------------------------------------------------------------------------------
(***************************************************************************)
(* The evaluator.                                                          *)
(***************************************************************************)
\* A record y of which t's is a copy, but for what is no list of gates.
LEMMA EvaluatorKeepsLists ==
    ASSUME NEW p, NEW s, IsYao(p, circ, s.yao), NEW u, Moves(circ, s, u), NEW x \in Yao, ~Garbles(p, x),
           NEW y, DOMAIN y = DOMAIN s.yao[x], y.serverGates = s.yao[x].serverGates,
           y.sndGates = s.yao[x].sndGates, y.rcvGates = s.yao[x].rcvGates
    PROVE  YaoRuns(p, s, SetYao(u, x, y))
BY EvaluatorLists, EvaluatorSet, Zenon

LEMMA EvaluatorLocalRuns ==
    ASSUME HasGatesInOrder(circ), NEW x \in Yao, NEW p, ~Garbles(p, x), NEW s,
           IsStore(circ, s), IsYao(p, circ, s.yao), NEW i \in Newer(circ)
    PROVE  YaoRuns(p, s, Evaluation!EvaluateLocal(x, s, i))
<1> DEFINE g == Evaluation!Gate(i)
           v == Evaluation!LocalKeys(x, s, g)
           u == Evaluation!Computed(s, i, v)
           n == IF g.type = "NON_LIN" THEN g.nvals ELSE 0
           m == IF g.type = "UNIV" THEN g.nvals ELSE 0
           o == s.yao[x]
           y == [o EXCEPT !.tableCtr = o.tableCtr + n, !.univCtr = o.univCtr + m]
           t == [u EXCEPT !.yao[x].tableCtr = @ + n, !.yao[x].univCtr = @ + m]
<1>1. Evaluation!EvaluateLocal(x, s, i) = t
  BY DEF Evaluation!EvaluateLocal
<1>2. u = Computed(s, i, v)
  BY EvaluationIsOne
<1> HIDE DEF g, v, u, n, m
<1>3. Moves(circ, s, u) /\ IsStore(circ, u) /\ u.yao = s.yao
  BY <1>2, ComputedMoves DEF Moves, KeepsValues, KeepsSides
<1>4. DOMAIN s.yao = Yao /\ DOMAIN o = EvaluatorFields
  BY EvaluatorLists
<1>5. t = SetYao(u, x, y)
  BY <1>3, <1>4, Zenon DEF SetYao, IsStore, Common, Sides, EvaluatorFields
<1>6. DOMAIN y = DOMAIN o /\ y.serverGates = o.serverGates /\ y.sndGates = o.sndGates /\ y.rcvGates = o.rcvGates
  BY <1>4 DEF EvaluatorFields
<1> HIDE DEF y, t
<1>7. YaoRuns(p, s, t)
  BY <1>3, <1>5, <1>6, EvaluatorKeepsLists
<1> QED BY <1>1, <1>7

LEMMA AwaitServerKeysRuns ==
    ASSUME NEW x \in Yao, NEW p, ~Garbles(p, x), NEW s, IsStore(circ, s), IsYao(p, circ, s.yao), NEW i \in Newer(circ)
    PROVE  YaoRuns(p, s, Evaluation!AwaitServerKeys(x, s, i))
<1> DEFINE o == s.yao[x]
           y == [o EXCEPT !.serverGates = Append(o.serverGates, i)]
           t == Evaluation!AwaitServerKeys(x, s, i)
<1>1. /\ DOMAIN s.yao = Yao /\ DOMAIN o = EvaluatorFields /\ o.serverGates \in Ids(circ)
      /\ o.sndGates \in Ids(circ) /\ o.rcvGates \in Seq(Nat)
  BY EvaluatorLists
<1>2. t = SetYao(s, x, y)
  BY DEF Evaluation!AwaitServerKeys, SetYao
<1>3. /\ DOMAIN y = DOMAIN o /\ y.serverGates = Append(o.serverGates, i) /\ y.sndGates = o.sndGates
      /\ y.rcvGates = o.rcvGates
  BY <1>1 DEF EvaluatorFields
<1> HIDE DEF y, t
<1>4. y.serverGates \in Ids(circ)
  BY <1>1, <1>3, AppendIds
<1>5. YaoRuns(p, s, t)
  BY <1>1, <1>2, <1>3, <1>4, MovesNot, EvaluatorSet, Zenon
<1> QED BY <1>5 DEF t

LEMMA ReceiveClientKeysRuns ==
    ASSUME NEW x \in Yao, NEW p, ~Garbles(p, x), NEW s, IsStore(circ, s), IsYao(p, circ, s.yao),
           NEW i \in Newer(circ), NEW bits
    PROVE  YaoRuns(p, s, Evaluation!ReceiveClientKeys(x, s, i, bits))
<1> DEFINE o == s.yao[x]
           y == [o EXCEPT !.sndOT = o.sndOT \o bits, !.sndGates = Append(o.sndGates, i)]
           t == Evaluation!ReceiveClientKeys(x, s, i, bits)
<1>1. /\ DOMAIN s.yao = Yao /\ DOMAIN o = EvaluatorFields /\ o.serverGates \in Ids(circ)
      /\ o.sndGates \in Ids(circ) /\ o.rcvGates \in Seq(Nat)
  BY EvaluatorLists
<1>2. t = SetYao(s, x, y)
  BY <1>1, Zenon DEF Evaluation!ReceiveClientKeys, SetYao, IsStore, Common, Sides, EvaluatorFields
<1>3. /\ DOMAIN y = DOMAIN o /\ y.serverGates = o.serverGates /\ y.sndGates = Append(o.sndGates, i)
      /\ y.rcvGates = o.rcvGates
  BY <1>1 DEF EvaluatorFields
<1> HIDE DEF y, t
<1>4. y.sndGates \in Ids(circ)
  BY <1>1, <1>3, AppendIds
<1>5. YaoRuns(p, s, t)
  BY <1>1, <1>2, <1>3, <1>4, MovesNot, EvaluatorSet, Zenon
<1> QED BY <1>5 DEF t

LEMMA ServerOutputRuns ==
    ASSUME NEW x \in Yao, NEW p, ~Garbles(p, x), NEW s, IsStore(circ, s), IsYao(p, circ, s.yao), NEW i
    PROVE  YaoRuns(p, s, Evaluation!EvaluateServerOutputGate(x, s, i))
<1> DEFINE g == Evaluation!Gate(i)
           u == Evaluation!Reads(s, g.ins)
           bits == Evaluation!LastBits(s.val[g.ins[1]])
           o == s.yao[x]
           y == [o EXCEPT !.outSnd = o.outSnd \o bits]
           t == [u EXCEPT !.yao[x].outSnd = @ \o bits]
<1>1. Evaluation!EvaluateServerOutputGate(x, s, i) = t
  BY DEF Evaluation!EvaluateServerOutputGate
<1>2. u = Reads(s, g.ins)
  BY EvaluationIsOne
<1> HIDE DEF g, u, bits
<1>3. Moves(circ, s, u) /\ IsStore(circ, u) /\ u.yao = s.yao
  BY <1>2, ReadsMoves DEF Moves, KeepsValues, KeepsSides
<1>4. DOMAIN s.yao = Yao /\ DOMAIN o = EvaluatorFields
  BY EvaluatorLists, Zenon
<1>5. t = SetYao(u, x, y)
  BY <1>3, <1>4 DEF SetYao, IsStore, Common, Sides, EvaluatorFields
<1>6. DOMAIN y = DOMAIN o /\ y.serverGates = o.serverGates /\ y.sndGates = o.sndGates /\ y.rcvGates = o.rcvGates
  BY <1>4 DEF EvaluatorFields
<1> HIDE DEF y, t
<1>7. YaoRuns(p, s, t)
  BY <1>3, <1>5, <1>6, EvaluatorKeepsLists
<1> QED BY <1>1, <1>7

LEMMA ClientOutputRuns ==
    ASSUME HasGatesInOrder(circ), NEW x \in Yao, NEW p, ~Garbles(p, x), NEW s,
           IsStore(circ, s), IsYao(p, circ, s.yao), NEW i \in Newer(circ)
    PROVE  YaoRuns(p, s, Evaluation!EvaluateClientOutputGate(x, s, i))
<1> DEFINE g == Evaluation!Gate(i)
           o == s.yao[x]
           pis == SubSeq(o.outShares, o.outBitCtr + 1, o.outBitCtr + g.nvals)
           v == Evaluation!XorBits(Evaluation!LastBits(s.val[g.ins[1]]), pis)
           u == Evaluation!Computed(s, i, v)
           n == g.nvals
           y == [o EXCEPT !.outBitCtr = o.outBitCtr + n]
           t == [u EXCEPT !.yao[x].outBitCtr = @ + n]
<1>1. Evaluation!EvaluateClientOutputGate(x, s, i) = t
  BY DEF Evaluation!EvaluateClientOutputGate
<1>2. u = Computed(s, i, v)
  BY EvaluationIsOne
<1> HIDE DEF g, v, u, n
<1>3. Moves(circ, s, u) /\ IsStore(circ, u) /\ u.yao = s.yao
  BY <1>2, ComputedMoves DEF Moves, KeepsValues, KeepsSides
<1>4. DOMAIN s.yao = Yao /\ DOMAIN o = EvaluatorFields
  BY EvaluatorLists
<1>5. t = SetYao(u, x, y)
  BY <1>3, <1>4 DEF SetYao, IsStore, Common, Sides, EvaluatorFields
<1>6. DOMAIN y = DOMAIN o /\ y.serverGates = o.serverGates /\ y.sndGates = o.sndGates /\ y.rcvGates = o.rcvGates
  BY <1>4 DEF EvaluatorFields
<1> HIDE DEF y, t
<1>7. YaoRuns(p, s, t)
  BY <1>3, <1>5, <1>6, EvaluatorKeepsLists
<1> QED BY <1>1, <1>7

LEMMA EvaluatorOutputRuns ==
    ASSUME HasGatesInOrder(circ), NEW x \in Yao, NEW p, ~Garbles(p, x), NEW s,
           IsStore(circ, s), IsYao(p, circ, s.yao), NEW i \in Newer(circ), Gate(i).gs \in Role
    PROVE  YaoRuns(p, s, Evaluation!EvaluateOutputGate(x, s, i))
<1> DEFINE t == Evaluation!EvaluateOutputGate(x, s, i)
           u == Evaluation!EvaluateServerOutputGate(x, s, i)
           a == Evaluation!EvaluateClientOutputGate(x, s, i)
           b == Evaluation!EvaluateClientOutputGate(x, u, i)
<1>1. t = u \/ t = a \/ t = b
  <2>1. Evaluation!Gate(i) = Gate(i)
    BY EvaluationIsOne
  <2>2. Gate(i).gs \in {"SERVER", "CLIENT", "ALL"}
    BY DEF Role, Party
  <2> QED BY <2>1, <2>2 DEF Evaluation!EvaluateOutputGate
<1>2. YaoRuns(p, s, u)
  BY ServerOutputRuns
<1>3. YaoRuns(p, s, a)
  BY ClientOutputRuns
<1> HIDE DEF t, u, a
<1>4. IsStore(circ, u) /\ IsYao(p, circ, u.yao)
  BY <1>2, YaoRunsOn
<1>5. YaoRuns(p, u, b)
  BY <1>4, ClientOutputRuns
<1> HIDE DEF b
<1>6. YaoRuns(p, s, t)
  BY <1>1, <1>2, <1>3, <1>5, YaoRunsThen
<1> QED BY <1>6 DEF t

LEMMA EvaluatorConversionRuns ==
    ASSUME NEW x \in Yao, NEW p, ~Garbles(p, x), NEW s, IsStore(circ, s), IsYao(p, circ, s.yao), NEW i \in Newer(circ)
    PROVE  YaoRuns(p, s, Evaluation!EvaluateConversionGate(x, s, i))
<1> DEFINE g == Evaluation!Gate(i)
           bits == Evaluation!OwnPart(s, g)
           r == Evaluation!Reads(s, g.ins)
           t == Evaluation!EvaluateConversionGate(x, s, i)
<1>1. t = Evaluation!AwaitServerKeys(x, r, i) \/ t = Evaluation!ReceiveClientKeys(x, r, i, bits)
  BY DEF Evaluation!EvaluateConversionGate
<1>2. r = Reads(s, g.ins)
  BY EvaluationIsOne
<1> HIDE DEF bits, r, t
<1>3. YaoRuns(p, s, r)
  BY <1>2, ReadsMoves, YaoStays, YaoRunsMove
<1>4. IsStore(circ, r) /\ IsYao(p, circ, r.yao)
  BY <1>3, YaoRunsOn
<1>5. YaoRuns(p, r, t)
  BY <1>1, <1>4, AwaitServerKeysRuns, ReceiveClientKeysRuns
<1>6. YaoRuns(p, s, t)
  BY <1>3, <1>5, YaoRunsThen
<1> QED BY <1>6 DEF t

LEMMA EvaluatorEvaluatesOne ==
    ASSUME HasGatesInOrder(circ), NEW x \in Yao, NEW p, ~Garbles(p, x), NEW s, IsStore(circ, s),
           IsYao(p, circ, s.yao), NEW d, NEW i \in GatesAt(circ, x, d, TRUE)
    PROVE  YaoRuns(p, s, Evaluation!EvaluateInteractive(x, s, i))
<1> DEFINE g == Gate(i)
           t == Evaluation!EvaluateInteractive(x, s, i)
<1>0. x \in ToSet(Sharings)
  BY DEF ToSet, Sharings, Yao
<1>1. /\ i \in Newer(circ) /\ g.type \in {"IN", "OUT", "CONV"}
      /\ g.type = "IN" => g.gs \in {"SERVER", "CLIENT"}
      /\ g.type = "OUT" => g.gs \in Role
  <2>1. Asks(x, i)
    BY <1>0, InteractiveTypes, Zenon
  <2> QED BY <2>1 DEF Asks, Yao, Party
<1>2. Evaluation!Gate(i) = g
  BY EvaluationIsOne
<1>5. CASE g.type = "OUT"
  <2>1. t = Evaluation!EvaluateOutputGate(x, s, i)
    BY <1>2, <1>5 DEF Evaluation!EvaluateInteractive
  <2> QED BY <1>1, <1>5, <2>1, EvaluatorOutputRuns
<1> HIDE DEF g
<1>3. CASE g.type = "IN" /\ g.gs = "SERVER"
  <2>1. t = Evaluation!AwaitServerKeys(x, s, i)
    BY <1>2, <1>3 DEF Evaluation!EvaluateInteractive
  <2> QED BY <1>1, <2>1, AwaitServerKeysRuns
<1>4. CASE g.type = "IN" /\ g.gs = "CLIENT"
  <2>1. t = Evaluation!ReceiveClientKeys(x, s, i, clear[i])
    BY <1>2, <1>4 DEF Evaluation!EvaluateInteractive
  <2> QED BY <1>1, <2>1, ReceiveClientKeysRuns
<1>6. CASE g.type = "CONV"
  <2>1. t = Evaluation!EvaluateConversionGate(x, s, i)
    BY <1>2, <1>6 DEF Evaluation!EvaluateInteractive
  <2> QED BY <1>1, <2>1, EvaluatorConversionRuns
<1> QED BY <1>1, <1>3, <1>4, <1>5, <1>6

EvaluatorAskOne(a, t, i) == Evaluation!EvaluateInteractive(a[2], t, i)
EvaluatorAsking == INSTANCE Folding WITH Op <- EvaluatorAskOne, Inv <- GarbleKept
EvaluatorLocalOne(a, t, i) == Evaluation!EvaluateLocal(a[2], t, i)
EvaluatorLocal == INSTANCE Folding WITH Op <- EvaluatorLocalOne, Inv <- GarbleKept

LEMMA EvaluatorLocalsRun ==
    ASSUME HasGatesInOrder(circ), NEW x \in Yao, NEW p, ~Garbles(p, x), NEW s,
           IsStore(circ, s), IsYao(p, circ, s.yao), NEW q \in Ids(circ)
    PROVE  YaoRuns(p, s, EvaluatorLocal!ThroughAll(<<p, x>>, s, q))
<1> DEFINE a == <<p, x>>
<1>1. a[1] = p /\ a[2] = x /\ Len(q) \in Nat /\ \A n \in 1 .. Len(q) : q[n] \in Newer(circ)
  BY DEF Ids
<1> HIDE DEF a
<1>2. GarbleKept(a, s, 0, s)
  BY <1>1, YaoStays DEF GarbleKept
<1>3. EvaluatorLocal!Kept(a, s, q)
  <2>1. ASSUME NEW i \in Newer(circ), NEW t, YaoRuns(p, s, t)
        PROVE  YaoRuns(p, s, Evaluation!EvaluateLocal(x, t, i))
    <3>1. IsStore(circ, t) /\ IsYao(p, circ, t.yao)
      BY <2>1, YaoRunsOn
    <3>2. YaoRuns(p, t, Evaluation!EvaluateLocal(x, t, i))
      BY <3>1, EvaluatorLocalRuns
    <3> QED BY <2>1, <3>2, YaoRunsThen
  <2> QED BY <1>1, <2>1 DEF EvaluatorLocal!Kept, GarbleKept, EvaluatorLocalOne
<1>5. GarbleKept(a, s, Len(q), EvaluatorLocal!ThroughAll(a, s, q))
  BY <1>1, <1>2, <1>3, LeastNat, EvaluatorLocal!ThroughInvariant
<1> QED BY <1>1, <1>5 DEF GarbleKept, a

LEMMA EvaluatorAsksRun ==
    ASSUME HasGatesInOrder(circ), NEW x \in Yao, NEW p, ~Garbles(p, x), NEW s,
           IsStore(circ, s), IsYao(p, circ, s.yao), NEW d, NEW q, Len(q) \in Nat,
           \A n \in 1 .. Len(q) : q[n] \in GatesAt(circ, x, d, TRUE)
    PROVE  YaoRuns(p, s, EvaluatorAsking!ThroughAll(<<p, x>>, s, q))
<1> DEFINE a == <<p, x>>
<1>1. a[1] = p /\ a[2] = x
  OBVIOUS
<1> HIDE DEF a
<1>2. GarbleKept(a, s, 0, s)
  BY <1>1, YaoStays DEF GarbleKept
<1>3. EvaluatorAsking!Kept(a, s, q)
  <2>1. ASSUME NEW n \in 1 .. Len(q), NEW t, YaoRuns(p, s, t)
        PROVE  YaoRuns(p, s, Evaluation!EvaluateInteractive(x, t, q[n]))
    <3>1. IsStore(circ, t) /\ IsYao(p, circ, t.yao)
      BY <2>1, YaoRunsOn
    <3>2. YaoRuns(p, t, Evaluation!EvaluateInteractive(x, t, q[n]))
      BY <3>1, EvaluatorEvaluatesOne, Zenon
    <3> QED BY <2>1, <3>2, YaoRunsThen
  <2> QED BY <1>1, <2>1 DEF EvaluatorAsking!Kept, GarbleKept, EvaluatorAskOne
<1>5. GarbleKept(a, s, Len(q), EvaluatorAsking!ThroughAll(a, s, q))
  BY <1>2, <1>3, LeastNat, EvaluatorAsking!ThroughInvariant
<1> QED BY <1>1, <1>5 DEF GarbleKept, a

LEMMA EvaluatorEvaluates ==
    ASSUME HasGatesInOrder(circ), HasLayers(circ), NEW x \in Yao, NEW p \in Party, ~Garbles(p, x), NEW s,
           IsStore(circ, s), IsYao(p, circ, s.yao), depth[p] \in Nat
    PROVE  YaoRuns(p, s, Evaluation!EvaluateOperations(x, s))
<1> DEFINE q == Queue(x, depth[p])
           r == QueueOnLvl(circ.local[x], depth[p])
           u == EvaluatorLocal!ThroughAll(<<p, x>>, s, r)
           t == EvaluatorAsking!ThroughAll(<<p, x>>, u, q)
<1>1. /\ Len(q) \in Nat /\ \A n \in 1 .. Len(q) : q[n] \in GatesAt(circ, x, depth[p], TRUE)
      /\ r \in Ids(circ)
  <2>1. x \in ToSet(Sharings)
    BY DEF ToSet, Sharings, Yao
  <2> QED BY <2>1, QueueAsks, LocalQueue, Zenon
<1>2. Evaluation!EvaluateOperations(x, s) = t
  <2>1. Evaluation!Me(x) = p
    BY DEF Evaluation!Me, Evaluation!Evaluator, Evaluation!Garbler, Evaluation!Other, Garbles,
           Garbling!Garbler, Party, Yao
  <2>2. /\ Evaluation!QueueOnLvl(circ.interactive[x], depth[Evaluation!Me(x)]) = q
        /\ Evaluation!QueueOnLvl(circ.local[x], depth[Evaluation!Me(x)]) = r
    BY <2>1, EvaluationIsOne DEF Queue
  <2> HIDE DEF q, r
  <2>3. \A v, ids : Evaluation!Through(LAMBDA z, i : Evaluation!EvaluateInteractive(x, z, i), v, ids)
                     = EvaluatorAsking!ThroughAll(<<p, x>>, v, ids)
    BY DEF Evaluation!Through, Evaluation!Once, EvaluatorAsking!ThroughAll,
           EvaluatorAskOne
  <2>4. \A v, ids : Evaluation!Through(LAMBDA z, i : Evaluation!EvaluateLocal(x, z, i), v, ids)
                     = EvaluatorLocal!ThroughAll(<<p, x>>, v, ids)
    BY DEF Evaluation!Through, Evaluation!Once, EvaluatorLocal!ThroughAll,
           EvaluatorLocalOne
  <2> QED BY <2>2, <2>3, <2>4, Zenon DEF Evaluation!EvaluateOperations, Evaluation!Once
<1> HIDE DEF q, r
<1>3. YaoRuns(p, s, u)
  BY <1>1, EvaluatorLocalsRun
<1> HIDE DEF u
<1>4. IsStore(circ, u) /\ IsYao(p, circ, u.yao)
  BY <1>3, YaoRunsOn
<1>5. YaoRuns(p, u, t)
  BY <1>1, <1>4, EvaluatorAsksRun, Zenon
<1> HIDE DEF t
<1>6. YaoRuns(p, s, t)
  BY <1>3, <1>5, YaoRunsThen
<1> QED BY <1>2, <1>6

-------------------------------------------------------------------------------
LEMMA ServerKeysRun ==
    ASSUME HasGatesInOrder(circ), NEW x \in Yao, NEW p, ~Garbles(p, x), NEW s,
           IsStore(circ, s), IsYao(p, circ, s.yao)
    PROVE  YaoRuns(p, s, Evaluation!AssignServerInputKeys(x, s))
<1> DEFINE o == s.yao[x]
           u == AssignInOrder(s, o.serverGates, o.rcv.server)
           y == [o EXCEPT !.serverGates = <<>>]
           t == [u EXCEPT !.yao[x].serverGates = <<>>]
<1>1. Evaluation!AssignServerInputKeys(x, s) = t
  BY EvaluationIsOne, Zenon DEF Evaluation!AssignServerInputKeys
<1>2. /\ DOMAIN s.yao = Yao /\ DOMAIN o = EvaluatorFields /\ o.serverGates \in Ids(circ)
      /\ o.sndGates \in Ids(circ) /\ o.rcvGates \in Seq(Nat)
  BY EvaluatorLists
<1>3. Moves(circ, s, u)
  BY <1>2, IdsAreNats, AssignInOrderMoves
<1> HIDE DEF u
<1>4. t = SetYao(u, x, y)
  BY <1>3 DEF SetYao, Moves, KeepsSides
<1>5. /\ DOMAIN y = DOMAIN o /\ y.serverGates = <<>> /\ y.sndGates = o.sndGates /\ y.rcvGates = o.rcvGates
  BY <1>2 DEF EvaluatorFields
<1> HIDE DEF y, t
<1>6. YaoRuns(p, s, t)
  BY <1>2, <1>3, <1>4, <1>5, NoIds, EvaluatorSet
<1> QED BY <1>1, <1>6

LEMMA ClientKeysRun ==
    ASSUME HasGatesInOrder(circ), NEW x \in Yao, NEW p, ~Garbles(p, x), NEW s,
           IsStore(circ, s), IsYao(p, circ, s.yao)
    PROVE  YaoRuns(p, s, Evaluation!AssignClientInputKeys(x, s))
<1> DEFINE o == s.yao[x]
           choice(k) == Evaluation!ChoiceBit(x, o.keyRcvIdx + k)
           key(k) == Evaluation!XorBits(o.rcv.client[k][1 + choice(k)],
                                        Evaluation!ROTMask(x, choice(k), o.keyRcvIdx + k))
           keys == [k \in DOMAIN o.rcv.client |-> key(k)]
           u == Evaluation!AssignInOrder(s, o.rcvGates, keys)
           y == [o EXCEPT !.keyRcvIdx = o.keyRcvIdx + o.rcvCtr, !.rcvGates = <<>>, !.rcvCtr = 0]
           v == [u EXCEPT !.yao[x] = y]
           t == Evaluation!AssignClientInputKeys(x, s)
<1>1. t = s \/ t = v
  BY Zenon DEF Evaluation!AssignClientInputKeys
<1>2. u = AssignInOrder(s, o.rcvGates, keys)
  BY EvaluationIsOne
<1> HIDE DEF keys, u, t
<1>3. /\ DOMAIN s.yao = Yao /\ DOMAIN o = EvaluatorFields /\ o.serverGates \in Ids(circ)
      /\ o.sndGates \in Ids(circ) /\ o.rcvGates \in Seq(Nat)
  BY EvaluatorLists
<1>4. Moves(circ, s, u)
  BY <1>2, <1>3, AssignInOrderMoves
<1>5. v = SetYao(u, x, y)
  BY DEF SetYao
<1>6. /\ DOMAIN y = DOMAIN o /\ y.serverGates = o.serverGates /\ y.sndGates = o.sndGates /\ y.rcvGates = <<>>
  BY <1>3 DEF EvaluatorFields
<1>7. <<>> \in Seq(Nat)
  OBVIOUS
<1> HIDE DEF y, v
<1>8. YaoRuns(p, s, v)
  BY <1>3, <1>4, <1>5, <1>6, <1>7, EvaluatorSet, Zenon
<1>9. YaoRuns(p, s, t)
  BY <1>1, <1>8, YaoStays
<1> QED BY <1>9 DEF t

LEMMA EvaluatorFinishes ==
    ASSUME HasGatesInOrder(circ), NEW x \in Yao, NEW p, ~Garbles(p, x), NEW s,
           IsStore(circ, s), IsYao(p, circ, s.yao)
    PROVE  YaoRuns(p, s, Evaluation!FinishCircuitLayer(x, s))
<1> DEFINE u == Evaluation!AssignServerInputKeys(x, s)
           v == Evaluation!AssignClientInputKeys(x, u)
           o == v.yao[x]
           n == IF o.sndOT = <<>> THEN o.rcvCtr ELSE Len(o.sndOT)
           ids == o.rcvGates \o o.sndGates
           y == [o EXCEPT !.rcvCtr = n, !.rcvGates = ids, !.sndOT = <<>>, !.sndGates = <<>>,
                          !.outSnd = <<>>, !.rcv = <<>>]
           t == SetYao(v, x, y)
<1>1. Evaluation!FinishCircuitLayer(x, s) = t
  BY DEF Evaluation!FinishCircuitLayer, SetYao
<1>2. YaoRuns(p, s, u)
  BY ServerKeysRun
<1> HIDE DEF u
<1>3. IsStore(circ, u) /\ IsYao(p, circ, u.yao)
  BY <1>2, YaoRunsOn
<1>4. YaoRuns(p, u, v)
  BY <1>3, ClientKeysRun
<1> HIDE DEF v
<1>5. YaoRuns(p, s, v)
  BY <1>2, <1>4, YaoRunsThen
<1>6. IsStore(circ, v) /\ IsYao(p, circ, v.yao)
  BY <1>5, YaoRunsOn
<1>7. /\ DOMAIN o = EvaluatorFields /\ o.serverGates \in Ids(circ)
      /\ o.sndGates \in Ids(circ) /\ o.rcvGates \in Seq(Nat)
  BY <1>6, EvaluatorLists
<1>8. ids \in Seq(Nat)
  <2>1. o.sndGates \in Seq(Nat)
    BY <1>7, IdsAreNats
  <2> QED BY <1>7, <2>1
<1> HIDE DEF n, ids
<1>9. /\ DOMAIN y = DOMAIN o /\ y.serverGates = o.serverGates /\ y.sndGates = <<>> /\ y.rcvGates = ids
  BY <1>7 DEF EvaluatorFields
<1> HIDE DEF y
<1>10. YaoRuns(p, v, t)
  BY <1>6, <1>7, <1>8, <1>9, NoIds, MovesNot, EvaluatorSet
<1> HIDE DEF t
<1>11. YaoRuns(p, s, t)
  BY <1>5, <1>10, YaoRunsThen
<1> QED BY <1>1, <1>11

LEMMA EvaluatorDataSent ==
    ASSUME NEW x \in Yao, NEW p, ~Garbles(p, x), NEW s, IsStore(circ, s), IsYao(p, circ, s.yao)
    PROVE  YaoRuns(p, s, Evaluation!DataSent(x, s))
<1> DEFINE o == s.yao[x]
           n == o.choiceCtr + Len(o.sndOT)
           y == [o EXCEPT !.choiceCtr = n]
           t == Evaluation!DataSent(x, s)
<1>1. t = SetYao(s, x, y)
  BY DEF Evaluation!DataSent, SetYao
<1>2. DOMAIN o = EvaluatorFields
  BY EvaluatorLists, Zenon
<1> HIDE DEF n, t
<1>3. DOMAIN y = DOMAIN o /\ y.serverGates = o.serverGates /\ y.sndGates = o.sndGates /\ y.rcvGates = o.rcvGates
  BY <1>2 DEF EvaluatorFields
<1> HIDE DEF y
<1>4. YaoRuns(p, s, t)
  BY <1>1, <1>3, MovesNot, EvaluatorKeepsLists
<1> QED BY <1>4 DEF t

LEMMA EvaluatorSetup ==
    ASSUME NEW x \in Yao, NEW p, ~Garbles(p, x), NEW s, IsStore(circ, s), IsYao(p, circ, s.yao),
           NEW garbler, NEW shares
    PROVE  YaoRuns(p, s, Evaluation!FinishSetupPhase(x, s, garbler, shares))
<1> DEFINE o == s.yao[x]
           y == [o EXCEPT !.tables = garbler.tables, !.univ = garbler.univ, !.outShares = shares]
           t == Evaluation!FinishSetupPhase(x, s, garbler, shares)
<1>1. DOMAIN s.yao = Yao /\ DOMAIN o = EvaluatorFields
  BY EvaluatorLists, Zenon
<1>2. t = SetYao(s, x, y)
  BY <1>1, Zenon DEF Evaluation!FinishSetupPhase, SetYao, IsStore, Common, Sides, EvaluatorFields
<1> HIDE DEF t
<1>3. DOMAIN y = DOMAIN o /\ y.serverGates = o.serverGates /\ y.sndGates = o.sndGates /\ y.rcvGates = o.rcvGates
  BY <1>1 DEF EvaluatorFields
<1> HIDE DEF y
<1>4. YaoRuns(p, s, t)
  BY <1>2, <1>3, MovesNot, EvaluatorKeepsLists
<1> QED BY <1>4 DEF t

-------------------------------------------------------------------------------
(***************************************************************************)
(* The sharings of a party, one after the other.                           *)
(***************************************************************************)
\* All of t are of their types, and it keeps what s has.
Follows(p, s, t) == IsShare(p, t) /\ KeepsValues(circ, s, t)

LEMMA FollowsNot ==
    ASSUME NEW p, NEW s, IsShare(p, s)
    PROVE  Follows(p, s, s)
BY DEF Follows, KeepsValues, IsShare, IsRecord

LEMMA FollowsOn ==
    ASSUME NEW p, NEW s, NEW t, NEW u, Follows(p, s, t), Follows(p, t, u)
    PROVE  Follows(p, s, u)
BY DEF Follows, KeepsValues

\* A sharing that runs changes its own state only.
LEMMA SideFollows ==
    ASSUME NEW p, NEW side \in Sides, NEW s, IsShare(p, s), NEW t, Runs(side, p, circ, s, t)
    PROVE  /\ Follows(p, s, t)
           /\ side # "arith" => t.arith = s.arith
           /\ side # "bool" => t.bool = s.bool
<1>1. IsStore(circ, t)
  BY DEF Runs, KeepsValues
<1>2. \A z \in Sides \ {side} : t[z] = s[z]
  BY DEF Runs
<1>3. side # "arith" => t.arith = s.arith
  BY <1>2 DEF Sides
<1>4. side # "bool" => t.bool = s.bool
  BY <1>2 DEF Sides
<1>5. side # "lut" => t.lut = s.lut
  BY <1>2 DEF Sides
<1>6. side # "yao" => t.yao = s.yao
  BY <1>2 DEF Sides
<1>7. IsSide(side, p, circ, t[side])
  BY DEF Runs
<1>8. side = "arith" => IsArith(circ, t.arith)
  BY <1>7 DEF IsSide
<1>9. side = "bool" => IsBool(circ, t.bool)
  BY <1>7 DEF IsSide
<1>10. side = "lut" => IsLut(circ, t.lut)
  BY <1>7 DEF IsSide
<1>11. side = "yao" => IsYao(p, circ, t.yao)
  BY <1>7 DEF IsSide
<1>12. IsShare(p, t)
  BY <1>1, <1>3, <1>4, <1>5, <1>6, <1>8, <1>9, <1>10, <1>11 DEF IsShare, IsRecord
<1>13. KeepsValues(circ, s, t)
  BY DEF Runs
<1> QED BY <1>3, <1>4, <1>12, <1>13 DEF Follows

LEMMA YaoOf ==
    /\ "YAO" \in Yao /\ "YAO_REV" \in Yao
    /\ \A x \in Yao : x # "BOOL" /\ x # "ARITH" /\ x # "SPLUT"
    /\ \A x \in ToSet(Sharings) : x \in {"BOOL", "ARITH", "SPLUT"} \cup Yao
    /\ Yao \subseteq ToSet(Sharings)
    /\ "BOOL" \in ToSet(Sharings) /\ "ARITH" \in ToSet(Sharings) /\ "SPLUT" \in ToSet(Sharings)
BY DEF Yao, ToSet, Sharings

LEMMA SharingsAre ==
    /\ Len(Sharings) = 5 /\ DOMAIN Sharings = 1 .. 5
    /\ Sharings[1] = "BOOL" /\ Sharings[2] \in Yao /\ Sharings[3] = "ARITH"
    /\ Sharings[4] \in Yao /\ Sharings[5] = "SPLUT"
BY DEF Sharings, Yao

-------------------------------------------------------------------------------
(***************************************************************************)
(* The gates of a layer.                                                   *)
(***************************************************************************)
LEMMA YaoEvaluates ==
    ASSUME HasGatesInOrder(circ), HasLayers(circ), NEW p \in Party, NEW s, IsShare(p, s), depth[p] \in Nat,
           NEW x \in Yao
    PROVE  Runs("yao", p, circ, s, EvaluateOperations(p, s, x))
<1>1. IsStore(circ, s) /\ IsYao(p, circ, s.yao)
  BY DEF IsShare, IsRecord
<1>2. CASE Garbles(p, x)
  <2>1. EvaluateOperations(p, s, x) = Garbling!EvaluateOperations(x, s)
    BY <1>2, YaoOf DEF EvaluateOperations
  <2>2. YaoRuns(p, s, Garbling!EvaluateOperations(x, s))
    BY <1>1, <1>2, GarblerEvaluates
  <2> QED BY <2>1, <2>2 DEF YaoRuns
<1>3. CASE ~ Garbles(p, x)
  <2>1. EvaluateOperations(p, s, x) = Evaluation!EvaluateOperations(x, s)
    BY <1>3, YaoOf DEF EvaluateOperations
  <2>2. YaoRuns(p, s, Evaluation!EvaluateOperations(x, s))
    BY <1>1, <1>3, EvaluatorEvaluates
  <2> QED BY <2>1, <2>2 DEF YaoRuns
<1> QED BY <1>2, <1>3

\* What the first n sharings do: BOOL is the first, ARITH the third.
TakenAt(p, s, n, t) ==
    /\ Follows(p, s, t)
    /\ n = 0 => t.bool = s.bool
    /\ n > 0 => BoolTakes(s.bool, t.bool, AndsAt(depth[p]))
    /\ n < 3 => t.arith = s.arith
    /\ n >= 3 => ArithTakes(p, s.arith, t.arith, AtLayer(circ, MulVals(circ), depth[p]),
                            AtLayer(circ, ConvBits(circ), depth[p]))
EvaluateOne(p, t, x) == EvaluateOperations(p, t, x)
Evaluated(p, s) == AllSharings(s, LAMBDA t, x : EvaluateOperations(p, t, x))
Evaluating == INSTANCE Folding WITH Op <- EvaluateOne, Inv <- TakenAt

LEMMA AllEvaluate ==
    ASSUME HasGatesInOrder(circ), HasLayers(circ), HasANDsCounted(circ), NEW p \in Party, NEW s,
           IsShare(p, s), depth[p] \in Nat
    PROVE  TakenAt(p, s, 5, Evaluated(p, s))
<1>1. TakenAt(p, s, 0, s)
  BY FollowsNot DEF TakenAt
<1>2. ASSUME NEW n \in 1 .. 5, NEW t, TakenAt(p, s, n - 1, t)
      PROVE  TakenAt(p, s, n, EvaluateOne(p, t, Sharings[n]))
  <2> DEFINE u == EvaluateOperations(p, t, Sharings[n])
  <2>1. Follows(p, s, t) /\ IsShare(p, t) /\ IsStore(circ, t) /\ IsBool(circ, t.bool)
        /\ IsArith(circ, t.arith) /\ IsLut(circ, t.lut)
    BY <1>2 DEF TakenAt, Follows, IsShare, IsRecord
  <2>2. CASE n = 1
    <3>1. u = EvaluateOperations(p, t, "BOOL")
      BY <2>2, SharingsAre
    <3>2. BoolRuns(p, t, u, AndsAt(depth[p]))
      <4> HIDE DEF u
      <4> QED BY <2>1, <3>1, BoolEvaluates
    <3> HIDE DEF u
    <3>3. Follows(p, t, u) /\ u.arith = t.arith
      BY <2>1, <3>2, SideFollows DEF BoolRuns, Sides
    <3>4. Follows(p, s, u)
      BY <2>1, <3>3, FollowsOn
    <3>5. TakenAt(p, s, n, u)
      BY <1>2, <2>2, <3>2, <3>3, <3>4 DEF TakenAt, BoolRuns
    <3> QED BY <3>5 DEF EvaluateOne, u
  <2>3. CASE n = 3
    <3>1. u = EvaluateOperations(p, t, "ARITH")
      BY <2>3, SharingsAre
    <3>2. ArithRuns(p, t, u, AtLayer(circ, MulVals(circ), depth[p]), AtLayer(circ, ConvBits(circ), depth[p]))
      <4> HIDE DEF u
      <4> QED BY <2>1, <3>1, ArithEvaluates
    <3> HIDE DEF u
    <3>3. Follows(p, t, u) /\ u.bool = t.bool
      BY <2>1, <3>2, SideFollows DEF ArithRuns, Sides
    <3>4. Follows(p, s, u)
      BY <2>1, <3>3, FollowsOn
    <3>5. TakenAt(p, s, n, u)
      BY <1>2, <2>3, <3>2, <3>3, <3>4 DEF TakenAt, ArithRuns
    <3> QED BY <3>5 DEF EvaluateOne, u
  <2>4. CASE n = 5
    <3>1. u = EvaluateOperations(p, t, "SPLUT")
      BY <2>4, SharingsAre
    <3>2. Runs("lut", p, circ, t, u)
      <4> HIDE DEF u
      <4> QED BY <2>1, <3>1, LutEvaluates DEF LutRuns
    <3> HIDE DEF u
    <3>3. Follows(p, t, u) /\ u.bool = t.bool /\ u.arith = t.arith
      BY <2>1, <3>2, SideFollows DEF Sides
    <3>4. Follows(p, s, u)
      BY <2>1, <3>3, FollowsOn
    <3>5. TakenAt(p, s, n, u)
      BY <1>2, <2>4, <3>3, <3>4 DEF TakenAt
    <3> QED BY <3>5 DEF EvaluateOne, u
  <2>5. CASE n \in {2, 4}
    <3>1. Sharings[n] \in Yao
      BY <2>5, SharingsAre
    <3>2. Runs("yao", p, circ, t, u)
      BY <2>1, <3>1, YaoEvaluates
    <3> HIDE DEF u
    <3>3. Follows(p, t, u) /\ u.bool = t.bool /\ u.arith = t.arith
      BY <2>1, <3>2, SideFollows DEF Sides
    <3>4. Follows(p, s, u)
      BY <2>1, <3>3, FollowsOn
    <3>5. TakenAt(p, s, n, u)
      BY <1>2, <2>5, <3>3, <3>4 DEF TakenAt
    <3> QED BY <3>5 DEF EvaluateOne, u
  <2> QED BY <2>2, <2>3, <2>4, <2>5
<1>3. Evaluating!Kept(p, s, Sharings)
  BY <1>2, SharingsAre DEF Evaluating!Kept
<1>5. TakenAt(p, s, Len(Sharings), Evaluating!ThroughAll(p, s, Sharings))
  <2>1. Len(Sharings) \in Nat
    BY SharingsAre
  <2> QED BY <1>1, <1>3, LeastNat, <2>1, Evaluating!ThroughInvariant
<1>6. Evaluated(p, s) = Evaluating!ThroughAll(p, s, Sharings)
  BY DEF Evaluated, AllSharings, Through, Once, Evaluating!ThroughAll, EvaluateOne
<1> QED BY <1>5, <1>6, SharingsAre

-------------------------------------------------------------------------------
(***************************************************************************)
(* What is sent is taken from the sharings.                                *)
(***************************************************************************)
LEMMA YaoDataSent ==
    ASSUME NEW p, NEW s, IsShare(p, s), NEW x \in Yao
    PROVE  Runs("yao", p, circ, s, DataSent(p, s, x))
<1>1. IsStore(circ, s) /\ IsYao(p, circ, s.yao)
  BY DEF IsShare, IsRecord
<1>2. CASE Garbles(p, x)
  <2>1. DataSent(p, s, x) = Garbling!DataSent(x, s)
    BY <1>2, YaoOf DEF DataSent
  <2>2. YaoRuns(p, s, Garbling!DataSent(x, s))
    BY <1>1, <1>2, GarblerDataSent
  <2> QED BY <2>1, <2>2 DEF YaoRuns
<1>3. CASE ~ Garbles(p, x)
  <2>1. DataSent(p, s, x) = Evaluation!DataSent(x, s)
    BY <1>3, YaoOf DEF DataSent
  <2>2. YaoRuns(p, s, Evaluation!DataSent(x, s))
    BY <1>1, <1>3, EvaluatorDataSent
  <2> QED BY <2>1, <2>2 DEF YaoRuns
<1> QED BY <1>2, <1>3

\* No count of what is taken changes.
SameCounts(s, t) ==
    /\ t.bool.mtIdx = s.bool.mtIdx /\ t.bool.mtStartIdx = s.bool.mtStartIdx
    /\ t.arith.mtIdx = s.arith.mtIdx /\ t.arith.convIdx = s.arith.convIdx
    /\ t.arith.convSndCtr = s.arith.convSndCtr /\ t.arith.convRcvCtr = s.arith.convRcvCtr
    /\ t.arith.CONVGates = s.arith.CONVGates /\ t.arith.CONVGates2 = s.arith.CONVGates2
Rests(p, s, t) == Follows(p, s, t) /\ SameCounts(s, t)

LEMMA RestsNot ==
    ASSUME NEW p, NEW s, IsShare(p, s)
    PROVE  Rests(p, s, s)
BY FollowsNot DEF Rests, SameCounts

LEMMA RestsOn ==
    ASSUME NEW p, NEW s, NEW t, NEW u, Rests(p, s, t), Rests(p, t, u)
    PROVE  Rests(p, s, u)
<1>1. Follows(p, s, u)
  BY FollowsOn DEF Rests
<1>2. SameCounts(s, u)
  BY DEF Rests, SameCounts
<1> QED BY <1>1, <1>2 DEF Rests

LEMMA SideRests ==
    ASSUME NEW p, NEW side \in Sides, NEW s, IsShare(p, s), NEW t, Runs(side, p, circ, s, t),
           side \notin {"arith", "bool"}
    PROVE  Rests(p, s, t)
<1>1. Follows(p, s, t) /\ t.arith = s.arith /\ t.bool = s.bool
  BY SideFollows
<1> QED BY <1>1 DEF Rests, SameCounts

LEMMA DataSentRests ==
    ASSUME NEW p, NEW s, IsShare(p, s), NEW x \in ToSet(Sharings)
    PROVE  Rests(p, s, DataSent(p, s, x))
<1> DEFINE t == DataSent(p, s, x)
<1>1. CASE x \in {"BOOL", "ARITH"}
  <2>1. t = s
    BY <1>1, YaoOf DEF DataSent
  <2> QED BY <2>1, RestsNot
<1>2. CASE x = "SPLUT"
  <2>1. t = Lut!DataSent(s)
    BY <1>2, YaoOf DEF DataSent
  <2>2. IsStore(circ, s) /\ IsLut(circ, s.lut)
    BY DEF IsShare, IsRecord
  <2>3. Runs("lut", p, circ, s, t)
    BY <2>1, <2>2, LutDataSent DEF LutRuns
  <2> HIDE DEF t
  <2>4. Rests(p, s, t)
    BY <2>3, SideRests DEF Sides
  <2> QED BY <2>4 DEF t
<1>3. CASE x \in Yao
  <2>1. Runs("yao", p, circ, s, t)
    BY <1>3, YaoDataSent
  <2> HIDE DEF t
  <2>2. Rests(p, s, t)
    BY <2>1, SideRests DEF Sides
  <2> QED BY <2>2 DEF t
<1> QED BY <1>1, <1>2, <1>3, YaoOf

RestsAt(p, s, n, t) == Rests(p, s, t)
SendOne(p, t, x) == DataSent(p, t, x)
Sent(p, s) == AllSharings(s, LAMBDA t, x : DataSent(p, t, x))
Sending == INSTANCE Folding WITH Op <- SendOne, Inv <- RestsAt

LEMMA AllSend ==
    ASSUME NEW p, NEW s, IsShare(p, s)
    PROVE  Rests(p, s, Sent(p, s))
<1>1. RestsAt(p, s, 0, s)
  BY RestsNot DEF RestsAt
<1>2. ASSUME NEW n \in 1 .. 5, NEW t, Rests(p, s, t)
      PROVE  Rests(p, s, DataSent(p, t, Sharings[n]))
  <2> DEFINE x == Sharings[n]
  <2>0. IsShare(p, t)
    BY <1>2 DEF Rests, Follows
  <2>1. x \in ToSet(Sharings)
    BY SharingsAre DEF ToSet
  <2> HIDE DEF x
  <2>2. Rests(p, t, DataSent(p, t, x))
    BY <2>0, <2>1, DataSentRests
  <2>3. Rests(p, s, DataSent(p, t, x))
    BY <1>2, <2>2, RestsOn
  <2> QED BY <2>3 DEF x
<1>3. Sending!Kept(p, s, Sharings)
  BY <1>2, SharingsAre DEF Sending!Kept, RestsAt, SendOne
<1>5. RestsAt(p, s, Len(Sharings), Sending!ThroughAll(p, s, Sharings))
  <2>1. Len(Sharings) \in Nat
    BY SharingsAre
  <2> QED BY <1>1, <1>3, LeastNat, <2>1, Sending!ThroughInvariant
<1>6. Sent(p, s) = Sending!ThroughAll(p, s, Sharings)
  BY DEF Sent, AllSharings, Through, Once, Sending!ThroughAll, SendOne
<1> QED BY <1>5, <1>6 DEF RestsAt

-------------------------------------------------------------------------------
(***************************************************************************)
(* What is received is given to the sharings.                              *)
(***************************************************************************)
LEMMA ReceiveRests ==
    ASSUME NEW p, NEW s, IsShare(p, s), NEW x \in ToSet(Sharings), NEW data
    PROVE  Rests(p, s, Receive(s, x, data))
<1> DEFINE t == Receive(s, x, data)
<1>0. IsStore(circ, s) /\ IsBool(circ, s.bool) /\ IsArith(circ, s.arith) /\ IsLut(circ, s.lut) /\ IsYao(p, circ, s.yao)
  BY DEF IsShare, IsRecord
<1>1. CASE x = "BOOL"
  <2> DEFINE b == [s.bool EXCEPT !.rcv = data]
  <2>1. t = With(s, "bool", b)
    BY <1>1, YaoOf DEF Receive, With
  <2>2. DOMAIN b = DOMAIN s.bool /\ \A f \in BoolFields \ {"rcv"} : b[f] = s.bool[f]
    BY <1>0 DEF IsBool
  <2> HIDE DEF b
  <2>3. IsBool(circ, b)
    BY <1>0, <2>2 DEF IsBool, BoolFields
  <2>4. Runs("bool", p, circ, s, t) /\ t.bool = b
    BY <1>0, <2>1, <2>3, BoolSet
  <2> HIDE DEF t
  <2>5. "bool" \in Sides
    BY DEF Sides
  <2>6. Follows(p, s, t) /\ t.bool = b
        /\ ("bool" # "arith" => t.arith = s.arith) /\ ("bool" # "bool" => t.bool = s.bool)
    BY <2>4, <2>5, SideFollows
  <2>7. SameCounts(s, t)
    BY <1>0, <2>2, <2>6 DEF SameCounts, IsBool, BoolFields
  <2>8. Rests(p, s, t)
    BY <2>6, <2>7 DEF Rests
  <2> QED BY <2>8 DEF t
<1>2. CASE x = "ARITH"
  <2> DEFINE b == [s.arith EXCEPT !.rcv = data]
  <2>1. t = With(s, "arith", b)
    BY <1>2, YaoOf DEF Receive, With
  <2>2. DOMAIN b = DOMAIN s.arith /\ \A f \in ArithFields \ {"rcv"} : b[f] = s.arith[f]
    BY <1>0 DEF IsArith
  <2> HIDE DEF b
  <2>3. IsArith(circ, b)
    BY <1>0, <2>2 DEF IsArith, ArithFields
  <2>4. Runs("arith", p, circ, s, t) /\ t.arith = b
    BY <1>0, <2>1, <2>3, ArithSet
  <2> HIDE DEF t
  <2>5. "arith" \in Sides
    BY DEF Sides
  <2>6. Follows(p, s, t) /\ t.arith = b
        /\ ("arith" # "arith" => t.arith = s.arith) /\ ("arith" # "bool" => t.bool = s.bool)
    BY <2>4, <2>5, SideFollows
  <2>7. SameCounts(s, t)
    BY <1>0, <2>2, <2>6 DEF SameCounts, IsArith, ArithFields
  <2>8. Rests(p, s, t)
    BY <2>6, <2>7 DEF Rests
  <2> QED BY <2>8 DEF t
<1>3. CASE x = "SPLUT"
  <2> DEFINE b == [s.lut EXCEPT !.rcv = data]
  <2>1. t = With(s, "lut", b)
    BY <1>3, YaoOf DEF Receive, With
  <2>2. DOMAIN b = DOMAIN s.lut /\ \A f \in LutFields \ {"rcv"} : b[f] = s.lut[f]
    BY <1>0 DEF IsLut
  <2> HIDE DEF b
  <2>3. IsLut(circ, b)
    BY <1>0, <2>2 DEF IsLut, LutFields
  <2>4. Runs("lut", p, circ, s, t) /\ t.lut = b
    BY <1>0, <2>1, <2>3, LutSet
  <2> HIDE DEF t
  <2>5. "lut" \in Sides
    BY DEF Sides
  <2>6. Follows(p, s, t) /\ t.lut = b
        /\ ("lut" # "arith" => t.arith = s.arith) /\ ("lut" # "bool" => t.bool = s.bool)
    BY <2>4, <2>5, SideFollows
  <2>7. SameCounts(s, t)
    BY <1>0, <2>2, <2>6 DEF SameCounts, IsLut, LutFields
  <2>8. Rests(p, s, t)
    BY <2>6, <2>7 DEF Rests
  <2> QED BY <2>8 DEF t
<1>4. CASE x \in Yao /\ Garbles(p, x)
  <2> DEFINE y == [s.yao[x] EXCEPT !.rcv = data]
  <2>1. /\ DOMAIN s.yao = Yao /\ DOMAIN s.yao[x] = GarblerFields
        /\ s.yao[x].clientGates \in Ids(circ) /\ s.yao[x].outGates \in Ids(circ)
    BY <1>0, <1>4, GarblerLists
  <2>2. t = SetYao(s, x, y)
    BY <1>0, <1>4, <2>1, YaoOf DEF Receive, SetYao, IsStore, Common, Sides
  <2>3. DOMAIN y = DOMAIN s.yao[x] /\ y.clientGates = s.yao[x].clientGates /\ y.outGates = s.yao[x].outGates
    BY <2>1 DEF GarblerFields
  <2> HIDE DEF y, t
  <2>4. Moves(circ, s, s)
    BY <1>0, MovesNot
  <2>5. Runs("yao", p, circ, s, t)
    BY <1>0, <1>4, <2>1, <2>2, <2>3, <2>4, GarblerSet DEF YaoRuns
  <2>6. Rests(p, s, t)
    BY <2>5, SideRests DEF Sides
  <2> QED BY <2>6 DEF t
<1>5. CASE x \in Yao /\ ~Garbles(p, x)
  <2> DEFINE y == [s.yao[x] EXCEPT !.rcv = data]
  <2>1. /\ DOMAIN s.yao = Yao /\ DOMAIN s.yao[x] = EvaluatorFields
        /\ s.yao[x].serverGates \in Ids(circ) /\ s.yao[x].sndGates \in Ids(circ) /\ s.yao[x].rcvGates \in Seq(Nat)
    BY <1>0, <1>5, EvaluatorLists
  <2>2. t = SetYao(s, x, y)
    BY <1>0, <1>5, <2>1, YaoOf DEF Receive, SetYao, IsStore, Common, Sides
  <2>3. DOMAIN y = DOMAIN s.yao[x] /\ y.serverGates = s.yao[x].serverGates /\ y.sndGates = s.yao[x].sndGates /\ y.rcvGates = s.yao[x].rcvGates
    BY <2>1 DEF EvaluatorFields
  <2> HIDE DEF y, t
  <2>4. Moves(circ, s, s)
    BY <1>0, MovesNot
  <2>5. Runs("yao", p, circ, s, t)
    BY <1>0, <1>5, <2>1, <2>2, <2>3, <2>4, EvaluatorSet DEF YaoRuns
  <2>6. Rests(p, s, t)
    BY <2>5, SideRests DEF Sides
  <2> QED BY <2>6 DEF t
<1> QED BY <1>1, <1>2, <1>3, <1>4, <1>5, YaoOf

\* Packets of sharings, in their order.
Received(packets, m, s) ==
    Through(LAMBDA t, k : Receive(t, packets[k].sharing, packets[k].data), s, [k \in 1 .. m |-> k])
ReceiveOne(packets, t, k) == Receive(t, packets[k].sharing, packets[k].data)
ReceivedAt(packets, b, n, t) == Rests(b[1], b[2], t)
Receiving == INSTANCE Folding WITH Op <- ReceiveOne, Inv <- ReceivedAt

LEMMA AllReceive ==
    ASSUME NEW p, NEW s, IsShare(p, s), NEW packets, NEW m \in Nat,
           \A k \in 1 .. m : packets[k].sharing \in ToSet(Sharings)
    PROVE  Rests(p, s, Received(packets, m, s))
<1> DEFINE ids == [k \in 1 .. m |-> k]
           b == <<p, s>>
<1>1. Len(ids) = m /\ \A k \in 1 .. m : ids[k] = k
  OBVIOUS
<1>2. b[1] = p /\ b[2] = s
  OBVIOUS
<1> HIDE DEF ids, b
<1>3. ReceivedAt(packets, b, 0, s)
  BY <1>2, RestsNot DEF ReceivedAt
<1>4. ASSUME NEW k \in 1 .. m, NEW t, Rests(p, s, t)
      PROVE  Rests(p, s, ReceiveOne(packets, t, k))
  <2> DEFINE u == ReceiveOne(packets, t, k)
  <2>1. IsShare(p, t)
    BY <1>4 DEF Rests, Follows
  <2>2. packets[k].sharing \in ToSet(Sharings)
    OBVIOUS
  <2>3. Rests(p, t, u)
    BY <2>1, <2>2, ReceiveRests DEF ReceiveOne
  <2> HIDE DEF u
  <2>4. Rests(p, s, u)
    BY <1>4, <2>3, RestsOn
  <2> QED BY <2>4 DEF u
<1>5. Receiving!Kept(packets, b, ids)
  BY <1>1, <1>2, <1>4 DEF Receiving!Kept, ReceivedAt
<1>7. ReceivedAt(packets, b, Len(ids), Receiving!ThroughAll(packets, s, ids))
  <2>1. Len(ids) \in Nat
    BY <1>1
  <2> QED BY <1>3, <1>5, LeastNat, <2>1, Receiving!ThroughInvariant
<1>8. Received(packets, m, s) = Receiving!ThroughAll(packets, s, ids)
  BY DEF Received, ids, Through, Once, Receiving!ThroughAll, ReceiveOne
<1> QED BY <1>2, <1>7, <1>8 DEF ReceivedAt, ids

-------------------------------------------------------------------------------
(***************************************************************************)
(* The end of a layer.                                                     *)
(***************************************************************************)
LEMMA YaoFinishes ==
    ASSUME HasGatesInOrder(circ), NEW p \in Party, NEW s, IsShare(p, s), NEW x \in Yao
    PROVE  Runs("yao", p, circ, s, FinishLayer(p, s, x))
<1>1. IsStore(circ, s) /\ IsYao(p, circ, s.yao)
  BY DEF IsShare, IsRecord
<1>2. CASE Garbles(p, x)
  <2>1. FinishLayer(p, s, x) = Garbling!FinishCircuitLayer(x, s)
    BY <1>2, YaoOf DEF FinishLayer
  <2>2. YaoRuns(p, s, Garbling!FinishCircuitLayer(x, s))
    BY <1>1, <1>2, GarblerFinishes
  <2> QED BY <2>1, <2>2 DEF YaoRuns
<1>3. CASE ~ Garbles(p, x)
  <2>1. FinishLayer(p, s, x) = Evaluation!FinishCircuitLayer(x, s)
    BY <1>3, YaoOf DEF FinishLayer
  <2>2. YaoRuns(p, s, Evaluation!FinishCircuitLayer(x, s))
    BY <1>1, <1>3, EvaluatorFinishes
  <2> QED BY <2>1, <2>2 DEF YaoRuns
<1> QED BY <1>2, <1>3

\* What the first n sharings finish.
FinishedAt(p, s, n, t) ==
    /\ Follows(p, s, t)
    /\ n = 0 => t.bool = s.bool
    /\ n > 0 => BoolEnds(s.bool, t.bool)
    /\ n < 3 => t.arith = s.arith
    /\ n >= 3 => ArithEnds(p, s.arith, t.arith)
FinishOne(p, t, x) == FinishLayer(p, t, x)
Finished(p, s) == AllSharings(s, LAMBDA t, x : FinishLayer(p, t, x))
Finishing == INSTANCE Folding WITH Op <- FinishOne, Inv <- FinishedAt

LEMMA AllFinish ==
    ASSUME HasGatesInOrder(circ), HasANDsCounted(circ), NEW p \in Party, NEW s,
           IsShare(p, s)
    PROVE  FinishedAt(p, s, 5, Finished(p, s))
<1>1. FinishedAt(p, s, 0, s)
  BY FollowsNot DEF FinishedAt
<1>2. ASSUME NEW n \in 1 .. 5, NEW t, FinishedAt(p, s, n - 1, t)
      PROVE  FinishedAt(p, s, n, FinishOne(p, t, Sharings[n]))
  <2> DEFINE u == FinishLayer(p, t, Sharings[n])
  <2>1. Follows(p, s, t) /\ IsShare(p, t) /\ IsStore(circ, t) /\ IsBool(circ, t.bool)
        /\ IsArith(circ, t.arith) /\ IsLut(circ, t.lut)
    BY <1>2 DEF FinishedAt, Follows, IsShare, IsRecord
  <2>2. CASE n = 1
    <3>1. u = Bool!FinishCircuitLayer(p, t)
      BY <2>2, SharingsAre, YaoOf DEF FinishLayer
    <3>2. Runs("bool", p, circ, t, u) /\ BoolEnds(t.bool, u.bool)
      <4> HIDE DEF u
      <4> QED BY <2>1, <3>1, BoolFinishes
    <3> HIDE DEF u
    <3>3. Follows(p, t, u) /\ u.arith = t.arith
      BY <2>1, <3>2, SideFollows DEF Sides
    <3>4. Follows(p, s, u)
      BY <2>1, <3>3, FollowsOn
    <3>5. FinishedAt(p, s, n, u)
      BY <1>2, <2>2, <3>2, <3>3, <3>4 DEF FinishedAt
    <3> QED BY <3>5 DEF FinishOne, u
  <2>3. CASE n = 3
    <3>1. u = Arith!FinishCircuitLayer(p, t)
      BY <2>3, SharingsAre, YaoOf DEF FinishLayer
    <3>2. Runs("arith", p, circ, t, u) /\ ArithEnds(p, t.arith, u.arith)
      <4> HIDE DEF u
      <4> QED BY <2>1, <3>1, ArithFinishes
    <3> HIDE DEF u
    <3>3. Follows(p, t, u) /\ u.bool = t.bool
      BY <2>1, <3>2, SideFollows DEF Sides
    <3>4. Follows(p, s, u)
      BY <2>1, <3>3, FollowsOn
    <3>5. FinishedAt(p, s, n, u)
      BY <1>2, <2>3, <3>2, <3>3, <3>4 DEF FinishedAt
    <3> QED BY <3>5 DEF FinishOne, u
  <2>4. CASE n = 5
    <3>1. u = Lut!FinishCircuitLayer(p, t)
      BY <2>4, SharingsAre, YaoOf DEF FinishLayer
    <3>2. Runs("lut", p, circ, t, u)
      <4> HIDE DEF u
      <4> QED BY <2>1, <3>1, LutFinishes DEF LutRuns
    <3> HIDE DEF u
    <3>3. Follows(p, t, u) /\ u.bool = t.bool /\ u.arith = t.arith
      BY <2>1, <3>2, SideFollows DEF Sides
    <3>4. Follows(p, s, u)
      BY <2>1, <3>3, FollowsOn
    <3>5. FinishedAt(p, s, n, u)
      BY <1>2, <2>4, <3>3, <3>4 DEF FinishedAt
    <3> QED BY <3>5 DEF FinishOne, u
  <2>5. CASE n \in {2, 4}
    <3>1. Sharings[n] \in Yao
      BY <2>5, SharingsAre, YaoOf DEF FinishLayer
    <3>2. Runs("yao", p, circ, t, u)
      BY <2>1, <3>1, YaoFinishes
    <3> HIDE DEF u
    <3>3. Follows(p, t, u) /\ u.bool = t.bool /\ u.arith = t.arith
      BY <2>1, <3>2, SideFollows DEF Sides
    <3>4. Follows(p, s, u)
      BY <2>1, <3>3, FollowsOn
    <3>5. FinishedAt(p, s, n, u)
      BY <1>2, <2>5, <3>3, <3>4 DEF FinishedAt
    <3> QED BY <3>5 DEF FinishOne, u
  <2> QED BY <2>2, <2>3, <2>4, <2>5
<1>3. Finishing!Kept(p, s, Sharings)
  BY <1>2, SharingsAre DEF Finishing!Kept
<1>5. FinishedAt(p, s, Len(Sharings), Finishing!ThroughAll(p, s, Sharings))
  <2>1. Len(Sharings) \in Nat
    BY SharingsAre
  <2> QED BY <1>1, <1>3, LeastNat, <2>1, Finishing!ThroughInvariant
<1>6. Finished(p, s) = Finishing!ThroughAll(p, s, Sharings)
  BY DEF Finished, AllSharings, Through, Once, Finishing!ThroughAll, FinishOne
<1> QED BY <1>5, <1>6, SharingsAre

-------------------------------------------------------------------------------
(***************************************************************************)
(* The setup phase.                                                        *)
(***************************************************************************)
\* Nothing is taken yet.
Fresh(s) ==
    /\ s.bool.mtIdx = NoAnds /\ s.bool.mtStartIdx = NoAnds
    /\ s.arith.mtIdx = 0 /\ s.arith.convIdx = 0
    /\ s.arith.convSndCtr = 0 /\ s.arith.convRcvCtr = 0
    /\ s.arith.CONVGates = <<>> /\ s.arith.CONVGates2 = <<>>

LEMMA NewBoolIs ==
    ASSUME NEW keys
    PROVE  /\ IsBool(circ, Bool!NewBool(circ, keys))
           /\ Bool!NewBool(circ, keys).mtIdx = NoAnds /\ Bool!NewBool(circ, keys).mtStartIdx = NoAnds
<1> DEFINE b == Bool!NewBool(circ, keys)
<1>1. /\ DOMAIN b = BoolFields /\ b.mtIdx = NoAnds /\ b.mtStartIdx = NoAnds
      /\ b.ANDGates = [k \in DOMAIN circ.ands |-> <<>>]
      /\ b.inGates = <<>> /\ b.outGates = <<>> /\ b.lutGates = [kind \in keys |-> <<>>]
  BY DEF Bool!NewBool, BoolFields, NoAnds
<1> HIDE DEF b
<1>2. <<>> \in Ids(circ)
  BY DEF Ids
<1>3. \A kind \in DOMAIN b.lutGates : b.lutGates[kind] \in Ids(circ)
  BY <1>1, <1>2
<1>4. b.ANDGates \in [DOMAIN circ.ands -> Ids(circ)]
  BY <1>1, <1>2
<1>5. b.mtIdx \in [DOMAIN circ.ands -> Nat]
  BY <1>1 DEF NoAnds
<1>6. IsBool(circ, b)
  BY <1>1, <1>2, <1>3, <1>4, <1>5 DEF IsBool
<1> QED BY <1>1, <1>6 DEF b

LEMMA NewArithIs == IsArith(circ, Arith!NewArith)
BY DEF Arith!NewArith, IsArith, ArithFields, Ids

LEMMA NewLutIs ==
    ASSUME NEW p
    PROVE  IsLut(circ, Lut!NewLut(circ, p))
BY DEF Lut!NewLut, IsLut, LutFields, Ids

LEMMA NewYaoIs ==
    ASSUME NEW p, NEW old, \A x \in Yao : ~ Garbles(p, x) => old[x].rcvGates \in Seq(Nat)
    PROVE  IsYao(p, circ, [x \in Yao |-> NewYao(p, x, old[x])])
<1>1. ASSUME NEW x \in Yao, Garbles(p, x) PROVE IsGarbler(circ, NewYao(p, x, old[x]))
  BY <1>1 DEF NewYao, Garbling!NewGarbler, IsGarbler, GarblerFields, Ids
<1>2. ASSUME NEW x \in Yao, ~ Garbles(p, x) PROVE IsEvaluator(circ, NewYao(p, x, old[x]))
  BY <1>2 DEF NewYao, Evaluation!NewEvaluator, IsEvaluator, EvaluatorFields, Ids
<1> QED BY <1>1, <1>2 DEF IsYao

LEMMA NewShareIs ==
    ASSUME HasGatesInOrder(circ), NEW p, NEW left, HasRoom(circ, left), Waits(p, left)
    PROVE  IsShare(p, NewShare(p, left.val, left)) /\ Fresh(NewShare(p, left.val, left))
<1> DEFINE s == NewShare(p, left.val, left)
           live == [i \in Gates |-> Gate(i).type = "SHARED_IN"]
<1>1. /\ DOMAIN s = Common \cup Sides /\ s.val = left.val /\ s.live = Listed(live)
      /\ s.bool = Bool!NewBool(circ, DOMAIN left.bool.lutGates) /\ s.arith = Arith!NewArith
      /\ s.lut = Lut!NewLut(circ, p) /\ s.yao = [x \in Yao |-> NewYao(p, x, left.yao[x])]
  BY DEF NewShare, Common, Sides
<1> HIDE DEF s
<1>2. s.live \in [Newer(circ) -> BOOLEAN]
  <2>1. Gates = 1 .. Len(circ.gates) /\ Len(circ.gates) \in Nat
    BY DEF HasGatesInOrder, Gates
  <2>2. \A i \in Gates : live[i] \in BOOLEAN
    OBVIOUS
  <2>3. live = [i \in 1 .. Len(circ.gates) |-> live[i]]
    BY <2>1
  <2> HIDE DEF live
  <2>4. live \in [1 .. Len(circ.gates) -> BOOLEAN]
    BY <2>1, <2>2, <2>3
  <2>5. live \in Seq(BOOLEAN) /\ Len(live) = Len(circ.gates)
    BY ONLY <2>1, <2>4
  <2>6. Listed(live) \in Seq(BOOLEAN) /\ Len(Listed(live)) = Len(circ.gates)
    BY ONLY <2>1, <2>5 DEF Listed
  <2> QED BY <1>1, <2>1, <2>6 DEF Newer
<1>3. IsStore(circ, s)
  BY <1>1, <1>2 DEF IsStore, HasRoom
<1>4. IsBool(circ, s.bool) /\ s.bool.mtIdx = NoAnds /\ s.bool.mtStartIdx = NoAnds
  BY <1>1, NewBoolIs
<1>5. IsArith(circ, s.arith) /\ IsLut(circ, s.lut)
  BY <1>1, NewArithIs, NewLutIs
<1>6. IsYao(p, circ, s.yao)
  <2> DEFINE old == left.yao
  <2>1. \A x \in Yao : ~ Garbles(p, x) => old[x].rcvGates \in Seq(Nat)
    BY DEF Waits
  <2>2. s.yao = [x \in Yao |-> NewYao(p, x, old[x])]
    BY <1>1
  <2> HIDE DEF old
  <2> QED BY <2>1, <2>2, NewYaoIs
<1>7. IsShare(p, s)
  BY <1>3, <1>4, <1>5, <1>6 DEF IsShare, IsRecord
<1>8. Fresh(s)
  BY <1>1, <1>4 DEF Fresh, Arith!NewArith
<1> QED BY <1>7, <1>8 DEF s

LEMMA OwnCircuitIs ==
    ASSUME NEW p \in Party
    PROVE  /\ OwnCircuit(p) \in Yao /\ Garbles(p, OwnCircuit(p)) /\ Other(p) \in Party
           /\ ~ Garbles(p, OwnCircuit(Other(p)))
<1>1. ASSUME NEW q \in Party
      PROVE  OwnCircuit(q) \in Yao /\ Garbles(q, OwnCircuit(q))
  <2>1. \E x \in Yao : Garbles(q, x)
    BY DEF Party, Yao, Garbles, Garbling!Garbler
  <2> QED BY <2>1 DEF OwnCircuit
<1>2. Other(p) \in Party /\ Other(p) # p
  BY DEF Other, Party
<1>3. Garbles(Other(p), OwnCircuit(Other(p)))
  BY <1>1, <1>2
<1> QED BY <1>1, <1>2, <1>3 DEF Garbles

LEMMA FreshRests ==
    ASSUME NEW p, NEW s, NEW t, Fresh(s), Rests(p, s, t)
    PROVE  Fresh(t) /\ IsShare(p, t)
BY DEF Fresh, Rests, SameCounts, Follows

LEMMA SetupIsFresh ==
    ASSUME HasGatesInOrder(circ), HasLayers(circ), NEW p \in Party,
           HasRoom(circ, share[p]), Waits(p, share[p])
    PROVE  IsShare(p, PerformSetup(p)) /\ Fresh(PerformSetup(p))
<1> DEFINE s == NewShare(p, share[p].val, share[p])
           t == PerformSetup(p)
           x == OwnCircuit(p)
<1>1. IsShare(p, s) /\ Fresh(s)
  BY NewShareIs
<1>2. t = Garbling!PerformSetupPhase(x, s)
  BY DEF PerformSetup
<1>3. x \in Yao /\ Garbles(p, x)
  BY OwnCircuitIs
<1> HIDE DEF s, t, x
<1>4. YaoRuns(p, s, t)
  BY <1>1, <1>2, <1>3, GarblerSetup DEF IsShare, IsRecord
<1>5. Rests(p, s, t)
  BY <1>1, <1>4, SideRests DEF YaoRuns, Sides
<1> QED BY <1>1, <1>5, FreshRests DEF t

LEMMA ReceiveGarbledIsFresh ==
    ASSUME NEW p \in Party, NEW s, IsShare(p, s), Fresh(s), NEW other
    PROVE  IsShare(p, ReceiveGarbled(p, s, other)) /\ Fresh(ReceiveGarbled(p, s, other))
<1> DEFINE x == OwnCircuit(Other(p))
           t == ReceiveGarbled(p, s, other)
<1>1. t = Evaluation!FinishSetupPhase(x, s, other.yao[x], Garbling!OutputShares(x, other))
  BY DEF ReceiveGarbled
<1>2. x \in Yao /\ ~ Garbles(p, x)
  BY OwnCircuitIs
<1> HIDE DEF t, x
<1>3. YaoRuns(p, s, t)
  BY <1>1, <1>2, EvaluatorSetup DEF IsShare, IsRecord
<1>4. Rests(p, s, t)
  BY <1>3, SideRests DEF YaoRuns, Sides
<1> QED BY <1>4, FreshRests DEF t

-------------------------------------------------------------------------------
(***************************************************************************)
(* The multiplications, and the last layer.                                *)
(***************************************************************************)
LEMMA NumMULsIs ==
    ASSUME NEW c, HasGatesInOrder(c)
    PROVE  NumMULs(c) = InAll(c, MulVals(c))
<1> DEFINE S == {i \in DOMAIN c.gates : IsMul(c.gates[i])}
           q == InOrder(S, Len(c.gates))
           w == MulVals(c)
<1>1. GatesWhere(c, LAMBDA g : g.context = "ARITH" /\ g.type = "NON_LIN") = q
  BY DEF GatesWhere, IsMul
<1>2. S \in SUBSET (1 .. Len(c.gates)) /\ Len(c.gates) \in Nat
  BY DEF HasGatesInOrder
<1>3. Picks(q, S)
  BY <1>2, InOrderPicks
<1>4. NumMULs(c) = SumNvals(c, q)
  BY <1>1 DEF NumMULs
<1>5. SumNvals(c, q) = Total(Of(w, q), Len(q))
  <2>1. Len(q) \in Nat /\ DOMAIN q = 1 .. Len(q)
    BY <1>3 DEF Picks
  <2>2. ASSUME NEW k \in 1 .. Len(q) PROVE c.gates[q[k]].nvals = Of(w, q)[k]
    <3>1. q[k] \in S
      BY <1>3, Zenon DEF Picks
    <3>2. w[q[k]] = c.gates[q[k]].nvals
      BY <3>1, <1>2, Zenon DEF MulVals, Newer
    <3> QED BY <3>2 DEF Of
  <2> HIDE DEF q
  <2>3. \A k \in 1 .. Len(q) : [k_1 \in DOMAIN q |-> c.gates[q[k_1]].nvals][k] = Of(w, q)[k]
    BY <2>1, <2>2
  <2> QED BY <2>1, <2>3, TotalSame, Zenon DEF SumNvals
<1>6. \A i \in 1 .. Len(c.gates) : w[i] \in Nat /\ Only(S, w, Len(c.gates))[i] = w[i]
  BY MulValsAre, <1>2, Zenon DEF Weights, Newer, Only, MulVals, HasGatesInOrder
<1> HIDE DEF q, S, w
<1>7. Total(Of(w, q), Len(q)) = Total(Only(S, w, Len(c.gates)), Len(c.gates))
  BY <1>2, <1>3, <1>6, TotalPicked, Zenon
<1>8. Total(Only(S, w, Len(c.gates)), Len(c.gates)) = Total(w, Len(c.gates))
  BY <1>2, <1>6, TotalSame, Zenon
<1> QED BY <1>4, <1>5, <1>7, <1>8 DEF InAll, w

LEMMA NumANDsIs ==
    ASSUME HasANDsCounted(circ), HasGatesInOrder(circ), NEW k \in DOMAIN circ.ands
    PROVE  circ.ands[k].numgates = InAll(circ, AndVals(circ, k))
<1>1. circ.ands[k].numgates =
          Total([i \in DOMAIN circ.gates |-> AndsTaken(circ, i, circ.ands[k].bitlen)], Len(circ.gates))
  BY DEF HasANDsCounted
<1>2. DOMAIN circ.gates = Newer(circ)
  BY DEF HasGatesInOrder, Newer
<1> QED BY <1>1, <1>2 DEF InAll, AndVals

\* Of five numbers one is the greatest.
LEMMA GreatestOfFive ==
    ASSUME NEW f, \A n \in 1 .. 5 : f[n] \in Nat
    PROVE  \E m \in 1 .. 5 : \A n \in 1 .. 5 : f[n] <= f[m]
<1> DEFINE Has(n) == \E m \in 1 .. n : \A k \in 1 .. n : f[k] <= f[m]
           T == {n \in 0 .. 5 : n = 0 \/ Has(n)}
<1>1. 0 \in T
  OBVIOUS
<1>2. ASSUME NEW n \in 1 .. 5, n - 1 \in T PROVE n \in T
  <2>1. CASE n = 1
    <3>1. \A k \in 1 .. 1 : f[k] <= f[1]
      OBVIOUS
    <3> QED BY <2>1, <3>1
  <2>2. CASE n # 1
    <3>1. PICK m \in 1 .. n - 1 : \A k \in 1 .. n - 1 : f[k] <= f[m]
      BY <1>2, <2>2
    <3>2. f[n] \in Nat /\ f[m] \in Nat /\ m \in 1 .. n /\ \A k \in 1 .. n - 1 : f[k] \in Nat
      OBVIOUS
    <3>3. \A k \in 1 .. n : k = n \/ k \in 1 .. n - 1
      OBVIOUS
    <3>4. CASE f[n] <= f[m]
      <4>1. \A k \in 1 .. n : f[k] <= f[m]
        BY <3>1, <3>3, <3>4
      <4> QED BY <3>2, <4>1
    <3>5. CASE ~ (f[n] <= f[m])
      <4>1. \A k \in 1 .. n : f[k] <= f[n]
        BY <3>1, <3>2, <3>3, <3>5
      <4> QED BY <4>1
    <3> QED BY <3>4, <3>5
  <2> QED BY <2>1, <2>2
<1> HIDE DEF T
<1>3. \A n \in 0 .. 5 : n \in T
  BY <1>1, <1>2, UpToInduction
<1>4. 5 \in T
  BY <1>3
<1> QED BY <1>4 DEF T

LEMMA MaxDepthIs ==
    ASSUME HasLayers(circ)
    PROVE  MaxDepth(circ) \in Nat /\ \A x \in ToSet(Sharings) : circ.maxdepth[x] <= MaxDepth(circ)
<1> DEFINE of(x) == circ.maxdepth[x] + (IF x = "SPLUT" THEN 1 ELSE 0)
           S == {of(x) : x \in ToSet(Sharings)}
           f == [n \in 1 .. 5 |-> of(Sharings[n])]
<1>1. \A x \in ToSet(Sharings) : circ.maxdepth[x] \in Nat
  BY Zenon DEF HasLayers
<1>2. ToSet(Sharings) = {Sharings[n] : n \in 1 .. 5}
  BY SharingsAre DEF ToSet
<1>3. \A x \in ToSet(Sharings) : of(x) \in Nat /\ circ.maxdepth[x] <= of(x)
  BY <1>1
<1>4. MaxDepth(circ) = Max(S)
  BY DEF MaxDepth
<1>5. S = {f[n] : n \in 1 .. 5}
  <2>1. \A n \in 1 .. 5 : f[n] = of(Sharings[n])
    OBVIOUS
  <2> HIDE DEF f, of
  <2> QED BY <1>2, <2>1
<1>6. \A n \in 1 .. 5 : f[n] \in Nat
  BY <1>2, <1>3
<1> HIDE DEF f
<1>7. PICK m \in 1 .. 5 : \A n \in 1 .. 5 : f[n] <= f[m]
  BY <1>6, GreatestOfFive
<1>8. Max(S) \in S /\ \A y \in S : y <= Max(S)
  <2>1. f[m] \in S /\ \A y \in S : y <= f[m]
    BY <1>5, <1>7
  <2> HIDE DEF S
  <2> QED BY <2>1 DEF Max
<1>9. \A x \in ToSet(Sharings) : of(x) \in S
  OBVIOUS
<1>10. Max(S) \in Nat
  BY <1>5, <1>6, <1>8
<1> HIDE DEF S, of
<1>11. ASSUME NEW x \in ToSet(Sharings) PROVE circ.maxdepth[x] <= Max(S)
  BY <1>1, <1>3, <1>8, <1>9, <1>10
<1> QED BY <1>4, <1>10, <1>11

-------------------------------------------------------------------------------
(***************************************************************************)
(* The counts from layer to layer.                                         *)
(***************************************************************************)
LEMMA SetupBegins ==
    ASSUME HasGatesInOrder(circ), HasANDsCounted(circ), HasLayers(circ), NEW p \in Party, NEW s, Fresh(s)
    PROVE  BetweenLayers(p, circ, 0, s)
<1>1. \A w : BeforeLayer(circ, w, 0) = 0
  BY BeforeNone
<1>2. /\ s.arith.convIdx = 0 /\ s.arith.convSndCtr = 0 /\ s.arith.convRcvCtr = 0
      /\ s.arith.CONVGates = <<>> /\ s.arith.CONVGates2 = <<>> /\ s.arith.mtIdx = 0
  BY DEF Fresh
<1>3. ConversionsBegin(p, circ, 0, s.arith)
  BY <1>1, <1>2 DEF ConversionsBegin, Unanswered, Settled
<1>4. \A k \in DOMAIN circ.ands : s.bool.mtIdx[k] = 0 /\ s.bool.mtStartIdx[k] = 0
  BY DEF Fresh, NoAnds
<1>5. ASSUME NEW k \in DOMAIN circ.ands PROVE 0 <= Bool!NumMTs(circ, k)
  <2>1. circ.ands[k].numgates \in Nat
    BY NumANDsIs, AndValsAre, SumsAreNat
  <2>2. circ.maxdepth["BOOL"] \in Nat
    BY YaoOf, Zenon DEF HasLayers
  <2> QED BY <2>1, <2>2 DEF Bool!NumMTs
<1>6. TriplesBegin(circ, 0, s.bool)
  BY <1>1, <1>4, <1>5 DEF TriplesBegin
<1> QED BY <1>1, <1>2, <1>3, <1>4, <1>6 DEF BetweenLayers, Asked

LEMMA EvaluateTakes ==
    ASSUME HasGatesInOrder(circ), NEW p \in Party, NEW s, NEW t,
           IsShare(p, s), BetweenLayers(p, circ, depth[p], s), depth[p] \in Nat, TakenAt(p, s, 5, t)
    PROVE  InLayer(p, circ, depth[p], t)
<1> DEFINE d == depth[p]
           a == s.arith
           b == t.arith
           muls == AtLayer(circ, MulVals(circ), d)
           bits == AtLayer(circ, ConvBits(circ), d)
<1>1. /\ b.mtIdx = a.mtIdx + muls /\ Asked(p, b) = Asked(p, a) + bits
      /\ b.convIdx = a.convIdx /\ b.CONVGates2 = a.CONVGates2
      /\ p = "CLIENT" => b.convRcvCtr = a.convRcvCtr
      /\ AsksForAll(p, a) => AsksForAll(p, b)
  BY DEF TakenAt, ArithTakes
<1>2. /\ \A k \in DOMAIN circ.ands : t.bool.mtIdx[k] = s.bool.mtIdx[k] + AtLayer(circ, AndVals(circ, k), d)
      /\ t.bool.mtStartIdx = s.bool.mtStartIdx
  <2>1. BoolTakes(s.bool, t.bool, AndsAt(d))
    BY DEF TakenAt
  <2>2. \A k \in DOMAIN circ.ands : AndsAt(d)[k] = AtLayer(circ, AndVals(circ, k), d)
    BY DEF AndsAt
  <2> HIDE DEF d
  <2> QED BY <2>1, <2>2 DEF BoolTakes
<1>3. /\ ConversionsBegin(p, circ, d, a) /\ TriplesBegin(circ, d, s.bool)
      /\ Asked(p, a) = 0 /\ a.CONVGates = <<>> /\ a.mtIdx = BeforeLayer(circ, MulVals(circ), d)
      /\ \A k \in DOMAIN circ.ands : s.bool.mtIdx[k] = s.bool.mtStartIdx[k]
  BY DEF BetweenLayers
<1>4. bits \in Nat
  BY ConvBitsAre, SumsAreNat
<1>5. b.mtIdx = BeforeLayer(circ, MulVals(circ), d + 1)
  BY <1>1, <1>3, MulValsAre, BeforeNext
<1> HIDE DEF a, b, d, muls, bits
<1>6. Asked(p, b) = bits /\ AsksForAll(p, b)
  BY <1>1, <1>3, <1>4 DEF AsksForAll
<1>7. ConversionsBegin(p, circ, d, b)
  BY <1>1, <1>3 DEF ConversionsBegin, Settled, Party
<1>8. TriplesBegin(circ, d, t.bool)
  BY <1>2, <1>3 DEF TriplesBegin
<1>9. \A k \in DOMAIN circ.ands :
          t.bool.mtIdx[k] = t.bool.mtStartIdx[k] + AtLayer(circ, AndVals(circ, k), d)
  BY <1>2, <1>3
<1> QED BY <1>5, <1>6, <1>7, <1>8, <1>9 DEF InLayer, b, d, bits

LEMMA RestsInLayer ==
    ASSUME NEW p, NEW d, NEW s, NEW t, InLayer(p, circ, d, s), SameCounts(s, t)
    PROVE  InLayer(p, circ, d, t)
<1>1. ConversionsBegin(p, circ, d, t.arith)
  BY DEF InLayer, SameCounts, ConversionsBegin, Settled
<1>2. TriplesBegin(circ, d, t.bool)
  BY DEF InLayer, SameCounts, TriplesBegin
<1>3. Asked(p, t.arith) = Asked(p, s.arith)
  BY DEF SameCounts, Asked
<1> QED BY <1>1, <1>2, <1>3 DEF InLayer, SameCounts, AsksForAll

\* The triples of a layer, with those that are skipped at its end, are there.
LEMMA TriplesLast ==
    ASSUME HasGatesInOrder(circ), HasANDsCounted(circ), HasLayers(circ), NEW d \in Nat,
           NEW k \in DOMAIN circ.ands, NEW start \in Nat, start % 8 = 0,
           start <= BeforeLayer(circ, AndVals(circ, k), d) + 8 * d, start <= Bool!NumMTs(circ, k)
    PROVE  LET n == start + AtLayer(circ, AndVals(circ, k), d)
               next == 8 * ((n + 7) \div 8)
           IN  /\ n \in Nat /\ n <= next /\ next \in Nat /\ next % 8 = 0
               /\ next <= BeforeLayer(circ, AndVals(circ, k), d + 1) + 8 * (d + 1)
               /\ next <= Bool!NumMTs(circ, k)
<1> DEFINE w == AndVals(circ, k)
           at == AtLayer(circ, w, d)
           before == BeforeLayer(circ, w, d)
           n == start + at
           next == 8 * ((n + 7) \div 8)
           most == circ.maxdepth["BOOL"]
<1>1. Weights(circ, w)
  BY AndValsAre
<1>2. at \in Nat /\ before \in Nat /\ start <= before + 8 * d
  BY <1>1, SumsAreNat
<1>3. BeforeLayer(circ, w, d + 1) = before + at
  BY <1>1, BeforeNext
<1>4. before + at <= circ.ands[k].numgates
  <2>1. BeforeLayer(circ, w, d + 1) <= InAll(circ, w)
    BY <1>1, BeforeLeqAll
  <2> QED BY <1>3, <2>1, NumANDsIs
<1>5. most \in Nat
  BY YaoOf, Zenon DEF HasLayers
<1>6. at # 0 => d < most
  <2>1. ASSUME ~ (d < most) PROVE at = 0
    <3>1. ASSUME NEW i \in 1 .. Len(circ.gates) PROVE AtDepthOnly(circ, w, d)[i] = 0
      <4>1. i \in Newer(circ) /\ i \in DOMAIN circ.gates
        BY DEF Newer, HasGatesInOrder
      <4>2. CASE circ.gates[i].context = "BOOL"
        <5>1. circ.gates[i].depth < most
          BY <4>1, <4>2, YaoOf, Zenon DEF HasLayers
        <5>2. circ.gates[i].depth # d
          BY <2>1, <5>1
        <5> QED BY <4>1, <5>2 DEF AtDepthOnly
      <4>3. CASE circ.gates[i].context # "BOOL"
        <5>1. w[i] = 0
          BY <4>1, <4>3 DEF AndVals, AndsTaken
        <5> QED BY <4>1, <5>1 DEF AtDepthOnly
      <4> QED BY <4>2, <4>3
    <3> QED BY <3>1, TotalZero DEF AtLayer, HasGatesInOrder
  <2> QED BY <2>1
<1>7. circ.ands[k].numgates \in Nat
  BY <1>1, NumANDsIs, SumsAreNat
<1>8. Bool!NumMTs(circ, k) = IF circ.ands[k].numgates > 0 THEN circ.ands[k].numgates + 8 * most ELSE 0
  BY DEF Bool!NumMTs
<1> HIDE DEF at, before, most, w
<1>9. n \in Nat /\ n <= next /\ next <= n + 7 /\ next \in Nat /\ next % 8 = 0
  BY <1>2
<1>10. next <= before + at + 8 * (d + 1)
  BY <1>2, <1>9
<1>11. next <= Bool!NumMTs(circ, k)
  <2>1. CASE at = 0
    <3>1. n = start
      BY <2>1
    <3>2. next = start
      BY <3>1
    <3> QED BY <3>2
  <2>2. CASE at # 0
    <3>1. d + 1 <= most
      BY <1>5, <1>6, <2>2
    <3>2. circ.ands[k].numgates > 0
      BY <1>2, <1>4, <1>7, <2>2
    <3> HIDE DEF n, next
    <3>3. next <= circ.ands[k].numgates + 8 * most
      BY <1>2, <1>4, <1>5, <1>7, <1>9, <1>10, <3>1
    <3> QED BY <1>8, <3>2, <3>3
  <2> QED BY <2>1, <2>2
<1> HIDE DEF n, next
<1>12. next <= BeforeLayer(circ, w, d + 1) + 8 * (d + 1)
  BY <1>3, <1>10
<1> QED BY <1>9, <1>11, <1>12 DEF n, next, at, w

LEMMA FinishBegins ==
    ASSUME HasGatesInOrder(circ), HasANDsCounted(circ), HasLayers(circ), NEW p \in Party, NEW s, NEW t,
           NEW d \in Nat, InLayer(p, circ, d, s), FinishedAt(p, s, 5, t)
    PROVE  BetweenLayers(p, circ, d + 1, t)
<1> DEFINE a == s.arith
           b == t.arith
           bits == AtLayer(circ, ConvBits(circ), d)
<1>1. ArithEnds(p, a, b) /\ BoolEnds(s.bool, t.bool)
  BY DEF FinishedAt
<1>2. /\ ConversionsBegin(p, circ, d, a) /\ TriplesBegin(circ, d, s.bool)
      /\ Asked(p, a) = bits /\ AsksForAll(p, a)
      /\ a.mtIdx = BeforeLayer(circ, MulVals(circ), d + 1)
      /\ \A k \in DOMAIN circ.ands :
          s.bool.mtIdx[k] = s.bool.mtStartIdx[k] + AtLayer(circ, AndVals(circ, k), d)
  BY DEF InLayer
<1>3. Unanswered(circ, d + 1) = bits
  BY DEF Unanswered
<1>4. BeforeLayer(circ, ConvBits(circ), d + 1) = BeforeLayer(circ, ConvBits(circ), d) + bits
  BY ConvBitsAre, BeforeNext
<1> HIDE DEF a, b, bits
<1>5. ConversionsBegin(p, circ, d + 1, b)
  BY <1>1, <1>2, <1>3, <1>4 DEF ConversionsBegin, ArithEnds
<1>6. Asked(p, b) = 0 /\ b.CONVGates = <<>> /\ b.mtIdx = BeforeLayer(circ, MulVals(circ), d + 1)
  BY <1>1, <1>2 DEF ArithEnds
<1>7. \A k \in DOMAIN circ.ands : t.bool.mtIdx[k] = t.bool.mtStartIdx[k]
  BY <1>1 DEF BoolEnds
<1>8. TriplesBegin(circ, d + 1, t.bool)
  <2>1. ASSUME NEW k \in DOMAIN circ.ands
        PROVE  /\ t.bool.mtStartIdx[k] \in Nat /\ t.bool.mtStartIdx[k] % 8 = 0
               /\ t.bool.mtStartIdx[k] <= BeforeLayer(circ, AndVals(circ, k), d + 1) + 8 * (d + 1)
               /\ t.bool.mtStartIdx[k] <= Bool!NumMTs(circ, k)
    <3> DEFINE start == s.bool.mtStartIdx[k]
               n == start + AtLayer(circ, AndVals(circ, k), d)
    <3>1. /\ start \in Nat /\ start % 8 = 0
          /\ start <= BeforeLayer(circ, AndVals(circ, k), d) + 8 * d /\ start <= Bool!NumMTs(circ, k)
      BY <1>2 DEF TriplesBegin
    <3>2. t.bool.mtStartIdx[k] = 8 * ((n + 7) \div 8)
      BY <1>1, <1>2 DEF BoolEnds
    <3> HIDE DEF start
    <3> QED BY <3>1, <3>2, TriplesLast, Zenon
  <2> QED BY <2>1 DEF TriplesBegin
<1> QED BY <1>5, <1>6, <1>7, <1>8 DEF BetweenLayers, b

-------------------------------------------------------------------------------
(***************************************************************************)
(* The invariant, at the start and from step to step.                      *)
(***************************************************************************)
LEMMA InitInv == Init => Inv
<1> SUFFICES ASSUME Init PROVE Inv
  OBVIOUS
<1>1. load \in Seq(Circuits)
  BY WorkloadsAssumption DEF Init
<1>2. \A p \in Party : step[p] = "reset" /\ todo[p] = {} /\ depth[p] = 0 /\ share[p] = Before
  BY DEF Init
<1>3. \A p : Waits(p, Before)
  <2>1. \A x \in Yao : Before.yao[x].rcvGates = <<>>
    BY DEF Before
  <2>2. <<>> \in Seq(Nat)
    OBVIOUS
  <2>3. \A x \in Yao : Before.yao[x].rcvGates \in Seq(Nat)
    BY ONLY <2>1, <2>2, Zenon
  <2> QED BY ONLY <2>3 DEF Waits
<1> QED BY <1>1, <1>2, <1>3 DEF Init, Inv, StepOK, Steps

\* The circuits are well-formed.
LEMMA CircuitIs ==
    ASSUME NEW c \in Circuits
    PROVE  HasGatesInOrder(c) /\ HasLayers(c) /\ HasANDsCounted(c) /\ UsesConversions(c)
BY WorkloadsAssumption DEF WellFormed

\* A party that does not move, while the circuit stays.
OthersStay(p) ==
    /\ circ' = circ /\ run' = run /\ seed' = seed /\ load' = load
    /\ \A q \in Party : q # p => step'[q] = step[q] /\ todo'[q] = todo[q] /\ depth'[q] = depth[q]
                               /\ share'[q] = share[q]

\* A party's step, with the circuit there.
LEMMA OneMoves ==
    ASSUME Inv, run > 0, NEW p \in Party, OthersStay(p),
           step' \in [Party -> Steps], todo' \in [Party -> SUBSET {"send", "receive"}],
           depth' \in [Party -> Nat], DOMAIN share' = Party,
           StepOK(step'[p], todo'[p], depth'[p]), Waits(p, share'[p]),
           PartyOK(p, circ, step'[p], depth'[p], share'[p])
    PROVE  Inv'
<1>1. \A q \in Party : q # p =>
          /\ StepOK(step'[q], todo'[q], depth'[q]) /\ Waits(q, share'[q])
          /\ PartyOK(q, circ', step'[q], depth'[q], share'[q])
  BY DEF Inv, OthersStay
<1>2. \A q \in Party :
          /\ StepOK(step'[q], todo'[q], depth'[q]) /\ Waits(q, share'[q])
          /\ PartyOK(q, circ', step'[q], depth'[q], share'[q])
  BY <1>1 DEF OthersStay
<1>3. /\ run' \in Nat /\ seed' \in Seeds /\ load' \in Seq(Circuits) /\ circ' \in Circuits
      /\ run' > 0 /\ run' # 0
  BY DEF Inv, OthersStay
<1> QED BY <1>2, <1>3 DEF Inv

LEMMA WaitsIn ==
    ASSUME NEW p, NEW s, IsRecord(p, circ, s)
    PROVE  Waits(p, s)
BY DEF IsRecord, IsYao, IsEvaluator, Waits

\* What the parties have of circuit d when input is shared out.
Given(d, input, old) ==
    [p \in Party |-> [bool |-> old[p].bool, yao |-> old[p].yao,
        val |-> [i \in DOMAIN d.gates |->
            IF d.gates[i].type = "SHARED_IN" THEN GivenShare(d, input, p, i) ELSE <<>>]]]

LEMMA BuildInv ==
    ASSUME Inv, Build
    PROVE  Inv'
<1> DEFINE c == Head(load)
<1>0. load # <<>> /\ load \in Seq(Circuits) /\ \A p \in Party : step[p] = "reset"
  BY DEF Build, Inv
<1>1. c \in Circuits /\ Tail(load) \in Seq(Circuits)
  BY <1>0
<1>2. HasGatesInOrder(c)
  BY <1>1, CircuitIs
<1>3. /\ load' = Tail(load) /\ circ' = c /\ run' = run + 1 /\ seed' = seed
      /\ depth' = depth /\ todo' = todo /\ step' = [p \in Party |-> "setup"]
  BY DEF Build
<1> HIDE DEF c
<1>4. PICK input : share' = Given(c, input, share)
  <2>1. \E d \in {c} : \E input \in Inputs(d) : share' = Given(d, input, share)
    BY Zenon DEF Build, Given, c
  <2> QED BY <2>1
<1>5. DOMAIN share' = Party
  BY <1>4 DEF Given
<1>6. ASSUME NEW p \in Party
      PROVE  HasRoom(c, share'[p]) /\ Waits(p, share'[p])
  <2> DEFINE given(i) == IF c.gates[i].type = "SHARED_IN" THEN GivenShare(c, input, p, i) ELSE <<>>
  <2>1. share'[p].val = [i \in DOMAIN c.gates |-> given(i)] /\ share'[p].yao = share[p].yao
    BY <1>4 DEF Given
  <2>2. Waits(p, share'[p])
    BY <2>1 DEF Waits, Inv
  <2>3. ASSUME NEW i \in Newer(c)
        PROVE  DOMAIN given(i) = 1 .. Len(given(i)) /\ Len(given(i)) \in {0, c.gates[i].nvals}
    <3>1. c.gates[i].nvals \in Nat
      BY <1>2 DEF HasGatesInOrder, IsGate, Newer
    <3>2. CASE c.gates[i].type = "SHARED_IN"
      <4>1. DOMAIN GivenShare(c, input, p, i) = 1 .. c.gates[i].nvals
        BY DEF GivenShare
      <4>2. Len(GivenShare(c, input, p, i)) = c.gates[i].nvals
        BY <3>1 DEF GivenShare
      <4> QED BY <3>2, <4>1, <4>2
    <3>3. CASE c.gates[i].type # "SHARED_IN"
      BY <3>3
    <3> QED BY <3>2, <3>3
  <2>4. DOMAIN c.gates = Newer(c)
    BY <1>2 DEF HasGatesInOrder, Newer
  <2> HIDE DEF given
  <2> QED BY <2>1, <2>2, <2>3, <2>4 DEF HasRoom
<1>7. ASSUME NEW p \in Party
      PROVE  /\ StepOK(step'[p], todo'[p], depth'[p]) /\ Waits(p, share'[p])
             /\ PartyOK(p, circ', step'[p], depth'[p], share'[p])
  <2>1. StepOK(step[p], todo[p], depth[p]) /\ step[p] = "reset"
    BY <1>0 DEF Inv
  <2>2. step'[p] = "setup" /\ todo'[p] = todo[p] /\ depth'[p] = depth[p]
    BY <1>3
  <2>3. StepOK(step'[p], todo'[p], depth'[p])
    BY <2>1, <2>2 DEF StepOK
  <2> QED BY <1>3, <1>6, <2>2, <2>3 DEF PartyOK
<1>8. /\ run' \in Nat /\ run' # 0 /\ seed' \in Seeds /\ load' \in Seq(Circuits) /\ circ' \in Circuits
      /\ step' \in [Party -> Steps] /\ todo' \in [Party -> SUBSET {"send", "receive"}]
      /\ depth' \in [Party -> Nat]
  BY <1>1, <1>3 DEF Inv, Steps
<1> QED BY <1>5, <1>7, <1>8 DEF Inv

\* A layer, or the end.
LEMMA BeginsLayer ==
    ASSUME HasLayers(circ), NEW p, NEW d \in Nat, NEW s,
           IsRecord(p, circ, s), BetweenLayers(p, circ, d, s), d <= MaxDepth(circ)
    PROVE  /\ AtDepth(d) \in {"evaluate", "synchronize"}
           /\ PartyOK(p, circ, AtDepth(d), d, s) /\ StepOK(AtDepth(d), {}, d)
<1>1. MaxDepth(circ) \in Nat
  BY MaxDepthIs
<1>2. AtDepth(d) \in {"evaluate", "synchronize"} /\ DepthOK(circ, AtDepth(d), d)
  BY <1>1 DEF AtDepth, DepthOK
<1>3. ShareOK(p, circ, AtDepth(d), d, s)
  BY <1>2 DEF ShareOK, BetweenLayers, TriplesBegin
<1>4. PartyOK(p, circ, AtDepth(d), d, s)
  BY <1>2, <1>3 DEF PartyOK
<1> QED BY <1>2, <1>4 DEF StepOK

LEMMA SetupInv ==
    ASSUME Inv, PerformSetupPhase
    PROVE  Inv'
<1>0. \A p \in Party : step[p] = "setup"
  BY DEF PerformSetupPhase
<1>1. run > 0 /\ run \in Nat
  BY <1>0 DEF Inv, Party
<1>2. circ \in Circuits /\ HasGatesInOrder(circ) /\ HasLayers(circ) /\ HasANDsCounted(circ)
  BY <1>1, CircuitIs DEF Inv
<1>3. ASSUME NEW p \in Party
      PROVE  /\ HasRoom(circ, share[p]) /\ Waits(p, share[p])
             /\ todo[p] = {} /\ depth[p] = 0
  <2>1. PartyOK(p, circ, step[p], depth[p], share[p]) /\ StepOK(step[p], todo[p], depth[p])
        /\ Waits(p, share[p])
    BY <1>1 DEF Inv
  <2> QED BY <1>0, <2>1 DEF PartyOK, StepOK
<1> DEFINE new == [SERVER |-> PerformSetup("SERVER"), CLIENT |-> PerformSetup("CLIENT")]
<1>4. /\ share' = [p \in Party |-> ReceiveGarbled(p, new[p], new[Other(p)])]
      /\ step' = [p \in Party |-> AtDepth(0)]
      /\ run' = run /\ circ' = circ /\ seed' = seed /\ load' = load /\ todo' = todo /\ depth' = depth
  BY DEF PerformSetupPhase
<1>5. \A p \in Party : new[p] = PerformSetup(p)
  BY DEF Party
<1> HIDE DEF new
<1>6. ASSUME NEW p \in Party
      PROVE  /\ step'[p] \in Steps /\ StepOK(step'[p], todo'[p], depth'[p]) /\ Waits(p, share'[p])
             /\ PartyOK(p, circ', step'[p], depth'[p], share'[p])
  <2> DEFINE s == new[p]
             t == ReceiveGarbled(p, s, new[Other(p)])
  <2>1. IsShare(p, s) /\ Fresh(s)
    BY <1>2, <1>3, <1>5, SetupIsFresh
  <2>2. share'[p] = t /\ step'[p] = AtDepth(0) /\ todo'[p] = {} /\ depth'[p] = 0
    BY <1>3, <1>4
  <2>3. IsShare(p, t) /\ Fresh(t)
    <3> HIDE DEF s
    <3> QED BY <2>1, ReceiveGarbledIsFresh
  <2> HIDE DEF s, t
  <2>4. BetweenLayers(p, circ, 0, t)
    BY <1>2, <2>3, SetupBegins
  <2>5. 0 <= MaxDepth(circ)
    BY <1>2, MaxDepthIs
  <2>6. IsRecord(p, circ, t)
    BY <2>3 DEF IsShare
  <2>7. /\ AtDepth(0) \in {"evaluate", "synchronize"}
        /\ PartyOK(p, circ, AtDepth(0), 0, t) /\ StepOK(AtDepth(0), {}, 0)
    BY <1>2, <2>4, <2>5, <2>6, BeginsLayer
  <2>8. Waits(p, t)
    BY <2>6, WaitsIn
  <2> QED BY <1>4, <2>2, <2>7, <2>8 DEF Steps
<1>7. DOMAIN share' = Party /\ step' \in [Party -> Steps]
  BY <1>4, <1>6
<1>8. /\ run' \in Nat /\ run' # 0 /\ seed' \in Seeds /\ load' \in Seq(Circuits) /\ circ' \in Circuits
      /\ todo' \in [Party -> SUBSET {"send", "receive"}] /\ depth' \in [Party -> Nat]
  BY <1>1, <1>2, <1>4 DEF Inv
<1> QED BY <1>6, <1>7, <1>8 DEF Inv

\* A party that is in a circuit.
LEMMA InIt ==
    ASSUME Inv, NEW p \in Party, step[p] # "reset", step[p] # "setup"
    PROVE  /\ run > 0 /\ circ \in Circuits /\ HasGatesInOrder(circ) /\ HasLayers(circ)
           /\ HasANDsCounted(circ) /\ depth[p] \in Nat
           /\ DepthOK(circ, step[p], depth[p]) /\ ShareOK(p, circ, step[p], depth[p], share[p])
           /\ StepOK(step[p], todo[p], depth[p]) /\ IsRecord(p, circ, share[p])
<1>1. run > 0 /\ circ \in Circuits
  BY DEF Inv
<1>2. PartyOK(p, circ, step[p], depth[p], share[p]) /\ StepOK(step[p], todo[p], depth[p])
      /\ depth[p] \in Nat
  BY <1>1 DEF Inv
<1>3. DepthOK(circ, step[p], depth[p]) /\ ShareOK(p, circ, step[p], depth[p], share[p])
  BY <1>2 DEF PartyOK
<1> QED BY <1>1, <1>2, <1>3, CircuitIs DEF ShareOK

LEMMA EvaluateInv ==
    ASSUME Inv, NEW p \in Party, Evaluate(p)
    PROVE  Inv'
<1> DEFINE s == share[p]
           t == Evaluated(p, s)
           d == depth[p]
<1>1. step[p] = "evaluate"
  BY Zenon DEF Evaluate
<1>2. /\ run > 0 /\ HasGatesInOrder(circ) /\ HasLayers(circ) /\ HasANDsCounted(circ)
      /\ d \in Nat /\ DepthOK(circ, step[p], d) /\ ShareOK(p, circ, step[p], d, s)
  BY <1>1, InIt
<1>3. IsShare(p, s) /\ BetweenLayers(p, circ, d, s)
  BY <1>1, <1>2 DEF ShareOK, IsShare
<1>4. TakenAt(p, s, 5, t)
  <2> HIDE DEF s
  <2> QED BY <1>2, <1>3, AllEvaluate
<1>5. share' = [share EXCEPT ![p] = t] /\ step' = [step EXCEPT ![p] = "interact"]
      /\ todo' = [todo EXCEPT ![p] = {"send", "receive"}] /\ depth' = depth
      /\ circ' = circ /\ run' = run /\ seed' = seed /\ load' = load
  BY Zenon DEF Evaluate, Evaluated
<1> HIDE DEF t
<1>6. InLayer(p, circ, d, t)
  BY <1>2, <1>3, <1>4, EvaluateTakes
<1>7. IsRecord(p, circ, t)
  BY <1>4 DEF TakenAt, Follows, IsShare
<1>8. PartyOK(p, circ, "interact", d, t) /\ StepOK("interact", {"send", "receive"}, d)
  BY <1>1, <1>2, <1>6, <1>7 DEF PartyOK, DepthOK, ShareOK, InLayer, TriplesBegin, StepOK
<1>9. /\ step'[p] = "interact" /\ todo'[p] = {"send", "receive"} /\ depth'[p] = d /\ share'[p] = t
      /\ OthersStay(p) /\ DOMAIN share' = Party
      /\ step' \in [Party -> Steps] /\ todo' \in [Party -> SUBSET {"send", "receive"}]
      /\ depth' \in [Party -> Nat]
  BY <1>5 DEF Inv, OthersStay, Steps
<1>10. Waits(p, t)
  BY <1>7, WaitsIn
<1> QED BY <1>2, <1>8, <1>9, <1>10, OneMoves, Zenon

\* Sending, and receiving, leave the counts.
LEMMA RestsOK ==
    ASSUME NEW p, NEW d, NEW s, NEW t, ShareOK(p, circ, "interact", d, s), Rests(p, s, t)
    PROVE  ShareOK(p, circ, "interact", d, t)
<1>1. InLayer(p, circ, d, s)
  BY DEF ShareOK
<1>2. InLayer(p, circ, d, t)
  BY <1>1, RestsInLayer DEF Rests
<1>3. IsRecord(p, circ, t)
  BY DEF Rests, Follows, IsShare
<1> QED BY <1>2, <1>3 DEF ShareOK, InLayer, TriplesBegin

LEMMA InteractInv ==
    ASSUME Inv, NEW p \in Party, step[p] = "interact", NEW t, Rests(p, share[p], t),
           NEW threads \in SUBSET {"send", "receive"},
           share' = [share EXCEPT ![p] = t], todo' = [todo EXCEPT ![p] = threads],
           step' = step, depth' = depth, circ' = circ, run' = run, seed' = seed, load' = load
    PROVE  Inv'
<1>1. run > 0 /\ DepthOK(circ, "interact", depth[p]) /\ ShareOK(p, circ, "interact", depth[p], share[p])
  BY InIt
<1>2. ShareOK(p, circ, "interact", depth[p], t)
  BY <1>1, RestsOK
<1>3. PartyOK(p, circ, "interact", depth[p], t) /\ StepOK("interact", threads, depth[p])
  BY <1>1, <1>2 DEF PartyOK, StepOK
<1>4. Waits(p, t)
  BY <1>2, WaitsIn DEF ShareOK
<1>5. /\ step'[p] = "interact" /\ todo'[p] = threads /\ depth'[p] = depth[p] /\ share'[p] = t
      /\ OthersStay(p) /\ DOMAIN share' = Party
      /\ step' \in [Party -> Steps] /\ todo' \in [Party -> SUBSET {"send", "receive"}]
      /\ depth' \in [Party -> Nat]
  BY DEF Inv, OthersStay
<1> QED BY <1>1, <1>3, <1>4, <1>5, OneMoves

LEMMA SendInv ==
    ASSUME Inv, NEW p \in Party, ThreadSendValues(p)
    PROVE  Inv'
<1> DEFINE s == share[p]
           t == Sent(p, s)
<1>1. todo[p] # {} /\ todo[p] \in SUBSET {"send", "receive"} /\ StepOK(step[p], todo[p], depth[p])
  BY Zenon DEF ThreadSendValues, Inv
<1>2. step[p] = "interact"
  BY <1>1 DEF StepOK
<1>3. IsShare(p, s)
  BY <1>2, InIt DEF IsShare
<1>4. Rests(p, s, t)
  <2> HIDE DEF s
  <2> QED BY <1>3, AllSend
<1>5. share' = [share EXCEPT ![p] = t] /\ todo' = [todo EXCEPT ![p] = todo[p] \ {"send"}]
      /\ step' = step /\ depth' = depth /\ circ' = circ /\ run' = run /\ seed' = seed /\ load' = load
  BY Zenon DEF ThreadSendValues, Sent
<1> HIDE DEF t
<1>6. todo[p] \ {"send"} \in SUBSET {"send", "receive"}
  BY <1>1
<1> QED BY <1>2, <1>4, <1>5, <1>6, InteractInv, Zenon

\* What is awaited is of the sharings.
LEMMA AwaitedIs ==
    ASSUME NEW p
    PROVE  /\ Len(AwaitedOf(p)) \in Nat
           /\ \A k \in 1 .. Len(AwaitedOf(p)) : AwaitedOf(p)[k][1] \in ToSet(Sharings)
<1> DEFINE f == [k \in DOMAIN Sharings |-> <<Sharings[k], BuffersToReceive(p, share[p], Sharings[k])>>]
           all == Listed(f)
           S == {k \in DOMAIN all : HasBytes(all[k][1], all[k][2])}
           at == InOrder(S, Len(all))
           g == [k \in DOMAIN at |-> all[at[k]]]
<1>1. AwaitedOf(p) = Listed(g)
  BY DEF AwaitedOf, Selected
<1>2. Len(all) = 5 /\ DOMAIN all = 1 .. 5 /\ \A k \in 1 .. 5 : all[k][1] \in ToSet(Sharings)
  <2>1. DOMAIN f = 1 .. 5 /\ Len(f) = 5 /\ f \in Seq({f[k] : k \in 1 .. 5})
    BY SharingsAre
  <2>2. \A k \in 1 .. 5 : f[k][1] = Sharings[k]
    BY SharingsAre
  <2>3. \A k \in 1 .. 5 : Sharings[k] \in ToSet(Sharings)
    BY SharingsAre DEF ToSet
  <2> HIDE DEF f
  <2>4. Len(all) = 5 /\ DOMAIN all = 1 .. 5 /\ \A k \in 1 .. 5 : all[k] = f[k]
    BY <2>1 DEF Listed
  <2> QED BY <2>2, <2>3, <2>4
<1> HIDE DEF all
<1>3. S \in SUBSET (1 .. 5)
  BY <1>2
<1>4. Picks(at, S) /\ at \in Seq(Nat)
  <2> HIDE DEF S
  <2> QED BY <1>2, <1>3, InOrderPicks
<1>5. Len(at) \in Nat /\ DOMAIN at = 1 .. Len(at) /\ \A k \in 1 .. Len(at) : at[k] \in 1 .. 5
  <2> HIDE DEF at
  <2>1. \A k \in 1 .. Len(at) : at[k] \in S
    BY <1>4 DEF Picks
  <2> QED BY <1>4, <2>1, <1>3
<1> HIDE DEF at, S
<1>6. DOMAIN g = 1 .. Len(at) /\ Len(g) = Len(at) /\ g \in Seq({g[k] : k \in 1 .. Len(at)})
  BY <1>5
<1>7. \A k \in 1 .. Len(at) : g[k][1] \in ToSet(Sharings)
  BY <1>2, <1>5
<1> HIDE DEF g
<1>8. Len(Listed(g)) = Len(at) /\ \A k \in 1 .. Len(at) : Listed(g)[k] = g[k]
  BY <1>5, <1>6 DEF Listed
<1> QED BY <1>1, <1>5, <1>7, <1>8

LEMMA ReceiveInv ==
    ASSUME Inv, NEW p \in Party, ThreadReceiveValues(p)
    PROVE  Inv'
<1> DEFINE s == share[p]
           sent == wire[Other(p)]
           n == Len(AwaitedOf(p))
           t == Received(sent, n, s)
<1>1. todo[p] # {} /\ todo[p] \in SUBSET {"send", "receive"} /\ StepOK(step[p], todo[p], depth[p])
  BY Zenon DEF ThreadReceiveValues, Inv
<1>2. step[p] = "interact"
  BY <1>1 DEF StepOK
<1>3. IsShare(p, s)
  BY <1>2, InIt DEF IsShare
<1>4. \A k \in 1 .. n : Matches(sent[k], AwaitedOf(p)[k])
  BY Zenon DEF ThreadReceiveValues
<1>5. n \in Nat /\ \A k \in 1 .. n : sent[k].sharing \in ToSet(Sharings)
  BY <1>4, AwaitedIs DEF Matches
<1>6. share' = [share EXCEPT ![p] = t] /\ todo' = [todo EXCEPT ![p] = todo[p] \ {"receive"}]
      /\ step' = step /\ depth' = depth /\ circ' = circ /\ run' = run /\ seed' = seed /\ load' = load
  BY Zenon DEF ThreadReceiveValues, Received
<1>7. Rests(p, s, t)
  <2> HIDE DEF s, sent, n
  <2> QED BY <1>3, <1>5, AllReceive
<1> HIDE DEF t
<1>8. todo[p] \ {"receive"} \in SUBSET {"send", "receive"}
  BY <1>1
<1> QED BY <1>2, <1>6, <1>7, <1>8, InteractInv, Zenon

LEMMA FinishInv ==
    ASSUME Inv, NEW p \in Party, FinishCircuitLayer(p)
    PROVE  Inv'
<1> DEFINE s == share[p]
           t == Finished(p, s)
           d == depth[p]
<1>1. step[p] = "interact" /\ todo[p] = {}
  BY Zenon DEF FinishCircuitLayer
<1>2. /\ run > 0 /\ HasGatesInOrder(circ) /\ HasLayers(circ) /\ HasANDsCounted(circ)
      /\ d \in Nat /\ DepthOK(circ, step[p], d) /\ ShareOK(p, circ, step[p], d, s)
  BY <1>1, InIt
<1>3. IsShare(p, s) /\ InLayer(p, circ, d, s)
  BY <1>1, <1>2 DEF ShareOK, IsShare
<1>4. FinishedAt(p, s, 5, t)
  <2> HIDE DEF s
  <2> QED BY <1>2, <1>3, AllFinish
<1>5. PICK next \in AfterLayer(p) : step' = [step EXCEPT ![p] = next]
  BY Zenon DEF FinishCircuitLayer
<1>6. share' = [share EXCEPT ![p] = t] /\ depth' = [depth EXCEPT ![p] = d + 1]
      /\ todo' = todo /\ circ' = circ /\ run' = run /\ seed' = seed /\ load' = load
  BY Zenon DEF FinishCircuitLayer, Finished
<1> HIDE DEF t
<1>7. BetweenLayers(p, circ, d + 1, t)
  BY <1>2, <1>3, <1>4, FinishBegins
<1>8. IsRecord(p, circ, t)
  BY <1>4 DEF FinishedAt, Follows, IsShare
<1>9. MaxDepth(circ) \in Nat /\ d + 1 <= MaxDepth(circ) /\ d + 1 \in Nat
  BY <1>1, <1>2, MaxDepthIs DEF DepthOK
<1>10. next \in Steps /\ PartyOK(p, circ, next, d + 1, t) /\ StepOK(next, {}, d + 1)
  <2>1. CASE next = AtDepth(d + 1)
    <3>1. /\ AtDepth(d + 1) \in {"evaluate", "synchronize"}
          /\ PartyOK(p, circ, AtDepth(d + 1), d + 1, t) /\ StepOK(AtDepth(d + 1), {}, d + 1)
      BY <1>2, <1>7, <1>8, <1>9, BeginsLayer
    <3> QED BY <2>1, <3>1 DEF Steps
  <2>2. CASE next = "crashed"
    BY <2>2, <1>7, <1>8, <1>9 DEF PartyOK, DepthOK, ShareOK, StepOK, BetweenLayers, TriplesBegin, Steps
  <2> QED BY <1>5, <2>1, <2>2 DEF AfterLayer
<1>11. Waits(p, t)
  BY <1>8, WaitsIn
<1>12. /\ step'[p] = next /\ todo'[p] = {} /\ depth'[p] = d + 1 /\ share'[p] = t
       /\ OthersStay(p) /\ DOMAIN share' = Party
       /\ step' \in [Party -> Steps] /\ todo' \in [Party -> SUBSET {"send", "receive"}]
       /\ depth' \in [Party -> Nat]
  BY <1>1, <1>5, <1>6, <1>9, <1>10 DEF Inv, OthersStay
<1> QED BY <1>2, <1>10, <1>11, <1>12, OneMoves

LEMMA SynchronizeInv ==
    ASSUME Inv, NEW p \in Party, Synchronize(p)
    PROVE  Inv'
<1>1. step[p] = "synchronize"
  BY DEF Synchronize
<1>2. /\ run > 0 /\ depth[p] \in Nat /\ DepthOK(circ, step[p], depth[p])
      /\ ShareOK(p, circ, step[p], depth[p], share[p]) /\ StepOK(step[p], todo[p], depth[p])
  BY <1>1, InIt
<1>3. PartyOK(p, circ, "done", depth[p], share[p]) /\ StepOK("done", todo[p], depth[p])
  BY <1>1, <1>2 DEF PartyOK, DepthOK, ShareOK, StepOK
<1>4. /\ step'[p] = "done" /\ todo'[p] = todo[p] /\ depth'[p] = depth[p] /\ share'[p] = share[p]
      /\ OthersStay(p) /\ DOMAIN share' = Party
      /\ step' \in [Party -> Steps] /\ todo' \in [Party -> SUBSET {"send", "receive"}]
      /\ depth' \in [Party -> Nat] /\ Waits(p, share'[p])
  BY DEF Synchronize, Inv, OthersStay, Steps
<1> QED BY <1>2, <1>3, <1>4, OneMoves

LEMMA ResetInv ==
    ASSUME Inv, NEW p \in Party, Reset(p)
    PROVE  Inv'
<1> DEFINE s == share[p]
           none == [i \in Gates |-> FALSE]
           t == [s EXCEPT !.live = none]
<1>1. step[p] = "done"
  BY DEF Reset
<1>2. /\ run > 0 /\ HasGatesInOrder(circ) /\ HasLayers(circ) /\ IsRecord(p, circ, s)
      /\ ShareOK(p, circ, step[p], depth[p], s) /\ StepOK(step[p], todo[p], depth[p])
  BY <1>1, InIt
<1>3. none \in [Newer(circ) -> BOOLEAN]
  BY <1>2 DEF HasGatesInOrder, Newer, Gates
<1>4. DOMAIN s = Common \cup Sides
  BY <1>2 DEF IsRecord, IsStore
<1>5. share' = [share EXCEPT ![p] = t]
  <2>1. share' = [share EXCEPT ![p].live = none]
    BY DEF Reset
  <2>2. DOMAIN share = Party
    BY DEF Inv
  <2> HIDE DEF none
  <2> QED BY <2>1, <2>2
<1> HIDE DEF none
<1>6. /\ DOMAIN t = DOMAIN s /\ t.live = none /\ t.val = s.val /\ t.bool = s.bool /\ t.arith = s.arith
      /\ t.lut = s.lut /\ t.yao = s.yao
  BY <1>4 DEF Common, Sides
<1> HIDE DEF t
<1>7. IsRecord(p, circ, t)
  BY <1>2, <1>3, <1>6 DEF IsRecord, IsStore
<1>8. MaxDepth(circ) \in Nat
  BY <1>2, MaxDepthIs
<1>9. PartyOK(p, circ, "reset", 0, t) /\ StepOK("reset", {}, 0)
  BY <1>2, <1>6, <1>7, <1>8 DEF PartyOK, DepthOK, ShareOK, StepOK
<1>10. todo[p] = {}
  BY <1>1, <1>2 DEF StepOK
<1>11. /\ step'[p] = "reset" /\ todo'[p] = {} /\ depth'[p] = 0 /\ share'[p] = t
       /\ OthersStay(p) /\ DOMAIN share' = Party
       /\ step' \in [Party -> Steps] /\ todo' \in [Party -> SUBSET {"send", "receive"}]
       /\ depth' \in [Party -> Nat]
  BY <1>5, <1>10 DEF Reset, Inv, OthersStay, Steps
<1>12. Waits(p, t)
  BY <1>7, WaitsIn
<1> QED BY <1>2, <1>9, <1>11, <1>12, OneMoves, Zenon

LEMMA NextInv == Inv /\ [Next]_vars => Inv'
<1> SUFFICES ASSUME Inv, [Next]_vars PROVE Inv'
  OBVIOUS
<1>1. CASE Build
  BY <1>1, BuildInv
<1>2. CASE PerformSetupPhase
  BY <1>2, SetupInv
<1>3. CASE Exit \/ UNCHANGED vars
  BY <1>3 DEF Exit, vars, Inv
<1>4. ASSUME NEW p \in Party,
             \/ Evaluate(p) \/ ThreadSendValues(p) \/ ThreadReceiveValues(p)
             \/ FinishCircuitLayer(p) \/ Synchronize(p) \/ Reset(p)
      PROVE  Inv'
  BY <1>4, EvaluateInv, SendInv, ReceiveInv, FinishInv, SynchronizeInv, ResetInv
<1> QED BY <1>1, <1>2, <1>3, <1>4 DEF Next

\* In every process the parties take, between two layers, what the gates of the
\* layers before weigh, and a layer's gates take it once.
THEOREM Invariant == Spec => []Inv
BY InitInv, NextInv, PTL DEF Spec

-------------------------------------------------------------------------------
(***************************************************************************)
(* What the invariant says of the layers.                                  *)
(***************************************************************************)
LEMMA InvTypeOK == Inv => TypeOK
<1> SUFFICES ASSUME Inv PROVE TypeOK
  OBVIOUS
<1>1. ASSUME InCircuit, NEW p \in Party
      PROVE  /\ depth[p] \in 0 .. MaxDepth(circ)
             /\ share[p].live \in [Gates -> BOOLEAN]
             /\ \A i \in Gates : Len(share[p].val[i]) \in {0, Gate(i).nvals}
             /\ \A k \in DOMAIN circ.ands : share[p].bool.mtStartIdx[k] % 8 = 0
  <2>1. run > 0 /\ circ \in Circuits /\ step[p] # "setup" /\ depth[p] \in Nat
        /\ PartyOK(p, circ, step[p], depth[p], share[p])
    BY <1>1 DEF InCircuit, Inv
  <2>2. HasGatesInOrder(circ) /\ HasLayers(circ)
    BY <2>1, CircuitIs
  <2>3. DepthOK(circ, step[p], depth[p]) /\ ShareOK(p, circ, step[p], depth[p], share[p])
    BY <2>1 DEF PartyOK
  <2>4. MaxDepth(circ) \in Nat
    BY <2>2, MaxDepthIs
  <2>5. Gates = Newer(circ)
    BY <2>2 DEF HasGatesInOrder, Newer, Gates
  <2>6. IsStore(circ, share[p])
    BY <2>3 DEF ShareOK, IsRecord
  <2>7. \A i \in Gates : Len(share[p].val[i]) \in {0, Gate(i).nvals}
    BY <2>5, <2>6 DEF IsStore, Gate
  <2>8. share[p].live \in [Gates -> BOOLEAN]
    BY <2>5, <2>6 DEF IsStore
  <2> QED BY <2>1, <2>3, <2>4, <2>7, <2>8 DEF DepthOK, ShareOK
<1> QED BY <1>1 DEF Inv, TypeOK, Steps

LEMMA ConversionsEnd ==
    ASSUME HasGatesInOrder(circ), HasLayers(circ), UsesConversions(circ)
    PROVE  /\ BeforeLayer(circ, ConvBits(circ), MaxDepth(circ)) = NumCONVGates(circ)
           /\ Unanswered(circ, MaxDepth(circ)) = 0
<1> DEFINE w == ConvBits(circ)
           m == MaxDepth(circ)
<1>1. m \in Nat /\ \A x \in ToSet(Sharings) : circ.maxdepth[x] <= m /\ circ.maxdepth[x] \in Nat
  BY MaxDepthIs, Zenon DEF HasLayers
<1>2. ASSUME NEW i \in 1 .. Len(circ.gates)
      PROVE  w[i] = 0 \/ circ.gates[i].depth + 1 < m
  <2>1. i \in Newer(circ) /\ i \in DOMAIN circ.gates
    BY DEF Newer, HasGatesInOrder
  <2>2. CASE IsConversion(circ.gates[i])
    <3>1. PICK x \in ToSet(Sharings) : circ.gates[i].depth + 2 <= circ.maxdepth[x]
      BY <2>1, <2>2 DEF UsesConversions, IsConversion
    <3>2. circ.gates[i].depth \in Nat
      BY <2>1 DEF HasGatesInOrder, IsGate
    <3> HIDE DEF m
    <3> QED BY <1>1, <3>1, <3>2
  <2>3. CASE ~ IsConversion(circ.gates[i])
    BY <2>1, <2>3, ConvBitsAre
  <2> QED BY <2>2, <2>3
<1>3. \A i \in 1 .. Len(circ.gates) : circ.gates[i].depth \in Nat
  BY DEF HasGatesInOrder, IsGate
<1> HIDE DEF w, m
<1>4. BeforeLayer(circ, w, m) = InAll(circ, w)
  <2>1. Weights(circ, w)
    BY ConvBitsAre DEF w
  <2>2. \A i \in 1 .. Len(circ.gates) : w[i] = 0 \/ circ.gates[i].depth < m
    BY <1>1, <1>2, <1>3
  <2> QED BY <1>1, <2>1, <2>2, BeforeAll
<1>5. m # 0 => AtLayer(circ, w, m - 1) = 0
  <2>1. ASSUME m # 0, NEW i \in 1 .. Len(circ.gates)
        PROVE  AtDepthOnly(circ, w, m - 1)[i] = 0
    <3>1. w[i] = 0 \/ circ.gates[i].depth # m - 1
      BY <1>1, <1>2, <1>3
    <3> QED BY <3>1 DEF AtDepthOnly, Newer
  <2> QED BY <2>1, TotalZero DEF AtLayer, HasGatesInOrder
<1> QED BY <1>4, <1>5, NumCONVGatesIs DEF Unanswered, w, m

LEMMA InvConversions == Inv => ConversionsAreThrough
<1> SUFFICES ASSUME Inv, NEW p \in Party, step[p] = "done"
             PROVE  /\ share[p].arith.convIdx = NumCONVGates(circ)
                    /\ share[p].arith.convRcvCtr = 0 /\ share[p].arith.CONVGates2 = <<>>
  BY DEF ConversionsAreThrough
<1>1. /\ circ \in Circuits /\ HasGatesInOrder(circ) /\ HasLayers(circ)
      /\ DepthOK(circ, "done", depth[p]) /\ ShareOK(p, circ, "done", depth[p], share[p])
  BY InIt
<1>2. UsesConversions(circ)
  BY <1>1, CircuitIs
<1>3. depth[p] = MaxDepth(circ) /\ BetweenLayers(p, circ, depth[p], share[p])
  BY <1>1 DEF DepthOK, ShareOK
<1>4. /\ share[p].arith.convIdx = NumCONVGates(circ)
      /\ p = "CLIENT" => share[p].arith.convRcvCtr = 0
      /\ Settled(p, share[p].arith) /\ Asked(p, share[p].arith) = 0
  BY <1>1, <1>2, <1>3, ConversionsEnd DEF BetweenLayers, ConversionsBegin
<1> QED BY <1>4 DEF Settled, Asked, Party

LEMMA InvTriples ==
    ASSUME Inv, NEW p \in Party, step[p] = "interact"
    PROVE  TriplesSuffice(p)
<1> DEFINE d == depth[p]
           s == share[p]
<1>1. /\ HasGatesInOrder(circ) /\ HasLayers(circ) /\ HasANDsCounted(circ) /\ d \in Nat
      /\ ShareOK(p, circ, "interact", d, s)
  BY InIt
<1>2. InLayer(p, circ, d, s)
  BY <1>1 DEF ShareOK
<1>3. ASSUME NEW k \in DOMAIN circ.ands PROVE s.bool.mtIdx[k] <= Bool!NumMTs(circ, k)
  <2> DEFINE start == s.bool.mtStartIdx[k]
             n == start + AtLayer(circ, AndVals(circ, k), d)
             next == 8 * ((n + 7) \div 8)
             most == Bool!NumMTs(circ, k)
  <2>1. /\ start \in Nat /\ start % 8 = 0
        /\ start <= BeforeLayer(circ, AndVals(circ, k), d) + 8 * d /\ start <= most
    BY <1>2 DEF InLayer, TriplesBegin
  <2>2. s.bool.mtIdx[k] = n
    BY <1>2 DEF InLayer
  <2> HIDE DEF s, d, start
  <2>3. n \in Nat /\ n <= next /\ next \in Nat /\ next <= most
    BY <1>1, <2>1, TriplesLast
  <2>4. most \in Nat
    <3>1. circ.ands[k].numgates \in Nat
      BY <1>1, NumANDsIs, AndValsAre, SumsAreNat
    <3>2. circ.maxdepth["BOOL"] \in Nat
      BY <1>1, YaoOf, Zenon DEF HasLayers
    <3> QED BY <3>1, <3>2 DEF Bool!NumMTs
  <2> HIDE DEF n, next, most
  <2> QED BY <2>2, <2>3, <2>4 DEF most
<1>4. s.arith.mtIdx <= NumMULs(circ)
  <2>1. s.arith.mtIdx = BeforeLayer(circ, MulVals(circ), d + 1)
    BY <1>2 DEF InLayer
  <2> HIDE DEF s, d
  <2>2. BeforeLayer(circ, MulVals(circ), d + 1) <= InAll(circ, MulVals(circ))
    BY <1>1, MulValsAre, BeforeLeqAll
  <2> QED BY <1>1, <2>1, <2>2, NumMULsIs
<1>5. s.arith.convIdx + Asked(p, s.arith) <= NumCONVGates(circ)
  <2>1. /\ s.arith.convIdx = BeforeLayer(circ, ConvBits(circ), d)
        /\ Asked(p, s.arith) = AtLayer(circ, ConvBits(circ), d)
    BY <1>2 DEF InLayer, ConversionsBegin
  <2> HIDE DEF s, d
  <2>2. Weights(circ, ConvBits(circ))
    BY <1>1, ConvBitsAre
  <2>3. BeforeLayer(circ, ConvBits(circ), d + 1) <= InAll(circ, ConvBits(circ))
    BY <1>1, <2>2, BeforeLeqAll
  <2>4. BeforeLayer(circ, ConvBits(circ), d + 1)
            = BeforeLayer(circ, ConvBits(circ), d) + AtLayer(circ, ConvBits(circ), d)
    BY <1>1, <2>2, BeforeNext
  <2> QED BY <1>1, <2>1, <2>3, <2>4, NumCONVGatesIs
<1> QED BY <1>3, <1>4, <1>5 DEF TriplesSuffice, Asked

\* The parties' progress and their records are of their types, and triples are
\* taken from the start of a byte in every layer, for every circuit.
THEOREM TypeCorrect == Spec => []TypeOK
BY Invariant, InvTypeOK, PTL

\* Reset's assertion: a party that leaves a circuit has used all the conversions
\* of bits to numbers that the setup phase prepared, and waits for none.
THEOREM Conversions == Spec => []ConversionsAreThrough
BY Invariant, InvConversions, PTL

\* No layer takes more triples of bits or of numbers, or more OTs of conversions,
\* than the setup phase prepared, though a layer skips to a byte.
THEOREM Triples == Spec => [](\A p \in Party : step[p] = "interact" => TriplesSuffice(p))
<1>1. Inv => \A p \in Party : step[p] = "interact" => TriplesSuffice(p)
  BY InvTriples
<1> QED BY <1>1, Invariant, PTL
===============================================================================
