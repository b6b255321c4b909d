-------------------------------- MODULE Folding --------------------------------
(***************************************************************************)
(* Induction over Through, for any operator: an invariant of its steps is  *)
(* one of the whole.  A module of proofs makes an instance of this one for *)
(* every operator it folds; that numbers are well-ordered is proved there, *)
(* once, so that the instances bring along no library.                     *)
(***************************************************************************)
EXTENDS Integers, Sequences

CONSTANTS
    Op(_, _, _),        \* of a parameter: what was made so far, and an element
    Inv(_, _, _, _)     \* of the parameter, and another: after n elements

\* Through(LAMBDA t, i : Op(a, t, i), s, ids) of GateValues, with its Once.
ThroughAll(a, s, ids) ==
    LET after[n \in 0 .. Len(ids)] ==
            IF n = 0 THEN s ELSE CHOOSE r \in {Op(a, x, ids[n]) : x \in {after[n - 1]}} : TRUE
    IN  after[Len(ids)]

\* What holds of n elements holds of one more.
Kept(a, b, ids) ==
    \A n \in 1 .. Len(ids) : \A t : Inv(a, b, n - 1, t) => Inv(a, b, n, Op(a, t, ids[n]))

-------------------------------------------------------------------------------
\* What holds at the start, and of one element more, holds of Through: the
\* function that Through is defined with exists, and its values keep Inv.
THEOREM ThroughInvariant ==
    ASSUME \A T \in SUBSET Nat : T # {} => \E x \in T : \A y \in T : x <= y,
           NEW a, NEW b, NEW s, NEW ids, Len(ids) \in Nat,
           Inv(a, b, 0, s), Kept(a, b, ids)
    PROVE  Inv(a, b, Len(ids), ThroughAll(a, s, ids))
<1> DEFINE next(v, n) == CHOOSE r \in {Op(a, x, ids[n]) : x \in {v}} : TRUE
           Is(h, m) == h = [n \in 0 .. m |-> IF n = 0 THEN s ELSE next(h[n - 1], n)]
           Missing == {n \in Nat : ~ \E f : Is(f, n)}
           after == CHOOSE h : Is(h, Len(ids))
<1>0. ASSUME NEW v, NEW n PROVE next(v, n) = Op(a, v, ids[n])
  OBVIOUS
<1> HIDE DEF next
<1>1. ASSUME Missing # {} PROVE FALSE
  <2>1. PICK n \in Missing : \A k \in Missing : n <= k
    <3> HIDE DEF Missing
    <3>1. Missing \subseteq Nat BY DEF Missing
    <3> QED BY <3>1, <1>1
  <2>2. n # 0
    <3>1. Is([k \in 0 .. 0 |-> s], 0)
      OBVIOUS
    <3> QED BY <3>1
  <2>3. PICK f : Is(f, n - 1)
    <3>1. n - 1 \in Nat /\ ~ (n <= n - 1)
      BY <2>2
    <3>2. n - 1 \notin Missing
      BY <2>1, <3>1
    <3> QED BY <3>1, <3>2
  <2> DEFINE g == [k \in 0 .. n |-> IF k < n THEN f[k] ELSE next(f[n - 1], n)]
  <2>4. ASSUME NEW k \in 0 .. n
        PROVE  g[k] = IF k = 0 THEN s ELSE next(g[k - 1], k)
    <3>1. CASE k = 0
      BY <3>1, <2>2, <2>3
    <3>2. CASE k # 0 /\ k < n
      <4>1. g[k] = f[k] /\ g[k - 1] = f[k - 1]
        BY <3>2
      <4>2. f[k] = next(f[k - 1], k)
        BY <3>2, <2>3
      <4> QED BY <4>1, <4>2, <3>2
    <3>3. CASE k = n
      <4>1. g[k] = next(f[n - 1], n) /\ g[k - 1] = f[n - 1]
        BY <3>3, <2>2
      <4> QED BY <4>1, <3>3, <2>2
    <3> QED BY <3>1, <3>2, <3>3
  <2>5. Is(g, n)
    <3>1. g = [k \in 0 .. n |-> g[k]]
      OBVIOUS
    <3> HIDE DEF g
    <3> QED BY <2>4, <3>1
  <2> QED BY <2>5
<1>2. PICK f : Is(f, Len(ids))
  BY <1>1
<1>3. ThroughAll(a, s, ids) = after[Len(ids)]
  BY DEF ThroughAll, next
<1>4. Is(after, Len(ids))
  BY <1>2
<1> HIDE DEF after, Missing
<1>5. Inv(a, b, Len(ids), after[Len(ids)])
  <2> DEFINE Bad == {n \in 0 .. Len(ids) : ~ Inv(a, b, n, after[n])}
  <2> SUFFICES ASSUME Bad # {} PROVE FALSE
    OBVIOUS
  <2>1. PICK n \in Bad : \A k \in Bad : n <= k
    <3>1. Bad \subseteq Nat OBVIOUS
    <3> HIDE DEF Bad
    <3> QED BY <3>1
  <2>2. n # 0
    BY <1>4
  <2>3. Inv(a, b, n - 1, after[n - 1])
    <3>1. n - 1 \in 0 .. Len(ids) /\ ~ (n <= n - 1)
      BY <2>2
    <3> QED BY <3>1, <2>1
  <2>4. Inv(a, b, n, Op(a, after[n - 1], ids[n]))
    <3>1. n \in 1 .. Len(ids)
      BY <2>2
    <3> QED BY <2>3, <3>1 DEF Kept
  <2>5. after[n] = Op(a, after[n - 1], ids[n])
    BY <1>4, <2>2, <1>0
  <2> QED BY <2>4, <2>5
<1> QED BY <1>3, <1>5
===============================================================================
