------------------------------ MODULE GateValues ------------------------------
(***************************************************************************)
(* What gates do to the bits they hold: a value is the sequence of the     *)
(* gate's bits, or of its numbers or keys.                                 *)
(***************************************************************************)
EXTENDS Integers, Sequences

\* Op(v), with v bound by a set: TLC evaluates what is in a set once, and what
\* is passed to an operator as often as it is used.
Once(Op(_), v) == CHOOSE r \in {Op(x) : x \in {v}} : TRUE

\* FoldLeft, for an Op that uses its first argument more than once.
Through(Op(_, _), s, ids) ==
    LET after[n \in 0 .. Len(ids)] ==
            IF n = 0 THEN s ELSE Once(LAMBDA b : Op(b, ids[n]), after[n - 1])
    IN  after[Len(ids)]

\* Operators of the community modules, which an instance would bring along as a
\* whole: AbyLayers makes one of every sharing.
ToSet(s) == {s[k] : k \in DOMAIN s}
Max(S) == CHOOSE x \in S : \A y \in S : y <= x
Min(S) == CHOOSE x \in S : \A y \in S : x <= y

Bits(n) == [1 .. n -> 0 .. 1]
\* The elements of a sequence that a function describes, computed at once.
Listed(f) == SubSeq(f, 1, Len(f))

XorPair(ab) ==
    Listed([k \in 1 .. Min({Len(ab[1]), Len(ab[2])}) |-> (ab[1][k] + ab[2][k]) % 2])
XorBits(a, b) == Once(XorPair, <<a, b>>)
AndBits(bit, v) == Listed([k \in DOMAIN v |-> bit * v[k]])
Concat(ss) == Through(LAMBDA s, t : s \o t, <<>>, ss)

\* w[1] + ... + w[n].
Total(w, n) == LET sum[k \in 0 .. n] == IF k = 0 THEN 0 ELSE sum[k - 1] + w[k] IN sum[n]

\* The numbers from 1 to n that are in S, in their order.
InOrder(S, n) ==
    Through(LAMBDA t, i : IF i \in S THEN Append(t, i) ELSE t, <<>>, [i \in 1 .. n |-> i])

\* SelectSeq, by the places of what is selected.
Selected(s, Test(_)) ==
    LET at == InOrder({k \in DOMAIN s : Test(s[k])}, Len(s))
    IN  Listed([k \in DOMAIN at |-> s[at[k]]])

\* BoolSharing and SetupLUT repeat whether the first word of their input is not 0.
Repeated(g, in) == IF g.context \in {"BOOL", "SPLUT"} THEN Max(ToSet(in[1])) ELSE in[1][1]

\* Gates that only move values: shares and keys move as the clear values do.
EvaluateSIMDGate(g, in) ==
    CASE g.type = "COMBINE"    -> Concat(in)
      [] g.type = "SPLIT"      -> SubSeq(in[1], g.gs + 1, g.gs + g.nvals)
      [] g.type = "REPEAT"     -> [k \in 1 .. g.nvals |-> Repeated(g, in)]
      [] g.type = "PERM"       -> [k \in 1 .. g.nvals |-> in[k][g.gs[k] + 1]]
      [] g.type = "COMBINEPOS" -> [k \in 1 .. g.nvals |-> in[k][g.gs + 1]]
      [] g.type = "SUBSET"     -> [k \in 1 .. g.nvals |-> in[1][g.gs[k] + 1]]
      [] g.type = "STRUCT_COMBINE" ->
            [k \in 1 .. g.nvals |->
                LET n == Len(in)
                IN  in[1 + ((k - 1) % n)][1 + g.gs[1] + ((k - 1) \div n) * g.gs[2]]]

\* The bits at value n of the gates ins.
Selection(in, n) == [j \in DOMAIN in |-> in[j][n]]

\* Output bit o of value n is bit o * nvals + n of the gate.
LutLayout(g, nvals, out) ==
    [k \in 1 .. g.nvals |-> out[1 + ((k - 1) % nvals)][1 + (k - 1) \div nvals]]

\* The row of a two-input table of four bits, the one for 00 the lowest.
Row(op, l, r) == (op \div 2^(2 * l + r)) % 2

\* q has the elements of S, which are numbers from 1 on, in their order.
Picks(q, S) ==
    /\ q \in Seq(Nat) /\ S \subseteq Nat \ {0}
    /\ \A k \in 1 .. Len(q) : q[k] \in S
    /\ \A i \in S : \E k \in 1 .. Len(q) : q[k] = i
    /\ \A k, l \in 1 .. Len(q) : k < l => q[k] < q[l]
===============================================================================
