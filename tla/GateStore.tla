------------------------------- MODULE GateStore -------------------------------
(***************************************************************************)
(* The gates of a circuit while it is evaluated, as the sharings of a      *)
(* party share them: a value for every gate, whether it is instantiated,   *)
(* and how many uses it still has.  The record s of a party has            *)
(*   nused, live, val    by gate                                           *)
(*   stale               a gate that was freed has been read               *)
(*   bool, arith, yao    the state of the sharings                         *)
(***************************************************************************)
EXTENDS AbyCircuit

CONSTANT
    Flip(_, _, _, _)    \* seed, party, purpose, number |-> a random bit

VARIABLES
    circ,        \* the circuit, as both parties built it
    seed,        \* of the random bits
    clear,       \* the clear values of the gates: what the circuit computes
    depth        \* by party: m_nDepth

Gates == DOMAIN circ.gates
Gate(i) == circ.gates[i]
Parents(s, g) == [k \in DOMAIN g.ins |-> s.val[g.ins[k]]]

Draw(p, what, from, n) == SubSeq([k \in 1 .. n |-> Flip(seed, p, what, from + k)], 1, n)

\* m_nTypeBitMask: what arithmetic shares are computed modulo.
Modulus == 2^ShareBits
BitOf(x, k) == (x \div 2^k) % 2
NumberOf(bits) == Total([k \in DOMAIN bits |-> bits[k] * 2^(k - 1)], Len(bits))
DrawNumber(p, what, n) == NumberOf(Draw(p, what, n * ShareBits, ShareBits))

Bytes(n) == (n + 7) \div 8

\* The last bit of a key: whose sign it shows is the permutation bit's secret.
Lsb(key) == key[Len(key)]

-------------------------------------------------------------------------------
(***************************************************************************)
(* InstantiateGate, UsedGate and FreeGate.                                 *)
(***************************************************************************)
\* InstantiateGate for nvals values, and the values.
Assign(s, i, v) == [s EXCEPT !.live[i] = TRUE, !.val[i] = SubSeq(v, 1, Gate(i).nvals)]

\* FreeGate at the last use, except of a conversion.  The record keeps the value
\* that was freed; that it is read again is what stale says.
UsedGate(s, i) ==
    IF ~s.live[i] THEN s
    ELSE [s EXCEPT !.nused[i] = @ - 1,
                   !.live[i] = s.nused[i] # 1 \/ Gate(i).type = "CONV"]

UsedGates(s, ins) == Through(UsedGate, s, ins)

Reads(s, ins) == [s EXCEPT !.stale = @ \/ \E i \in ToSet(ins) : ~s.live[i]]

\* A gate whose value v is made from those of its inputs.
Computed(s, i, v) == UsedGates(Assign(Reads(s, Gate(i).ins), i, v), Gate(i).ins)

\* Of the values of the gates ids, in their order, those of the m-th.
Stretch(ids, m, values) ==
    LET at(n) == SumNvals(circ, SubSeq(ids, 1, n - 1))
    IN  SubSeq(values, at(m) + 1, at(m + 1))

AssignStretches(s, ids, values) ==
    Through(LAMBDA t, m : Assign(t, ids[m], Stretch(ids, m, values)), s, [m \in DOMAIN ids |-> m])

AssignInOrder(s, ids, values) ==
    IF ids = <<>> THEN s ELSE Once(LAMBDA all : AssignStretches(s, ids, all), values)

-------------------------------------------------------------------------------
(***************************************************************************)
(* What BoolSharing and SetupLUT share.                                    *)
(***************************************************************************)
\* EvaluateCONVGate: the server's permutation bit, the bit of the client's key.
FromYao(p, wire) == IF p = "SERVER" THEN wire.pi ELSE Lsb(wire)

\* A constant and an inversion concern the server's share only.
XorShare(p, g, in) ==
    CASE g.type = "CONV" -> [k \in 1 .. g.nvals |-> FromYao(p, in[1][k])]
      [] g.type = "CONSTANT" -> [k \in 1 .. g.nvals |-> IF p = "SERVER" THEN g.gs ELSE 0]
      [] g.type = "LIN" -> XorBits(in[1], in[2])
      [] g.type = "INV" -> [k \in 1 .. g.nvals |-> IF p = "SERVER" THEN 1 - in[1][k] ELSE in[1][k]]
      [] g.type = "SHARED_OUT" -> in[1]
      [] OTHER -> EvaluateSIMDGate(g, in)

\* The kind of the tables of a gate.
KindOf(g) == LutKind(Len(g.ins), g.nvals \div Gate(g.ins[1]).nvals)
===============================================================================
