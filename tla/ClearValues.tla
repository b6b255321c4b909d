----------------------------- MODULE ClearValues -----------------------------
(***************************************************************************)
(* What a circuit computes in the clear, and the inputs the application    *)
(* gives.  For the shares whose bits a conversion to Yao adds, the         *)
(* server's is the number and the client's 0.                              *)
(***************************************************************************)
EXTENDS GateStore

ClearConversion(c, g, in) ==
    CASE g.context = "ARITH" ->
            [k \in 1 .. g.nvals |-> NumberOf([j \in DOMAIN in |-> in[j][k]]) % Modulus]
      [] g.context # "ARITH" /\ c.gates[g.ins[1]].context = "ARITH" ->
            [k \in 1 .. g.nvals |-> IF g.gs % 2 = 0 THEN BitOf(in[1][k], g.gs \div 2) ELSE 0]
      [] OTHER -> in[1]

ClearNumber(g, in) ==
    CASE g.type = "LIN" -> [k \in 1 .. g.nvals |-> (in[1][k] + in[2][k]) % Modulus]
      [] g.type \in {"NON_LIN", "NON_LIN_CONST"} ->
            [k \in 1 .. g.nvals |-> (in[1][k] * in[2][k]) % Modulus]
      [] g.type = "INV" -> [k \in 1 .. g.nvals |-> (Modulus - in[1][k]) % Modulus]

ClearBits(g, in) ==
    CASE g.type = "LIN" -> XorBits(in[1], in[2])
      [] g.type \in {"NON_LIN", "NON_LIN_VEC"} ->
            [k \in 1 .. g.nvals |-> in[1][1 + ((k - 1) \div g.gs)] * in[2][k]]
      [] g.type = "INV" -> [k \in 1 .. g.nvals |-> 1 - in[1][k]]
      [] g.type = "UNIV" -> [k \in 1 .. g.nvals |-> Row(g.gs, in[1][k], in[2][k])]
      [] g.type = "TT" ->
            LET nvals == Len(in[1])
            IN  LutLayout(g, nvals, [n \in 1 .. nvals |-> g.gs[Selection(in, n)]])

ClearValue(c, g, in, input) ==
    CASE g.type \in {"IN", "SHARED_IN"} -> input
      [] g.type = "CONSTANT" -> [k \in 1 .. g.nvals |-> g.gs]
      [] g.type \in {"OUT", "SHARED_OUT"} -> in[1]
      [] g.type = "CONV" -> ClearConversion(c, g, in)
      [] g.type \in {"LIN", "NON_LIN", "NON_LIN_VEC", "NON_LIN_CONST", "INV", "UNIV", "TT"} ->
            IF g.context = "ARITH" THEN ClearNumber(g, in) ELSE ClearBits(g, in)
      [] OTHER -> EvaluateSIMDGate(g, in)

Clear(c, input) ==
    Through(LAMBDA vals, g :
        Append(vals, SubSeq(ClearValue(c, g, [k \in DOMAIN g.ins |-> vals[g.ins[k]]],
                                       input[Len(vals) + 1]), 1, g.nvals)), <<>>, c.gates)

\* Of an input gate: every sequence of its values.
ValuesOf(g) == [1 .. g.nvals -> 0 .. (IF g.context = "ARITH" THEN Modulus - 1 ELSE 1)]

Inputs(c) ==
    LET Given == {i \in DOMAIN c.gates : c.gates[i].type \in {"IN", "SHARED_IN"}}
    IN  {in \in [Given -> UNION {ValuesOf(c.gates[i]) : i \in Given}] :
            \A i \in Given : in[i] \in ValuesOf(c.gates[i])}

\* The shares the application brings along.
GivenShare(c, in, p, i) ==
    LET g == c.gates[i]
        random(k) == IF g.context = "ARITH" THEN DrawNumber("SERVER", "given", 10 * i + k)
                     ELSE Flip(seed, "SERVER", "given", 10 * i + k)
        mod == IF g.context = "ARITH" THEN Modulus ELSE 2
    IN  [k \in 1 .. g.nvals |->
            IF p = "SERVER" THEN random(k) ELSE (in[i][k] + mod - random(k)) % mod]
===============================================================================
