----------------------------- MODULE MCAbyLayers -----------------------------
(***************************************************************************)
(* Processes that evaluate small circuits.  In every circuit the names are *)
(* those of the circuit after the gate is put; the gates' ids are in the   *)
(* order of the lines.                                                     *)
(***************************************************************************)
EXTENDS AbyLayers, CircuitBuilder

\* Two layers of ANDs; gate 5 is both inputs of gate 6, and put out.
AndLayers ==
    LET x1 == PutINGate(EmptyCircuit, "BOOL", 2, "SERVER")
        x2 == PutINGate(x1, "BOOL", 2, "CLIENT")
        x3 == PutANDGate(x2, 1, 2)
        x4 == PutXORGate(x3, 3, 1)
        x5 == PutINVGate(x4, 4)
        x6 == PutANDGate(x5, 5, 5)
        x7 == PutOUTGate(x6, 6, "ALL")
    IN  PutOUTGate(x7, 5, "CLIENT")

\* A vector under one bit, two vectors under two, and gates that move bits.
Vectors ==
    LET x1 == PutINGate(EmptyCircuit, "BOOL", 1, "CLIENT")
        x2 == PutINGate(x1, "BOOL", 2, "SERVER")
        x3 == PutVectorANDGate(x2, 1, 2)
        x4 == PutCombinerGate(x3, <<3, 2>>)
        x5 == PutVectorANDGate(x4, 2, 4)
        x6 == PutSplitterGate(x5, 5, 1, 2)
        x7 == PutRepeaterGate(x6, 1, 3)
        x8 == PutPermutationGate(x7, <<5, 6, 7>>, <<3, 0, 2>>)
        x9 == PutCombineAtPosGate(x8, <<8, 6>>, 1)
        x10 == PutSubsetGate(x9, 8, <<2, 0>>)
        x11 == PutStructurizedCombinerGate(x10, <<9, 10>>, 0, 1, 4)
        x12 == PutANDGate(x11, 11, 5)
        x13 == PutOUTGate(x12, 12, "SERVER")
    IN  PutOUTGate(x13, 8, "ALL")

\* The table of gate 5 is put after that of gate 4, for a layer before it.
And2 == [v \in Bits(2) |-> <<v[1] * v[2]>>]
Less2 == [v \in Bits(2) |-> <<(1 - v[1]) * v[2]>>]
Add2 == [v \in Bits(2) |-> <<(v[1] + v[2]) % 2, v[1] * v[2]>>]
Tables ==
    LET x1 == PutINGate(EmptyCircuit, "BOOL", 2, "SERVER")
        x2 == PutINGate(x1, "BOOL", 2, "CLIENT")
        x3 == PutTruthTableGate(x2, <<1, 2>>, 1, Less2)
        x4 == PutTruthTableGate(x3, <<3, 2>>, 1, Less2)
        x5 == PutTruthTableGate(x4, <<1, 2>>, 1, And2)
        x8 == PutTruthTableMultiOutputGate(x5, <<4, 5>>, 2, Add2)
        x9 == PutOUTGate(x8, 7, "ALL")
    IN  PutOUTGate(x9, 8, "SERVER")

\* The server awaits nothing from the client in any layer.
ToClient ==
    LET x1 == PutINGate(EmptyCircuit, "BOOL", 1, "SERVER")
        x2 == PutSharedINGate(x1, "BOOL", 1)
        x3 == PutConstantGate(x2, "BOOL", 1, 1)
        x4 == PutXORGate(x3, 2, 3)
        x5 == PutXORGate(x4, 4, 1)
        x6 == PutOUTGate(x5, 5, "CLIENT")
        x7 == PutOUTGate(x6, 4, "CLIENT")
    IN  PutSharedOUTGate(x7, 5)

OneAnd ==
    LET x1 == PutINGate(EmptyCircuit, "BOOL", 1, "SERVER")
        x2 == PutINGate(x1, "BOOL", 1, "CLIENT")
        x3 == PutANDGate(x2, 1, 2)
    IN  PutOUTGate(x3, 3, "ALL")

\* Numbers: two multiplications, one of them under a constant.
Products ==
    LET x1 == PutINGate(EmptyCircuit, "ARITH", 1, "SERVER")
        x2 == PutINGate(x1, "ARITH", 1, "CLIENT")
        x3 == PutMULGate(x2, 1, 2)
        x4 == PutConstantGate(x3, "ARITH", 1, 3)
        x5 == PutMULGate(x4, 4, 3)
        x7 == PutSUBGate(x5, 5, 1)
        x8 == PutMULGate(x7, 7, 2)
        x9 == PutOUTGate(x8, 8, "ALL")
    IN  PutOUTGate(x9, 7, "SERVER")

\* Bits become numbers in two layers after one another, so that the answer to
\* the first conversion crosses the second one's question.
ToNumbers ==
    LET x1 == PutINGate(EmptyCircuit, "BOOL", 1, "SERVER")
        x2 == PutINGate(x1, "BOOL", 1, "CLIENT")
        x3 == PutXORGate(x2, 1, 2)
        x4 == PutANDGate(x3, 1, 2)
        x5 == PutB2AGate(x4, <<3, 2>>)
        x6 == PutB2AGate(x5, <<4, 1>>)
        x7 == PutMULGate(x6, 5, 6)
        x8 == PutSharedOUTGate(x7, 7)
        x9 == PutOUTGate(x8, 8, "CLIENT")
    IN  PutOUTGate(x9, 5, "ALL")

\* Garbled gates of every kind on inputs of both, two values each.
Garbled ==
    LET x1 == PutINGate(EmptyCircuit, "YAO", 2, "SERVER")
        x2 == PutINGate(x1, "YAO", 1, "CLIENT")
        x3 == PutRepeaterGate(x2, 2, 2)
        x4 == PutANDGate(x3, 1, 3)
        x5 == PutINVGate(x4, 4)
        x6 == PutUniversalGate(x5, 5, 1, 13)
        x7 == PutANDGate(x6, 6, 5)
        x8 == PutConstantGate(x7, "YAO", 2, 1)
        x9 == PutXORGate(x8, 8, 7)
        x10 == PutCombinerGate(x9, <<9, 2>>)
        x11 == PutSplitterGate(x10, 10, 1, 2)
        x12 == PutOUTGate(x11, 11, "SERVER")
        x13 == PutOUTGate(x12, 10, "CLIENT")
    IN  PutOUTGate(x13, 6, "ALL")

\* Shared bits into a garbled circuit, out of it, and into the other one.
ToYaoAndBack ==
    LET x1 == PutINGate(EmptyCircuit, "BOOL", 1, "SERVER")
        x2 == PutINGate(x1, "BOOL", 1, "CLIENT")
        x3 == PutXORGate(x2, 1, 2)
        x4 == PutB2YGate(x3, 3)
        x5 == PutB2YGate(x4, 2)
        x6 == PutANDGate(x5, 4, 5)
        x7 == PutY2BGate(x6, 6)
        x8 == PutANDGate(x7, 7, 1)
        x9 == PutYSwitchRolesGate(x8, "YAO_REV", 6)
        x10 == PutINVGate(x9, 9)
        x11 == PutOUTGate(x10, 8, "ALL")
    IN  PutOUTGate(x11, 10, "SERVER")

\* The client garbles; what it made is switched where it was just evaluated.
Switched ==
    LET x1 == PutINGate(EmptyCircuit, "YAO_REV", 1, "SERVER")
        x2 == PutINGate(x1, "YAO_REV", 1, "CLIENT")
        x3 == PutXORGate(x2, 1, 2)
        x4 == PutYSwitchRolesGate(x3, "YAO", 3)
        x5 == PutINVGate(x4, 4)
        x6 == PutYSwitchRolesGate(x5, "YAO_REV", 5)
        x7 == PutANDGate(x6, 6, 1)
        x8 == PutOUTGate(x7, 7, "ALL")
    IN  PutOUTGate(x8, 5, "CLIENT")

\* A number's shares are added in a garbled circuit, its bits put out there and,
\* as shared bits, made into a number again.
ToBits ==
    LET x1 == PutINGate(EmptyCircuit, "ARITH", 1, "SERVER")
        x2 == PutINGate(x1, "ARITH", 1, "CLIENT")
        x3 == PutMULGate(x2, 1, 2)
        Bits2(d) == PutY2BGate(PutY2BGate(d, d.wires[1]), d.wires[2])
        Number(d) == PutB2AGate(d, <<Newest(d) - 1, Newest(d)>>)
        Outs(d) == PutOUTGate(PutOUTGate(d, Newest(d), "ALL"), d.wires[2], "CLIENT")
    IN  Outs(Number(Bits2(PutA2YGate(x3, 3))))

\* Tables of SPLUT in layers of either sender, with outputs in each layer.
LutLayers ==
    LET x1 == PutINGate(EmptyCircuit, "SPLUT", 2, "SERVER")
        x2 == PutINGate(x1, "SPLUT", 2, "CLIENT")
        x3 == PutTruthTableGate(x2, <<1, 2>>, 1, Less2)
        x4 == PutXORGate(x3, 3, 1)
        x5 == PutINVGate(x4, 4)
        x8 == PutTruthTableMultiOutputGate(x5, <<5, 2>>, 2, Add2)
        x9 == PutANDGate(x8, 3, 5)
        x10 == PutCombinerGate(x9, <<9, 7>>)
        x11 == PutOUTGate(x10, 4, "SERVER")
        x12 == PutOUTGate(x11, 8, "CLIENT")
    IN  PutOUTGate(x12, 10, "ALL")

\* Two tables of one kind in a layer, between them and after them others.
Majority3 == [v \in Bits(3) |-> <<IF v[1] + v[2] + v[3] >= 2 THEN 1 ELSE 0>>]
LutKindsMixed ==
    LET x1 == PutSharedINGate(EmptyCircuit, "SPLUT", 1)
        x2 == PutConstantGate(x1, "SPLUT", 1, 1)
        x3 == PutXORGate(x2, 1, 2)
        x4 == PutTruthTableGate(x3, <<1, 3, 2>>, 1, Majority3)
        x5 == PutANDGate(x4, 3, 2)
        x6 == PutINGate(x5, "SPLUT", 1, "CLIENT")
        x7 == PutANDGate(x6, 5, 6)
        x8 == PutANDGate(x7, 4, 6)
        x9 == PutTruthTableGate(x8, <<7, 8, 6>>, 1, Majority3)
        x10 == PutSharedOUTGate(x9, 9)
    IN  PutOUTGate(x10, 10, "ALL")

MCWorkloads ==
    {<<AndLayers>>, <<ToClient, OneAnd, Vectors>>, <<Tables, Tables>>,
     <<Products, ToNumbers>>, <<Garbled>>, <<Switched, ToYaoAndBack>>, <<ToBits>>,
     <<LutKindsMixed, LutLayers>>}

\* The output that is put first is of a later layer than the second.
LaterFirst ==
    LET x1 == PutINGate(EmptyCircuit, "YAO", 1, "SERVER")
        x2 == PutINGate(x1, "YAO", 1, "CLIENT")
        x3 == PutANDGate(x2, 1, 2)
        x4 == PutOUTGate(x3, 3, "CLIENT")
    IN  PutOUTGate(x4, 1, "CLIENT")

MCLaterFirst == {<<LaterFirst>>}

\* A circuit with tables, and one without.
MCTablesThenNone == {<<Tables, OneAnd>>}

\* Bits without a visible pattern.
Salts == <<"A", "X0", "X1", "rot", "table", "in", "given", "R", "server key", "client key",
           "perm", "choice", "M0", "M1", "wire", "row", "arith A", "arith B", "arith C",
           "mask0", "mask1", "convert", "X", "C", "rnd">>
Whose(p) == IF p \in {"SERVER", "YAO"} THEN 3 ELSE 0
MCFlip(s, p, what, n) ==
    LET salt == CHOOSE k \in DOMAIN Salts : Salts[k] = what
    IN  (((n * n * s + n * 5 + salt + Whose(p)) % 13) \div 2) % 2
===============================================================================
