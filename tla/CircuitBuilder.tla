---------------------------- MODULE CircuitBuilder ----------------------------
(***************************************************************************)
(* Circuits under construction.  Every Put operator returns the circuit    *)
(* with one more gate (a multi-output table, an addition: several).        *)
(***************************************************************************)
EXTENDS AbyCircuit, FiniteSets

\* m_nRoundsAND, m_nRoundsXOR, m_nRoundsIN, m_nRoundsOUT; a table takes a round,
\* too.  In Yao a gate is evaluated where its inputs are, and the evaluator has
\* the bits that open outputs from the start.
Rounds(context, type, role) ==
    IF context \in Yao
    THEN CASE type = "IN" -> IF role = "CLIENT" THEN 2 ELSE 1
           [] type = "OUT" -> IF role = "CLIENT" THEN 0 ELSE 1
           [] OTHER -> 0
    ELSE IF type \in {"NON_LIN", "NON_LIN_VEC", "IN", "OUT", "TT"} THEN 1 ELSE 0

ComputeDepth(gate) == gate.depth + gate.nrounds

\* Mutant: one input used twice is counted as one use.
NewGateOneUse(c, context, type, ins, nrounds, nvals, gs) ==
    LET depth == Max({0} \cup {ComputeDepth(c.gates[i]) : i \in ToSet(ins)})
        marked == [i \in DOMAIN c.gates |->
                      [c.gates[i] EXCEPT !.nused = @ + (IF i \in ToSet(ins) THEN 1 ELSE 0)]]
    IN  [c EXCEPT !.gates = Append(marked,
            [type |-> type, context |-> context, ins |-> ins, depth |-> depth,
             nrounds |-> nrounds, nused |-> 0, nvals |-> nvals, gs |-> gs])]

\* The new gate is on the first layer on which all its inputs are there, and
\* every use of an input is counted, one input used twice as two uses.
NewGate(c, context, type, ins, nrounds, nvals, gs) ==
    LET depth == Max({0} \cup {ComputeDepth(c.gates[i]) : i \in ToSet(ins)})
        uses(i) == Cardinality({k \in DOMAIN ins : ins[k] = i})
        marked == [i \in DOMAIN c.gates |-> [c.gates[i] EXCEPT !.nused = @ + uses(i)]]
    IN  [c EXCEPT !.gates = Append(marked,
            [type |-> type, context |-> context, ins |-> ins, depth |-> depth,
             nrounds |-> nrounds, nused |-> 0, nvals |-> nvals, gs |-> gs])]

\* A gate of its inputs' sharing.
InitGate(c, type, ins, nvals, gs) ==
    LET context == c.gates[ins[1]].context
    IN  NewGate(c, context, type, ins, Rounds(context, type, gs), nvals, gs)

Newest(c) == Len(c.gates)
NewestGate(c) == c.gates[Newest(c)]

\* Puts id at the end of layer d, after adding the layers that are missing.
Enqueue(queue, d, id) ==
    [l \in 1 .. Max({Len(queue), d + 1}) |->
        (IF l <= Len(queue) THEN queue[l] ELSE <<>>)
          \o (IF l = d + 1 THEN <<id>> ELSE <<>>)]

UpdateLocalQueue(c) ==
    LET g == NewestGate(c)
    IN  [c EXCEPT !.local[g.context] = Enqueue(@, g.depth, Newest(c)),
                  !.maxdepth[g.context] = Max({@, g.depth + 1})]

UpdateInteractiveQueue(c) ==
    LET g == NewestGate(c)
    IN  [c EXCEPT !.interactive[g.context] = Enqueue(@, g.depth, Newest(c)),
                  !.maxdepth[g.context] = Max({@, g.depth + 1})]

(***************************************************************************)
(* The gates.  A LIN gate is an XOR or, of arithmetic shares, an addition; *)
(* a NON_LIN gate an AND or a multiplication.                              *)
(***************************************************************************)
PutINGate(c, context, nvals, src) ==
    UpdateInteractiveQueue(
        NewGate(c, context, "IN", <<>>, Rounds(context, "IN", src), nvals, src))

PutSharedINGate(c, context, nvals) ==
    UpdateLocalQueue(NewGate(c, context, "SHARED_IN", <<>>, 0, nvals, 0))

PutConstantGate(c, context, nvals, val) ==
    UpdateLocalQueue(NewGate(c, context, "CONSTANT", <<>>, 0, nvals, val))

MinNvals(c, a, b) == Min({c.gates[a].nvals, c.gates[b].nvals})

PutXORGate(c, a, b) == UpdateLocalQueue(InitGate(c, "LIN", <<a, b>>, MinNvals(c, a, b), 0))
PutADDGate(c, a, b) == PutXORGate(c, a, b)

\* m_vANDs: gates by the bits of the vector, single bits first.
CountAND(c, bitlen, n) ==
    LET known == {k \in DOMAIN c.ands : c.ands[k].bitlen = bitlen}
    IN  IF known = {}
        THEN [c EXCEPT !.ands = Append(@, [bitlen |-> bitlen, numgates |-> n])]
        ELSE [c EXCEPT !.ands[Max(known)].numgates = @ + n]

UpdateTruthTableSizes(c, kind, nvals, table) ==
    [c EXCEPT !.luts = @ \o [k \in 1 .. nvals |->
        [context |-> NewestGate(c).context, kind |-> kind,
         depth |-> NewestGate(c).depth, table |-> table]]]

\* table: from the values of the inputs, 0 .. 2^n - 1, to the bits of the
\* outputs.
PutTruthTableGate(c, ins, outs, table) ==
    LET nvals == c.gates[ins[1]].nvals
        put == InitGate(c, "TT", ins, nvals * outs, table)
    IN  UpdateInteractiveQueue(
            UpdateTruthTableSizes(put, LutKind(Len(ins), outs), nvals, table))

AndTable == [v \in [1 .. 2 -> 0 .. 1] |-> <<v[1] * v[2]>>]

\* The ANDs of a Yao circuit are counted for the size of its tables only; in
\* SPLUT an AND is a table.
PutANDGate(c, a, b) ==
    LET put == InitGate(c, "NON_LIN", <<a, b>>, MinNvals(c, a, b), 1)
    IN  IF NewestGate(put).context = "SPLUT" THEN PutTruthTableGate(c, <<a, b>>, 1, AndTable)
        ELSE IF NewestGate(put).context \in Yao THEN UpdateLocalQueue(put)
        ELSE CountAND(UpdateInteractiveQueue(put), 1, NewestGate(put).nvals)

\* Every value of the choice gate with its own stretch of the vector gate.
PutVectorANDGate(c, choice, vector) ==
    LET n == c.gates[choice].nvals
        bitlen == c.gates[vector].nvals \div n
    IN  CountAND(UpdateInteractiveQueue(
            InitGate(c, "NON_LIN_VEC", <<choice, vector>>, n * bitlen, bitlen)), bitlen, n)

PutINVGate(c, a) == UpdateLocalQueue(InitGate(c, "INV", <<a>>, c.gates[a].nvals, 0))

\* op: the output bits for the inputs 00, 01, 10 and 11.
PutUniversalGate(c, a, b, op) ==
    UpdateLocalQueue(InitGate(c, "UNIV", <<a, b>>, MinNvals(c, a, b), op))

PutOUTGate(c, a, dst) == UpdateInteractiveQueue(InitGate(c, "OUT", <<a>>, c.gates[a].nvals, dst))

PutSharedOUTGate(c, a) ==
    UpdateLocalQueue(InitGate(c, "SHARED_OUT", <<a>>, c.gates[a].nvals, 0))

PutCombinerGate(c, ins) == UpdateLocalQueue(InitGate(c, "COMBINE", ins, SumNvals(c, ins), 0))

PutSplitterGate(c, a, pos, bitlen) == UpdateLocalQueue(InitGate(c, "SPLIT", <<a>>, bitlen, pos))

PutRepeaterGate(c, a, nvals) == UpdateLocalQueue(InitGate(c, "REPEAT", <<a>>, nvals, 0))

PutPermutationGate(c, ins, positions) ==
    UpdateLocalQueue(InitGate(c, "PERM", ins, Len(ins), positions))

PutCombineAtPosGate(c, ins, pos) ==
    UpdateLocalQueue(InitGate(c, "COMBINEPOS", ins, Len(ins), pos))

PutSubsetGate(c, a, posids) ==
    UpdateLocalQueue(InitGate(c, "SUBSET", <<a>>, Len(posids), posids))

PutStructurizedCombinerGate(c, ins, start, incr, nvals) ==
    UpdateLocalQueue(InitGate(c, "STRUCT_COMBINE", ins, nvals, <<start, incr>>))

(***************************************************************************)
(* Arithmetic gates.                                                       *)
(***************************************************************************)
PutMULCONSTGate(c, a, b) ==
    UpdateLocalQueue(InitGate(c, "NON_LIN_CONST", <<a, b>>, MinNvals(c, a, b), 0))

PutMULGate(c, a, b) ==
    IF "CONSTANT" \in {c.gates[a].type, c.gates[b].type} THEN PutMULCONSTGate(c, a, b)
    ELSE UpdateInteractiveQueue(InitGate(c, "NON_LIN", <<a, b>>, MinNvals(c, a, b), 1))

PutSUBGate(c, a, b) ==
    LET inverse == PutINVGate(c, b) IN PutADDGate(inverse, a, Newest(inverse))

(***************************************************************************)
(* Conversions.  A later layer is what keeps a conversion behind its       *)
(* inputs where its sharing is evaluated before theirs.                    *)
(***************************************************************************)
PutCONVGate(c, context, ins, nrounds, pos) ==
    NewGate(c, context, "CONV", ins, nrounds, c.gates[ins[1]].nvals, pos)

\* Mutant: the conversion is on the layer of its input.
SameLayer(c) == c

OneLayerLater(c) == [c EXCEPT !.gates[Newest(c)].depth = @ + 1]

PutY2BGate(c, a) == UpdateLocalQueue(OneLayerLater(PutCONVGate(c, "BOOL", <<a>>, 1, 0)))

PutB2YGate(c, a) == UpdateInteractiveQueue(PutCONVGate(c, "YAO", <<a>>, 2, 0))

PutYSwitchRolesGate(c, context, a) ==
    UpdateInteractiveQueue(PutCONVGate(c, context, <<a>>, 2, 0))

\* One gate for all bits of a number, the lowest first.
PutB2AGate(c, ins) == UpdateInteractiveQueue(PutCONVGate(c, "ARITH", ins, 2, 0))

\* Sums of few gates: a carry takes one AND.
PutSizeOptimizedAddGate(c, a, b) ==
    LET n == Len(a)
        Keep(d) == [d EXCEPT !.wires = Append(@, Newest(d))]
        Start(d) == [d EXCEPT !.wires = <<Newest(d)>>]
        Carry(d, i) ==
            LET C == d.wires[Len(d.wires)]
                \* gates 1 and 2: a[i] xor C, b[i] xor C; 3: their AND
                xors == PutXORGate(PutXORGate(d, a[i], C), b[i], C)
                and == PutANDGate(xors, Newest(d) + 1, Newest(d) + 2)
            IN  Keep(PutXORGate(and, C, Newest(d) + 3))
        Bit(d, i) == PutXORGate(d, a[i], b[i])
        Out(d, i) == PutXORGate(d, d.wires[i], Newest(d) - n + 1)
        Sum(d) == [d EXCEPT !.wires = [i \in 1 .. n |-> Newest(d) - n + i]]
        carries == Through(Carry, Start(PutXORGate(c, a[1], a[1])), [i \in 1 .. n - 1 |-> i])
        halves == Through(Bit, carries, [i \in 1 .. n |-> i])
    IN  Sum(Through(Out, halves, [i \in 1 .. n |-> i]))

\* Both shares' bits become inputs, the server's at even positions, and are
\* added in the garbled circuit.
PutA2YGate(c, a) ==
    LET Share(d, pos) ==
            LET put == UpdateInteractiveQueue(OneLayerLater(
                           PutCONVGate(d, "YAO", <<a>>, 1 + (pos % 2), pos)))
            IN  [put EXCEPT !.wires = Append(@, Newest(d) + 1)]
        Of(d, parity) == [i \in 1 .. ShareBits |-> d.wires[2 * i - 1 + parity]]
        Added(d) == PutSizeOptimizedAddGate(d, Of(d, 0), Of(d, 1))
    IN  Added(Through(Share, [c EXCEPT !.wires = <<>>], [k \in 1 .. 2 * ShareBits |-> k - 1]))

PutTruthTableMultiOutputGate(c, ins, outs, table) ==
    LET nvals == c.gates[ins[1]].nvals
        tt == PutTruthTableGate(c, ins, outs, table)
        id == Newest(tt)
    IN  Through(LAMBDA d, o : PutSplitterGate(d, id, (o - 1) * nvals, nvals),
                 tt, [o \in 1 .. outs |-> o])
===============================================================================
