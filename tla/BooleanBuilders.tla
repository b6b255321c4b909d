--------------------------- MODULE BooleanBuilders ---------------------------
(***************************************************************************)
(* The circuits that BooleanCircuit builds for arithmetic, comparison and  *)
(* selection, as the clear values on their wires: a wire is the sequence   *)
(* of its gate's bits, one for each of nvals values, and a number a        *)
(* sequence of wires, the lowest bit first.  context is the sharing, which *)
(* decides between circuits of few gates, of few layers, and of tables.    *)
(***************************************************************************)
EXTENDS GateValues, LutTables

Seqs == INSTANCE SequencesExt

\* The sequence, with every element evaluated.
Each(n, At(_)) == SubSeq([k \in 1 .. n |-> At(k)], 1, n)
Upto(n) == [k \in 1 .. n |-> k]
CeilLog2(n) == CHOOSE l \in 0 .. 31 : 2^l >= n /\ \A k \in 0 .. l - 1 : 2^k < n
FloorLog2(n) == CHOOSE l \in 0 .. 30 : 2^l <= n /\ 2^l > n \div 2
CeilDivide(a, b) == (a + b - 1) \div b
MinOf(a, b) == Min({a, b})

\* op down a balanced tree, a last one without a partner going up as it is.
Halve(op(_, _), vals) ==
    Each((Len(vals) + 1) \div 2, LAMBDA k :
        IF 2 * k <= Len(vals) THEN op(vals[2 * k - 1], vals[2 * k]) ELSE vals[2 * k - 1])
binary_accumulate(vals, op(_, _)) ==
    Seqs!FoldLeft(LAMBDA left, level : Halve(op, left), vals, Upto(CeilLog2(Len(vals))))[1]

-------------------------------------------------------------------------------
(***************************************************************************)
(* Single gates.                                                           *)
(***************************************************************************)
PutConstantGate(val, nvals) == Each(nvals, LAMBDA k : val)
PutXORGate(a, b) == XorBits(a, b)
PutANDGate(a, b) == Each(MinOf(Len(a), Len(b)), LAMBDA k : a[k] * b[k])
PutINVGate(a) == Each(Len(a), LAMBDA k : 1 - a[k])
PutORGate(a, b) == PutINVGate(PutANDGate(PutINVGate(a), PutINVGate(b)))

\* Every value of the choice with its own stretch of the vector.
PutVectorANDGate(choice, vector) ==
    LET bitlen == Len(vector) \div Len(choice)
    IN  Each(Len(choice) * bitlen, LAMBDA k : choice[1 + (k - 1) \div bitlen] * vector[k])

PutRepeaterGate(a, nvals) == EvaluateSIMDGate([type |-> "REPEAT", context |-> "BOOL", nvals |-> nvals], <<a>>)
PutCombinerGate(ins) == Concat(ins)
PutSplitterGate(a) == Each(Len(a), LAMBDA k : <<a[k]>>)
PutStructurizedCombinerGate(ins, start, incr, nvals) ==
    Once(LAMBDA in : EvaluateSIMDGate(
            [type |-> "STRUCT_COMBINE", gs |-> <<start, incr>>, nvals |-> nvals], in), ins)

Address(ins, n) == Seqs!FoldLeft(LAMBDA sum, j : sum + ins[j][n] * 2^(j - 1), 0, Upto(Len(ins)))

PutTruthTableMultiOutputGate(ins, outs, words) ==
    LET rows == Each(Len(ins[1]), LAMBDA n : TableRow(words, outs, Address(ins, n)))
    IN  Each(outs, LAMBDA o : [n \in 1 .. Len(rows) |-> rows[n][o]])

-------------------------------------------------------------------------------
(***************************************************************************)
(* Selection.                                                              *)
(***************************************************************************)
Zeros(a, n) == [k \in 1 .. n |-> PutConstantGate(0, Len(a[1]))]

\* Mutant: the shorter number is filled up at its low end.
PadAtLowEnd(a, n) == Zeros(a, n - Len(a)) \o a

PadTo(a, n) == a \o Zeros(a, n - Len(a))
PadWithLeadingZeros(a, b) ==
    LET n == Max({Len(a), Len(b)}) IN <<PadTo(a, n), PadTo(b, n)>>

\* A binary gate of every two wires.
Bitwise(gate(_, _), a, b) ==
    LET ab == PadWithLeadingZeros(a, b)
    IN  Each(Len(ab[1]), LAMBDA k : gate(ab[1][k], ab[2][k]))

PutVecANDMUXGate(context, a, b, s) ==
    LET ab == PutXORGate(a, b)
        sab == IF context = "BOOL" THEN PutVectorANDGate(s, ab) ELSE PutANDGate(s, ab)
    IN  PutXORGate(b, sab)

\* b if s is 0, else a.
PutMUXGate(context, a, b, s, vecand) ==
    LET ab == PadWithLeadingZeros(a, b)
    IN  IF context = "BOOL" /\ vecand /\ \A w \in ToSet(a \o b) : Len(w) = 1
        THEN PutSplitterGate(PutVecANDMUXGate(context, PutCombinerGate(ab[1]),
                                              PutCombinerGate(ab[2]), s))
        ELSE Bitwise(LAMBDA x, y : PutXORGate(y, PutANDGate(s, PutXORGate(x, y))), a, b)

\* Several numbers at once: the bits of a value next to each other, one vector
\* AND, and the bits back to where they belong.  The result is one after the
\* other, as the numbers are in as.
PutMultiMUXGate(as, bs, sel) ==
    LET bitlen == Len(as)
        nvals == Len(sel)
        avec == PutStructurizedCombinerGate(as, 0, 1, bitlen * nvals)
        bvec == PutStructurizedCombinerGate(bs, 0, 1, bitlen * nvals)
        out == PutVecANDMUXGate("BOOL", avec, bvec, sel)
    IN  Each(bitlen, LAMBDA i : PutStructurizedCombinerGate(<<out>>, i - 1, bitlen, nvals))

PutANDVecGate(context, a, b) ==
    Each(Len(a), LAMBDA i :
        IF context = "BOOL" THEN PutVectorANDGate(b[i], a[i])
        ELSE PutANDGate(a[i], PutRepeaterGate(b[i], Len(a[i]))))

PutCondSwapGate(context, a, b, s, vectorized) ==
    LET ab == PadWithLeadingZeros(a, b)
        avec == PutCombinerGate(ab[1])
        bvec == PutCombinerGate(ab[2])
        snab == PutVectorANDGate(s, PutXORGate(avec, bvec))
        svec == IF Len(s) < Len(a[1]) THEN PutRepeaterGate(s, Len(a[1])) ELSE s
        swap(x, y) == PutANDGate(svec, PutXORGate(x, y))
    IN  IF context = "BOOL" /\ ~vectorized
        THEN <<PutSplitterGate(PutXORGate(snab, avec)), PutSplitterGate(PutXORGate(snab, bvec))>>
        ELSE <<Bitwise(LAMBDA x, y : PutXORGate(swap(x, y), x), a, b),
               Bitwise(LAMBDA x, y : PutXORGate(swap(x, y), y), a, b)>>

PutELM0Gate(val, b) == Each(Len(val), LAMBDA i : PutANDGate(val[i], b))

\* Any gate of two inputs: bit 2 * a + b of op_id.
PutUniversalGateCircuit(a, b, op_id) ==
    LET c(i) == PutConstantGate((op_id \div 2^i) % 2, Max({Len(a), Len(b)}))
        o0 == PutXORGate(c(0), PutANDGate(b, PutXORGate(c(0), c(1))))
        o1 == PutXORGate(c(2), PutANDGate(b, PutXORGate(c(2), c(3))))
    IN  PutXORGate(o0, PutANDGate(a, PutXORGate(o0, o1)))

PutWideGate(gate(_, _), ins) == binary_accumulate(ins, gate)

\* A table that is 1 for ones only.
AllOnes(n) == [k \in 1 .. 2^n \div WordBits + 1 |->
    IF k = 1 + (2^n - 1) \div WordBits THEN 2^((2^n - 1) % WordBits) ELSE 0]

\* Tables of up to seven; of a last few, three or less, only when no others are
\* left.
RECURSIVE LutAndLevel(_)
LutAndLevel(ins) ==
    LET nins == MinOf(Len(ins), 7)
    IN  IF ins = <<>> THEN <<>>
        ELSE PutTruthTableMultiOutputGate(SubSeq(ins, 1, nins), 1, AllOnes(nins))
                \o (IF Len(ins) - nins \in 1 .. 3 THEN SubSeq(ins, nins + 1, Len(ins))
                    ELSE LutAndLevel(SubSeq(ins, nins + 1, Len(ins))))
RECURSIVE PutLUTWideANDGate(_)
PutLUTWideANDGate(ins) == IF Len(ins) = 1 THEN ins[1] ELSE PutLUTWideANDGate(LutAndLevel(ins))

-------------------------------------------------------------------------------
(***************************************************************************)
(* Addition.                                                               *)
(***************************************************************************)
NextCarry(a, b, c) == PutXORGate(c, PutANDGate(PutXORGate(a, c), PutXORGate(b, c)))

PutSizeOptimizedAddGate(left, right, bCarry) ==
    LET ab == PadWithLeadingZeros(left, right)
        a == ab[1]  b == ab[2]
        n == Len(a)
        C == Seqs!FoldLeft(LAMBDA cs, i : Append(cs, NextCarry(a[i], b[i], cs[i])),
                      <<PutXORGate(a[1], a[1])>>, Upto(IF bCarry THEN n ELSE n - 1))
    IN  Each(n, LAMBDA i : PutXORGate(C[i], PutXORGate(a[i], b[i])))
            \o (IF bCarry THEN <<C[n + 1]>> ELSE <<>>)

\* Mutant: the last level of a width that is no power of two is left out.
LevelsOf(n) == FloorLog2(n)

\* The levels of the prefix tree.
Levels(n) == CeilLog2(n)

\* (carry, parity) of a stretch of bits, from those of its low and high part.
PrefixStep(vector_and, low, high) ==
    LET zero == PutConstantGate(0, Len(low.carry))
        both == PutMultiMUXGate(<<low.carry, low.parity>>, <<zero, zero>>, high.parity)
    IN  IF vector_and
        THEN [carry |-> PutXORGate(both[1], high.carry), parity |-> both[2]]
        ELSE [carry |-> PutXORGate(high.carry, PutANDGate(high.parity, low.carry)),
              parity |-> PutANDGate(high.parity, low.parity)]

\* Each wire's carry and parity.
Generates(ab) == Each(Len(ab[1]), LAMBDA j :
    [carry |-> PutANDGate(ab[1][j], ab[2][j]), parity |-> PutXORGate(ab[1][j], ab[2][j])])

PrefixTree(vector_and, first) ==
    LET Level(s, i) == Each(Len(s), LAMBDA j :
            IF (j - 1) % 2^i >= 2^(i - 1)
            THEN PrefixStep(vector_and, s[2^(i - 1) + 2^i * ((j - 1) \div 2^i)], s[j])
            ELSE s[j])
        last == Seqs!FoldLeft(Level, first, Upto(Levels(Len(first))))
    IN  Each(Len(first), LAMBDA j : last[j].carry)

\* carries: out of every wire.
AddCarries(ab, carries, bCarry) ==
    LET sum(i) == PutXORGate(ab[1][i], ab[2][i])
    IN  Each(Len(ab[1]), LAMBDA i : IF i = 1 THEN sum(1) ELSE PutXORGate(sum(i), carries[i - 1]))
            \o (IF bCarry THEN <<carries[Len(ab[1])]>> ELSE <<>>)

PutDepthOptimizedAddGate(left, right, bCarry, vector_and) ==
    Once(LAMBDA ab : Once(LAMBDA carries : AddCarries(ab, carries, bCarry),
                          PrefixTree(vector_and, Generates(ab))),
         PadWithLeadingZeros(left, right))

\* The Brent-Kung adder of tables.  Wires count from 0; s holds the carry and
\* the parity of each, and a table overwrites those at dests.
Lookup(s, ins, dests, table) ==
    LET out == PutTruthTableMultiOutputGate(ins, Len(dests), table)
    IN  Seqs!FoldLeft(LAMBDA t, m : [t EXCEPT ![dests[m][1]][dests[m][2]] = out[m]], s, Upto(Len(dests)))

\* Carry and parity of m wires, from wire i on, dist apart.
Signals(s, i, m, dist) ==
    Concat([j \in 1 .. m |-> <<s.parity[i + (j - 1) * dist], s.carry[i + (j - 1) * dist]>>])
CarriesAt(i, m, dist) == [j \in 1 .. m |-> <<"carry", i + (j - 1) * dist>>]

\* Groups of four bits, the first of which gives carries at once.
LutAddInputs(a, b) ==
    LET n == Len(a)
        ncrit == MinOf(n, 4)
        ins(i, m) == Concat([j \in 1 .. m |-> <<a[i + j], b[i + j]>>])
        none == [parity |-> [i \in 0 .. n - 1 |-> PutXORGate(a[i + 1], b[i + 1])],
                 carry |-> [i \in 0 .. n - 1 |-> <<>>]]
        Group(s, k) ==
            LET i == 4 * k
                m == MinOf(n - i, 4)
                all == <<<<"carry", i>>, <<"parity", i + 1>>, <<"carry", i + 1>>,
                         <<"carry", i + 2>>, <<"parity", i + 3>>, <<"carry", i + 3>>>>
            IN  Lookup(s, ins(i, m), SubSeq(all, 1, AddNOuts[m]), AddInTable[m])
    IN  Seqs!FoldLeft(Group, Lookup(none, ins(0, ncrit), CarriesAt(0, ncrit, 1), AddCritInTable[ncrit]),
                 Upto(CeilDivide(n, 4) - 1))

\* A level towards the root: the critical path, and what is beside it.
LutAddUp(n, s, d) ==
    LET base == 8 * 4^(d - 1)
        dist == base \div 2
        ncrit == 1 + MinOf((n - base) \div dist, 2)
        crit == Lookup(s, <<s.carry[base - 1 - dist]>> \o Signals(s, base - 1, ncrit, dist),
                       CarriesAt(base - 1, ncrit, dist), AddCritTable[ncrit])
        Beside(t, k) ==
            LET i == base + 3 * dist - 1 + (k - 1) * 4 * dist
                m == MinOf(CeilDivide(n - (i + dist), 2 * dist), 2)
                at(j) == i + dist + (j - 1) * 2 * dist
            IN  Lookup(t, Signals(t, i, 2 * m, dist),
                       Concat([j \in 1 .. m |-> <<<<"parity", at(j)>>, <<"carry", at(j)>>>>]),
                       AddInternalTable[m])
    IN  Seqs!FoldLeft(Beside, crit, Upto(Max({0, CeilDivide(n - (base + 4 * dist - 1), 4 * dist)})))

\* A level back to the leaves, the inverse carry tree.
LutAddDown(n, s, d) ==
    LET start == 4 * 4^d
        dist == 4^d
        Carry(t, k) ==
            LET i == k * start
                m == MinOf((n - i) \div dist, 3)
            IN  IF m = 0 THEN t
                ELSE Lookup(t, <<t.carry[i - 1]>> \o Signals(t, i - 1 + dist, m, dist),
                            CarriesAt(i - 1 + dist, m, dist), AddInvTable[m])
    IN  Seqs!FoldLeft(Carry, s, Upto((n - 1) \div start))

LutCarries(ab) ==
    LET n == Len(ab[1])
        up == Seqs!FoldLeft(LAMBDA s, d : LutAddUp(n, s, d), LutAddInputs(ab[1], ab[2]),
                       Upto(CeilLog2(n + 1) \div 2 - 1))
        downs == IF n < 5 THEN 0 ELSE FloorLog2(n \div 5) \div 2
        last == Seqs!FoldLeft(LAMBDA s, d : LutAddDown(n, s, downs - d), up, [d \in 1 .. downs + 1 |-> d - 1])
    IN  Each(n, LAMBDA i : last.carry[i - 1])

PutLUTAddGate(left, right, bCARRY) ==
    Once(LAMBDA ab : Once(LAMBDA carries : AddCarries(ab, carries, bCARRY), LutCarries(ab)),
         PadWithLeadingZeros(left, right))

PutAddGate(context, left, right, bCarry) ==
    CASE context = "BOOL"  -> PutDepthOptimizedAddGate(left, right, bCarry, FALSE)
      [] context = "SPLUT" -> PutLUTAddGate(left, right, bCarry)
      [] OTHER             -> PutSizeOptimizedAddGate(left, right, bCarry)

\* Three numbers to two, of the same sum.
PutCarrySaveGate(a, b, c) ==
    LET n == Len(a)
        carry(i) == PutXORGate(PutANDGate(PutXORGate(a[i], c[i]), PutXORGate(b[i], c[i])), c[i])
    IN  <<Each(n, LAMBDA i : PutXORGate(b[i], PutXORGate(a[i], c[i]))),
          Each(n, LAMBDA i : IF i = 1 THEN PutConstantGate(0, Len(a[1])) ELSE carry(i - 1))>>

\* The first three carry lines, or sums, while there are three.
RECURSIVE SaveCarries(_), SaveSums(_)
SaveCarries(s) ==
    IF Len(s.lines) < 3 THEN s
    ELSE SaveCarries(Once(LAMBDA out :
            [sums |-> Append(s.sums, out[1]), out |-> out,
             lines |-> Append(SubSeq(s.lines, 4, Len(s.lines)), out[2])],
            PutCarrySaveGate(s.lines[1], s.lines[2], s.lines[3])))
SaveSums(s) ==
    IF Len(s.sums) < 3 THEN s
    ELSE SaveSums(Once(LAMBDA out :
            [sums |-> Append(SubSeq(s.sums, 4, Len(s.sums)), out[1]), out |-> out,
             lines |-> Append(s.lines, out[2])],
            PutCarrySaveGate(s.sums[1], s.sums[2], s.sums[3])))

\* Three or four numbers are left, of both kinds.
SaveRest(rem) ==
    Once(LAMBDA out : IF Len(rem) = 3 THEN out ELSE PutCarrySaveGate(rem[4], out[1], out[2]),
         PutCarrySaveGate(rem[1], rem[2], rem[3]))

RECURSIVE SaveAll(_)
SaveAll(s) ==
    IF Len(s.sums) + Len(s.lines) <= 2 THEN s.out
    ELSE Once(LAMBDA t :
            IF Len(t.lines) < 3 /\ Len(t.sums) + Len(t.lines) > 2 THEN SaveRest(t.sums \o t.lines)
            ELSE SaveAll(t),
            SaveSums(SaveCarries(s)))

PutCSNNetwork(ins) ==
    IF Len(ins) < 3 THEN ins ELSE SaveAll([sums |-> ins, lines |-> <<>>, out |-> <<>>])

PutWideAddGate(ins) ==
    binary_accumulate(ins, LAMBDA a, b : PutSizeOptimizedAddGate(a, b, FALSE))

\* Every bit of b's product with a, shifted to its place.
PartialProducts(context, a, b, bits, vector_ands) ==
    LET n == Len(a)
        zero == PutConstantGate(0, Len(a[1]))
        mulout == [j \in 1 .. n |-> PutMultiMUXGate(a, [k \in 1 .. n |-> zero], b[j])]
        row(i) == IF context = "BOOL" /\ vector_ands THEN [j \in 1 .. n |-> mulout[j][i]]
                  ELSE [j \in 1 .. n |-> PutANDGate(a[j], b[i])]
    IN  Each(n, LAMBDA i : Each(MinOf(bits, 2 * n), LAMBDA k :
            IF k - i + 1 \in 1 .. n THEN row(i)[k - i + 1] ELSE zero))

PutMulGate(context, left, right, bits, depth_optimized, vector_ands) ==
    Once(LAMBDA ab :
            IF Len(ab[1]) = 1 THEN Bitwise(PutANDGate, ab[1], ab[2])
            ELSE Once(LAMBDA vAdds :
                    IF depth_optimized
                    THEN Once(LAMBDA out : PutDepthOptimizedAddGate(out[1], out[2], FALSE, FALSE),
                              PutCSNNetwork(vAdds))
                    ELSE PutWideAddGate(vAdds),
                    PartialProducts(context, ab[1], ab[2], bits, vector_ands)),
         PadWithLeadingZeros(left, right))

PutSUBGate(left, right, max_bitlength) ==
    LET a == PadTo(left, Max({Len(left), max_bitlength}))
        b == PadTo(right, Max({Len(right), max_bitlength}))
        C == Seqs!FoldLeft(LAMBDA cs, i : Append(cs, NextCarry(PutINVGate(a[i]), b[i], cs[i])),
                      <<PutConstantGate(0, Len(a[1]))>>, Upto(Len(a) - 1))
    IN  Each(Len(a), LAMBDA i : PutXORGate(PutXORGate(b[i], C[i]), a[i]))

\* <<sum, carry>>
PutFullAdderGate(a, b, carry_in) ==
    <<PutXORGate(PutXORGate(a, b), carry_in),
      PutXORGate(PutANDGate(PutXORGate(a, b), PutXORGate(b, carry_in)), b)>>

PutADDChainGate(left, right, carry_in, max_bitlength) ==
    LET ab == PadWithLeadingZeros(left, right)
        Next(s, i) == LET out == PutFullAdderGate(ab[1][i], ab[2][i], s.carry)
                      IN  [sum |-> Append(s.sum, out[1]), carry |-> out[2]]
        s == Seqs!FoldLeft(Next, [sum |-> <<>>, carry |-> carry_in], Upto(Len(ab[1])))
    IN  IF Len(ab[1]) < max_bitlength THEN Append(s.sum, s.carry) ELSE s.sum

\* The number of ones: two halves, and a bit that enters their addition.
RECURSIVE PutHammingWeightGate(_, _)
PutHammingWeightGate(wires, max_bitlength) ==
    LET bitlen == Len(wires)
        zero == PutConstantGate(0, Len(wires[1]))
        v == 2^FloorLog2(bitlen) - 1
        u == bitlen - v - 1
    IN  CASE bitlen > 3 -> PutADDChainGate(
                PutHammingWeightGate(SubSeq(wires, bitlen - v + 1, bitlen), max_bitlength),
                IF u > 0 THEN PutHammingWeightGate(SubSeq(wires, 2, u + 1), max_bitlength)
                         ELSE <<zero>>,
                wires[1], max_bitlength)
          [] bitlen = 3 -> PutFullAdderGate(wires[3], wires[2], wires[1])
          [] bitlen = 2 -> PutFullAdderGate(wires[2], wires[1], zero)
          [] bitlen = 1 -> wires

-------------------------------------------------------------------------------
(***************************************************************************)
(* Comparison.                                                             *)
(***************************************************************************)
PutSizeOptimizedGTGate(left, right) ==
    LET ab == PadWithLeadingZeros(left, right)
        Next(ci, i) ==
            PutXORGate(ab[1][i], PutANDGate(PutXORGate(ab[1][i], ci), PutXORGate(ab[2][i], ci)))
    IN  Seqs!FoldLeft(Next, PutConstantGate(0, Len(left[1])), Upto(Len(ab[1])))

\* Mutant: the halves of a stretch the wrong way round.
LowDecides(low, high) ==
    [gt |-> PutXORGate(low.gt, PutANDGate(low.eq, high.gt)), eq |-> PutANDGate(low.eq, high.eq)]

\* a > b, and a = b, of a stretch of bits, from those of its low and high part.
HighDecides(low, high) ==
    [gt |-> PutXORGate(high.gt, PutANDGate(high.eq, low.gt)), eq |-> PutANDGate(low.eq, high.eq)]

PutDepthOptimizedGTGate(left, right) ==
    LET ab == PadWithLeadingZeros(left, right)
        bits == Each(Len(ab[1]), LAMBDA i :
            [gt |-> PutANDGate(ab[1][i], PutINVGate(ab[2][i])),
             eq |-> PutINVGate(PutXORGate(ab[1][i], ab[2][i]))])
    IN  binary_accumulate(bits, HighDecides).gt

\* A wire that is none: the row before the first of a table.
NoWire(nvals) == [k \in 1 .. nvals |-> 2]

\* Groups of four (gt, eq) pairs in one table each.
LutGtLevel(pairs, TableOf(_)) ==
    Each(CeilDivide(Len(pairs), 4), LAMBDA g :
        LET m == MinOf(Len(pairs) - 4 * (g - 1), 4)
            ins == Concat(SubSeq(pairs, 4 * g - 3, 4 * g - 4 + m))
        IN  IF TableOf(m) = <<>> THEN <<NoWire(Len(ins[1])), NoWire(Len(ins[1]))>>
            ELSE PutTruthTableMultiOutputGate(ins, 2, TableOf(m)))

\* There is no row for a group of one pair; minins is 0.
GtInternalRow(m) == IF m = 1 THEN <<>> ELSE GtInternalTable[m - 1]

RECURSIVE LutGtTree(_)
LutGtTree(pairs) ==
    IF Len(pairs) = 1 THEN pairs[1][1] ELSE LutGtTree(LutGtLevel(pairs, GtInternalRow))

PutLUTGTGate(a, b) ==
    LutGtTree(LutGtLevel(Each(Len(a), LAMBDA i : <<a[i], b[i]>>), LAMBDA m : GtInTable[m]))

PutGTGate(context, left, right) ==
    LET ab == PadWithLeadingZeros(left, right)
    IN  CASE context = "YAO"  -> PutSizeOptimizedGTGate(ab[1], ab[2])
          [] context = "BOOL" -> PutDepthOptimizedGTGate(ab[1], ab[2])
          [] OTHER            -> PutLUTGTGate(ab[1], ab[2])

PutEQGate(context, a, b) ==
    LET equal == Bitwise(LAMBDA x, y : PutINVGate(PutXORGate(x, y)), a, b)
    IN  IF context = "SPLUT" THEN PutLUTWideANDGate(equal) ELSE PutWideGate(PutANDGate, equal)

Greater(context, a, b, contexts) ==
    IF context \in contexts THEN PutSizeOptimizedGTGate(a, b) ELSE PutDepthOptimizedGTGate(a, b)

PutMaxGate(context, ws) ==
    binary_accumulate(ws, LAMBDA a, b :
        PutMUXGate(context, a, b, Greater(context, a, b, {"YAO"}), FALSE))
PutMinGate(context, ws) ==
    binary_accumulate(ws, LAMBDA a, b :
        PutMUXGate(context, b, a, Greater(context, a, b, {"YAO"}), FALSE))

\* vals[i + 1] with its id if first is greater, the former otherwise.
SelectIdx(context, a, b, cmp) ==
    LET n == Len(a.val)
        Parts(both) == [val |-> SubSeq(both, 1, n), id |-> SubSeq(both, n + 1, Len(both))]
    IN  IF context = "BOOL" THEN Parts(PutMultiMUXGate(b.val \o b.id, a.val \o a.id, cmp))
        ELSE [val |-> PutMUXGate(context, b.val, a.val, cmp, FALSE),
              id |-> PutMUXGate(context, b.id, a.id, cmp, FALSE)]

\* elms: of values and their ids.
PutMinIdxGate(context, elms) ==
    binary_accumulate(elms, LAMBDA a, b :
        SelectIdx(context, a, b, Greater(context, a.val, b.val, {"YAO", "SPLUT"})))
PutMaxIdxGate(context, elms) ==
    binary_accumulate(elms, LAMBDA a, b :
        SelectIdx(context, a, b, Greater(context, b.val, a.val, {"YAO", "SPLUT"})))

-------------------------------------------------------------------------------
(***************************************************************************)
(* Shifts.                                                                 *)
(***************************************************************************)
\* Whether the bit or one above it is set.
PutPreOrGate(wires) ==
    LET n == Len(wires)
    IN  Seqs!FoldLeft(LAMBDA out, i : <<PutORGate(out[1], wires[n - i])>> \o out, <<wires[n]>>, Upto(n - 1))

\* size: the logarithm of half the width of the result.  n is cut, or filled up, to
\* as many wires, but the loop reads one more, n[size], past the vector's end.  That
\* is undefined: beyond is whatever wire stands there.
PutBarrelLeftShifterGate(wires, n, beyond) ==
    LET size == FloorLog2(Len(wires))
        zero == PutConstantGate(0, Len(wires[1]))
        by(i) == IF i = size THEN beyond ELSE IF i < Len(n) THEN n[i + 1] ELSE zero
        Shift(last, k) ==
            LET step == 2^(size + 1 - k)
            IN  Each(2 * 2^size, LAMBDA j :
                    PutMUXGate("ANY", <<IF j <= step THEN zero ELSE last[j - step]>>, <<last[j]>>,
                               by(size + 1 - k), FALSE)[1])
    IN  Seqs!FoldLeft(Shift, PadTo(wires, 2 * 2^size), Upto(size + 1))

PutBarrelRightShifterGate(wires, n, beyond) ==
    LET res == Seqs!Reverse(PutBarrelLeftShifterGate(Seqs!Reverse(wires), n, beyond))
    IN  SubSeq(res, Len(wires) + 1, Len(res))
===============================================================================
