---------------------------- MODULE YaoServerSharing ----------------------------
(***************************************************************************)
(* YaoServerSharing: the garbler.  The setup phase garbles the whole       *)
(* circuit, layer by layer; while it is evaluated, the garbler only hands  *)
(* out the keys of inputs and learns its outputs.  Its state is s.yao[x];  *)
(* the value of a wire is [key, pi], of an output gate a bit.              *)
(***************************************************************************)
EXTENDS YaoSharing

Me(x) == Garbler(x)

\* clientInputKeyCtr is not reset with the rest, so old has it.
NewGarbler(old) ==
    [permCtr |-> 0, clientInCtr |-> 0, clientGates |-> <<>>, tables |-> <<>>, univ |-> <<>>,
     dests |-> <<>>, destCtr |-> 0, keyIdx |-> 0, keyCtr |-> old.keyCtr, keySnd |-> <<>>,
     serverSnd |-> <<>>, outGates |-> <<>>, rcv |-> <<>>]

ServerInputKey(x, n) == InputKey(x, "server key", n)
ClientInputKey(x, n) == InputKey(x, "client key", n)

-------------------------------------------------------------------------------
(***************************************************************************)
(* Garbling, gate by gate: PrecomputeGC.                                   *)
(***************************************************************************)
XorWires(l, r) == [key |-> XorBits(l.key, r.key), pi |-> (l.pi + r.pi) % 2]

\* Inputs of the garbler, and the garbler's bits of arithmetic shares.
GarbleServerInput(x, s, i) ==
    LET n == Gate(i).nvals
        at == s.yao[x].permCtr
    IN  [Assign(s, i, [k \in 1 .. n |-> [key |-> ServerInputKey(x, at + k), pi |-> PermBit(x, at + k)]])
            EXCEPT !.yao[x].permCtr = @ + n]

\* Bits of the evaluator, or of both: those have a permutation bit.
GarbleClientInput(x, s, i, permuted) ==
    LET n == Gate(i).nvals
        y == s.yao[x]
        wire(k) == [key |-> ClientInputKey(x, y.clientInCtr + k),
                    pi |-> IF permuted THEN PermBit(x, y.permCtr + k) ELSE 0]
    IN  [Assign(s, i, [k \in 1 .. n |-> wire(k)]) EXCEPT !.yao[x] = [y EXCEPT
            !.clientInCtr = y.clientInCtr + n, !.clientGates = Append(y.clientGates, i),
            !.permCtr = y.permCtr + (IF permuted THEN n ELSE 0)]]

GarbleConversion(x, s, i) ==
    IF IsServerShare(Gate(i)) THEN GarbleServerInput(x, s, i)
    ELSE GarbleClientInput(x, s, i, ParentContext(Gate(i)) # "ARITH")

\* CreateGarbledTable: two half gates, for the table's number c.  Both masks of
\* an input, for the key that ends in 0 and the other.
HalfGates(x, l, r, c) ==
    LET R == GlobalKey(x)
        LMask(b) == EncryptWire(IF b = l.pi THEN l.key ELSE OtherKey(x, l.key), 2 * c)
        RMask(b) == EncryptWire(IF b = r.pi THEN r.key ELSE OtherKey(x, r.key), 2 * c + 1)
        lkey == XorBits(l.key, If(l.pi, R))
        both == XorBits(RMask(0), RMask(1))
        out == XorKeys(<<LMask(l.pi), RMask(0), If(Lsb(l.key) * Lsb(r.key), R), If(r.pi, both)>>)
    IN  [wire |-> [key |-> XorBits(out, If(Lsb(out), R)), pi |-> (Lsb(out) + l.pi * r.pi) % 2],
         table |-> <<XorKeys(<<LMask(0), LMask(1), If(r.pi, R)>>), XorBits(both, lkey)>>]

\* GarbleUniversalGate: the row for 00 needs no ciphertext.
GarbledRows(x, l, r, op) ==
    LET L(b) == IF b = 0 THEN l.key ELSE OtherKey(x, l.key)
        R(b) == IF b = 0 THEN r.key ELSE OtherKey(x, r.key)
        zero == EncryptWireGRR3(ZeroKey, L(0), R(0), 0)
        pi == (Row(op, l.pi, r.pi) + Lsb(zero)) % 2
        out(b) == IF b = Lsb(zero) THEN zero ELSE OtherKey(x, zero)
        row(a, b) == EncryptWireGRR3(
            out((Row(op, (l.pi + a) % 2, (r.pi + b) % 2) + pi) % 2), L(a), R(b), 2 * a + b)
    IN  [wire |-> [key |-> out(0), pi |-> pi], table |-> <<row(0, 1), row(1, 0), row(1, 1)>>]

GarbledBits(s, i, Garble(_, _, _)) ==
    LET in == Parents(s, Gate(i))
    IN  SubSeq([k \in 1 .. Gate(i).nvals |-> Garble(in[1][k], in[2][k], k)], 1, Gate(i).nvals)
Wires(garbled) == [k \in DOMAIN garbled |-> garbled[k].wire]
TablesOf(garbled) == [k \in DOMAIN garbled |-> garbled[k].table]

GarbleAND(x, s, i) ==
    LET c == Len(s.yao[x].tables)
    IN  Once(LAMBDA garbled :
            [Computed(s, i, Wires(garbled)) EXCEPT !.yao[x].tables = @ \o TablesOf(garbled)],
            GarbledBits(s, i, LAMBDA l, r, k : HalfGates(x, l, r, c + k - 1)))

GarbleUniversal(x, s, i) ==
    Once(LAMBDA garbled :
            [Computed(s, i, Wires(garbled)) EXCEPT !.yao[x].univ = @ \o TablesOf(garbled)],
         GarbledBits(s, i, LAMBDA l, r, k : GarbledRows(x, l, r, Gate(i).gs)))

\* The output's permutation bits are what the evaluator, or the garbler, needs
\* besides the keys.
GarbleOutput(x, s, i) ==
    LET parent == s.val[Gate(i).ins[1]]
    IN  [Computed(s, i, [k \in DOMAIN parent |-> parent[k].pi])
            EXCEPT !.yao[x].dests = Append(@, Gate(i).gs)]

GarbleLocal(s, g) ==
    LET in == Parents(s, g)
    IN  CASE g.type = "LIN" -> [k \in 1 .. g.nvals |-> XorWires(in[1][k], in[2][k])]
          [] g.type = "INV" -> [k \in 1 .. g.nvals |-> [in[1][k] EXCEPT !.pi = 1 - @]]
          [] g.type = "CONSTANT" -> [k \in 1 .. g.nvals |-> [key |-> ZeroKey, pi |-> g.gs]]
          [] MovesValues(g) -> Moved(g, in)

PrecomputeGC(x, s, i) ==
    LET g == Gate(i)
    IN  CASE g.type = "NON_LIN" -> GarbleAND(x, s, i)
          [] g.type = "UNIV" -> GarbleUniversal(x, s, i)
          [] g.type = "IN" /\ g.gs = "SERVER" -> GarbleServerInput(x, s, i)
          [] g.type = "IN" /\ g.gs = "CLIENT" -> GarbleClientInput(x, s, i, FALSE)
          [] g.type = "CONV" -> GarbleConversion(x, s, i)
          [] g.type = "OUT" -> GarbleOutput(x, s, i)
          [] OTHER -> Computed(s, i, GarbleLocal(s, g))

\* Garbles the circuit and gets ready for its evaluation, from the first bit;
\* the gates whose keys the evaluator gets stay listed.
PerformSetupPhase(x, s) ==
    LET order == Concat([d \in 1 .. circ.maxdepth[x] |->
                     QueueOnLvl(circ.local[x], d - 1) \o QueueOnLvl(circ.interactive[x], d - 1)])
    IN  [Through(LAMBDA t, i : PrecomputeGC(x, t, i), s, order)
            EXCEPT !.yao[x].permCtr = 0, !.yao[x].clientInCtr = 0, !.yao[x].destCtr = 0]

\* CollectClientOutputShares.
OutputShares(x, s) ==
    Concat([m \in DOMAIN OutputGates(circ, x, "CLIENT") |-> s.val[OutputGates(circ, x, "CLIENT")[m]]])

-------------------------------------------------------------------------------
(***************************************************************************)
(* A layer.                                                                *)
(***************************************************************************)
SendServerInputKey(x, s, i, bits) ==
    LET at == s.yao[x].permCtr
        key(k) == XorBits(ServerInputKey(x, at + k),
                          If((bits[k] + PermBit(x, at + k)) % 2, GlobalKey(x)))
    IN  [s EXCEPT !.yao[x].serverSnd = @ \o [k \in DOMAIN bits |-> key(k)],
                  !.yao[x].permCtr = @ + Len(bits)]

SendClientInputKey(x, s, i) ==
    [s EXCEPT !.yao[x].clientInCtr = @ + Gate(i).nvals, !.yao[x].clientGates = Append(@, i)]

SendConversionValues(x, s, i) ==
    LET g == Gate(i)
        shares == s.val[g.ins[1]]
    IN  IF IsServerShare(g)
        THEN SendServerInputKey(x, Reads(s, g.ins), i, [k \in DOMAIN shares |-> ShareBit(shares[k], g.gs)])
        ELSE SendClientInputKey(x, Reads(s, g.ins), i)

AwaitOutput(x, s, i) ==
    LET y == s.yao[x]
    IN  [s EXCEPT !.yao[x].destCtr = @ + 1,
                  !.yao[x].outGates = IF y.dests[y.destCtr + 1] \in {"SERVER", "ALL"}
                                      THEN Append(@, i) ELSE @]

EvaluateInteractive(x, s, i) ==
    LET g == Gate(i)
    IN  CASE g.type = "IN" /\ g.gs = "SERVER" -> SendServerInputKey(x, s, i, clear[i])
          [] g.type = "IN" /\ g.gs = "CLIENT" -> SendClientInputKey(x, s, i)
          [] g.type = "OUT" -> AwaitOutput(x, s, i)
          [] g.type = "CONV" /\ ParentContext(g) = "ARITH" -> SendConversionValues(x, s, i)
          [] g.type = "CONV" /\ ParentContext(g) # "ARITH" -> GarbleConversion(x, s, i)

\* There are no local operations.
EvaluateOperations(x, s) ==
    Through(LAMBDA t, i : EvaluateInteractive(x, t, i), s,
            QueueOnLvl(circ.interactive[x], depth[Me(x)]))

GetDataToSend(x, s) ==
    [sizes |-> [server |-> Len(s.yao[x].serverSnd), client |-> s.yao[x].keyCtr],
     server |-> s.yao[x].serverSnd, client |-> SubSeq(s.yao[x].keySnd, 1, s.yao[x].keyCtr)]

\* The keys that were prepared are sent once.
DataSent(x, s) == [s EXCEPT !.yao[x].keyCtr = 0]

GetBuffersToReceive(x, s) ==
    [choices |-> Bytes(s.yao[x].clientInCtr), out |-> Bytes(SumNvals(circ, s.yao[x].outGates))]

\* Mutant: the pair is not swapped for the garbler's part.
PermValIgnored(x, s, i, k) == 0

\* The garbler's own part of a bit both have a share of, under the wire's pi.
PermVal(x, s, i, k) ==
    LET parent == Gate(i).ins[1]
        own == IF ParentContext(Gate(i)) = "BOOL" THEN s.val[parent][k] ELSE Lsb(s.val[parent][k])
    IN  IF Gate(i).type = "IN" \/ ParentContext(Gate(i)) = "ARITH" THEN 0
        ELSE (own + s.val[i][k].pi) % 2

\* Both keys of a bit, each under the mask of one choice, in the order the
\* evaluator asked for.
KeyPair(x, s, i, k, n, asked) ==
    LET key == ClientInputKey(x, n)
        swap == (asked + PermVal(x, s, i, k)) % 2
        under(b) == XorBits(ROTMask(x, b, n), IF b = swap THEN key ELSE OtherKey(x, key))
    IN  <<under(0), under(1)>>

PrepareKeys(x, s, i) ==
    LET y == s.yao[x]
        g == Gate(i)
        first == Len(y.keySnd)
        pairs == [k \in 1 .. g.nvals |->
                     KeyPair(x, s, i, k, y.keyIdx + k, y.rcv.choices[first + k])]
        prepared == [s EXCEPT !.yao[x] = [y EXCEPT !.keySnd = y.keySnd \o pairs,
                              !.keyIdx = y.keyIdx + g.nvals, !.keyCtr = y.keyCtr + g.nvals]]
    IN  IF g.type = "IN" THEN prepared ELSE UsedGates(Reads(prepared, g.ins), g.ins)

\* The first layer's gates are listed twice, and taken once: as many bits as
\* were asked for.
GatesOfLayer(y) ==
    Selected([m \in DOMAIN y.clientGates |-> m],
              LAMBDA m : SumNvals(circ, SubSeq(y.clientGates, 1, m - 1)) < y.clientInCtr)

AssignOutputShare(s, i, bits) ==
    [s EXCEPT !.val[i] = Listed([k \in DOMAIN @ |-> (@[k] + bits[k]) % 2])]

AssignOutputShares(x, s) ==
    Through(LAMBDA t, m :
        AssignOutputShare(t, s.yao[x].outGates[m], Stretch(s.yao[x].outGates, m, s.yao[x].rcv.out)),
        s, [m \in DOMAIN s.yao[x].outGates |-> m])

FinishCircuitLayer(x, s) ==
    LET y == s.yao[x]
        ids == [m \in DOMAIN GatesOfLayer(y) |-> y.clientGates[m]]
        keys == Through(LAMBDA t, i : PrepareKeys(x, t, i), [s EXCEPT !.yao[x].keySnd = <<>>], ids)
    IN  [AssignOutputShares(x, IF y.clientInCtr > 0 THEN keys ELSE s) EXCEPT
            !.yao[x] = [@ EXCEPT !.clientGates = <<>>, !.clientInCtr = 0, !.outGates = <<>>,
                                 !.serverSnd = <<>>, !.rcv = <<>>]]
===============================================================================
