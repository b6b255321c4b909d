------------------------------ MODULE AbyCircuit ------------------------------
(***************************************************************************)
(* Circuits: ABYCircuit holds the gates of all sharings, BooleanCircuit    *)
(* and ArithmeticCircuit the queues from which a sharing evaluates its own *)
(* layer by layer and the counts from which it prepares triples, tables    *)
(* and keys.  A circuit is a value, which the operators of CircuitBuilder  *)
(* make.  Gate ids count from 1.                                           *)
(***************************************************************************)
EXTENDS GateValues

CONSTANT ShareBits      \* of arithmetic shares: 8, 16, 32 or 64 in the code

Party == {"SERVER", "CLIENT"}
Other(p) == IF p = "SERVER" THEN "CLIENT" ELSE "SERVER"
Role == Party \cup {"ALL"}

\* m_vSharings, in the order in which a layer evaluates them.
Sharings == <<"BOOL", "YAO", "ARITH", "YAO_REV", "SPLUT">>
Yao == {"YAO", "YAO_REV"}

EmptyCircuit ==
    [gates |-> <<>>, local |-> [x \in ToSet(Sharings) |-> <<>>],
     interactive |-> [x \in ToSet(Sharings) |-> <<>>],
     maxdepth |-> [x \in ToSet(Sharings) |-> 0],
     ands |-> <<[bitlen |-> 1, numgates |-> 0]>>, luts |-> <<>>, wires |-> <<>>]

QueueOnLvl(queue, d) == IF d < Len(queue) THEN queue[d + 1] ELSE <<>>

(***************************************************************************)
(* What the sharings ask of the circuit.                                   *)
(***************************************************************************)
GatesWhere(c, Test(_)) == InOrder({i \in DOMAIN c.gates : Test(c.gates[i])}, Len(c.gates))
SumNvals(c, ins) == Total([k \in DOMAIN ins |-> c.gates[ins[k]].nvals], Len(ins))

\* GetOutputGatesForParty: in the order in which they were put.
OutputGates(c, context, role) ==
    GatesWhere(c, LAMBDA g : g.context = context /\ g.type = "OUT" /\ g.gs \in {role, "ALL"})

NumInputBits(c, context, role) ==
    SumNvals(c, GatesWhere(c, LAMBDA g : g.context = context /\ g.type = "IN" /\ g.gs = role))

\* m_nB2YGates, m_nYSwitchGates and, once for the two shares, m_nA2YGates.
NumConversionBits(c, context) ==
    SumNvals(c, GatesWhere(c, LAMBDA g :
        g.context = context /\ g.type = "CONV"
        /\ (c.gates[g.ins[1]].context = "ARITH" => g.gs % 2 = 1)))
NumA2YBits(c, context) ==
    SumNvals(c, GatesWhere(c, LAMBDA g :
        g.context = context /\ g.type = "CONV"
        /\ c.gates[g.ins[1]].context = "ARITH" /\ g.gs % 2 = 0))

NumMULs(c) ==
    SumNvals(c, GatesWhere(c, LAMBDA g : g.context = "ARITH" /\ g.type = "NON_LIN"))

\* Of conversions to numbers: the bits of all their inputs.
CountBits(c, ids) ==
    Total([k \in DOMAIN ids |-> c.gates[ids[k]].nvals * Len(c.gates[ids[k]].ins)], Len(ids))

\* m_nCONVGates: the bits of all parents.
NumCONVGates(c) ==
    CountBits(c, GatesWhere(c, LAMBDA g : g.context = "ARITH" /\ g.type = "CONV"))

\* m_vTTlens: how many tables of which kind the layers of a sharing use, with
\* the tables, one for every value of the gate.
LutKind(ins, outs) == <<ins, outs>>
===============================================================================
