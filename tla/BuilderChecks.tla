---------------------------- MODULE BuilderChecks ----------------------------
(***************************************************************************)
(* Circuits of BooleanBuilders against what they are to compute.  A job    *)
(* names the circuit, the sharing and the widths of its inputs; its values *)
(* go through the circuit side by side.                                    *)
(***************************************************************************)
EXTENDS BooleanBuilders

CONSTANTS
    Jobs,             \* [op, context, w: width of x, v: width of y, nvals]
    Samples(_, _)     \* width, nvals |-> the sequences of values to try

VARIABLES
    job,
    x, y,             \* by value: the inputs
    stray,            \* the wire a shifter reads past the end of its second input
    out               \* the circuit's result, by value; before, <<>>

vars == <<job, x, y, stray, out>>

Encode(vals, w) == [i \in 1 .. w |-> [k \in DOMAIN vals |-> (vals[k] \div 2^(i - 1)) % 2]]
Decode(wires) == Each(Len(wires[1]), LAMBDA k :
    Seqs!FoldLeft(LAMBDA sum, i : sum + wires[i][k] * 2^(i - 1), 0, Upto(Len(wires))))

\* More than two inputs: what the further ones are.
Third == [k \in DOMAIN x |-> (x[k] + 3 * y[k] + 1) % 2^job.w]
Elms == Each(3, LAMBDA i : [val |-> Encode(<<x, y, Third>>[i], job.w),
                            id |-> Encode([k \in DOMAIN x |-> i - 1], 2)])
ValueAndId(elm) == elm.val \o elm.id
MaxBitlength == 32

Built ==
    LET c == job.context
        a == Encode(x, job.w)
        b == Encode(y, job.v)
    IN  CASE job.op = "add"       -> Decode(PutAddGate(c, a, b, FALSE))
          [] job.op = "add carry" -> Decode(PutAddGate(c, a, b, TRUE))
          [] job.op = "add vector" -> Decode(PutDepthOptimizedAddGate(a, b, TRUE, TRUE))
          [] job.op = "sub"       -> Decode(PutSUBGate(a, b, Max({job.w, job.v})))
          [] job.op = "mul"       -> Decode(PutMulGate(c, a, b, job.w + job.v, FALSE, FALSE))
          [] job.op = "mul depth" -> Decode(PutMulGate(c, a, b, job.w, TRUE, FALSE))
          [] job.op = "mul vector" -> Decode(PutMulGate(c, a, b, job.w + job.v, TRUE, TRUE))
          [] job.op = "weight"    -> Decode(PutHammingWeightGate(a, MaxBitlength))
          [] job.op = "gt"        -> PutGTGate(c, a, b)
          [] job.op = "eq"        -> PutEQGate(c, a, b)
          [] job.op = "max"       -> Decode(PutMaxGate(c, [i \in 1 .. 3 |-> Elms[i].val]))
          [] job.op = "min"       -> Decode(PutMinGate(c, [i \in 1 .. 3 |-> Elms[i].val]))
          [] job.op = "min id"    -> Decode(Once(ValueAndId, PutMinIdxGate(c, Elms)))
          [] job.op = "max id"    -> Decode(Once(ValueAndId, PutMaxIdxGate(c, Elms)))
          [] job.op = "mux"       -> Decode(PutMUXGate(c, a, b, b[1], TRUE))
          [] job.op = "swap"      -> Decode(Concat(PutCondSwapGate(c, a, b, b[1], Len(x) > 1)))
          [] job.op = "and bit"   -> Decode(PutELM0Gate(a, b[1]))
          [] job.op = "and vector" -> Decode(PutANDVecGate(c, a, Encode(<<y[1]>>, job.v)))
          [] job.op = "or"        -> Decode(Bitwise(PutORGate, a, b))
          [] job.op = "any gate"  -> PutUniversalGateCircuit(a[1], a[2], y[1])
          [] job.op = "prefix or" -> Decode(PutPreOrGate(a))
          [] job.op = "left"      -> Decode(PutBarrelLeftShifterGate(a, b, stray))
          [] job.op = "right"     -> Decode(PutBarrelRightShifterGate(a, b, stray))

SumOf(ns) == Seqs!FoldLeft(LAMBDA a, b : a + b, 0, ns)
BitOf(n, i) == (n \div 2^i) % 2
PopCount(n, w) == SumOf([i \in 1 .. w |-> BitOf(n, i - 1)])
Best(vals, better(_, _)) == CHOOSE i \in DOMAIN vals :
    \A j \in DOMAIN vals : ~better(vals[j], vals[i]) /\ (j < i => better(vals[i], vals[j]))
\* The value, and in the two bits above it the first index that has it.
Indexed(vals, i) == vals[i] + (i - 1) * 2^job.w
\* AND of every bit with op Min, OR with op Max.
BitwiseOf(op(_), a, b, w) == SumOf([i \in 1 .. w |-> op({BitOf(a, i - 1), BitOf(b, i - 1)}) * 2^(i - 1)])

\* Of one value.
Expected(k) ==
    LET a == x[k]  b == y[k]
        w == Max({job.w, job.v})
        vals == <<a, b, Third[k]>>
        Less(m, n) == m < n
        More(m, n) == m > n
        Bit(cond) == IF cond THEN 1 ELSE 0
        size == FloorLog2(job.w)
        shift == (b % 2^size) + stray[k] * 2^size
    IN  CASE job.op = "add"       -> (a + b) % 2^w
          [] job.op \in {"add carry", "add vector"} -> a + b
          [] job.op = "sub"       -> (a - b) % 2^w
          [] job.op \in {"mul", "mul vector"} -> IF w = 1 THEN a * b ELSE (a * b) % 2^(job.w + job.v)
          [] job.op = "mul depth" -> (a * b) % 2^job.w
          [] job.op = "weight"    -> PopCount(a, job.w)
          [] job.op = "gt"        -> Bit(a > b)
          [] job.op = "eq"        -> Bit(a = b)
          [] job.op = "max"       -> vals[Best(vals, More)]
          [] job.op = "min"       -> vals[Best(vals, Less)]
          [] job.op = "min id"    -> Indexed(vals, Best(vals, Less))
          [] job.op = "max id"    -> Indexed(vals, Best(vals, More))
          [] job.op = "mux"       -> IF b % 2 = 1 THEN a ELSE b
          [] job.op = "swap"      -> IF b % 2 = 1 THEN b + a * 2^w ELSE a + b * 2^w
          [] job.op = "and bit"   -> (b % 2) * a
          [] job.op = "and vector" -> BitwiseOf(Min, a, y[1], w)
          [] job.op = "or"        -> BitwiseOf(Max, a, b, w)
          [] job.op = "any gate"  -> BitOf(y[1], 2 * BitOf(a, 0) + BitOf(a, 1))
          [] job.op = "prefix or" -> IF a = 0 THEN 0 ELSE 2^(FloorLog2(a) + 1) - 1
          [] job.op = "left"      -> (a * 2^shift) % 2^(2 * 2^size)
          [] job.op = "right"     -> a \div 2^shift

Shifts == {"left", "right"}

Init ==
    /\ job \in Jobs
    /\ x \in Samples(job.w, job.nvals)
    /\ y \in Samples(job.v, job.nvals)
    \* Undefined behaviour: any wire of the circuit may be the one read.
    /\ stray \in IF job.op \in Shifts THEN [DOMAIN x -> {0, 1}] ELSE {NoWire(Len(x))}
    /\ out = <<>>

Build ==
    /\ out = <<>>
    /\ out' = Built
    /\ UNCHANGED <<job, x, y, stray>>

Next == Build

Spec == Init /\ [][Next]_vars

\* Every circuit of Jobs computes its function, on the values given side by side:
\* sums with and without the carry, comparisons, selections and so on, whether or
\* not the width is a power of two.  Of a shifter it says that the shift is by the
\* low bits of the number given plus, as the highest bit, whatever wire is read past
\* that number's end: only when that is the number's next bit is it the shift asked for.
BuildersCompute == out # <<>> => out = [k \in DOMAIN x |-> Expected(k)]
===============================================================================
