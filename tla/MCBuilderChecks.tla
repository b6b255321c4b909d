--------------------------- MODULE MCBuilderChecks ---------------------------
(***************************************************************************)
(* All values of narrow inputs, and of wide ones those with long carries.  *)
(***************************************************************************)
EXTENDS BuilderChecks

Job(op, context, w, v, nvals) == [op |-> op, context |-> context, w |-> w, v |-> v, nvals |-> nvals]
Of(ops, contexts, widths, nvals) ==
    {Job(op, c, w, w, nvals) : op \in ops, c \in contexts, w \in widths}

Contexts == {"BOOL", "YAO", "SPLUT"}
AnyContext == {"add", "add carry", "sub", "mul", "mul depth", "gt", "eq", "max", "min", "mux",
               "swap", "and bit", "or"}

\* Not among the jobs, because the code computes something else: the following two,
\* and shifts to the right of a width that is no power of two.
TwoBitSums == Of({"add", "add carry"}, {"SPLUT"}, {2}, 1)
LongComparisons == Of({"gt"}, {"SPLUT"}, 17 .. 20, 1)

\* Among these is 3 + 1 of two-bit numbers with a carry, by PutDepthOptimizedAddGate
\* with single ANDs and with vector ANDs.
Narrow ==
    Of(AnyContext, Contexts, 1 .. 4, 1)
        \cup Of({"min id", "max id"}, Contexts, {2}, 2)
        \cup Of({"mul", "mul depth"}, Contexts, {5}, 2)
        \cup Of({"add vector"}, {"BOOL"}, 1 .. 5, 2)
        \cup Of({"mul vector"}, {"BOOL"}, {3, 5}, 2)
        \cup Of({"sub", "gt", "eq", "max", "mux", "swap"}, Contexts, {2}, 2)
        \cup {Job(op, c, 3, 2, 1) : op \in {"add", "gt", "eq", "mux", "or"}, c \in Contexts}
        \cup {Job("weight", "YAO", w, 1, 1) : w \in 1 .. 9}
        \cup {Job("any gate", "BOOL", 2, 4, 1)}
        \cup {Job("prefix or", "BOOL", 5, 1, 2)}
        \cup {Job("left", "BOOL", w, v, 2) : w \in 1 .. 5, v \in 1 .. 3}
        \cup {Job("right", "BOOL", w, v, 2) : w \in {2, 4}, v \in 1 .. 3}
        \cup Of({"and vector"}, {"BOOL", "YAO"}, {3}, 2)

Wide == Of({"add carry", "sub", "gt", "eq"}, Contexts, 5 .. 24, 1)

MCJobs == (Narrow \cup Wide) \ (TwoBitSums \cup LongComparisons)

\* All values up to four bits, of more bits those with long carries; of two, one is
\* chosen and the other follows from it.
WideValues(w) == {0, 1, 2^w - 1, 2^(w - 1), 2^w - 2^(w \div 2), (2^w - 1) \div 3}

MCSamples(w, nvals) ==
    LET values == IF w <= 4 THEN 0 .. 2^w - 1 ELSE WideValues(w)
    IN  IF nvals = 1 THEN {<<n>> : n \in values}
        ELSE {<<n, (3 * n + 1) % 2^w>> : n \in values}
===============================================================================
