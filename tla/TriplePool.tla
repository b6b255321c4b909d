------------------------------ MODULE TriplePool ------------------------------
(***************************************************************************)
(* The multiplication triples that BoolSharing takes from a file.  A       *)
(* "genots" process of both parties computes triples by OT and each party  *)
(* stores its shares (ABYParty::ExecSetup, StoreMTsToFile); later          *)
(* processes read them circuit by circuit, or, when a circuit needs more   *)
(* than the file has, go back to computing them by OT for good             *)
(* (readFileMetadata, PrepareSetupPhase, PreComputationPhase,              *)
(* ReadMTsFromFile).  The decision is each party's own; the OT takes both. *)
(*                                                                         *)
(* Triples are counted in bytes.  A file is a sequence of cells: a byte of *)
(* shares, or one of the two numbers in front of every stored batch.       *)
(***************************************************************************)
EXTENDS Integers, Sequences, SequencesExt

CONSTANTS
    Sizes,        \* bytes of triples a genots process may be asked for
    Workloads,    \* sequences of the bytes that a process's circuits need
    MaxBatches,   \* genots processes
    MaxRuns,      \* processes that read
    Crashes       \* whether a genots process may die while it stores

Party == {"SERVER", "CLIENT"}

ASSUME PoolAssumption ==
    /\ Sizes \subseteq Nat \ {0} /\ Workloads \subseteq Seq(Nat)
    /\ MaxBatches \in Nat /\ MaxRuns \in Nat /\ Crashes \in BOOLEAN

VARIABLES
    file,         \* each party's dump
    proc,         \* where each party's process is
    mode,         \* m_ePhaseValue
    remaining,    \* m_remainingAndBytes
    pos,          \* m_nFilePosA, m_nFilePosB, m_nFilePosC
    workload,     \* needs of the circuits still to run, the current one first
    triples,      \* the triples of the current circuit, by party
    earlier,      \* cells that earlier circuits of the process read as A
    batches,      \* genots processes so far
    size,         \* bytes of the last one
    runs          \* reading processes so far

vars == <<file, proc, mode, remaining, pos, workload, triples, earlier,
          batches, size, runs>>

OnDemand == 0     \* the batch of triples that are not from a file

Cell(kind, batch, value) == [kind |-> kind, batch |-> batch, value |-> value]
Garbage == Cell("garbage", OnDemand, 0)

Shares(kind, batch, n) == [k \in 1 .. n |-> Cell(kind, batch, k)]

\* What one StoreMTsToFile writes; there is one AND size.
Batch(b, n) ==
    <<Cell("sizes", b, 1), Cell("bytes", b, n)>>
      \o Shares("A", b, n) \o Shares("B", b, n) \o Shares("C", b, n)

AllAt(place) == \A p \in Party : proc[p] = place

(***************************************************************************)
(* genots.  run_msf.py removes the dumps first; the program appends.       *)
(***************************************************************************)

GenOTs ==
    /\ AllAt("off")
    /\ batches < MaxBatches
    /\ \E cleaned \in SUBSET Party :
         file' = [p \in Party |-> IF p \in cleaned THEN << >> ELSE file[p]]
    /\ batches' = batches + 1
    /\ size' \in Sizes
    /\ proc' = [p \in Party |-> "store"]
    /\ UNCHANGED <<mode, remaining, pos, workload, triples, earlier, runs>>

StoreUpTo(p, n) ==
    /\ proc[p] = "store"
    /\ file' = [file EXCEPT ![p] = @ \o SubSeq(Batch(batches, size), 1, n)]
    /\ proc' = [proc EXCEPT ![p] = "off"]
    /\ UNCHANGED <<mode, remaining, pos, workload, triples, earlier, batches, size, runs>>

StoreMTsToFile(p) == StoreUpTo(p, Len(Batch(batches, size)))

\* The process dies after a prefix has reached the file.
CrashWhileStoring(p) ==
    /\ Crashes
    /\ \E n \in 0 .. Len(Batch(batches, size)) - 1 : StoreUpTo(p, n)

(***************************************************************************)
(* A process that reads: the dump's first two numbers, once, when the      *)
(* sharing is created.                                                     *)
(***************************************************************************)

\* Mutant: the number of bytes is taken from the size of the file.
BytesBySize(p) == {(Len(file[p]) - 2) \div 3}

\* If the second number is missing, andbytelen_in_file is not initialised.
BytesInFile(p) == IF Len(file[p]) >= 2 THEN {file[p][2].value} ELSE Sizes \cup {0}

\* Mutant: B's region is taken to start one byte late.
RegionsShifted(n) == [A |-> 2, B |-> 2 + n + 1, C |-> 2 + n + n]

\* Bytes in front of each region.
Regions(n) == [A |-> 2, B |-> 2 + n, C |-> 2 + n + n]

\* readFileMetadata of BoolSharing::Init, then msf() asks for reading.
\* ftell stays behind the first number when there is no second one.
ReadMetadata(p) ==
    /\ proc[p] = "init"
    /\ IF file[p] = << >>
       THEN /\ remaining' = [remaining EXCEPT ![p] = 0]
            /\ pos' = [pos EXCEPT ![p] = [A |-> 0, B |-> 0, C |-> 0]]
       ELSE \E n \in BytesInFile(p) :
            /\ remaining' = [remaining EXCEPT ![p] = n]
            /\ pos' = [pos EXCEPT ![p] = [r \in {"A", "B", "C"} |->
                          Regions(n)[r] - (IF Len(file[p]) >= 2 THEN 0 ELSE 1)]]
    /\ mode' = [mode EXCEPT ![p] = "read"]
    /\ earlier' = [earlier EXCEPT ![p] = {}]
    /\ proc' = [proc EXCEPT ![p] = "prepare"]
    /\ UNCHANGED <<file, workload, triples, batches, size, runs>>

Start ==
    /\ AllAt("off")
    /\ runs < MaxRuns
    /\ runs' = runs + 1
    /\ workload' \in Workloads
    /\ proc' = [p \in Party |-> "init"]
    /\ triples' = [p \in Party |-> << >>]
    /\ UNCHANGED <<file, mode, remaining, pos, earlier, batches, size>>

Need == Head(workload)

\* isCircuitSizeLessThanOrEqualRemainingAndBytes; the counter is the number
\* that was in the file, whatever has been read since.
Fits(p) == Need <= remaining[p]

\* PrepareSetupPhase: revert for good if the circuit is too large, and ask
\* for OTs unless reading.
PrepareSetupPhase(p) ==
    /\ proc[p] = "prepare"
    /\ workload # << >>
    /\ mode' = [mode EXCEPT ![p] = IF @ = "read" /\ ~ Fits(p) THEN "default" ELSE @]
    /\ proc' = [proc EXCEPT ![p] = IF Need = 0 THEN "online"
                                   ELSE IF mode'[p] = "read" THEN "finish" ELSE "ot"]
    /\ triples' = [triples EXCEPT ![p] = << >>]
    /\ UNCHANGED <<file, remaining, pos, workload, earlier, batches, size, runs>>

\* PerformSetupPhase: the OT extension is run by both parties together.
PerformSetupPhase ==
    /\ AllAt("ot")
    /\ proc' = [p \in Party |-> "finish"]
    /\ UNCHANGED <<file, mode, remaining, pos, workload, triples, earlier, batches, size, runs>>

\* One fseek and fread: a short read leaves the rest of the buffer as it was.
Fread(p, from) ==
    [k \in 1 .. Need |-> IF from + k <= Len(file[p]) THEN file[p][from + k] ELSE Garbage]

\* Mutant: the position after the read is not saved.
SamePosition(p, from) == from

\* ftell afterwards.
Ftell(p, from) ==
    IF from + Need <= Len(file[p]) THEN from + Need
    ELSE IF from <= Len(file[p]) THEN Len(file[p]) ELSE from

ReadMTsFromFile(p) ==
    LET a == Fread(p, pos[p].A)
        b == Fread(p, pos[p].B)
        c == Fread(p, pos[p].C)
    IN  /\ triples' = [triples EXCEPT ![p] = [k \in 1 .. Need |-> <<a[k], b[k], c[k]>>]]
        /\ pos' = [pos EXCEPT ![p] = [r \in {"A", "B", "C"} |-> Ftell(p, @[r])]]

ComputeMTs(p) ==
    /\ triples' = [triples EXCEPT ![p] =
                     [k \in 1 .. Need |-> <<Cell("A", OnDemand, k), Cell("B", OnDemand, k),
                                            Cell("C", OnDemand, k)>>]]
    /\ pos' = pos

\* FinishSetupPhase, PreComputationPhase.
FinishSetupPhase(p) ==
    /\ proc[p] = "finish"
    /\ IF mode[p] = "read" THEN ReadMTsFromFile(p) ELSE ComputeMTs(p)
    /\ proc' = [proc EXCEPT ![p] = "online"]
    /\ UNCHANGED <<file, mode, remaining, workload, earlier, batches, size, runs>>

ReadAsA(p) == {triples[p][k][1] : k \in {j \in DOMAIN triples[p] : triples[p][j][1].batch # OnDemand}}

\* The online phase, layer by layer together; then the next circuit.
EvaluateCircuit ==
    /\ AllAt("online")
    /\ earlier' = [p \in Party |-> earlier[p] \cup ReadAsA(p)]
    /\ workload' = Tail(workload)
    /\ triples' = [p \in Party |-> << >>]
    /\ proc' = [p \in Party |-> "prepare"]
    /\ UNCHANGED <<file, mode, remaining, pos, batches, size, runs>>

Exit ==
    /\ AllAt("prepare")
    /\ workload = << >>
    /\ proc' = [p \in Party |-> "off"]
    /\ UNCHANGED <<file, mode, remaining, pos, workload, triples, earlier, batches, size, runs>>

Init ==
    /\ file = [p \in Party |-> << >>]
    /\ proc = [p \in Party |-> "off"]
    /\ mode = [p \in Party |-> "default"]
    /\ remaining = [p \in Party |-> 0]
    /\ pos = [p \in Party |-> [A |-> 0, B |-> 0, C |-> 0]]
    /\ workload = << >>
    /\ triples = [p \in Party |-> << >>]
    /\ earlier = [p \in Party |-> {}]
    /\ batches = 0
    /\ size = 0
    /\ runs = 0

PartyStep(p) ==
    \/ StoreMTsToFile(p) \/ CrashWhileStoring(p) \/ ReadMetadata(p)
    \/ PrepareSetupPhase(p) \/ FinishSetupPhase(p)

Next ==
    \/ GenOTs \/ Start \/ PerformSetupPhase \/ EvaluateCircuit \/ Exit
    \/ \E p \in Party : PartyStep(p)

\* Each party's process runs, and the steps that take both are taken when
\* both have come to them.
Fairness ==
    /\ \A p \in Party : WF_vars(PartyStep(p))
    /\ WF_vars(PerformSetupPhase) /\ WF_vars(EvaluateCircuit) /\ WF_vars(Exit)

Spec == Init /\ [][Next]_vars /\ Fairness

(***************************************************************************)
(* Properties.                                                             *)
(***************************************************************************)

\* The dumps of both parties start with the whole of the same batch, and this
\* is the number of bytes of it.
FirstBatch(n) ==
    \E b \in 1 .. MaxBatches : \A p \in Party : IsPrefix(Batch(b, n), file[p])

\* Both parties' triples are shares of the same triples.
Consistent ==
    \A k \in DOMAIN triples["SERVER"] :
        LET t == triples["SERVER"][k] IN
        /\ t = triples["CLIENT"][k]
        /\ t[1].kind = "A" /\ t[2].kind = "B" /\ t[3].kind = "C"
        /\ t[1].batch = t[2].batch /\ t[2].batch = t[3].batch
        /\ t[1].value = t[2].value /\ t[2].value = t[3].value

\* Whatever follows the first batch in either dump, and whatever circuits ran
\* on demand or on stored triples before, a circuit is evaluated on matching
\* triples as long as the circuits so far read no more than was stored.
TriplesMatch ==
    AllAt("online") =>
        \A n \in Sizes :
            FirstBatch(n) /\ pos["SERVER"].A <= 2 + n => Consistent

\* What the size check says of itself (boolsharing.cpp:1814, "unconsumed bytes
\* remaining"): it lets no circuit read beyond what earlier ones have left, so
\* that every circuit is evaluated on matching triples.
TriplesAlwaysMatch == AllAt("online") => Consistent

\* No circuit reads a byte of A that an earlier one of the process has read.
NoTripleTwice == \A p \in Party : ReadAsA(p) \cap earlier[p] = {}

\* If the dumps start with the same batch, the parties agree on which circuits
\* take stored triples, however the dumps continue: no party waits for an OT
\* that the other does not run, and every process gets through its circuits.
ProcessesEnd ==
    (AllAt("init") /\ \E n \in Sizes : FirstBatch(n)) ~> AllAt("off")
===============================================================================
