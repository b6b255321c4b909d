-------------------------- MODULE TriplePoolProofs --------------------------
(***************************************************************************)
(* Machine-checked proofs that stored triples match and none is read twice *)
(* (TriplesMatch and NoTripleTwice of TriplePool), for every size of the   *)
(* stored batches, every sequence of circuits, any number of processes and *)
(* crashes at any cell.                                                    *)
(***************************************************************************)
EXTENDS TriplePoolInvariant, SequenceTheorems, TLAPS

(***************************************************************************)
(* Sequences and batches.                                                  *)
(***************************************************************************)

LEMMA PrefixAt ==
    ASSUME NEW S, NEW s \in Seq(S), NEW t \in Seq(S)
    PROVE  IsPrefix(s, t) <=> Len(s) <= Len(t) /\ \A k \in 1 .. Len(s) : t[k] = s[k]
<1>1. Len(s) \in Nat /\ Len(t) \in Nat
  BY LenProperties
<1>2. CASE Len(s) <= Len(t)
  <2>1. /\ SubSeq(s, 1, Len(s)) \in Seq(S) /\ SubSeq(t, 1, Len(s)) \in Seq(S)
        /\ Len(SubSeq(s, 1, Len(s))) = Len(s)
        /\ Len(SubSeq(t, 1, Len(s))) = Len(s)
        /\ \A k \in 1 .. Len(s) : SubSeq(s, 1, Len(s))[k] = s[k]
        /\ \A k \in 1 .. Len(s) : SubSeq(t, 1, Len(s))[k] = t[k]
    BY <1>1, <1>2
  <2> QED BY <1>1, <1>2, <2>1, SeqEqual DEF IsPrefix
<1> QED BY <1>2 DEF IsPrefix

\* Cells followed by cells.
Joined(r, s, t) ==
    /\ r \in Seq(Cells) /\ Len(s) \in Nat /\ Len(t) \in Nat
    /\ Len(r) = Len(s) + Len(t)
    /\ \A k \in 1 .. Len(s) : r[k] = s[k]
    /\ \A k \in 1 .. Len(t) : r[Len(s) + k] = t[k]

LEMMA ConcatAt ==
    ASSUME NEW s \in Seq(Cells), NEW t \in Seq(Cells)
    PROVE  Joined(s \o t, s, t)
<1> HIDE DEF Cells
<1>1. Len(s) \in Nat /\ Len(t) \in Nat
  BY LenProperties
<1> QED BY <1>1 DEF Joined

LEMMA CellFields ==
    ASSUME NEW kind, NEW batch, NEW value
    PROVE  /\ Cell(kind, batch, value).kind = kind
           /\ Cell(kind, batch, value).batch = batch
           /\ Cell(kind, batch, value).value = value
BY DEF Cell

\* One region of a batch.
LEMMA SharesAt ==
    ASSUME NEW kind \in {"A", "B", "C"}, NEW b \in Nat, NEW n \in Nat
    PROVE  /\ Shares(kind, b, n) \in Seq(Cells) /\ Len(Shares(kind, b, n)) = n
           /\ \A k \in 1 .. n : Shares(kind, b, n)[k] = Cell(kind, b, k)
<1>1. \A k \in 1 .. n : Cell(kind, b, k) \in Cells
  BY DEF Cell, Cells
<1> HIDE DEF Cells
<1> DEFINE s == [k \in 1 .. n |-> Cell(kind, b, k)]
<1>2. s \in [1 .. n -> Cells] /\ \A k \in 1 .. n : s[k] = Cell(kind, b, k)
  BY <1>1
<1> HIDE DEF s
<1>3. s \in Seq(Cells) /\ Len(s) = n
  BY <1>2
<1> QED BY <1>2, <1>3 DEF Shares, s

\* Where a batch has what.
LEMMA BatchAt ==
    ASSUME NEW b \in Nat, NEW n \in Nat
    PROVE  /\ Batch(b, n) \in Seq(Cells) /\ Len(Batch(b, n)) = 2 + n + n + n
           /\ Batch(b, n)[1] = Cell("sizes", b, 1)
           /\ Batch(b, n)[2] = Cell("bytes", b, n)
           /\ \A k \in 1 .. n : /\ Batch(b, n)[2 + k] = Cell("A", b, k)
                                /\ Batch(b, n)[2 + n + k] = Cell("B", b, k)
                                /\ Batch(b, n)[2 + n + n + k] = Cell("C", b, k)
<1> DEFINE h == <<Cell("sizes", b, 1), Cell("bytes", b, n)>>
           A == Shares("A", b, n)
           B == Shares("B", b, n)
           C == Shares("C", b, n)
<1>1. h \in Seq(Cells) /\ Len(h) = 2 /\ h[1] = Cell("sizes", b, 1) /\ h[2] = Cell("bytes", b, n)
  <2>1. Cell("sizes", b, 1) \in Cells /\ Cell("bytes", b, n) \in Cells
    BY DEF Cell, Cells
  <2> QED BY <2>1
<1>2. /\ A \in Seq(Cells) /\ Len(A) = n /\ \A k \in 1 .. n : A[k] = Cell("A", b, k)
      /\ B \in Seq(Cells) /\ Len(B) = n /\ \A k \in 1 .. n : B[k] = Cell("B", b, k)
      /\ C \in Seq(Cells) /\ Len(C) = n /\ \A k \in 1 .. n : C[k] = Cell("C", b, k)
  BY SharesAt
<1>3. Batch(b, n) = ((h \o A) \o B) \o C
  BY DEF Batch
<1> HIDE DEF h, A, B, C, Cells
<1> DEFINE hA == h \o A
           hAB == hA \o B
           all == hAB \o C
<1>4. /\ hA \in Seq(Cells) /\ Len(hA) = 2 + n
      /\ hA[1] = h[1] /\ hA[2] = h[2] /\ \A k \in 1 .. n : hA[2 + k] = A[k]
  <2>1. /\ hA \in Seq(Cells) /\ Len(hA) = Len(h) + Len(A)
        /\ \A k \in 1 .. Len(h) : hA[k] = h[k]
        /\ \A k \in 1 .. Len(A) : hA[Len(h) + k] = A[k]
    <3>1. h \in Seq(Cells) /\ A \in Seq(Cells)
      BY <1>1, <1>2
    <3>2. Joined(hA, h, A)
      BY <3>1, ConcatAt
    <3> QED BY <3>2 DEF Joined
  <2> HIDE DEF hA
  <2> QED BY <1>1, <1>2, <2>1
<1> HIDE DEF hA
<1>5. /\ hAB \in Seq(Cells) /\ Len(hAB) = 2 + n + n
      /\ \A k \in 1 .. 2 + n : hAB[k] = hA[k]
      /\ \A k \in 1 .. n : hAB[2 + n + k] = B[k]
  <2>1. /\ hAB \in Seq(Cells) /\ Len(hAB) = Len(hA) + Len(B)
        /\ \A k \in 1 .. Len(hA) : hAB[k] = hA[k]
        /\ \A k \in 1 .. Len(B) : hAB[Len(hA) + k] = B[k]
    <3>1. hA \in Seq(Cells) /\ B \in Seq(Cells)
      BY <1>2, <1>4
    <3>2. Joined(hAB, hA, B)
      BY <3>1, ConcatAt
    <3> QED BY <3>2 DEF Joined
  <2> HIDE DEF hAB
  <2> QED BY <1>2, <1>4, <2>1
<1> HIDE DEF hAB
<1>6. /\ all \in Seq(Cells) /\ Len(all) = 2 + n + n + n
      /\ \A k \in 1 .. 2 + n + n : all[k] = hAB[k]
      /\ \A k \in 1 .. n : all[2 + n + n + k] = C[k]
  <2>1. /\ all \in Seq(Cells) /\ Len(all) = Len(hAB) + Len(C)
        /\ \A k \in 1 .. Len(hAB) : all[k] = hAB[k]
        /\ \A k \in 1 .. Len(C) : all[Len(hAB) + k] = C[k]
    <3>1. hAB \in Seq(Cells) /\ C \in Seq(Cells)
      BY <1>2, <1>5
    <3>2. Joined(all, hAB, C)
      BY <3>1, ConcatAt
    <3> QED BY <3>2 DEF Joined
  <2> HIDE DEF all
  <2> QED BY <1>2, <1>5, <2>1
<1>7. Batch(b, n) = all
  BY <1>3 DEF hA, hAB
<1> HIDE DEF all
<1>8. all[1] = Cell("sizes", b, 1) /\ all[2] = Cell("bytes", b, n)
  BY <1>1, <1>4, <1>5, <1>6
<1>9. \A k \in 1 .. n : /\ all[2 + k] = Cell("A", b, k)
                        /\ all[2 + n + k] = Cell("B", b, k)
                        /\ all[2 + n + n + k] = Cell("C", b, k)
  <2> SUFFICES ASSUME NEW k \in 1 .. n
               PROVE  /\ all[2 + k] = Cell("A", b, k)
                      /\ all[2 + n + k] = Cell("B", b, k)
                      /\ all[2 + n + n + k] = Cell("C", b, k)
    OBVIOUS
  <2>1. 2 + k \in 1 .. 2 + n /\ 2 + k \in 1 .. 2 + n + n /\ 2 + n + k \in 1 .. 2 + n + n
    OBVIOUS
  <2> QED BY <1>2, <1>4, <1>5, <1>6, <2>1
<1> QED BY <1>6, <1>7, <1>8, <1>9

\* Where in its batch a cell is.
Place(c, n) ==
    IF c.kind = "sizes" THEN 1
    ELSE IF c.kind = "bytes" THEN 2
    ELSE IF c.kind = "A" THEN 2 + c.value
    ELSE IF c.kind = "B" THEN 2 + n + c.value
    ELSE 2 + n + n + c.value

\* A batch has no cell twice, and none of another batch.
LEMMA BatchDistinct ==
    ASSUME NEW b \in Nat, NEW n \in Nat, NEW i \in 1 .. Len(Batch(b, n))
    PROVE  Batch(b, n)[i].batch = b /\ Place(Batch(b, n)[i], n) = i
<1> DEFINE c == Batch(b, n)[i]
<1>1. i \in 1 .. 2 + n + n + n
  BY BatchAt
<1>2. CASE i = 1
  <2>1. c = Cell("sizes", b, 1)
    BY <1>2, BatchAt
  <2> QED BY <1>2, <2>1, CellFields DEF Place
<1>3. CASE i = 2
  <2>1. c = Cell("bytes", b, n)
    BY <1>3, BatchAt
  <2> QED BY <1>3, <2>1, CellFields DEF Place
<1>4. CASE i \in 3 .. 2 + n
  <2>1. PICK k \in 1 .. n : i = 2 + k
    BY <1>4
  <2>2. c = Cell("A", b, k)
    BY <2>1, BatchAt
  <2> QED BY <2>1, <2>2, CellFields DEF Place
<1>5. CASE i \in 3 + n .. 2 + n + n
  <2>1. PICK k \in 1 .. n : i = 2 + n + k
    BY <1>5
  <2>2. c = Cell("B", b, k)
    BY <2>1, BatchAt
  <2> QED BY <2>1, <2>2, CellFields DEF Place
<1>6. CASE i \in 3 + n + n .. 2 + n + n + n
  <2>1. PICK k \in 1 .. n : i = 2 + n + n + k
    BY <1>6
  <2>2. c = Cell("C", b, k)
    BY <2>1, BatchAt
  <2> QED BY <2>1, <2>2, CellFields DEF Place
<1> QED BY <1>1, <1>2, <1>3, <1>4, <1>5, <1>6

(***************************************************************************)
(* What the steps read and write.                                          *)
(***************************************************************************)

LEMMA NeedType == ASSUME TypeOK, workload # <<>> PROVE Need \in Nat
BY DEF TypeOK, Need

LEMMA StoredType == ASSUME TypeOK PROVE Batch(batches, size) \in Seq(Cells) /\ batches \in Nat /\ size \in Nat
<1>1. batches \in Nat /\ size \in Nat
  BY PoolAssumption DEF TypeOK
<1> QED BY <1>1, BatchAt

\* A prefix of a batch.
LEMMA PartType ==
    ASSUME TypeOK, NEW n \in 0 .. Len(Batch(batches, size))
    PROVE  /\ SubSeq(Batch(batches, size), 1, n) \in Seq(Cells)
           /\ Len(SubSeq(Batch(batches, size), 1, n)) = n
           /\ \A k \in 1 .. n : SubSeq(Batch(batches, size), 1, n)[k] = Batch(batches, size)[k]
<1> DEFINE b == Batch(batches, size)
<1>1. b \in Seq(Cells)
  BY StoredType
<1> HIDE DEF b, Cells
<1>2. Len(b) \in Nat
  BY <1>1, LenProperties
<1>3. n \in 0 .. Len(b)
  BY DEF b
<1>4. /\ SubSeq(b, 1, n) \in Seq(Cells) /\ Len(SubSeq(b, 1, n)) = n
      /\ \A k \in 1 .. n : SubSeq(b, 1, n)[k] = b[k]
  BY <1>1, <1>2, <1>3
<1> QED BY <1>4 DEF b

\* Both forms of storing write a prefix.
LEMMA StoreIsUpTo ==
    ASSUME TypeOK, NEW p \in Party, StoreMTsToFile(p) \/ CrashWhileStoring(p)
    PROVE  \E n \in 0 .. Len(Batch(batches, size)) : StoreUpTo(p, n)
<1>1. Len(Batch(batches, size)) \in Nat
  BY StoredType, LenProperties
<1> QED BY <1>1 DEF StoreMTsToFile, CrashWhileStoring

LEMMA FreadType ==
    ASSUME TypeOK, workload # <<>>, NEW p \in Party, NEW from \in Nat
    PROVE  /\ \A k \in 1 .. Need : Fread(p, from)[k] \in Cells
           /\ \A k \in 1 .. Need :
                from + k <= Len(file[p]) => Fread(p, from)[k] = file[p][from + k]
           /\ \A k \in 1 .. Need :
                from + k > Len(file[p]) => Fread(p, from)[k].batch = OnDemand
<1>1. Need \in Nat /\ file[p] \in Seq(Cells) /\ Len(file[p]) \in Nat
  BY NeedType, LenProperties DEF TypeOK
<1>2. Garbage \in Cells /\ Garbage.batch = OnDemand
  BY DEF Garbage, Cell, Cells, OnDemand
<1> HIDE DEF Cells
<1>3. \A k \in 1 .. Need : from + k <= Len(file[p]) => file[p][from + k] \in Cells
  BY <1>1
<1> QED BY <1>1, <1>2, <1>3 DEF Fread

LEMMA FtellType ==
    ASSUME TypeOK, workload # <<>>, NEW p \in Party, NEW from \in Nat
    PROVE  /\ Ftell(p, from) \in Nat /\ Ftell(p, from) >= from
           /\ from + Need <= Len(file[p]) => Ftell(p, from) = from + Need
           /\ from + Need > Len(file[p]) => Ftell(p, from) >= Len(file[p])
<1>1. Need \in Nat /\ Len(file[p]) \in Nat
  BY NeedType, LenProperties DEF TypeOK
<1> QED BY <1>1 DEF Ftell

(***************************************************************************)
(* The initial states.                                                     *)
(***************************************************************************)

LEMMA InitKeeps == Init => TInv
<1> SUFFICES ASSUME Init PROVE TInv
  OBVIOUS
<1>1. TypeOK
  BY PoolAssumption DEF Init, TypeOK, Party
<1>2. PhaseOK
  BY DEF Init, PhaseOK, Running, Party
<1>3. SameBatchOK
  BY DEF Init, SameBatchOK, Running, Party
<1>4. DumpsOK
  BY DEF Init, DumpsOK, Party
<1>5. OnwardsOK
  BY DEF Init, OnwardsOK, Onwards, Party
<1> QED BY <1>1, <1>2, <1>3, <1>4, <1>5 DEF TInv

(***************************************************************************)
(* Types.                                                                  *)
(***************************************************************************)

LEMMA TypeStore ==
    ASSUME TInv, NEW p \in Party, NEW n \in 0 .. Len(Batch(batches, size)), StoreUpTo(p, n)
    PROVE  TypeOK'
<1>1. SubSeq(Batch(batches, size), 1, n) \in Seq(Cells)
  BY PartType DEF TInv
<1> HIDE DEF Cells
<1>2. file[p] \o SubSeq(Batch(batches, size), 1, n) \in Seq(Cells)
  BY <1>1 DEF TInv, TypeOK
<1> QED BY <1>2 DEF StoreUpTo, TInv, TypeOK

LEMMA TypeMetadata ==
    ASSUME TInv, NEW p \in Party, ReadMetadata(p)
    PROVE  TypeOK'
<1> DEFINE back == IF Len(file[p]) >= 2 THEN 0 ELSE 1
<1>1. file[p] \in Seq(Cells) /\ Len(file[p]) \in Nat
  BY LenProperties DEF TInv, TypeOK
<1>2. ASSUME NEW n \in BytesInFile(p)
      PROVE  n \in Nat
  <2>1. CASE Len(file[p]) >= 2
    <3>1. file[p][2] \in Cells
      BY <1>1, <2>1
    <3>2. file[p][2].value \in Nat
      BY <3>1 DEF Cells
    <3> QED BY <1>2, <2>1, <3>2 DEF BytesInFile
  <2>2. CASE ~ Len(file[p]) >= 2
    <3>1. n \in Sizes \cup {0}
      BY <1>2, <2>2 DEF BytesInFile
    <3> QED BY <3>1, PoolAssumption
  <2> QED BY <2>1, <2>2
<1>3. \A n \in Nat : [r \in {"A", "B", "C"} |-> Regions(n)[r] - back] \in [{"A", "B", "C"} -> Nat]
  BY DEF Regions
<1>4. [A |-> 0, B |-> 0, C |-> 0] \in [{"A", "B", "C"} -> Nat]
  OBVIOUS
<1>5. pos' \in [Party -> [{"A", "B", "C"} -> Nat]] /\ remaining' \in [Party -> Nat]
  <2>1. CASE file[p] = <<>>
    BY <1>4, <2>1 DEF ReadMetadata, TInv, TypeOK
  <2>2. CASE file[p] # <<>>
    <3>1. PICK n \in BytesInFile(p) :
            /\ remaining' = [remaining EXCEPT ![p] = n]
            /\ pos' = [pos EXCEPT ![p] = [r \in {"A", "B", "C"} |-> Regions(n)[r] - back]]
      BY <2>2 DEF ReadMetadata
    <3>2. n \in Nat
      BY <1>2
    <3> HIDE DEF back
    <3> QED BY <1>3, <3>1, <3>2 DEF TInv, TypeOK
  <2> QED BY <2>1, <2>2
<1> QED BY <1>5 DEF ReadMetadata, TInv, TypeOK

LEMMA TypePrepare ==
    ASSUME TInv, NEW p \in Party, PrepareSetupPhase(p)
    PROVE  TypeOK'
<1> HIDE DEF Cells
<1> QED BY DEF PrepareSetupPhase, TInv, TypeOK

LEMMA TypeFinish ==
    ASSUME TInv, NEW p \in Party, FinishSetupPhase(p)
    PROVE  TypeOK'
<1>1. TypeOK /\ workload # <<>> /\ Need \in Nat
  BY NeedType DEF FinishSetupPhase, TInv, PhaseOK
<1>2. pos[p] \in [{"A", "B", "C"} -> Nat]
  BY <1>1 DEF TypeOK
<1>3. triples' \in [Party -> Seq(Cells \X Cells \X Cells)] /\ pos' \in [Party -> [{"A", "B", "C"} -> Nat]]
  <2>1. CASE mode[p] = "read"
    <3> DEFINE a == Fread(p, pos[p].A)
               b == Fread(p, pos[p].B)
               c == Fread(p, pos[p].C)
               t == [k \in 1 .. Need |-> <<a[k], b[k], c[k]>>]
    <3>1. \A k \in 1 .. Need : a[k] \in Cells /\ b[k] \in Cells /\ c[k] \in Cells
      BY <1>1, <1>2, FreadType
    <3>2. triples' = [triples EXCEPT ![p] = t]
      BY <2>1 DEF FinishSetupPhase, ReadMTsFromFile
    <3> HIDE DEF a, b, c, Cells
    <3>3. t \in [1 .. Need -> Cells \X Cells \X Cells]
      BY <3>1
    <3> HIDE DEF t
    <3>4. t \in Seq(Cells \X Cells \X Cells)
      BY <1>1, <3>3
    <3>5. pos' = [pos EXCEPT ![p] = [r \in {"A", "B", "C"} |-> Ftell(p, @[r])]]
      BY <2>1 DEF FinishSetupPhase, ReadMTsFromFile
    <3>6. \A r \in {"A", "B", "C"} : Ftell(p, pos[p][r]) \in Nat
      BY <1>1, <1>2, FtellType
    <3> QED BY <1>1, <3>2, <3>4, <3>5, <3>6 DEF TypeOK
  <2>2. CASE mode[p] # "read"
    <3> DEFINE t == [k \in 1 .. Need |-> <<Cell("A", OnDemand, k), Cell("B", OnDemand, k),
                                           Cell("C", OnDemand, k)>>]
    <3>1. triples' = [triples EXCEPT ![p] = t] /\ pos' = pos
      BY <2>2 DEF FinishSetupPhase, ComputeMTs
    <3>2. \A k \in 1 .. Need : /\ Cell("A", OnDemand, k) \in Cells
                               /\ Cell("B", OnDemand, k) \in Cells
                               /\ Cell("C", OnDemand, k) \in Cells
      BY <1>1 DEF Cell, Cells, OnDemand
    <3> HIDE DEF Cells
    <3>3. t \in [1 .. Need -> Cells \X Cells \X Cells]
      BY <3>2
    <3> HIDE DEF t
    <3>4. t \in Seq(Cells \X Cells \X Cells)
      BY <1>1, <3>3
    <3> QED BY <1>1, <3>1, <3>4 DEF TypeOK
  <2> QED BY <2>1, <2>2
<1> HIDE DEF Cells
<1> QED BY <1>3 DEF FinishSetupPhase, TInv, TypeOK

\* The cells read as A are cells.
LEMMA ReadAsAType == ASSUME TypeOK, NEW p \in Party PROVE ReadAsA(p) \subseteq Cells
<1> HIDE DEF Cells
<1>1. triples[p] \in Seq(Cells \X Cells \X Cells)
  BY DEF TypeOK
<1>2. \A k \in DOMAIN triples[p] : triples[p][k] \in Cells \X Cells \X Cells
  BY <1>1
<1>3. \A k \in DOMAIN triples[p] : triples[p][k][1] \in Cells
  BY <1>2
<1> QED BY <1>3 DEF ReadAsA

LEMMA TypeStep == ASSUME TInv, [Next]_vars PROVE TypeOK'
<1>1. CASE GenOTs
  <2> HIDE DEF Cells
  <2>1. batches' \in 0 .. MaxBatches
    BY <1>1, PoolAssumption DEF GenOTs, TInv, TypeOK
  <2>2. file' \in [Party -> Seq(Cells)]
    BY <1>1 DEF GenOTs, TInv, TypeOK
  <2> QED BY <1>1, <2>1, <2>2, PoolAssumption DEF GenOTs, TInv, TypeOK
<1>2. CASE Start
  <2> HIDE DEF Cells
  <2>1. workload' \in Seq(Nat)
    BY <1>2, PoolAssumption DEF Start
  <2> QED BY <1>2, <2>1 DEF Start, TInv, TypeOK
<1>3. CASE PerformSetupPhase
  BY <1>3 DEF PerformSetupPhase, TInv, TypeOK
<1>4. CASE EvaluateCircuit
  <2> HIDE DEF Cells
  <2>1. earlier' \in [Party -> SUBSET Cells]
    BY <1>4, ReadAsAType DEF EvaluateCircuit, TInv, TypeOK
  <2>2. workload # <<>>
    BY <1>4 DEF EvaluateCircuit, AllAt, TInv, PhaseOK, Party
  <2>3. workload' \in Seq(Nat)
    BY <1>4, <2>2 DEF EvaluateCircuit, TInv, TypeOK
  <2> QED BY <1>4, <2>1, <2>3 DEF EvaluateCircuit, TInv, TypeOK
<1>5. CASE Exit
  BY <1>5 DEF Exit, TInv, TypeOK
<1>6. ASSUME NEW p \in Party, StoreMTsToFile(p) \/ CrashWhileStoring(p)
      PROVE  TypeOK'
  BY <1>6, StoreIsUpTo, TypeStore DEF TInv
<1>7. CASE UNCHANGED vars
  BY <1>7 DEF vars, TInv, TypeOK
<1> QED BY <1>1, <1>2, <1>3, <1>4, <1>5, <1>6, <1>7, TypeMetadata, TypePrepare, TypeFinish
        DEF Next, PartyStep

(***************************************************************************)
(* What the parties' processes are doing.                                  *)
(***************************************************************************)

LEMMA PhaseStep == ASSUME TInv, [Next]_vars PROVE PhaseOK'
<1>1. CASE GenOTs
  BY <1>1 DEF GenOTs, AllAt, TInv, PhaseOK, Running, Party
<1>2. CASE Start
  BY <1>2 DEF Start, AllAt, TInv, TypeOK, PhaseOK, Running, Party
<1>3. CASE PerformSetupPhase
  BY <1>3 DEF PerformSetupPhase, AllAt, TInv, TypeOK, PhaseOK, Running, Party, Need
<1>4. CASE EvaluateCircuit
  BY <1>4 DEF EvaluateCircuit, AllAt, TInv, TypeOK, PhaseOK, Running, Party
<1>5. CASE Exit
  BY <1>5 DEF Exit, AllAt, TInv, TypeOK, PhaseOK, Running, Party
<1>6. ASSUME NEW p \in Party, StoreMTsToFile(p) \/ CrashWhileStoring(p)
      PROVE  PhaseOK'
  <2>1. PICK n \in 0 .. Len(Batch(batches, size)) : StoreUpTo(p, n)
    BY <1>6, StoreIsUpTo DEF TInv
  <2> QED BY <2>1 DEF StoreUpTo, TInv, TypeOK, PhaseOK, Running
<1>7. ASSUME NEW p \in Party, ReadMetadata(p)
      PROVE  PhaseOK'
  BY <1>7 DEF ReadMetadata, TInv, TypeOK, PhaseOK, Running, Need
<1>8. ASSUME NEW p \in Party, PrepareSetupPhase(p)
      PROVE  PhaseOK'
  BY <1>8 DEF PrepareSetupPhase, Fits, TInv, TypeOK, PhaseOK, Running, Need
<1>9. ASSUME NEW p \in Party, FinishSetupPhase(p)
      PROVE  PhaseOK'
  <2>1. triples' = [triples EXCEPT ![p] = triples'[p]]
    BY <1>9 DEF FinishSetupPhase, ReadMTsFromFile, ComputeMTs, TInv, TypeOK
  <2> QED BY <1>9, <2>1 DEF FinishSetupPhase, TInv, TypeOK, PhaseOK, Running, Need
<1>10. CASE UNCHANGED vars
  BY <1>10 DEF vars, TInv, PhaseOK, Running, Need
<1> QED BY <1>1, <1>2, <1>3, <1>4, <1>5, <1>6, <1>7, <1>8, <1>9, <1>10
        DEF Next, PartyStep

(***************************************************************************)
(* The cells of the dumps.                                                 *)
(***************************************************************************)

LEMMA DumpsStore ==
    ASSUME TInv, NEW p \in Party, NEW n \in 0 .. Len(Batch(batches, size)), StoreUpTo(p, n)
    PROVE  DumpsOK'
<1> DEFINE new == SubSeq(Batch(batches, size), 1, n)
           old == file[p]
           dump == old \o new
<1>1. /\ TypeOK /\ batches \in Nat /\ size \in Nat
      /\ old \in Seq(Cells) /\ Len(old) \in Nat
      /\ new \in Seq(Cells) /\ Len(new) = n /\ n \in Nat
  <2>1. TypeOK
    BY DEF TInv
  <2>2. new \in Seq(Cells) /\ Len(new) = n
    BY <2>1, PartType
  <2>3. old \in Seq(Cells)
    BY <2>1 DEF TypeOK
  <2>4. Len(old) \in Nat
    BY <2>3, LenProperties
  <2>5. n \in Nat
    OBVIOUS
  <2> QED BY <2>1, <2>2, <2>3, <2>4, <2>5, StoredType
<1>2. \A k \in 1 .. n : new[k].batch = batches /\ Place(new[k], size) = k
  <2> SUFFICES ASSUME NEW k \in 1 .. n
               PROVE  new[k].batch = batches /\ Place(new[k], size) = k
    OBVIOUS
  <2>1. new[k] = Batch(batches, size)[k]
    BY <1>1, PartType
  <2>2. k \in 1 .. Len(Batch(batches, size))
    BY <1>1, StoredType, LenProperties
  <2>3. Batch(batches, size)[k].batch = batches /\ Place(Batch(batches, size)[k], size) = k
    BY <1>1, <2>2, BatchDistinct
  <2> QED BY <2>1, <2>3
<1>3. file'[p] = dump /\ (\A q \in Party \ {p} : file'[q] = file[q])
  BY <1>1 DEF StoreUpTo, TypeOK
<1>4. /\ batches > 0
      /\ \A i, j \in DOMAIN old : old[i] = old[j] => i = j
      /\ \A i \in DOMAIN old : old[i].batch \in 1 .. batches /\ old[i].batch # batches
  BY DEF StoreUpTo, TInv, DumpsOK
<1> HIDE DEF new, old, Cells
<1>5. Joined(dump, old, new)
  BY <1>1, ConcatAt
<1> HIDE DEF dump
<1>6. /\ DOMAIN dump = 1 .. Len(old) + n
      /\ \A k \in 1 .. Len(old) : dump[k] = old[k] /\ k \in DOMAIN old
      /\ \A k \in Len(old) + 1 .. Len(old) + n :
           k - Len(old) \in 1 .. n /\ dump[k] = new[k - Len(old)]
  <2>1. DOMAIN dump = 1 .. Len(dump)
    BY <1>5 DEF Joined
  <2>2. \A k \in 1 .. n : dump[Len(old) + k] = new[k]
    BY <1>1, <1>5 DEF Joined
  <2>3. ASSUME NEW k \in Len(old) + 1 .. Len(old) + n
        PROVE  k - Len(old) \in 1 .. n /\ dump[k] = new[k - Len(old)]
    <3>1. k - Len(old) \in 1 .. n /\ Len(old) + (k - Len(old)) = k
      BY <1>1
    <3> QED BY <2>2, <3>1
  <2>4. DOMAIN old = 1 .. Len(old)
    BY <1>1
  <2> QED BY <1>1, <1>5, <2>1, <2>3, <2>4 DEF Joined
<1>7. \A i \in DOMAIN dump :
        IF i <= Len(old)
        THEN i \in DOMAIN old /\ dump[i] = old[i] /\ dump[i].batch \in 1 .. batches
             /\ dump[i].batch # batches
        ELSE dump[i].batch = batches /\ Place(dump[i], size) = i - Len(old)
  BY <1>1, <1>2, <1>4, <1>6
<1>8. \A i, j \in DOMAIN dump : dump[i] = dump[j] => i = j
  BY <1>1, <1>4, <1>6, <1>7
<1>9. \A i \in DOMAIN dump : dump[i].batch \in 1 .. batches
  BY <1>1, <1>4, <1>7
<1>10. proc'[p] = "off" /\ batches' = batches /\ \A q \in Party \ {p} : proc'[q] = proc[q]
  BY <1>1 DEF StoreUpTo, TypeOK
<1>11. ASSUME NEW q \in Party
       PROVE  /\ proc'[q] = "store" => batches' > 0
              /\ \A i, j \in DOMAIN file'[q] : file'[q][i] = file'[q][j] => i = j
              /\ \A i \in DOMAIN file'[q] :
                   /\ file'[q][i].batch \in 1 .. batches'
                   /\ proc'[q] = "store" => file'[q][i].batch # batches'
  <2>1. CASE q = p
    BY <1>3, <1>8, <1>9, <1>10, <2>1
  <2>2. CASE q # p
    BY <1>3, <1>10, <2>2 DEF TInv, DumpsOK
  <2> QED BY <2>1, <2>2
<1> QED BY <1>11 DEF DumpsOK

LEMMA DumpsStep == ASSUME TInv, [Next]_vars PROVE DumpsOK'
<1>1. CASE GenOTs
  <2>1. /\ batches' = batches + 1 /\ batches \in Nat
        /\ \A p \in Party : file'[p] = <<>> \/ file'[p] = file[p]
    BY <1>1, StoredType DEF GenOTs, TInv, TypeOK
  <2> QED BY <2>1 DEF TInv, DumpsOK
<1>2. CASE file' = file /\ batches' = batches /\ \A p \in Party : proc'[p] = "store" => proc[p] = "store"
  BY <1>2 DEF TInv, DumpsOK
<1>3. ASSUME NEW p \in Party, StoreMTsToFile(p) \/ CrashWhileStoring(p)
      PROVE  DumpsOK'
  BY <1>3, StoreIsUpTo, DumpsStore DEF TInv
<1>4. ASSUME NEW p \in Party, ReadMetadata(p) \/ PrepareSetupPhase(p) \/ FinishSetupPhase(p)
      PROVE  DumpsOK'
  <2>1. /\ file' = file /\ batches' = batches
        /\ proc' = [proc EXCEPT ![p] = proc'[p]] /\ proc'[p] # "store"
    BY <1>4 DEF ReadMetadata, PrepareSetupPhase, FinishSetupPhase, TInv, TypeOK
  <2> QED BY <1>2, <2>1 DEF TInv, TypeOK
<1>5. CASE Start \/ PerformSetupPhase \/ EvaluateCircuit \/ Exit \/ UNCHANGED vars
  <2>1. file' = file /\ batches' = batches /\ \A p \in Party : proc'[p] = "store" => proc[p] = "store"
    BY <1>5 DEF Start, PerformSetupPhase, EvaluateCircuit, Exit, vars
  <2> QED BY <1>2, <2>1
<1> QED BY <1>1, <1>3, <1>4, <1>5 DEF Next, PartyStep

(***************************************************************************)
(* A process reads its dump onwards.                                       *)
(***************************************************************************)

LEMMA OnwardsFinish ==
    ASSUME TInv, NEW p \in Party, FinishSetupPhase(p)
    PROVE  OnwardsOK'
<1> DEFINE a == pos[p].A
<1>1. /\ TypeOK /\ workload # <<>> /\ Need \in Nat /\ a \in Nat /\ a = pos[p]["A"]
      /\ file[p] \in Seq(Cells) /\ Len(file[p]) \in Nat
  <2>1. TypeOK /\ workload # <<>>
    BY DEF FinishSetupPhase, TInv, PhaseOK
  <2>2. file[p] \in Seq(Cells)
    BY <2>1 DEF TypeOK
  <2>3. pos[p] \in [{"A", "B", "C"} -> Nat]
    BY <2>1 DEF TypeOK
  <2> QED BY <2>1, <2>2, <2>3, NeedType, LenProperties
<1>2. file' = file /\ earlier' = earlier /\ proc'[p] = "online"
  BY <1>1 DEF FinishSetupPhase, TypeOK
<1>3. ASSUME NEW q \in Party \ {p}
      PROVE  /\ proc'[q] = proc[q] /\ pos'[q] = pos[q] /\ triples'[q] = triples[q]
  BY <1>1 DEF FinishSetupPhase, ReadMTsFromFile, ComputeMTs, TypeOK
<1>4. earlier[p] \subseteq Between(file[p], 0, a)
  BY DEF FinishSetupPhase, TInv, OnwardsOK, Onwards
<1>5. a <= pos'[p].A /\ pos'[p].A \in Nat /\ AsA(triples'[p]) \subseteq Between(file[p], a, pos'[p].A)
  <2>1. CASE mode[p] = "read"
    <3> DEFINE f == Fread(p, a)
               e == Ftell(p, a)
    <3>1. /\ triples'[p] = [k \in 1 .. Need |-> <<f[k], Fread(p, pos[p].B)[k], Fread(p, pos[p].C)[k]>>]
          /\ pos'[p].A = e
      <4>1. ReadMTsFromFile(p)
        BY <2>1 DEF FinishSetupPhase
      <4>2. triples' = [triples EXCEPT ![p] = [k \in 1 .. Need |->
                           <<f[k], Fread(p, pos[p].B)[k], Fread(p, pos[p].C)[k]>>]]
        BY <4>1 DEF ReadMTsFromFile
      <4>3. triples \in [Party -> Seq(Cells \X Cells \X Cells)]
        BY <1>1 DEF TypeOK
      <4>4. pos' = [pos EXCEPT ![p] = [r \in {"A", "B", "C"} |-> Ftell(p, pos[p][r])]]
        BY <4>1 DEF ReadMTsFromFile
      <4>5. pos \in [Party -> [{"A", "B", "C"} -> Nat]]
        BY <1>1 DEF TypeOK
      <4> HIDE DEF f, e, a, Cells
      <4>6. pos'[p] = [r \in {"A", "B", "C"} |-> Ftell(p, pos[p][r])]
        BY <4>4, <4>5
      <4>7. pos'[p].A = e
        BY <1>1, <4>6 DEF e
      <4> QED BY <4>2, <4>3, <4>7
    <3>2. /\ e \in Nat /\ e >= a
          /\ a + Need <= Len(file[p]) => e = a + Need
          /\ a + Need > Len(file[p]) => e >= Len(file[p])
      BY <1>1, FtellType
    <3>3. /\ \A k \in 1 .. Need : a + k <= Len(file[p]) => f[k] = file[p][a + k]
          /\ \A k \in 1 .. Need : a + k > Len(file[p]) => f[k].batch = OnDemand
      BY <1>1, FreadType
    <3> HIDE DEF f, e
    <3>4. \A c \in AsA(triples'[p]) : \E k \in 1 .. Need : c = f[k] /\ f[k].batch # OnDemand
      BY <3>1 DEF AsA
    <3>5. ASSUME NEW k \in 1 .. Need, f[k].batch # OnDemand
          PROVE  f[k] \in Between(file[p], a, e)
      <4>1. a + k <= Len(file[p]) /\ f[k] = file[p][a + k]
        BY <1>1, <3>3, <3>5
      <4>2. a + k \in DOMAIN file[p] /\ a < a + k /\ a + k <= e
        BY <1>1, <3>2, <4>1
      <4> QED BY <4>1, <4>2 DEF Between
    <3> QED BY <1>1, <3>1, <3>2, <3>4, <3>5
  <2>2. CASE mode[p] # "read"
    <3>1. /\ pos' = pos
          /\ triples'[p] = [k \in 1 .. Need |-> <<Cell("A", OnDemand, k), Cell("B", OnDemand, k),
                                                  Cell("C", OnDemand, k)>>]
      BY <1>1, <2>2 DEF FinishSetupPhase, ComputeMTs, TypeOK
    <3>2. \A k \in DOMAIN triples'[p] : triples'[p][k][1].batch = OnDemand
      BY <3>1, CellFields
    <3>3. AsA(triples'[p]) = {}
      BY <3>2 DEF AsA
    <3> QED BY <1>1, <3>1, <3>3
  <2> QED BY <2>1, <2>2
<1>6. ASSUME NEW q \in Party
      PROVE  Onwards(proc'[q], file'[q], pos'[q].A, earlier'[q], triples'[q])
  <2>1. CASE q = p
    <3>1. a \in 0 .. pos'[p].A
      BY <1>1, <1>5
    <3> QED BY <1>2, <1>4, <1>5, <2>1, <3>1 DEF Onwards
  <2>2. CASE q # p
    BY <1>2, <1>3, <2>2 DEF TInv, OnwardsOK
  <2> QED BY <2>1, <2>2
<1> HIDE DEF a
<1> QED BY <1>6 DEF OnwardsOK

LEMMA OnwardsEvaluate == ASSUME TInv, EvaluateCircuit PROVE OnwardsOK'
<1>1. ASSUME NEW p \in Party
      PROVE  earlier'[p] \subseteq Between(file[p], 0, pos[p].A)
  <2>1. pos[p].A \in Nat
    <3>1. pos[p] \in [{"A", "B", "C"} -> Nat]
      BY DEF TInv, TypeOK
    <3> QED BY <3>1
  <2>2. PICK from \in 0 .. pos[p].A :
           /\ earlier[p] \subseteq Between(file[p], 0, from)
           /\ AsA(triples[p]) \subseteq Between(file[p], from, pos[p].A)
    BY DEF EvaluateCircuit, AllAt, TInv, OnwardsOK, Onwards
  <2>3. \A j \in DOMAIN file[p] : j \in Nat
    <3>1. file[p] \in Seq(Cells)
      BY DEF TInv, TypeOK
    <3> QED BY <3>1
  <2>4. Between(file[p], 0, from) \subseteq Between(file[p], 0, pos[p].A)
    BY <2>1, <2>3 DEF Between
  <2>5. Between(file[p], from, pos[p].A) \subseteq Between(file[p], 0, pos[p].A)
    BY <2>1, <2>3 DEF Between
  <2>6. earlier'[p] = earlier[p] \cup AsA(triples[p])
    BY DEF EvaluateCircuit, ReadAsA, AsA
  <2> QED BY <2>2, <2>4, <2>5, <2>6
<1>2. file' = file /\ pos' = pos /\ \A p \in Party : proc'[p] = "prepare"
  BY DEF EvaluateCircuit
<1> QED BY <1>1, <1>2 DEF OnwardsOK, Onwards

LEMMA OnwardsPrepare ==
    ASSUME TInv, NEW p \in Party, PrepareSetupPhase(p)
    PROVE  OnwardsOK'
<1>1. /\ file' = file /\ earlier' = earlier /\ pos' = pos
      /\ \A q \in Party \ {p} : proc'[q] = proc[q] /\ triples'[q] = triples[q]
      /\ proc[p] = "prepare" /\ triples'[p] = <<>>
  BY DEF PrepareSetupPhase, TInv, TypeOK
<1>2. /\ pos[p].A \in 0 .. pos[p].A /\ earlier[p] \subseteq Between(file[p], 0, pos[p].A)
      /\ AsA(triples'[p]) = {}
  <2>1. pos[p] \in [{"A", "B", "C"} -> Nat]
    BY DEF TInv, TypeOK
  <2>2. AsA(triples'[p]) = {}
    BY <1>1 DEF AsA
  <2> QED BY <1>1, <2>1, <2>2 DEF TInv, OnwardsOK, Onwards
<1>3. ASSUME NEW q \in Party
      PROVE  Onwards(proc'[q], file'[q], pos'[q].A, earlier'[q], triples'[q])
  <2>1. CASE q = p
    BY <1>1, <1>2, <2>1 DEF Onwards
  <2>2. CASE q # p
    BY <1>1, <2>2 DEF TInv, OnwardsOK
  <2> QED BY <2>1, <2>2
<1> QED BY <1>3 DEF OnwardsOK

LEMMA OnwardsMetadata ==
    ASSUME TInv, NEW p \in Party, ReadMetadata(p)
    PROVE  OnwardsOK'
<1>1. /\ file' = file /\ triples' = triples
      /\ \A q \in Party \ {p} : proc'[q] = proc[q] /\ pos'[q] = pos[q] /\ earlier'[q] = earlier[q]
      /\ proc'[p] = "prepare" /\ earlier'[p] = {}
  BY DEF ReadMetadata, TInv, TypeOK
<1>2. ASSUME NEW q \in Party
      PROVE  Onwards(proc'[q], file'[q], pos'[q].A, earlier'[q], triples'[q])
  <2>1. CASE q = p
    BY <1>1, <2>1 DEF Onwards
  <2>2. CASE q # p
    BY <1>1, <2>2 DEF TInv, OnwardsOK
  <2> QED BY <2>1, <2>2
<1> QED BY <1>2 DEF OnwardsOK

LEMMA OnwardsStep == ASSUME TInv, [Next]_vars PROVE OnwardsOK'
<1>1. CASE GenOTs \/ Start \/ Exit
  BY <1>1 DEF GenOTs, Start, Exit, OnwardsOK, Onwards
<1>2. CASE PerformSetupPhase
  BY <1>2 DEF PerformSetupPhase, AllAt, TInv, OnwardsOK, Onwards
<1>3. CASE UNCHANGED vars
  BY <1>3 DEF vars, TInv, OnwardsOK
<1>4. ASSUME NEW p \in Party, StoreMTsToFile(p) \/ CrashWhileStoring(p)
      PROVE  OnwardsOK'
  <2>1. PICK n \in 0 .. Len(Batch(batches, size)) : StoreUpTo(p, n)
    BY <1>4, StoreIsUpTo DEF TInv
  <2>2. \A q \in Party : proc'[q] \in {"off", "store"}
    BY <2>1 DEF StoreUpTo, TInv, TypeOK, PhaseOK, Running
  <2> QED BY <2>2 DEF OnwardsOK, Onwards
<1> QED BY <1>1, <1>2, <1>3, <1>4, OnwardsEvaluate, OnwardsPrepare, OnwardsMetadata, OnwardsFinish
        DEF Next, PartyStep

(***************************************************************************)
(* Dumps that start with the same batch.                                   *)
(***************************************************************************)

\* What such a dump has where.
LEMMA StoredAt ==
    ASSUME TypeOK, NEW b \in 1 .. MaxBatches, NEW n \in Sizes, Stored(b, n), NEW p \in Party
    PROVE  /\ n \in Nat /\ n > 0 /\ b \in Nat
           /\ Len(file[p]) \in Nat /\ Len(file[p]) >= 2 + n + n + n
           /\ file[p][2] = Cell("bytes", b, n)
           /\ \A k \in 1 .. n : /\ file[p][2 + k] = Cell("A", b, k)
                                /\ file[p][2 + n + k] = Cell("B", b, k)
                                /\ file[p][2 + n + n + k] = Cell("C", b, k)
<1> DEFINE t == Batch(b, n)
<1>1. n \in Nat /\ n > 0 /\ b \in Nat
  BY PoolAssumption
<1>2. file[p] \in Seq(Cells) /\ Len(file[p]) \in Nat
  BY LenProperties DEF TypeOK
<1>3. /\ t \in Seq(Cells) /\ Len(t) = 2 + n + n + n
      /\ t[2] = Cell("bytes", b, n)
      /\ \A k \in 1 .. n : t[2 + k] = Cell("A", b, k)
      /\ \A k \in 1 .. n : t[2 + n + k] = Cell("B", b, k)
      /\ \A k \in 1 .. n : t[2 + n + n + k] = Cell("C", b, k)
  BY <1>1, BatchAt
<1>4. IsPrefix(t, file[p])
  BY DEF Stored
<1> HIDE DEF t, Cells
<1>5. Len(t) <= Len(file[p]) /\ \A k \in 1 .. Len(t) : file[p][k] = t[k]
  BY <1>2, <1>3, <1>4, PrefixAt
<1>6. \A k \in 1 .. 2 + n + n + n : file[p][k] = t[k]
  BY <1>3, <1>5
<1>7. file[p][2] = Cell("bytes", b, n)
  BY <1>1, <1>3, <1>6
<1>8. ASSUME NEW k \in 1 .. n
      PROVE  /\ file[p][2 + k] = Cell("A", b, k)
             /\ file[p][2 + n + k] = Cell("B", b, k)
             /\ file[p][2 + n + n + k] = Cell("C", b, k)
  <2>1. /\ 2 + k \in 1 .. 2 + n + n + n /\ 2 + n + k \in 1 .. 2 + n + n + n
        /\ 2 + n + n + k \in 1 .. 2 + n + n + n
    BY <1>1
  <2> QED BY <1>3, <1>6, <2>1
<1> QED BY <1>1, <1>2, <1>3, <1>5, <1>7, <1>8

\* What SameBatchOK says of one batch.
InStep(b, n) == Together(n) /\ \A p \in Party : PositionsOK(p, n) /\ TriplesOK(p, b, n)

\* A step of the processes in the middle of a circuit, which both parties
\* then still agree on.
LEMMA TogetherKept ==
    ASSUME NEW n, Together(n), workload # <<>>, ~ AtRest',
           \A p \in Party : /\ Reads(p, n)' <=> Reads(p, n)
                            /\ Agree(UpTo(p, n)', UpTo(p, n), n)
    PROVE  Together(n)'
<1> DEFINE s == "SERVER"
           c == "CLIENT"
<1>1. s \in Party /\ c \in Party
  BY DEF Party
<1>2. (Reads(s, n) <=> Reads(c, n)) /\ Agree(UpTo(s, n), UpTo(c, n), n)
  BY DEF Together
<1>3. Reads(s, n)' <=> Reads(c, n)'
  BY <1>1, <1>2
<1>4. Agree(UpTo(s, n)', UpTo(s, n), n) /\ Agree(UpTo(c, n)', UpTo(c, n), n)
  BY <1>1
<1>5. Agree(UpTo(s, n)', UpTo(c, n)', n)
  BY <1>2, <1>4 DEF Agree
<1> QED BY <1>3, <1>5 DEF Together, Agree

LEMMA InStepMetadata ==
    ASSUME TInv, NEW b \in 1 .. MaxBatches, NEW n \in Sizes, Stored(b, n), InStep(b, n),
           NEW p \in Party, ReadMetadata(p)
    PROVE  InStep(b, n)'
<1>1. /\ TypeOK /\ n \in Nat /\ n > 0
      /\ Len(file[p]) \in Nat /\ Len(file[p]) >= 2 /\ file[p][2].value = n
  <2>1. /\ n \in Nat /\ n > 0 /\ Len(file[p]) \in Nat /\ Len(file[p]) >= 2 + n + n + n
        /\ file[p][2] = Cell("bytes", b, n)
    BY StoredAt DEF TInv
  <2> QED BY <2>1, CellFields DEF TInv
<1>2. file[p] # <<>> /\ BytesInFile(p) = {n}
  BY <1>1 DEF BytesInFile
<1>3. /\ remaining'[p] = n
      /\ pos'[p] = [r \in {"A", "B", "C"} |-> Regions(n)[r] - 0]
      /\ mode'[p] = "read" /\ proc[p] = "init" /\ proc'[p] = "prepare"
      /\ \A q \in Party \ {p} : /\ proc'[q] = proc[q] /\ pos'[q] = pos[q] /\ mode'[q] = mode[q]
                                /\ remaining'[q] = remaining[q]
      /\ workload' = workload /\ triples' = triples
  BY <1>1, <1>2 DEF ReadMetadata, TypeOK
<1>4. pos'[p].A = 2 /\ pos'[p].B = 2 + n /\ pos'[p].C = 2 + n + n
  BY <1>1, <1>3 DEF Regions
<1>5. ASSUME NEW q \in Party
      PROVE  /\ Mode(q)' = Mode(q) /\ From(q)' = From(q)
             /\ proc'[q] \in {"init", "prepare"} <=> proc[q] \in {"init", "prepare"}
             /\ proc'[q] = "online" <=> proc[q] = "online"
             /\ Reads(q, n)' <=> Reads(q, n)
             /\ UpTo(q, n)' = UpTo(q, n)
  <2>1. /\ Mode(q)' = Mode(q) /\ From(q)' = From(q)
        /\ proc'[q] \in {"init", "prepare"} <=> proc[q] \in {"init", "prepare"}
        /\ proc'[q] = "online" <=> proc[q] = "online"
    BY <1>3, <1>4 DEF Mode, From
  <2>2. Need' = Need
    BY <1>3 DEF Need
  <2>3. Reads(q, n)' <=> Reads(q, n)
    BY <2>1, <2>2 DEF Reads
  <2>4. UpTo(q, n)' = UpTo(q, n)
    BY <2>1, <2>2, <2>3 DEF UpTo
  <2> QED BY <2>1, <2>3, <2>4
<1>6. Together(n)'
  <2>1. AtRest' <=> AtRest
    BY <1>5 DEF AtRest
  <2> QED BY <1>3, <1>5, <2>1 DEF InStep, Together, Party, Agree
<1>7. ASSUME NEW q \in Party
      PROVE  PositionsOK(q, n)' /\ TriplesOK(q, b, n)'
  <2>1. PositionsOK(q, n) /\ TriplesOK(q, b, n)
    BY DEF InStep
  <2>2. CASE q = p
    BY <1>1, <1>3, <1>4, <2>2 DEF PositionsOK, TriplesOK
  <2>3. CASE q # p
    BY <1>3, <2>1, <2>3 DEF PositionsOK, TriplesOK, Need
  <2> QED BY <2>2, <2>3
<1> QED BY <1>6, <1>7 DEF InStep

LEMMA InStepStart ==
    ASSUME TInv, NEW b \in 1 .. MaxBatches, NEW n \in Sizes, Start
    PROVE  InStep(b, n)'
<1>1. \A p \in Party : proc'[p] = "init"
  BY DEF Start
<1>2. \A p \in Party : Mode(p)' = "read" /\ From(p)' = 2
  BY <1>1 DEF Mode, From
<1>3. \A p \in Party : /\ Reads(p, n)' <=> Need' <= n
                       /\ UpTo(p, n)' = IF Need' <= n THEN 2 + Need' ELSE 2
  BY <1>1, <1>2 DEF Reads, UpTo
<1>4. Together(n)'
  BY <1>2, <1>3 DEF Together, Party, Agree
<1>5. \A p \in Party : PositionsOK(p, n)' /\ TriplesOK(p, b, n)'
  BY <1>1 DEF PositionsOK, TriplesOK
<1> QED BY <1>4, <1>5 DEF InStep

LEMMA InStepPrepare ==
    ASSUME TInv, NEW b \in 1 .. MaxBatches, NEW n \in Sizes, Stored(b, n), InStep(b, n),
           NEW p \in Party, PrepareSetupPhase(p)
    PROVE  InStep(b, n)'
<1>1. TypeOK /\ workload # <<>> /\ Need \in Nat /\ n \in Nat
  BY NeedType, PoolAssumption DEF TInv, PrepareSetupPhase
<1>2. remaining[p] = n /\ pos[p].A >= 2 /\ pos[p].A \in Nat
  <2>1. remaining[p] = n /\ pos[p].A >= 2
    BY DEF InStep, PositionsOK, PrepareSetupPhase
  <2>2. pos[p] \in [{"A", "B", "C"} -> Nat]
    BY <1>1 DEF TypeOK
  <2> QED BY <2>1, <2>2
<1>3. /\ proc[p] = "prepare"
      /\ mode'[p] = IF mode[p] = "read" /\ ~ Need <= n THEN "default" ELSE mode[p]
      /\ proc'[p] = IF Need = 0 THEN "online" ELSE IF mode'[p] = "read" THEN "finish" ELSE "ot"
      /\ triples'[p] = <<>>
      /\ \A q \in Party \ {p} : /\ proc'[q] = proc[q] /\ mode'[q] = mode[q]
                                /\ triples'[q] = triples[q]
      /\ workload' = workload /\ pos' = pos /\ remaining' = remaining
  BY <1>1, <1>2 DEF PrepareSetupPhase, Fits, TypeOK
<1>4. Need' = Need
  BY <1>3 DEF Need
<1>5. ASSUME NEW q \in Party
      PROVE  (Reads(q, n)' <=> Reads(q, n)) /\ Agree(UpTo(q, n)', UpTo(q, n), n)
  <2>1. CASE q = p
    <3>1. Reads(p, n)' <=> Reads(p, n)
      BY <1>3, <1>4 DEF Reads, Mode
    <3>2. UpTo(p, n)' = UpTo(p, n)
      BY <1>1, <1>2, <1>3, <1>4, <3>1 DEF UpTo, From
    <3> QED BY <2>1, <3>1, <3>2 DEF Agree
  <2>2. CASE q # p
    BY <1>3, <1>4, <2>2 DEF Reads, Mode, UpTo, From, Agree
  <2> QED BY <2>1, <2>2
<1>6. ~ AtRest'
  BY <1>3 DEF AtRest
<1>7. Together(n)'
  BY <1>1, <1>5, <1>6, TogetherKept DEF InStep
<1>8. ASSUME NEW q \in Party
      PROVE  PositionsOK(q, n)' /\ TriplesOK(q, b, n)'
  <2>1. PositionsOK(q, n) /\ TriplesOK(q, b, n)
    BY DEF InStep
  <2>2. PositionsOK(q, n)'
    <3>1. proc[q] = "init" <=> proc'[q] = "init"
      BY <1>3
    <3> QED BY <1>3, <2>1, <3>1 DEF PositionsOK
  <2>3. CASE q = p
    <3>1. DOMAIN triples'[p] = 1 .. 0
      BY <1>3
    <3>2. proc'[p] = "online" => Need = 0
      BY <1>3
    <3> QED BY <1>2, <1>3, <1>4, <2>2, <2>3, <3>1, <3>2 DEF TriplesOK
  <2>4. CASE q # p
    BY <1>3, <1>4, <2>1, <2>2, <2>4 DEF TriplesOK
  <2> QED BY <2>3, <2>4
<1> QED BY <1>7, <1>8 DEF InStep

LEMMA InStepPerform ==
    ASSUME TInv, NEW b \in 1 .. MaxBatches, NEW n \in Sizes, InStep(b, n), PerformSetupPhase
    PROVE  InStep(b, n)'
<1>1. /\ \A p \in Party : proc[p] = "ot" /\ proc'[p] = "finish"
      /\ workload' = workload /\ pos' = pos /\ remaining' = remaining /\ mode' = mode
      /\ workload # <<>>
  BY DEF PerformSetupPhase, AllAt, TInv, PhaseOK, Party
<1>2. Need' = Need
  BY <1>1 DEF Need
<1>3. \A q \in Party : (Reads(q, n)' <=> Reads(q, n)) /\ Agree(UpTo(q, n)', UpTo(q, n), n)
  BY <1>1, <1>2 DEF Reads, Mode, UpTo, From, Agree
<1>4. ~ AtRest'
  BY <1>1 DEF AtRest, Party
<1>5. Together(n)'
  BY <1>1, <1>3, <1>4, TogetherKept DEF InStep
<1>6. \A q \in Party : PositionsOK(q, n)' /\ TriplesOK(q, b, n)'
  BY <1>1 DEF InStep, PositionsOK, TriplesOK
<1> QED BY <1>5, <1>6 DEF InStep

LEMMA InStepEvaluate ==
    ASSUME TInv, NEW b \in 1 .. MaxBatches, NEW n \in Sizes, InStep(b, n), EvaluateCircuit
    PROVE  InStep(b, n)'
<1> DEFINE s == "SERVER"
           c == "CLIENT"
<1>1. /\ \A p \in Party : proc[p] = "online" /\ proc'[p] = "prepare"
      /\ pos' = pos /\ remaining' = remaining /\ mode' = mode
      /\ workload # <<>> /\ TypeOK /\ n \in Nat /\ s \in Party /\ c \in Party
  BY PoolAssumption DEF EvaluateCircuit, AllAt, TInv, PhaseOK, Party
<1>2. \A p \in Party : mode[p] = "read" => Need <= n
  BY <1>1 DEF TInv, PhaseOK, InStep, PositionsOK
<1>3. mode[s] = mode[c] /\ Agree(pos[s].A, pos[c].A, n)
  <2>1. (Reads(s, n) <=> Reads(c, n)) /\ Agree(UpTo(s, n), UpTo(c, n), n)
    BY <1>1 DEF InStep, Together
  <2>2. \A p \in Party : (Reads(p, n) <=> mode[p] = "read") /\ UpTo(p, n) = pos[p].A
    BY <1>1, <1>2 DEF Reads, UpTo, Mode, From
  <2>3. mode[s] \in {"default", "read"} /\ mode[c] \in {"default", "read"}
    BY <1>1 DEF TypeOK
  <2> QED BY <1>1, <2>1, <2>2, <2>3
<1>4. \A p \in Party : Mode(p)' = mode[p] /\ From(p)' = pos[p].A
  BY <1>1 DEF Mode, From
<1>5. workload' # <<>> => Need' \in Nat
  <2>1. TypeOK'
    BY TypeStep DEF Next
  <2> QED BY <2>1 DEF TypeOK, Need
<1>6. \A p \in Party : pos[p].A \in Nat
  <2>1. \A p \in Party : pos[p] \in [{"A", "B", "C"} -> Nat]
    BY <1>1 DEF TypeOK
  <2> QED BY <2>1
<1>7. workload' # <<>> => /\ Reads(s, n)' <=> Reads(c, n)'
                          /\ Agree(UpTo(s, n)', UpTo(c, n)', n)
  <2> HAVE workload' # <<>>
  <2>1. \A p \in Party :
          /\ Reads(p, n)' <=> mode[p] = "read" /\ Need' <= n
          /\ UpTo(p, n)' = IF mode[p] = "read" /\ Need' <= n THEN pos[p].A + Need' ELSE pos[p].A
    BY <1>1, <1>4 DEF Reads, UpTo
  <2> QED BY <1>1, <1>3, <1>5, <1>6, <2>1 DEF Agree
<1>8. Together(n)'
  BY <1>1, <1>3, <1>4, <1>7 DEF Together, Agree
<1>9. \A p \in Party : PositionsOK(p, n)' /\ TriplesOK(p, b, n)'
  BY <1>1 DEF InStep, PositionsOK, TriplesOK
<1> QED BY <1>8, <1>9 DEF InStep

\* The other party, when one finishes the setup of its circuit.
LEMMA InStepOthers ==
    ASSUME TInv, NEW b \in 1 .. MaxBatches, NEW n \in Sizes, InStep(b, n),
           NEW p \in Party, FinishSetupPhase(p),
           PositionsOK(p, n)', TriplesOK(p, b, n)',
           Reads(p, n)' <=> Reads(p, n), Agree(UpTo(p, n)', UpTo(p, n), n)
    PROVE  InStep(b, n)'
<1>1. /\ proc[p] = "finish" /\ proc'[p] = "online"
      /\ \A q \in Party \ {p} : /\ proc'[q] = proc[q] /\ pos'[q] = pos[q]
                                /\ triples'[q] = triples[q]
      /\ workload' = workload /\ remaining' = remaining /\ mode' = mode /\ workload # <<>>
  BY DEF FinishSetupPhase, ReadMTsFromFile, ComputeMTs, TInv, TypeOK, PhaseOK
<1>2. Need' = Need
  BY <1>1 DEF Need
<1>3. ASSUME NEW q \in Party
      PROVE  (Reads(q, n)' <=> Reads(q, n)) /\ Agree(UpTo(q, n)', UpTo(q, n), n)
  BY <1>1, <1>2 DEF Reads, Mode, UpTo, From, Agree
<1>4. ~ AtRest'
  BY <1>1 DEF AtRest
<1>5. Together(n)'
  BY <1>1, <1>3, <1>4, TogetherKept DEF InStep
<1>6. ASSUME NEW q \in Party
      PROVE  PositionsOK(q, n)' /\ TriplesOK(q, b, n)'
  <2>1. CASE q = p
    BY <2>1
  <2>2. CASE q # p
    BY <1>1, <1>2, <2>2 DEF InStep, PositionsOK, TriplesOK
  <2> QED BY <2>1, <2>2
<1> QED BY <1>5, <1>6 DEF InStep

LEMMA InStepFinish ==
    ASSUME TInv, NEW b \in 1 .. MaxBatches, NEW n \in Sizes, Stored(b, n), InStep(b, n),
           NEW p \in Party, FinishSetupPhase(p)
    PROVE  InStep(b, n)'
<1> DEFINE x == pos[p].A
           y == pos[p].B
           z == pos[p].C
           L == Len(file[p])
<1>1. /\ TypeOK /\ workload # <<>> /\ Need \in Nat /\ n \in Nat /\ n > 0
      /\ L \in Nat /\ L >= 2 + n + n + n
      /\ \A k \in 1 .. n : /\ file[p][2 + k] = Cell("A", b, k)
                           /\ file[p][2 + n + k] = Cell("B", b, k)
                           /\ file[p][2 + n + n + k] = Cell("C", b, k)
  <2>1. TypeOK /\ workload # <<>>
    BY DEF FinishSetupPhase, TInv, PhaseOK
  <2> QED BY <2>1, NeedType, StoredAt
<1>2. /\ pos[p] \in [{"A", "B", "C"} -> Nat] /\ x \in Nat /\ y \in Nat /\ z \in Nat
      /\ x >= 2 /\ (x <= 2 + n => y = x + n /\ z = x + n + n)
      /\ remaining[p] = n
  <2>1. pos[p] \in [{"A", "B", "C"} -> Nat]
    BY <1>1 DEF TypeOK
  <2> QED BY <2>1 DEF InStep, PositionsOK, FinishSetupPhase
<1>3. /\ proc[p] = "finish" /\ proc'[p] = "online"
      /\ \A q \in Party \ {p} : /\ proc'[q] = proc[q] /\ pos'[q] = pos[q]
                                /\ triples'[q] = triples[q]
      /\ workload' = workload /\ remaining' = remaining /\ mode' = mode
  BY <1>1 DEF FinishSetupPhase, ReadMTsFromFile, ComputeMTs, TypeOK
<1>4. Need' = Need
  BY <1>3 DEF Need
<1>5. CASE mode[p] = "read"
  <2> DEFINE f == Fread(p, x)
             g == Fread(p, y)
             h == Fread(p, z)
  <2>1. /\ Need <= n
        /\ triples'[p] = [k \in 1 .. Need |-> <<f[k], g[k], h[k]>>]
        /\ pos'[p].A = Ftell(p, x) /\ pos'[p].B = Ftell(p, y) /\ pos'[p].C = Ftell(p, z)
    <3>1. Need <= n
      BY <1>2, <1>3, <1>5 DEF TInv, PhaseOK
    <3>2. ReadMTsFromFile(p)
      BY <1>5 DEF FinishSetupPhase
    <3>3. triples' = [triples EXCEPT ![p] = [k \in 1 .. Need |-> <<f[k], g[k], h[k]>>]]
      BY <3>2 DEF ReadMTsFromFile
    <3>4. triples \in [Party -> Seq(Cells \X Cells \X Cells)]
      BY <1>1 DEF TypeOK
    <3>5. pos' = [pos EXCEPT ![p] = [r \in {"A", "B", "C"} |-> Ftell(p, pos[p][r])]]
      BY <3>2 DEF ReadMTsFromFile
    <3>6. pos \in [Party -> [{"A", "B", "C"} -> Nat]]
      BY <1>1 DEF TypeOK
    <3> HIDE DEF f, g, h, Cells
    <3>7. pos'[p] = [r \in {"A", "B", "C"} |-> Ftell(p, pos[p][r])]
      BY <3>5, <3>6
    <3>8. /\ pos'[p].A = Ftell(p, pos[p]["A"]) /\ pos'[p].B = Ftell(p, pos[p]["B"])
          /\ pos'[p].C = Ftell(p, pos[p]["C"])
      BY <3>7
    <3>9. x = pos[p]["A"] /\ y = pos[p]["B"] /\ z = pos[p]["C"]
      BY <1>2
    <3> QED BY <3>1, <3>3, <3>4, <3>8, <3>9
  <2>2. /\ Ftell(p, x) \in Nat /\ Ftell(p, x) >= x
        /\ x + Need <= L => Ftell(p, x) = x + Need
        /\ x + Need > L => Ftell(p, x) >= L
    BY <1>1, <1>2, FtellType
  <2>3. /\ y + Need <= L => Ftell(p, y) = y + Need
        /\ z + Need <= L => Ftell(p, z) = z + Need
    BY <1>1, <1>2, FtellType
  <2>4. /\ \A k \in 1 .. Need : x + k <= L => f[k] = file[p][x + k]
        /\ \A k \in 1 .. Need : y + k <= L => g[k] = file[p][y + k]
        /\ \A k \in 1 .. Need : z + k <= L => h[k] = file[p][z + k]
    BY <1>1, <1>2, FreadType
  <2> HIDE DEF f, g, h, L
  <2>5. /\ Agree(pos'[p].A, x + Need, n)
        /\ pos'[p].A >= 2
        /\ pos'[p].A <= 2 + n => /\ x + Need <= 2 + n /\ pos'[p].A = x + Need
                                 /\ pos'[p].B = pos'[p].A + n
                                 /\ pos'[p].C = pos'[p].A + n + n
    <3> HIDE DEF x, y, z
    <3>1. /\ Need \in Nat /\ n \in Nat /\ n > 0 /\ L \in Nat /\ L >= 2 + n + n + n
          /\ x \in Nat /\ y \in Nat /\ z \in Nat /\ x >= 2
          /\ x <= 2 + n => y = x + n /\ z = x + n + n
      BY <1>1, <1>2 DEF L
    <3>2. CASE x + Need <= 2 + n
      <4>1. x <= 2 + n /\ x + Need <= L /\ y + Need <= L /\ z + Need <= L
        BY <3>1, <3>2
      <4>2. /\ pos'[p].A = x + Need /\ pos'[p].B = y + Need /\ pos'[p].C = z + Need
        BY <2>1, <2>2, <2>3, <4>1
      <4> QED BY <3>1, <3>2, <4>1, <4>2 DEF Agree
    <3>3. CASE x + Need > 2 + n
      <4>1. pos'[p].A > 2 + n
        BY <2>1, <2>2, <3>1, <3>3
      <4> QED BY <2>1, <2>2, <3>1, <3>3, <4>1 DEF Agree
    <3> QED BY <3>1, <3>2, <3>3
  <2>6. ASSUME x + Need <= 2 + n, NEW k \in 1 .. Need
        PROVE  LET i == x - 2 + k
               IN  <<f[k], g[k], h[k]>> = <<Cell("A", b, i), Cell("B", b, i), Cell("C", b, i)>>
    <3> DEFINE i == x - 2 + k
    <3>1. /\ i \in 1 .. n /\ x + k = 2 + i /\ y + k = 2 + n + i /\ z + k = 2 + n + n + i
          /\ x + k <= L /\ y + k <= L /\ z + k <= L
      <4> HIDE DEF x, y, z
      <4>1. /\ Need \in Nat /\ n \in Nat /\ n > 0 /\ L \in Nat /\ L >= 2 + n + n + n
            /\ x \in Nat /\ y \in Nat /\ z \in Nat /\ x >= 2
            /\ x <= 2 + n => y = x + n /\ z = x + n + n
        BY <1>1, <1>2 DEF L
      <4> QED BY <2>6, <4>1
    <3> HIDE DEF i
    <3>2. /\ f[k] = file[p][2 + i] /\ g[k] = file[p][2 + n + i]
          /\ h[k] = file[p][2 + n + n + i]
      BY <2>4, <3>1
    <3>3. f[k] = Cell("A", b, i) /\ g[k] = Cell("B", b, i) /\ h[k] = Cell("C", b, i)
      BY <1>1, <3>1, <3>2
    <3> QED BY <3>3 DEF i
  <2>7. TriplesOK(p, b, n)'
    <3> HIDE DEF x, y, z
    <3>1. mode'[p] = "read"
      BY <1>3, <1>5
    <3>2. ASSUME pos'[p].A <= 2 + n
          PROVE  /\ pos'[p].A >= 2 + Need
                 /\ DOMAIN triples'[p] = 1 .. Need
                 /\ \A k \in 1 .. Need :
                      LET i == pos'[p].A - Need - 2 + k
                      IN  triples'[p][k] = <<Cell("A", b, i), Cell("B", b, i), Cell("C", b, i)>>
      <4>1. x + Need <= 2 + n /\ pos'[p].A = x + Need
        BY <2>5, <3>2
      <4>2. ASSUME NEW k \in 1 .. Need
            PROVE  LET i == pos'[p].A - Need - 2 + k
                   IN  triples'[p][k] = <<Cell("A", b, i), Cell("B", b, i), Cell("C", b, i)>>
        <5>1. pos'[p].A - Need - 2 + k = x - 2 + k
          BY <1>1, <1>2, <4>1
        <5>2. triples'[p][k] = <<f[k], g[k], h[k]>>
          BY <2>1
        <5> QED BY <2>6, <4>1, <5>1, <5>2
      <4>3. pos'[p].A >= 2 + Need /\ DOMAIN triples'[p] = 1 .. Need
        BY <1>1, <1>2, <2>1, <4>1
      <4> QED BY <4>2, <4>3
    <3> QED BY <1>4, <3>1, <3>2 DEF TriplesOK
  <2>8. PositionsOK(p, n)'
    BY <1>2, <1>3, <2>5 DEF PositionsOK
  <2>9. (Reads(p, n)' <=> Reads(p, n)) /\ Agree(UpTo(p, n)', UpTo(p, n), n)
    BY <1>3, <1>4, <2>1, <2>5, <1>5 DEF Reads, UpTo, Mode, From
  <2> QED BY <2>7, <2>8, <2>9, InStepOthers
<1>6. CASE mode[p] # "read"
  <2>1. /\ triples'[p] = [k \in 1 .. Need |-> <<Cell("A", OnDemand, k), Cell("B", OnDemand, k),
                                                Cell("C", OnDemand, k)>>]
        /\ pos' = pos
    BY <1>1, <1>6 DEF FinishSetupPhase, ComputeMTs, TypeOK
  <2>2. TriplesOK(p, b, n)'
    BY <1>3, <1>4, <1>6, <2>1 DEF TriplesOK
  <2>3. PositionsOK(p, n)'
    BY <1>2, <1>3, <2>1 DEF PositionsOK
  <2>4. (Reads(p, n)' <=> Reads(p, n)) /\ Agree(UpTo(p, n)', UpTo(p, n), n)
    BY <1>3, <1>4, <1>6, <2>1 DEF Reads, UpTo, Mode, From, Agree
  <2> QED BY <2>2, <2>3, <2>4, InStepOthers
<1> QED BY <1>5, <1>6

LEMMA SameBatchStep == ASSUME TInv, [Next]_vars PROVE SameBatchOK'
<1> SUFFICES ASSUME NEW b \in 1 .. MaxBatches, NEW n \in Sizes, Running', Stored(b, n)'
             PROVE  InStep(b, n)'
  BY DEF SameBatchOK, InStep
<1>1. ASSUME Running, file' = file
      PROVE  Stored(b, n) /\ InStep(b, n)
  <2>1. Stored(b, n)
    BY <1>1 DEF Stored
  <2> QED BY <1>1, <2>1 DEF TInv, SameBatchOK, InStep
<1>2. CASE GenOTs \/ Exit
  BY <1>2 DEF GenOTs, Exit, Running, Party
<1>3. CASE Start
  BY <1>3, InStepStart
<1>4. CASE PerformSetupPhase
  <2>1. Running /\ file' = file
    BY <1>4 DEF PerformSetupPhase, AllAt, Running
  <2> QED BY <1>1, <1>4, <2>1, InStepPerform
<1>5. CASE EvaluateCircuit
  <2>1. Running /\ file' = file
    BY <1>5 DEF EvaluateCircuit, AllAt, Running
  <2> QED BY <1>1, <1>5, <2>1, InStepEvaluate
<1>6. ASSUME NEW p \in Party, StoreMTsToFile(p) \/ CrashWhileStoring(p)
      PROVE  InStep(b, n)'
  <2>1. PICK m \in 0 .. Len(Batch(batches, size)) : StoreUpTo(p, m)
    BY <1>6, StoreIsUpTo DEF TInv
  <2>2. \A q \in Party : proc'[q] \in {"off", "store"}
    BY <2>1 DEF StoreUpTo, TInv, TypeOK, PhaseOK, Running
  <2> QED BY <2>2 DEF Running, Party
<1>7. ASSUME NEW p \in Party, ReadMetadata(p) \/ PrepareSetupPhase(p) \/ FinishSetupPhase(p)
      PROVE  InStep(b, n)'
  <2>1. Running /\ file' = file
    BY <1>7 DEF ReadMetadata, PrepareSetupPhase, FinishSetupPhase, TInv, PhaseOK, Running
  <2> QED BY <1>1, <1>7, <2>1, InStepMetadata, InStepPrepare, InStepFinish
<1>8. CASE UNCHANGED vars
  <2>1. Running /\ file' = file
    BY <1>8 DEF vars, Running
  <2>2. InStep(b, n)
    BY <1>1, <2>1
  <2> QED BY <1>8, <2>2 DEF vars, InStep, Together, AtRest, Mode, From, Reads, UpTo, Need,
             PositionsOK, TriplesOK
<1> QED BY <1>2, <1>3, <1>4, <1>5, <1>6, <1>7, <1>8 DEF Next, PartyStep

(***************************************************************************)
(* The theorems.                                                           *)
(***************************************************************************)

\* The invariant holds throughout: what is stored, what was read of it, and
\* how far the parties have come with it always fit together.
THEOREM PoolInvariance == Spec => []TInv
<1>1. Init => TInv
  BY InitKeeps
<1>2. TInv /\ [Next]_vars => TInv'
  BY TypeStep, PhaseStep, SameBatchStep, DumpsStep, OnwardsStep DEF TInv
<1> QED BY <1>1, <1>2, PTL DEF Spec

\* The invariant is enough.
LEMMA InvariantMatches == TInv => TriplesMatch
<1> SUFFICES ASSUME TInv, AllAt("online"), NEW n \in Sizes, FirstBatch(n), pos["SERVER"].A <= 2 + n
             PROVE  Consistent
  BY DEF TriplesMatch
<1> DEFINE s == "SERVER"
           c == "CLIENT"
<1>1. PICK b \in 1 .. MaxBatches : Stored(b, n)
  BY DEF FirstBatch, Stored
<1>2. /\ TypeOK /\ s \in Party /\ c \in Party /\ n \in Nat /\ workload # <<>>
      /\ \A p \in Party : proc[p] = "online"
  BY PoolAssumption DEF TInv, PhaseOK, AllAt, Party
<1>3. Running
  BY <1>2 DEF Running
<1>4. InStep(b, n)
  BY <1>1, <1>3 DEF TInv, SameBatchOK, InStep
<1>5. \A p \in Party : mode[p] \in {"default", "read"} /\ (mode[p] = "read" => Need <= n)
  <2>1. \A p \in Party : mode[p] \in {"default", "read"}
    BY <1>2 DEF TypeOK
  <2>2. \A p \in Party : mode[p] = "read" => Need <= n
    BY <1>2, <1>4 DEF TInv, PhaseOK, InStep, PositionsOK
  <2> QED BY <2>1, <2>2
<1>6. /\ mode[s] = mode[c] /\ Agree(pos[s].A, pos[c].A, n)
  <2>1. (Reads(s, n) <=> Reads(c, n)) /\ Agree(UpTo(s, n), UpTo(c, n), n)
    BY <1>2, <1>4 DEF InStep, Together
  <2>2. \A p \in Party : (Reads(p, n) <=> mode[p] = "read") /\ UpTo(p, n) = pos[p].A
    BY <1>2, <1>5 DEF Reads, UpTo, Mode, From
  <2> QED BY <1>2, <1>5, <2>1, <2>2
<1>7. pos[s].A = pos[c].A /\ pos[s].A <= 2 + n
  <2>1. pos[s] \in [{"A", "B", "C"} -> Nat] /\ pos[c] \in [{"A", "B", "C"} -> Nat]
    BY <1>2 DEF TypeOK
  <2>2. pos[s].A \in Nat /\ pos[c].A \in Nat
    BY <2>1
  <2> QED BY <1>2, <1>6, <2>2 DEF Agree
<1>8. TriplesOK(s, b, n) /\ TriplesOK(c, b, n)
  BY <1>2, <1>4 DEF InStep
<1>9. ASSUME NEW k \in 1 .. Need, NEW x, NEW i,
             triples[s][k] = <<Cell("A", x, i), Cell("B", x, i), Cell("C", x, i)>>,
             triples[c][k] = triples[s][k]
      PROVE  LET t == triples[s][k]
             IN  /\ t = triples[c][k]
                 /\ t[1].kind = "A" /\ t[2].kind = "B" /\ t[3].kind = "C"
                 /\ t[1].batch = t[2].batch /\ t[2].batch = t[3].batch
                 /\ t[1].value = t[2].value /\ t[2].value = t[3].value
  BY <1>9, CellFields
<1>10. CASE mode[s] = "read"
  <2> DEFINE i(k) == pos[s].A - Need - 2 + k
  <2>1. DOMAIN triples[s] = 1 .. Need
    BY <1>2, <1>7, <1>8, <1>10 DEF TriplesOK
  <2>2. ASSUME NEW k \in 1 .. Need
        PROVE  /\ triples[s][k] = <<Cell("A", b, i(k)), Cell("B", b, i(k)), Cell("C", b, i(k))>>
               /\ triples[c][k] = triples[s][k]
    BY <1>2, <1>6, <1>7, <1>8, <1>10, <2>2 DEF TriplesOK
  <2> HIDE DEF i
  <2> QED BY <1>9, <2>1, <2>2 DEF Consistent
<1>11. CASE mode[s] = "default"
  <2>1. DOMAIN triples[s] = 1 .. Need
    BY <1>2, <1>8, <1>11 DEF TriplesOK
  <2>2. ASSUME NEW k \in 1 .. Need
        PROVE  /\ triples[s][k] = <<Cell("A", OnDemand, k), Cell("B", OnDemand, k),
                                    Cell("C", OnDemand, k)>>
               /\ triples[c][k] = triples[s][k]
    BY <1>2, <1>6, <1>8, <1>11, <2>2 DEF TriplesOK
  <2> QED BY <1>9, <2>1, <2>2 DEF Consistent
<1> QED BY <1>2, <1>5, <1>10, <1>11

\* Stored triples match, whatever was stored behind the batch that both dumps
\* start with, by crashed processes or whole ones, and whatever circuits were
\* run on demand before.
THEOREM StoredTriplesMatch == Spec => []TriplesMatch
BY PoolInvariance, InvariantMatches, PTL

\* No circuit of a process is given a byte that an earlier one was given.
THEOREM NoneTwice == Spec => []NoTripleTwice
<1>1. TInv => NoTripleTwice
  <2> SUFFICES ASSUME TInv, NEW p \in Party, NEW c \in ReadAsA(p), c \in earlier[p]
               PROVE  FALSE
    BY DEF NoTripleTwice
  <2>1. c \in AsA(triples[p])
    BY DEF ReadAsA, AsA
  <2>2. proc[p] = "online"
    <3>1. triples[p] # <<>>
      BY <2>1 DEF AsA
    <3> QED BY <3>1 DEF TInv, PhaseOK
  <2>3. PICK from \in 0 .. pos[p].A :
           /\ earlier[p] \subseteq Between(file[p], 0, from)
           /\ AsA(triples[p]) \subseteq Between(file[p], from, pos[p].A)
    BY <2>2 DEF TInv, OnwardsOK, Onwards
  <2>4. PICK i \in DOMAIN file[p] : i <= from /\ file[p][i] = c
    BY <2>3 DEF Between
  <2>5. PICK j \in DOMAIN file[p] : from < j /\ file[p][j] = c
    BY <2>1, <2>3 DEF Between
  <2>6. i = j
    BY <2>4, <2>5 DEF TInv, DumpsOK
  <2>7. i \in Nat /\ from \in Nat
    <3>1. file[p] \in Seq(Cells)
      BY DEF TInv, TypeOK
    <3> HIDE DEF Cells
    <3> QED BY <3>1
  <2> QED BY <2>4, <2>5, <2>6, <2>7
<1> QED BY <1>1, PoolInvariance, PTL
============================================================================
