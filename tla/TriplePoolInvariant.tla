------------------------ MODULE TriplePoolInvariant ------------------------
(***************************************************************************)
(* The inductive invariant of TriplePool, and why each part is needed.     *)
(* TriplePoolProofs proves it.                                             *)
(***************************************************************************)
EXTENDS TriplePool

Cells == [kind : {"sizes", "bytes", "A", "B", "C", "garbage"}, batch : Nat, value : Nat]

TypeOK ==
    /\ file \in [Party -> Seq(Cells)]
    /\ proc \in [Party -> {"off", "store", "init", "prepare", "ot", "finish", "online"}]
    /\ mode \in [Party -> {"default", "read"}]
    /\ remaining \in [Party -> Nat]
    /\ pos \in [Party -> [{"A", "B", "C"} -> Nat]]
    /\ workload \in Seq(Nat)
    /\ triples \in [Party -> Seq(Cells \X Cells \X Cells)]
    /\ earlier \in [Party -> SUBSET Cells]
    /\ batches \in 0 .. MaxBatches
    /\ size \in Nat

Running == \A p \in Party : proc[p] \notin {"off", "store"}

\* Either both parties read or none does, and what they are doing fits.
PhaseOK ==
    /\ Running \/ \A p \in Party : proc[p] \in {"off", "store"}
    /\ \A p \in Party :
         /\ proc[p] \in {"ot", "finish", "online"} => workload # <<>>
         /\ proc[p] \in {"finish", "online"} /\ mode[p] = "read" => Need <= remaining[p]
         /\ proc[p] = "ot" => mode[p] = "default"
         /\ proc[p] # "online" => triples[p] = <<>>

(***************************************************************************)
(* What both parties' circuits have in common, when both dumps start with  *)
(* n bytes of batch b.                                                     *)
(***************************************************************************)
Stored(b, n) == \A p \in Party : IsPrefix(Batch(b, n), file[p])

\* The mode and the position in A, which a party that is yet to read the two
\* numbers will have then.
Mode(p) == IF proc[p] = "init" THEN "read" ELSE mode[p]
From(p) == IF proc[p] = "init" THEN 2 ELSE pos[p].A

\* What follows for the current circuit: the parties decide alone and at
\* different times, by the same rule and the same number.
Reads(p, n) == Mode(p) = "read" /\ Need <= n
UpTo(p, n) == IF proc[p] # "online" /\ Reads(p, n) THEN From(p) + Need ELSE From(p)

\* Equal, or both beyond what was stored.
Agree(x, y, n) == x = y \/ (x > 2 + n /\ y > 2 + n)

AtRest == \A p \in Party : proc[p] \in {"init", "prepare"}

Together(n) ==
    /\ AtRest =>
         /\ Mode("SERVER") = Mode("CLIENT")
         /\ Agree(From("SERVER"), From("CLIENT"), n)
    /\ workload # <<>> =>
         /\ Reads("SERVER", n) <=> Reads("CLIENT", n)
         /\ Agree(UpTo("SERVER", n), UpTo("CLIENT", n), n)

\* The number and the three positions, as long as no circuit read too far.
PositionsOK(p, n) ==
    proc[p] # "init" =>
        /\ remaining[p] = n
        /\ pos[p].A >= 2
        /\ pos[p].A <= 2 + n => pos[p].B = pos[p].A + n /\ pos[p].C = pos[p].A + n + n

\* The triples of the current circuit: those before the position, or new ones.
TriplesOK(p, b, n) ==
    proc[p] = "online" =>
        /\ mode[p] = "read" /\ pos[p].A <= 2 + n =>
             /\ pos[p].A >= 2 + Need
             /\ DOMAIN triples[p] = 1 .. Need
             /\ \A k \in 1 .. Need :
                  LET i == pos[p].A - Need - 2 + k
                  IN  triples[p][k] = <<Cell("A", b, i), Cell("B", b, i), Cell("C", b, i)>>
        /\ mode[p] = "default" =>
             /\ DOMAIN triples[p] = 1 .. Need
             /\ \A k \in 1 .. Need :
                  triples[p][k] = <<Cell("A", OnDemand, k), Cell("B", OnDemand, k),
                                    Cell("C", OnDemand, k)>>

SameBatchOK ==
    \A b \in 1 .. MaxBatches, n \in Sizes :
        Running /\ Stored(b, n) =>
            /\ Together(n)
            /\ \A p \in Party : PositionsOK(p, n) /\ TriplesOK(p, b, n)

(***************************************************************************)
(* No byte of a dump is like another one, and a process reads A onwards.   *)
(***************************************************************************)
DumpsOK ==
    \A p \in Party :
        /\ proc[p] = "store" => batches > 0
        /\ \A i, j \in DOMAIN file[p] : file[p][i] = file[p][j] => i = j
        /\ \A i \in DOMAIN file[p] :
             /\ file[p][i].batch \in 1 .. batches
             /\ proc[p] = "store" => file[p][i].batch # batches

\* The cells of a dump from one position to another, and those that triples
\* have as A.
Between(dump, from, to) == {dump[k] : k \in {j \in DOMAIN dump : from < j /\ j <= to}}
AsA(ts) == {ts[k][1] : k \in {j \in DOMAIN ts : ts[j][1].batch # OnDemand}}

\* What a process at `place' has read of `dump' when its position in A is `at'.
Onwards(place, dump, at, before, ts) ==
    /\ place \in {"prepare", "ot", "finish"} => before \subseteq Between(dump, 0, at)
    /\ place = "online" =>
         \E from \in 0 .. at :
            before \subseteq Between(dump, 0, from) /\ AsA(ts) \subseteq Between(dump, from, at)

OnwardsOK ==
    \A p \in Party : Onwards(proc[p], file[p], pos[p].A, earlier[p], triples[p])

TInv == TypeOK /\ PhaseOK /\ SameBatchOK /\ DumpsOK /\ OnwardsOK
=============================================================================
