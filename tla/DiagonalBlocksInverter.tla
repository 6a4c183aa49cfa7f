------------------------- MODULE DiagonalBlocksInverter -------------------------
(***************************************************************************)
(* One work-group of DiagonalBlocksInverter::eval                          *)
(* (src/operations/blas3/trsm.hpp): BlockSize work-items, one for each row *)
(* of a diagonal block of a triangular matrix, invert the block column by  *)
(* column in local memory.  The last block may reach past the matrix: what *)
(* is outside counts as zero, and its diagonal is inverted all the same.   *)
(*                                                                         *)
(* "launch" never changes: the template arguments UnitDiag and Upper, N_,  *)
(* lda_, the group's id and the cells of A.                                *)
(***************************************************************************)
EXTENDS PrimeField

CONSTANTS BlockSize,   \* internalBlockSize, which is also outterBlockSize
          Launches     \* the launches to consider

InverterAssumption ==
    /\ BlockSize \in Nat \ {0}
    /\ \A l \in Launches : /\ l.unit \in BOOLEAN /\ l.upper \in BOOLEAN
                           /\ l.n \in Nat \ {0} /\ l.lda >= l.n
                           /\ l.block \in Nat /\ l.block * BlockSize < l.n

Index == 0 .. BlockSize - 1

VARIABLES launch,
          pc,         \* the next thing a work-item does
          atBarrier,  \* whether it is inside a barrier before that
          barriers,   \* how many barriers it has reached
          column,     \* j, the column its loop is at
          sum,        \* its accumulator
          local,      \* local memory, row by row
          invA        \* what the group has written in its block of invA

vars == <<launch, pc, atBarrier, barriers, column, sum, local, invA>>

Location == {"load", "diagonal", "sum", "store", "done"}

SrcBlockOffset == launch.block * (BlockSize + launch.lda * BlockSize)

FirstColumn == IF launch.upper THEN 1 ELSE BlockSize - 2
MoreColumns(j) == IF launch.upper THEN j < BlockSize ELSE j >= 0
NextColumn(j) == IF launch.upper THEN j + 1 ELSE j - 1

Init ==
    /\ launch \in Launches
    /\ pc = [i \in Index |-> "load"]
    /\ atBarrier = [i \in Index |-> FALSE]
    /\ barriers = [i \in Index |-> 0]
    /\ column = [i \in Index |-> FirstColumn]
    /\ sum = [i \in Index |-> 0]
    /\ local = [i \in Index |-> [j \in Index |-> Undefined]]
    /\ invA = [i \in Index |-> [j \in Index |-> Undefined]]

Goto(i, l) == pc' = [pc EXCEPT ![i] = l]

\* Work-item i reaches a barrier, and will do l when it has passed it.
BarrierThen(i, l) ==
    /\ Goto(i, l)
    /\ atBarrier' = [atBarrier EXCEPT ![i] = TRUE]
    /\ barriers' = [barriers EXCEPT ![i] = @ + 1]

At(i, l) == pc[i] = l /\ ~atBarrier[i]

\* Mutant: no barrier.
LeaveAtOnce(i) ==
    /\ atBarrier[i]
    /\ atBarrier' = [atBarrier EXCEPT ![i] = FALSE]
    /\ UNCHANGED <<launch, pc, barriers, column, sum, local, invA>>

Leave(i) ==
    /\ atBarrier[i]
    /\ \A u \in Index : barriers[u] >= barriers[i]
    /\ atBarrier' = [atBarrier EXCEPT ![i] = FALSE]
    /\ UNCHANGED <<launch, pc, barriers, column, sum, local, invA>>

IsInRange(i, j) ==
    IF launch.upper
    THEN i <= j /\ launch.block * BlockSize + j < launch.n
    ELSE i >= j /\ launch.block * BlockSize + i < launch.n

\* The first loop: a work-item loads its row, zero where the triangle or the
\* matrix ends.
Load(i) ==
    /\ At(i, "load")
    /\ local' = [local EXCEPT ![i] =
                   [j \in Index |->
                      IF ~IsInRange(i, j) THEN 0
                      ELSE LET a == SrcBlockOffset + i + j * launch.lda
                           IN IF a \in DOMAIN launch.a THEN launch.a[a]
                              ELSE Undefined]]
    /\ BarrierThen(i, IF launch.unit THEN "sum" ELSE "diagonal")
    /\ UNCHANGED <<launch, column, sum, invA>>

\* Without UnitDiag the diagonal is inverted, and there is another barrier.
InvertDiagonal(i) ==
    /\ At(i, "diagonal")
    /\ local' = [local EXCEPT ![i][i] = Reciprocal(@)]
    /\ BarrierThen(i, "sum")
    /\ UNCHANGED <<launch, column, sum, invA>>

\* The rows that work on column j, and the cells of their sum.
Active(i, j) == IF launch.upper THEN i < j ELSE i > j
Terms(j) == IF launch.upper THEN 0 .. j - 1 ELSE j + 1 .. BlockSize - 1

\* The loop over k: row i of the inverse so far by column j of the block.
Accumulate(i) ==
    LET j == column[i]
        Term(k) == Times(local[i][k], local[k][j])
    IN /\ At(i, "sum")
       /\ MoreColumns(j)
       /\ sum' = [sum EXCEPT ![i] =
                    IF Active(i, j) THEN SumOf(Terms(j), Term) ELSE 0]
       /\ BarrierThen(i, "store")
       /\ UNCHANGED <<launch, column, local, invA>>

\* Mutant: the loop goes on in the other direction.
StoreBackwards(i) ==
    LET j == column[i]
    IN /\ At(i, "store")
       /\ local' = [local EXCEPT ![i][j] =
                      IF Active(i, j) THEN Times(sum[i], Minus(local[j][j]))
                      ELSE @]
       /\ column' = [column EXCEPT ![i] = IF launch.upper THEN @ - 1 ELSE @ + 1]
       /\ BarrierThen(i, "sum")
       /\ UNCHANGED <<launch, sum, invA>>

\* Mutant: the sign is lost.
StorePlus(i) ==
    LET j == column[i]
    IN /\ At(i, "store")
       /\ local' = [local EXCEPT ![i][j] =
                      IF Active(i, j) THEN Times(sum[i], local[j][j]) ELSE @]
       /\ column' = [column EXCEPT ![i] = NextColumn(@)]
       /\ BarrierThen(i, "sum")
       /\ UNCHANGED <<launch, sum, invA>>

Store(i) ==
    LET j == column[i]
    IN /\ At(i, "store")
       /\ local' = [local EXCEPT ![i][j] =
                      IF Active(i, j) THEN Times(sum[i], Minus(local[j][j]))
                      ELSE @]
       /\ column' = [column EXCEPT ![i] = NextColumn(@)]
       /\ BarrierThen(i, "sum")
       /\ UNCHANGED <<launch, sum, invA>>

\* Mutant: the last loop does not end.
WriteRowForEver(i) ==
    /\ At(i, "sum")
    /\ ~MoreColumns(column[i])
    /\ invA' = [invA EXCEPT ![i] = local[i]]
    /\ UNCHANGED <<launch, pc, atBarrier, barriers, column, sum, local>>

\* The last loop: a work-item writes its row, whatever part of it is in the
\* matrix.
WriteRow(i) ==
    /\ At(i, "sum")
    /\ ~MoreColumns(column[i])
    /\ invA' = [invA EXCEPT ![i] = local[i]]
    /\ Goto(i, "done")
    /\ UNCHANGED <<launch, atBarrier, barriers, column, sum, local>>

Step(i) == \/ Load(i)
           \/ InvertDiagonal(i)
           \/ Accumulate(i)
           \/ Store(i)
           \/ WriteRow(i)
           \/ Leave(i)

Finished == (\A i \in Index : pc[i] = "done") /\ UNCHANGED vars

Next == Finished \/ \E i \in Index : Step(i)

\* A device makes progress on every work-item of a group that has started.
Fairness == \A i \in Index : WF_vars(Step(i))

Spec == Init /\ [][Next]_vars /\ Fairness

-------------------------------------------------------------------------------
(***************************************************************************)
(* Properties                                                              *)
(***************************************************************************)

TypeOK ==
    /\ launch.a \in [DOMAIN launch.a -> Element]
    /\ pc \in [Index -> Location]
    /\ atBarrier \in [Index -> BOOLEAN]
    /\ barriers \in [Index -> Nat]
    /\ column \in [Index -> -1 .. BlockSize]
    /\ sum \in [Index -> Element]
    /\ local \in [Index -> [Index -> Element]]
    /\ invA \in [Index -> [Index -> Element]]

\* The cells of local memory that the next step of a work-item reads, and
\* those that it writes.
Reads(i) ==
    LET j == column[i]
    IN CASE At(i, "diagonal") -> {<<i, i>>}
         [] At(i, "sum") /\ ~MoreColumns(j) -> {i} \X Index
         [] At(i, "sum") /\ MoreColumns(j) /\ Active(i, j) ->
               ({i} \X Terms(j)) \cup (Terms(j) \X {j})
         [] At(i, "store") /\ Active(i, j) -> {<<j, j>>}
         [] OTHER -> {}

Writes(i) ==
    CASE At(i, "load") -> {i} \X Index
      [] At(i, "diagonal") -> {<<i, i>>}
      [] At(i, "store") /\ Active(i, column[i]) -> {<<i, column[i]>>}
      [] OTHER -> {}

\* The inversion is in place: a column is read by every row before any of them
\* overwrites it, and the two barriers of a trip keep the two apart.
NoLocalRace ==
    \A i, u \in Index :
        i # u => Writes(i) \cap (Reads(u) \cup Writes(u)) = {}

\* The rows of the block that are in the matrix.
Live == 0 .. Min({BlockSize, launch.n - launch.block * BlockSize}) - 1

\* The block as a matrix, zero outside its triangle.
Block(i, j) ==
    IF (IF launch.upper THEN i <= j ELSE i >= j)
    THEN launch.a[SrcBlockOffset + i + j * launch.lda] ELSE 0

\* When the group is done, the part of invA that is in the matrix is the
\* inverse of the block, the zeros of the other triangle included: whatever
\* 1 / 0 gave on the diagonal outside of the matrix has not got into it, and no
\* cell that is not in the triangle was read.  TRSM multiplies by all of it.
InverseExact ==
    (\A i \in Index : pc[i] = "done") =>
        \A i, j \in Live :
            LET Term(k) == Times(Block(i, k), invA[k][j])
            IN SumOf(Live, Term) = IF i = j THEN 1 ELSE 0

\* Every work-item returns.
Termination == <>(\A i \in Index : pc[i] = "done")
================================================================================
