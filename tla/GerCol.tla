--------------------------------- MODULE GerCol ---------------------------------
(***************************************************************************)
(* One work-group of the kernel GerCol::eval with local memory             *)
(* (src/operations/blas2/ger.hpp), the rank 1 update of a matrix, or the   *)
(* rank 2 update when "single" is FALSE: a work-item has rows of its own,  *)
(* and the group's columns go through local memory in blocks.  For rank 2  *)
(* each half of local memory holds a block of one of the two vectors.      *)
(***************************************************************************)
EXTENDS Blas2Group

ColSz == IF launch.dimR < launch.localSz THEN launch.localSz
         ELSE (launch.dimC + launch.nWGCol - 1) \div launch.nWGCol
DimWFR == DivUp(launch.dimR, launch.localSz * launch.nWGRow) * launch.localSz

IdWFR(group) == group % launch.nWGRow

FirstRow(group) == IdWFR(group) * DimWFR
FrsRow(i) == FirstRow(launch.group) + i
LstRow(i) == Min({launch.dimR, FrsRow(i) + DimWFR})
FrsCol(group) == (group \div launch.nWGRow) * ColSz
LstCol(group) == Min({launch.dimC, FrsCol(group) + ColSz})

RowsOf(i) ==
    {FrsRow(i) + t * launch.localSz : t \in 0 .. (LstRow(i) - 1 - FrsRow(i))
                                                    \div launch.localSz}

\* Whether the group's part of the matrix is outside of the triangle.
NotDiag == IF launch.diag THEN 0 ELSE 1
Skipped(group) ==
    \/ ~launch.upper /\ FrsCol(group) + NotDiag > FirstRow(group) + DimWFR - 1
    \/ ~launch.lower /\ FirstRow(group) + NotDiag > LstCol(group) - 1

\* The columns of a block: all of local memory, or half of it.
BlockSz == IF launch.single THEN launch.localMemory ELSE launch.localMemory \div 2

Init ==
    /\ launch \in Launches
    /\ Start(IF Skipped(launch.group) THEN "done" ELSE "block",
             FrsCol(launch.group), launch.localMemory, Garbage)

BlqSz(i) == Min({BlockSz, LstCol(launch.group) - pos[i]})
Copied(i) == {col \in 0 .. BlqSz(i) - 1 : col % launch.localSz = i}

\* The vectors: an element of rhs_1, of rhs_2.
Rhs1(e) == FromA(e)
Rhs2(e) == FromB(e)

\* What an item copies of a block: of rhs_2, or of both.
Copies(i) ==
    IF launch.single
    THEN [col \in Copied(i) |-> Rhs2(pos[i] + col)]
    ELSE Over([col \in Copied(i) |-> Rhs1(pos[i] + col)],
              [a \in {BlockSz + col : col \in Copied(i)} |->
                 Rhs2(pos[i] + a - BlockSz)])

CopyBlock(i) ==
    /\ At(i, "block")
    /\ pos[i] < LstCol(launch.group)
    /\ scratch' = Over(Copies(i), scratch)
    /\ BarrierThen(i, "update")
    /\ UNCHANGED <<launch, pos, offset, acc, out>>

\* What is added to the element of a row in column "col" of the block.
Terms(row, col) ==
    IF launch.single THEN {<<Rhs1(row), scratch[col]>>}
    ELSE {<<Rhs1(row), scratch[BlockSz + col]>>, <<Rhs2(row), scratch[col]>>}

Updated(i) ==
    {a \in RowsOf(i) \X {pos[i] + col : col \in 0 .. BlqSz(i) - 1} :
        InTriangle(a[1], a[2])}

\* lhs_.eval(row, col) += ...
Plus(i) ==
    [a \in Updated(i) |->
        Added(IF a \in DOMAIN out THEN out[a] ELSE Scaled(a),
              Exactly(Terms(a[1], a[2] - pos[i])))]

\* Mutant: the blocks of a rank 2 update are those of rank 1.
UpdateWide(i) ==
    /\ At(i, "update")
    /\ out' = Over(Plus(i), out)
    /\ pos' = [pos EXCEPT ![i] = @ + launch.localMemory]
    /\ IF pos'[i] < LstCol(launch.group) THEN BarrierThen(i, "block")
       ELSE Goto(i, "done")
    /\ UNCHANGED <<launch, offset, acc, scratch>>

\* The update by a block, and a barrier before the next one if there is one.
Update(i) ==
    /\ At(i, "update")
    /\ out' = Over(Plus(i), out)
    /\ pos' = [pos EXCEPT ![i] = @ + BlockSz]
    /\ IF pos'[i] < LstCol(launch.group) THEN BarrierThen(i, "block")
       ELSE Goto(i, "done")
    /\ UNCHANGED <<launch, offset, acc, scratch>>

\* A group without columns.
Return(i) ==
    /\ At(i, "block")
    /\ pos[i] >= LstCol(launch.group)
    /\ Goto(i, "done")
    /\ UNCHANGED <<launch, pos, offset, acc, scratch, out>>

Step(i) == CopyBlock(i) \/ Update(i) \/ Return(i)

-------------------------------------------------------------------------------
(***************************************************************************)
(* Properties                                                              *)
(***************************************************************************)

Writes(i) ==
    IF At(i, "block") /\ pos[i] < LstCol(launch.group) THEN DOMAIN Copies(i) ELSE {}

Reads(i) ==
    IF At(i, "update") /\ RowsOf(i) # {}
    THEN {col + h : col \in 0 .. BlqSz(i) - 1,
                    h \in IF launch.single THEN {0} ELSE {0, BlockSz}}
    ELSE {}

\* The two halves do not meet, and no block is overwritten by the next while
\* another item reads it.
NoLocalRace ==
    /\ DOMAIN scratch = 0 .. launch.localMemory - 1
    /\ \A i, u \in Item :
          i # u => Writes(i) \cap (Reads(u) \cup Writes(u)) = {}

\* The elements of the matrix that a group is to update.
Share(group) ==
    {a \in (FirstRow(group) .. Min({launch.dimR, FirstRow(group) + DimWFR}) - 1)
             \X (FrsCol(group) .. LstCol(group) - 1) : InTriangle(a[1], a[2])}

\* x(i) * y(j), and for rank 2 y(i) * x(j).
Expected(a) ==
    [c |-> {a},
     of |-> {<<Rhs1(a[1]), Rhs2(a[2])>>}
              \cup (IF launch.single THEN {} ELSE {<<Rhs2(a[1]), Rhs1(a[2])>>}),
     once |-> TRUE]

\* A group that is done has updated its part of the triangle, each element
\* once, and nothing else.
BlockExact == Done => out = [a \in Share(launch.group) |-> Expected(a)]

\* Every element of the triangle is updated by one group of the launch.
Groups == 0 .. launch.nWGRow * launch.nWGCol - 1

SharesPartitionOutput ==
    Done =>
        LET shares == [g \in Groups |-> Share(g)]
        IN \A a \in (0 .. launch.dimR - 1) \X (0 .. launch.dimC - 1) :
              Cardinality({g \in Groups : a \in shares[g]})
                = IF InTriangle(a[1], a[2]) THEN 1 ELSE 0
================================================================================
