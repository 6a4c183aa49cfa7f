-------------------------------- MODULE GemvCol --------------------------------
(***************************************************************************)
(* One work-group of the kernel GemvCol::eval with local memory            *)
(* (src/operations/blas2/gemv.hpp): a work-item has rows of its own, and   *)
(* the part of x that the group multiplies goes through local memory in    *)
(* blocks.  A row's sum is kept in the output between blocks.              *)
(***************************************************************************)
EXTENDS Blas2Group

\* Mutant: rounded down.
ColSzDown == launch.dimC \div launch.nWGCol

ColSz == (launch.dimC + launch.nWGCol - 1) \div launch.nWGCol
DimWFR == DivUp(launch.dimR, launch.localSz * launch.nWGRow) * launch.localSz

IdWFR(group) == group % launch.nWGRow
IdWFC(group) == group \div launch.nWGRow

FirstRow(group) == IdWFR(group) * DimWFR
FrsRow(i) == FirstRow(launch.group) + i
LstRow(i) == Min({launch.dimR, FrsRow(i) + DimWFR})
FrsCol(group) == IdWFC(group) * ColSz
LstCol(group) == Min({launch.dimC, FrsCol(group) + ColSz})

RowsOf(i) ==
    {FrsRow(i) + t * launch.localSz : t \in 0 .. (LstRow(i) - 1 - FrsRow(i))
                                                    \div launch.localSz}

\* Whether the group's part of the matrix is outside of the triangle.
NotDiag == IF launch.diag THEN 0 ELSE 1
Skipped(group) ==
    \/ ~launch.upper /\ FrsCol(group) + NotDiag > FirstRow(group) + DimWFR - 1
    \/ ~launch.lower /\ FirstRow(group) + NotDiag > LstCol(group) - 1

Init ==
    /\ launch \in Launches
    /\ Start(IF Skipped(launch.group) THEN "zero" ELSE "block",
             FrsCol(launch.group), launch.localMemory, Garbage)

\* A group that has nothing to add: each item writes zeros in its rows.
WriteZeros(i) ==
    /\ At(i, "zero")
    /\ out' = Over([a \in RowsOf(i) \X {IdWFC(launch.group)} |-> Nothing], out)
    /\ Goto(i, "done")
    /\ UNCHANGED <<launch, pos, offset, acc, scratch>>

BlqSz(i) == Min({launch.localMemory, LstCol(launch.group) - pos[i]})

\* The elements of a block that an item copies.
Copied(i) == {col \in 0 .. BlqSz(i) - 1 : col % launch.localSz = i}

\* The copy of a block of x, and the barrier after it.
CopyBlock(i) ==
    /\ At(i, "block")
    /\ pos[i] < LstCol(launch.group)
    /\ scratch' = Over([col \in Copied(i) |-> FromB(pos[i] + col)], scratch)
    /\ BarrierThen(i, "product")
    /\ UNCHANGED <<launch, pos, offset, acc, out>>

\* What a block adds to a row.
BlockTerms(i, row) ==
    {<<Elem(row, pos[i] + col), scratch[col]>> :
        col \in {l \in 0 .. BlqSz(i) - 1 : InTriangle(row, pos[i] + l)}}
      \cup (IF launch.diag /\ launch.unit /\ row - pos[i] \in 0 .. BlqSz(i) - 1
            THEN {UnitTerm(row)} ELSE {})

\* The rows of an item with what this block adds to them.
Products(i) ==
    [a \in RowsOf(i) \X {IdWFC(launch.group)} |->
        Added(IF pos[i] = FrsCol(launch.group) THEN Nothing ELSE out[a],
              Exactly(BlockTerms(i, a[1])))]

\* Mutant: the block is filled again while others still multiply by it.
MultiplyBlockAndGo(i) ==
    /\ At(i, "product")
    /\ out' = Over(Products(i), out)
    /\ pos' = [pos EXCEPT ![i] = @ + launch.localMemory]
    /\ Goto(i, "block")
    /\ UNCHANGED <<launch, offset, acc, scratch>>

\* The product of the block, and a barrier before the next one if there is one.
MultiplyBlock(i) ==
    /\ At(i, "product")
    /\ out' = Over(Products(i), out)
    /\ pos' = [pos EXCEPT ![i] = @ + launch.localMemory]
    /\ IF pos[i] + launch.localMemory < LstCol(launch.group)
       THEN BarrierThen(i, "block") ELSE Goto(i, "block")
    /\ UNCHANGED <<launch, offset, acc, scratch>>

Return(i) ==
    /\ At(i, "block")
    /\ pos[i] >= LstCol(launch.group)
    /\ Goto(i, "done")
    /\ UNCHANGED <<launch, pos, offset, acc, scratch, out>>

Step(i) == \/ WriteZeros(i)
           \/ CopyBlock(i)
           \/ MultiplyBlock(i)
           \/ Return(i)

-------------------------------------------------------------------------------
(***************************************************************************)
(* Properties                                                              *)
(***************************************************************************)

Writes(i) ==
    IF At(i, "block") /\ pos[i] < LstCol(launch.group) THEN Copied(i) ELSE {}

Reads(i) ==
    IF At(i, "product") /\ RowsOf(i) # {} THEN 0 .. BlqSz(i) - 1 ELSE {}

\* A block of x is not overwritten by the next while another item reads it.
NoLocalRace ==
    /\ DOMAIN scratch = 0 .. launch.localMemory - 1
    /\ \A i, u \in Item :
          i # u => Writes(i) \cap (Reads(u) \cup Writes(u)) = {}

\* The part of the matrix that is a group's.
Share(group) ==
    [rows |-> FirstRow(group) .. Min({launch.dimR, FirstRow(group) + DimWFR}) - 1,
     cols |-> FrsCol(group) .. LstCol(group) - 1,
     out |-> IdWFC(group)]

\* A group that is done has written its column of its rows of the output: the
\* products of the triangle in its part of the matrix, each once, however many
\* blocks they came in; zeros where the triangle does not come to.
BlockExact ==
    Done =>
        LET share == Share(launch.group)
        IN out = [a \in share.rows \X {share.out} |->
                    Exactly(RowProducts(a[1], share.cols))]

\* Every cell of the output, whose columns are then added up, is written by one
\* group, and every element of the matrix is in the part of one group.
Groups == 0 .. launch.nWGRow * launch.nWGCol - 1

SharesPartitionOutput ==
    Done =>
        LET shares == [g \in Groups |-> Share(g)]
        IN \A r \in 0 .. launch.dimR - 1 :
              /\ \A col \in 0 .. launch.columns - 1 :
                    Cardinality({g \in Groups : r \in shares[g].rows
                                                /\ shares[g].out = col}) = 1
              /\ \A l \in 0 .. launch.dimC - 1 :
                    Cardinality({g \in Groups : r \in shares[g].rows
                                                /\ l \in shares[g].cols}) = 1
================================================================================
