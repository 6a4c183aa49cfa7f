-------------------------------- MODULE GemvRow --------------------------------
(***************************************************************************)
(* One work-group of the kernel GemvRow::eval with local memory            *)
(* (src/operations/blas2/gemv.hpp): its work-items share out the columns   *)
(* of a block of rows, and add up what they have in a tree for each row.   *)
(* interLoop is one, as in every use of the kernel.                        *)
(***************************************************************************)
EXTENDS Blas2Group

RowSz == (launch.dimR + launch.nWGRow - 1) \div launch.nWGRow
ShrSz == launch.localMemory \div launch.localSz
DimWFC == DivUp(launch.dimC, launch.localSz * launch.nWGCol) * launch.localSz

IdWFR(group) == group \div launch.nWGCol
IdWFC(group) == group % launch.nWGCol

FrsRow(group) == IdWFR(group) * RowSz
LstRow(group) == Min({launch.dimR, FrsRow(group) + RowSz})
FirstCol(group) == IdWFC(group) * DimWFC
FrsCol(i) == FirstCol(launch.group) + i
LstCol(i) == Min({launch.dimC, FrsCol(i) + DimWFC})

\* Whether the group's part of the matrix is outside of the triangle.
NotDiag == IF launch.diag THEN 0 ELSE 1
Skipped(group) ==
    \/ ~launch.upper /\ FirstCol(group) + NotDiag > LstRow(group) - 1
    \/ ~launch.lower /\ FrsRow(group) + NotDiag > FirstCol(group) + DimWFC - 1

Init ==
    /\ launch \in Launches
    /\ Start(IF Skipped(launch.group) THEN "zero" ELSE "block",
             FrsRow(launch.group), launch.localMemory, Uninitialised)

\* A group that has nothing to add: item 0 writes the zeros.
WriteZeros(i) ==
    /\ At(i, "zero")
    /\ out' = IF i # 0 THEN out
              ELSE Over([a \in (FrsRow(launch.group) .. LstRow(launch.group) - 1)
                                 \X {IdWFC(launch.group)} |-> Nothing], out)
    /\ Goto(i, "done")
    /\ UNCHANGED <<launch, pos, offset, acc, scratch>>

\* The rows of the block that the loop is at.
BlqSz(i) == Min({ShrSz, LstRow(launch.group) - pos[i]})
Rows(i) == 0 .. BlqSz(i) - 1

\* The columns that an item goes through.
ColumnsOf(i) ==
    {FrsCol(i) + t * launch.localSz : t \in 0 .. (LstCol(i) - 1 - FrsCol(i))
                                                    \div launch.localSz}

\* Mutant: the item with the diagonal is not told by its column.
RowSumsOfAll(i) ==
    [row \in Rows(i) |->
        Exactly({<<Elem(pos[i] + row, col), FromB(col)>> : col \in
                    {l \in ColumnsOf(i) : InTriangle(pos[i] + row, l)}}
                  \cup (IF launch.diag /\ launch.unit THEN {UnitTerm(pos[i] + row)}
                        ELSE {}))]

\* val, for each row of the block.
RowSums(i) ==
    [row \in Rows(i) |-> Exactly(RowProducts(pos[i] + row, ColumnsOf(i)))]

\* Mutant: the tree starts before the other items have written their sums.
FillAndGo(i) ==
    LET sums == RowSums(i)
    IN /\ At(i, "block")
       /\ pos[i] < LstRow(launch.group)
       /\ scratch' =
             Over([a \in {row * launch.localSz + i : row \in Rows(i)} |->
                     sums[a \div launch.localSz]], scratch)
       /\ offset' = [offset EXCEPT ![i] = launch.localSz \div 2]
       /\ Goto(i, "tree")
       /\ UNCHANGED <<launch, pos, acc, out>>

Fill(i) ==
    LET sums == RowSums(i)
    IN /\ At(i, "block")
       /\ pos[i] < LstRow(launch.group)
       /\ scratch' =
             Over([a \in {row * launch.localSz + i : row \in Rows(i)} |->
                     sums[a \div launch.localSz]], scratch)
       /\ offset' = [offset EXCEPT ![i] = launch.localSz \div 2]
       /\ BarrierThen(i, "tree")
       /\ UNCHANGED <<launch, pos, acc, out>>

\* One level of the tree, in all rows of the block, and its barrier.
Level(i) ==
    /\ At(i, "tree")
    /\ offset[i] > 0
    /\ scratch' = IF i >= offset[i] THEN scratch
                  ELSE Over([a \in {row * launch.localSz + i : row \in Rows(i)} |->
                               Added(scratch[a], scratch[a + offset[i]])], scratch)
    /\ offset' = [offset EXCEPT ![i] = @ \div 2]
    /\ BarrierThen(i, "tree")
    /\ UNCHANGED <<launch, pos, acc, out>>

\* Item 0 writes the sums, and every item goes to the next block.
StoreRows(i) ==
    /\ At(i, "tree")
    /\ offset[i] = 0
    /\ out' = IF i # 0 THEN out
              ELSE Over([a \in {<<pos[i] + row, IdWFC(launch.group)>> : row \in Rows(i)} |->
                           scratch[(a[1] - pos[i]) * launch.localSz]], out)
    /\ pos' = [pos EXCEPT ![i] = @ + ShrSz]
    /\ Goto(i, "block")
    /\ UNCHANGED <<launch, offset, acc, scratch>>

Return(i) ==
    /\ At(i, "block")
    /\ pos[i] >= LstRow(launch.group)
    /\ Goto(i, "done")
    /\ UNCHANGED <<launch, pos, offset, acc, scratch, out>>

Step(i) == \/ WriteZeros(i)
           \/ Fill(i)
           \/ Level(i)
           \/ StoreRows(i)
           \/ Return(i)

-------------------------------------------------------------------------------
(***************************************************************************)
(* Properties                                                              *)
(***************************************************************************)

OwnCells(i) == {row * launch.localSz + i : row \in Rows(i)}

Writes(i) ==
    CASE At(i, "block") /\ pos[i] < LstRow(launch.group) -> OwnCells(i)
      [] At(i, "tree") /\ i < offset[i] -> OwnCells(i)
      [] OTHER -> {}

Reads(i) ==
    CASE At(i, "tree") /\ i < offset[i] ->
            OwnCells(i) \cup {a + offset[i] : a \in OwnCells(i)}
      [] At(i, "tree") /\ offset[i] = 0 /\ i = 0 -> OwnCells(i)
      [] OTHER -> {}

\* There is no barrier between the store of a block and the next block: item 0
\* reads only cells that it alone writes.
NoLocalRace ==
    /\ DOMAIN scratch = 0 .. launch.localMemory - 1
    /\ \A i, u \in Item :
          i # u => Writes(i) \cap (Reads(u) \cup Writes(u)) = {}

\* The part of the matrix that is a group's.
Share(group) ==
    [rows |-> FrsRow(group) .. LstRow(group) - 1,
     cols |-> FirstCol(group) .. Min({launch.dimC, FirstCol(group) + DimWFC}) - 1,
     out |-> IdWFC(group)]

\* A group that is done has written its column of its rows of the output: the
\* products of the triangle in its part of the matrix, each once, with the
\* ones of a unit diagonal; zeros where the triangle does not come to.
BlockExact ==
    Done =>
        LET share == Share(launch.group)
        IN out = [a \in share.rows \X {share.out} |->
                    Exactly(RowProducts(a[1], share.cols))]

\* Every cell of the output, whose columns are then added up, is written by one
\* group, and every element of the matrix is in the part of one group.
Groups == 0 .. launch.nWGRow * launch.nWGCol - 1

SharesPartitionOutput ==
    Done =>
        LET shares == [g \in Groups |-> Share(g)]
        IN \A r \in 0 .. launch.dimR - 1 :
              /\ \A col \in 0 .. launch.columns - 1 :
                    Cardinality({g \in Groups : r \in shares[g].rows
                                                /\ shares[g].out = col}) = 1
              /\ \A l \in 0 .. launch.dimC - 1 :
                    Cardinality({g \in Groups : r \in shares[g].rows
                                                /\ l \in shares[g].cols}) = 1
================================================================================
