---------------------------------- MODULE Gemv ----------------------------------
(***************************************************************************)
(* One work-group of the kernel Gemv::eval (src/operations/blas2/gemv.hpp) *)
(* with local memory and without.  With it a group multiplies a square of  *)
(* the matrix by a portion of x and writes one column of a matrix of       *)
(* partial dot products; a transposed matrix goes through local memory,    *)
(* tile by tile.  SumMatrixColumns adds the columns up.                    *)
(***************************************************************************)
EXTENDS Blas2Group

NcDim == IF launch.trans THEN launch.n ELSE launch.m
CDim == IF launch.trans THEN launch.m ELSE launch.n

NcGroup(group) == group \div launch.wgsPerC
CGroup(group) == group - NcGroup(group) * launch.wgsPerC

NcIndex(i) == i + NcGroup(launch.group) * launch.localSz
FirstC(group) == CGroup(group) * launch.localSz

\* Local memory: the portion of x, and behind it a tile, one word of padding to
\* a column.
Padded == launch.localSz + 1
MatrixScratch == launch.localSz
KernelScratchSize ==
    IF ~launch.local THEN 0
    ELSE launch.localSz
           + (IF launch.trans THEN (launch.clElems + 1) * launch.localSz ELSE 0)

Init ==
    /\ launch \in Launches
    /\ Start(IF launch.local THEN "load" ELSE "row", 0, KernelScratchSize, Garbage)

-------------------------------------------------------------------------------
(***************************************************************************)
(* With local memory                                                       *)
(***************************************************************************)

\* x_vec_index, and the element of x or zero behind its end.
LoadX(i) ==
    LET x == i + FirstC(launch.group)
    IN /\ At(i, "load")
       /\ scratch' = [scratch EXCEPT ![i] = IF x < CDim THEN FromB(x) ELSE Zero]
       /\ BarrierThen(i, IF launch.trans THEN "tile" ELSE "dot")
       /\ UNCHANGED <<launch, pos, offset, acc, out>>

\* Where the partial dot product of an item goes.
OutIndex(i) == NcIndex(i) + CGroup(launch.group) * NcDim

\* The row of the matrix by the portion of x, in its last group along x only
\* what is left of it.  An item beyond the last row has returned.
Dot(i) ==
    LET first == FirstC(launch.group)
        last == Min({CDim - first, launch.localSz})
    IN /\ At(i, "dot")
       /\ out' = IF NcIndex(i) >= NcDim THEN out
                 ELSE Put(OutIndex(i),
                          Mad([c \in 0 .. last - 1 |->
                                 <<FromA(NcIndex(i) + (first + c) * launch.lda),
                                   scratch[c]>>], Nothing))
       /\ Goto(i, "done")
       /\ UNCHANGED <<launch, pos, offset, acc, scratch>>

TileLoops == launch.localSz \div launch.clElems
TileDimNc == launch.localSz \div launch.clElems

\* extract_input_block: what an item copies of a tile, transposed; t is the
\* trip of the loop.
TileNc(i, t) == i \div launch.clElems + t * TileDimNc
TileC(i) == i % launch.clElems
Extracted(i) ==
    [a \in {MatrixScratch + Padded * TileC(i) + TileNc(i, t) :
               t \in 0 .. launch.clElems - 1} |->
        LET nc == (a - MatrixScratch - Padded * TileC(i))
                    + NcGroup(launch.group) * launch.localSz
            c == TileC(i) + pos[i] * launch.clElems + FirstC(launch.group)
        IN IF c < CDim /\ nc < NcDim THEN FromA(c + nc * launch.lda) ELSE Zero]

\* Mutant: nobody waits for the tile.
LoadTileAndGo(i) ==
    /\ At(i, "tile")
    /\ pos[i] < TileLoops
    /\ scratch' = Over(Extracted(i), scratch)
    /\ Goto(i, "mad")
    /\ UNCHANGED <<launch, pos, offset, acc, out>>

LoadTile(i) ==
    /\ At(i, "tile")
    /\ pos[i] < TileLoops
    /\ scratch' = Over(Extracted(i), scratch)
    /\ BarrierThen(i, "mad")
    /\ UNCHANGED <<launch, pos, offset, acc, out>>

\* The cells that an item reads for step c of a tile.  vector_scratch has moved
\* on by the tiles before.
CellOfMatrix(i, c) == MatrixScratch + i + c * Padded
CellOfX(i, c) == pos[i] * launch.clElems + c

MultiplyTile(i) ==
    /\ At(i, "mad")
    /\ acc' = [acc EXCEPT ![i] =
                 Mad([c \in 0 .. launch.clElems - 1 |->
                        <<scratch[CellOfMatrix(i, c)], scratch[CellOfX(i, c)]>>],
                     @)]
    /\ pos' = [pos EXCEPT ![i] = @ + 1]
    /\ BarrierThen(i, "tile")
    /\ UNCHANGED <<launch, offset, scratch, out>>

StoreSum(i) ==
    /\ At(i, "tile")
    /\ pos[i] >= TileLoops
    /\ out' = IF NcIndex(i) < NcDim THEN Put(OutIndex(i), acc[i]) ELSE out
    /\ Goto(i, "done")
    /\ UNCHANGED <<launch, pos, offset, acc, scratch>>

-------------------------------------------------------------------------------
(***************************************************************************)
(* Without local memory                                                    *)
(***************************************************************************)

ThreadId(i) == launch.group * launch.localSz + i
GroupStride == launch.groupRange * launch.localSz

\* non_contract_dim_index when the loop is at row_id: it goes on from where the
\* product of the row before ended.
MatrixIndex(i, row) ==
    LET ncStride == IF launch.trans THEN launch.lda ELSE 1
        cStride == IF launch.trans THEN 1 ELSE launch.lda
    IN ThreadId(i) * ncStride
         + (row \div GroupStride) * (CDim * cStride + GroupStride * ncStride)

\* One row, or the end of the loop.
Row(i) ==
    /\ At(i, "row")
    /\ IF pos[i] < NcDim /\ ThreadId(i) + pos[i] < NcDim
       THEN /\ out' = Put(ThreadId(i) + pos[i],
                          Mad([c \in 0 .. CDim - 1 |->
                                 <<FromA(MatrixIndex(i, pos[i])
                                           + c * (IF launch.trans THEN 1
                                                  ELSE launch.lda)),
                                   FromB(c)>>], Nothing))
            /\ pos' = [pos EXCEPT ![i] = @ + GroupStride]
            /\ Goto(i, "row")
       ELSE Goto(i, "done") /\ UNCHANGED <<pos, out>>
    /\ UNCHANGED <<launch, offset, acc, scratch>>

Step(i) == \/ LoadX(i)
           \/ Dot(i)
           \/ LoadTile(i)
           \/ MultiplyTile(i)
           \/ StoreSum(i)
           \/ Row(i)

-------------------------------------------------------------------------------
(***************************************************************************)
(* Properties                                                              *)
(***************************************************************************)

\* The cells of local memory that the next step of an item writes and reads.
Writes(i) ==
    CASE At(i, "load") -> {i}
      [] At(i, "tile") /\ pos[i] < TileLoops -> DOMAIN Extracted(i)
      [] OTHER -> {}

Reads(i) ==
    CASE At(i, "dot") /\ NcIndex(i) < NcDim -> 0 .. launch.localSz - 1
      [] At(i, "mad") ->
            {CellOfMatrix(i, c) : c \in 0 .. launch.clElems - 1}
              \cup {CellOfX(i, c) : c \in 0 .. launch.clElems - 1}
      [] OTHER -> {}

\* No item fills a tile that another still reads, or reads one that another
\* still fills.
NoLocalRace ==
    /\ DOMAIN scratch = 0 .. KernelScratchSize - 1
    /\ \A i, u \in Item :
          i # u => Writes(i) \cap (Reads(u) \cup Writes(u)) = {}

\* The partial dot products that a group is to write: the column of the matrix
\* of dot products, the row, and the columns of op(A) in it.
Share(group) ==
    IF launch.local
    THEN [col |-> CGroup(group),
          rows |-> {r \in 0 .. NcDim - 1 : r \div launch.localSz = NcGroup(group)},
          terms |-> {l \in 0 .. CDim - 1 : l \div launch.localSz = CGroup(group)}]
    ELSE [col |-> 0,
          rows |-> {r \in 0 .. NcDim - 1 :
                       (r % GroupStride) \div launch.localSz = group},
          terms |-> 0 .. CDim - 1]

\* A group that is done has written the partial dot products of its rows and
\* its portion of x, each product once, and nothing else, whatever order its
\* items ran in.
BlockExact ==
    Done =>
        LET share == Share(launch.group)
        IN out = [a \in {r + share.col * NcDim : r \in share.rows} |->
                    Exactly({<<FromA(Address(launch.trans, a - share.col * NcDim,
                                             l, launch.lda)), FromB(l)>> :
                                l \in share.terms})]

\* SumMatrixColumns over all columns: every cell that it reads is written by
\* one group, and a row's columns hold all of its products, each once.
Groups == 0 .. launch.groupRange - 1
Columns == 0 .. launch.columns - 1

SharesPartitionOutput ==
    Done =>
        LET shares == [g \in Groups |-> Share(g)]
            Of(r, col) == {g \in Groups : r \in shares[g].rows /\ shares[g].col = col}
        IN \A r \in 0 .. NcDim - 1 :
              /\ \A col \in Columns : Cardinality(Of(r, col)) = 1
              /\ \A l \in 0 .. CDim - 1 :
                    Cardinality({g \in Groups : r \in shares[g].rows
                                                /\ l \in shares[g].terms}) = 1
================================================================================
