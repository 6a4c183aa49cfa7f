------------------------------- MODULE GemmLocal -------------------------------
(***************************************************************************)
(* One work-group of the GEMM kernel with local memory                     *)
(* (src/operations/blas3/gemm_local.hpp), work-item by work-item: for each *)
(* batch, the group copies a panel of A and one of B to local memory,      *)
(* multiplies them into registers, goes on to the next panel, and stores   *)
(* its block of C.  One barrier a panel is enough with double buffering,   *)
(* two are needed without.                                                 *)
(*                                                                         *)
(* "launch" never changes: the template arguments, the sizes, the number   *)
(* of compute units and the group's id.                                    *)
(***************************************************************************)
EXTENDS GemmProduct, TLC

CONSTANTS WgRows, WgCols,   \* the shape of a work-group
          Launches          \* the launches to consider

WgSize == WgRows * WgCols
Item == 0 .. WgSize - 1

\* The static_asserts of the kernel, and what the interface checks of a call.
GemmLocalAssumption ==
    /\ WgRows \in Nat \ {0} /\ WgCols \in Nat \ {0}
    /\ \A l \in Launches :
          /\ {l.itemRows, l.itemCols, l.tlRows, l.tlCols, l.clElems, l.packet}
               \subseteq Nat \ {0}
          /\ WgSize % l.clElems = 0
          /\ WgSize % (WgRows * l.itemRows) = 0
          /\ WgSize % (WgCols * l.itemCols) = 0
          /\ l.tlRows * WgRows * l.itemRows = l.tlCols * WgCols * l.itemCols
          /\ l.itemRows % l.packet = 0 /\ l.clElems % l.packet = 0
          /\ {l.m, l.n, l.k, l.computeUnits, l.batchSize} \subseteq Nat \ {0}
          /\ {l.lda, l.ldb, l.ldc} \subseteq Nat
          /\ l.lda >= (IF l.transA THEN l.k ELSE l.m)
          /\ l.ldb >= (IF l.transB THEN l.n ELSE l.k)
          /\ l.ldc >= l.m

VARIABLES launch,
          block,      \* where the group's block is: fixed by eval before its loops
          pc,         \* the next thing a work-item does
          barriers,   \* how many barriers it has reached
          waiting,    \* whether it is inside the last of them
          batch,      \* the batch it works on
          k,          \* how much of K is left
          buffer,     \* which of the two buffers its scratch pointers are at
          ofs,        \* 1 or -1: where sync_smem moves them next
          regRes,     \* its accumulators, [column][row]
          scratch,    \* local memory
          c           \* the cells of C that the group has stored

vars == <<launch, block, pc, barriers, waiting, batch, k, buffer, ofs, regRes,
          scratch, c>>

Bit(b) == IF b THEN 1 ELSE 0

BlockRows == WgRows * launch.itemRows
BlockCols == WgCols * launch.itemCols
Ldsa == BlockRows + Bit(launch.nbcA)
Ldsb == launch.clElems + Bit(launch.nbcB)
Buffers == Bit(launch.doubleBuffer) + 1
LocalMemorySize == Buffers * (Ldsa * launch.clElems + Ldsb * BlockCols)

-------------------------------------------------------------------------------
(***************************************************************************)
(* The grid                                                                *)
(***************************************************************************)

\* Mutant: without the two inner dimensions of a tile.
WorkgroupClusterOfTiles ==
    DivUp(launch.m, launch.tlRows * BlockRows)
      * DivUp(launch.n, launch.tlCols * BlockCols)

\* get_workgroup_cluster: the groups that one batch takes.
WorkgroupCluster ==
    DivUp(launch.m, launch.tlRows * BlockRows)
      * DivUp(launch.n, launch.tlCols * BlockCols)
      * launch.tlRows * launch.tlCols

\* get_num_workgroup_cluster: the batches that are worked on side by side.
NumWorkgroupCluster == DivUp(4 * launch.computeUnits, WorkgroupCluster)

Groups == 0 .. WorkgroupCluster * NumWorkgroupCluster - 1

WgBatchId(group) == group \div WorkgroupCluster
BatchStride == NumWorkgroupCluster

\* The first row and the first column of a group's block, with the blocks of a
\* tile next to each other.
TileSize == launch.tlRows * launch.tlCols
TileId(group) == (group % WorkgroupCluster) \div TileSize
TileLocalId(group) == (group % WorkgroupCluster) % TileSize
TilesPerCol == DivUp(launch.m, launch.tlRows * BlockRows)
WgRow(group) ==
    ((TileId(group) % TilesPerCol) * launch.tlRows
       + (TileLocalId(group) % launch.tlRows)) * BlockRows
WgCol(group) ==
    ((TileId(group) \div TilesPerCol) * launch.tlCols
       + TileLocalId(group) \div launch.tlRows) * BlockRows

BlockOf(group) ==
    LET row == WgRow(group)
        col == WgCol(group)
        internal == launch.m - row >= BlockRows /\ launch.n - col >= BlockCols
    IN [row |-> row, col |-> col, internal |-> internal,
        outOfRange |-> row >= launch.m \/ col >= launch.n,
        \* a block inside the matrix is moved in packets
        vectorOffset |-> IF internal THEN launch.packet ELSE 1]

wgRow == block.row
wgCol == block.col
OutOfRange == block.outOfRange
Internal == block.internal
VectorOffset == block.vectorOffset

-------------------------------------------------------------------------------
(***************************************************************************)
(* Addresses                                                               *)
(***************************************************************************)

ASize == IF launch.transA THEN launch.m * launch.lda ELSE launch.k * launch.lda
BSize == IF launch.transB THEN launch.ldb * launch.k ELSE launch.n * launch.ldb
CSize == launch.ldc * launch.n

\* Where the two tiles are: sB first, then sA, each of them in Buffers copies.
SB(b) == b * BlockCols * Ldsb
SA(b) == Buffers * BlockCols * Ldsb + b * Ldsa * launch.clElems

\* The row of the block that register row l of a work-item stands for, and the
\* column that its first register column does.
RegRow(i, l) ==
    (i % WgRows) * VectorOffset
      + (l \div VectorOffset) * WgRows * VectorOffset + (l % VectorOffset)
RegCol(i, j) == (i \div WgRows) * launch.itemCols + j

\* The elements of a block of rows by cols, numbered along the columns of the
\* matrix in memory, that a work-item copies: in trip x, VectorOffset elements
\* from item_id_ofs on.
Copied(i, rows, cols) ==
    {i * VectorOffset + x * WgSize * VectorOffset + v :
        x \in {y \in 0 .. DivUp(rows * cols, WgSize * VectorOffset) - 1 :
                 i + y * WgSize * VectorOffset < rows * cols},
        v \in 0 .. VectorOffset - 1}

\* Mutant: the end of K is not checked in a block inside the matrix.
LoadsOfANotChecked(i) ==
    {LET row == IF launch.transA THEN e \div launch.clElems ELSE e % BlockRows
         col == IF launch.transA THEN e % launch.clElems ELSE e \div BlockRows
         l == launch.k - k[i] + col
     IN [to |-> SA(buffer[i]) + row + col * Ldsa,
         address |-> batch[i] * ASize
                       + Address(launch.transA, wgRow + row, l, launch.lda),
         inRange |-> Internal \/ wgRow + row < launch.m] :
       e \in Copied(i, BlockRows, launch.clElems)}

\* What extract_block copies of A: a record for each element, with its place in
\* local memory, its row and its column in op(A), and whether it is in range.
LoadsOfA(i) ==
    {LET row == IF launch.transA THEN e \div launch.clElems ELSE e % BlockRows
         col == IF launch.transA THEN e % launch.clElems ELSE e \div BlockRows
         l == launch.k - k[i] + col
     IN [to |-> SA(buffer[i]) + row + col * Ldsa,
         address |-> batch[i] * ASize
                       + Address(launch.transA, wgRow + row, l, launch.lda),
         inRange |-> /\ Internal \/ wgRow + row < launch.m
                     /\ k[i] >= launch.clElems \/ col < k[i]] :
       e \in Copied(i, BlockRows, launch.clElems)}

LoadsOfB(i) ==
    {LET row == IF launch.transB THEN e \div BlockCols ELSE e % launch.clElems
         col == IF launch.transB THEN e % BlockCols ELSE e \div launch.clElems
         l == launch.k - k[i] + row
     IN [to |-> SB(buffer[i]) + row + col * Ldsb,
         address |-> batch[i] * BSize
                       + Address(launch.transB, l, wgCol + col, launch.ldb),
         inRange |-> /\ Internal \/ wgCol + col < launch.n
                     /\ k[i] >= launch.clElems \/ row < k[i]] :
       e \in Copied(i, launch.clElems, BlockCols)}

\* compute_block_gemm: the cells that step t of the panel reads for the
\* accumulator in column j and row l.
CellOfA(i, t, l) == SA(buffer[i]) + t * Ldsa + RegRow(i, l)
CellOfB(i, t, j) == SB(buffer[i]) + RegCol(i, j) * Ldsb + t

RegCols == 0 .. launch.itemCols - 1
RegRows == 0 .. launch.itemRows - 1

\* The elements of C that a work-item stores: those of its accumulators that
\* are in the matrix.
Stored(i) ==
    {r \in RegCols \X RegRows :
        /\ ~OutOfRange
        /\ Internal \/ wgRow + RegRow(i, r[2]) < launch.m
        /\ Internal \/ wgCol + RegCol(i, r[1]) < launch.n}

AddressOfC(i, r) ==
    batch[i] * CSize + wgRow + RegRow(i, r[2])
      + (wgCol + RegCol(i, r[1])) * launch.ldc

-------------------------------------------------------------------------------
(***************************************************************************)
(* The work-items                                                          *)
(***************************************************************************)

\* scaling_c for batch b: with is_beta_zero every accumulator becomes zero;
\* without, the ones outside the matrix stay uninitialised.
ScalingC(i, b) ==
    [j \in RegCols |-> [l \in RegRows |->
        IF launch.betaZero THEN Nothing
        ELSE IF <<j, l>> \notin Stored(i) THEN Uninitialised
        ELSE Scaled((b - batch[i]) * CSize + AddressOfC(i, <<j, l>>))]]

Init ==
    /\ launch \in Launches
    /\ launch.group \in Groups
    /\ block = BlockOf(launch.group)
    /\ batch = [i \in Item |-> WgBatchId(launch.group)]
    /\ pc = [i \in Item |-> IF WgBatchId(launch.group) < launch.batchSize
                            THEN "load" ELSE "done"]
    /\ barriers = [i \in Item |-> 0]
    /\ waiting = [i \in Item |-> FALSE]
    /\ k = [i \in Item |-> launch.k]
    /\ buffer = [i \in Item |-> 0]
    /\ ofs = [i \in Item |-> 1]
    /\ regRes = [i \in Item |-> ScalingC(i, batch[i])]
    /\ scratch = [a \in 0 .. LocalMemorySize - 1 |-> Garbage]
    /\ c = [a \in {} |-> Nothing]

\* Mutant: a barrier holds nobody up.
RunsUnheld(i) == TRUE

\* Whether a work-item is out of the last barrier it has reached, or may leave.
Runs(i) == waiting[i] => \A u \in Item : barriers[u] >= barriers[i]

At(i, l) == pc[i] = l /\ Runs(i)

Goto(i, l) ==
    /\ pc' = [pc EXCEPT ![i] = l]
    /\ waiting' = [waiting EXCEPT ![i] = FALSE]
    /\ UNCHANGED barriers

BarrierThen(i, l) ==
    /\ pc' = [pc EXCEPT ![i] = l]
    /\ waiting' = [waiting EXCEPT ![i] = TRUE]
    /\ barriers' = [barriers EXCEPT ![i] = @ + 1]

\* What the copies of a block leave in local memory.
Copies(loads, Source(_)) ==
    [to \in {x.to : x \in loads} |->
        LET load == CHOOSE x \in loads : x.to = to
        IN IF load.inRange THEN Source(load.address) ELSE Zero]

\* extract_input_blocks.
Extract(i) ==
    \E ofA \in {LoadsOfA(i)}, ofB \in {LoadsOfB(i)} :
        scratch' = Over(Copies(ofA, FromA), Over(Copies(ofB, FromB), scratch))

\* extract_input_blocks and the barrier after it, for a whole panel or for what
\* is left of K.  A group with no block in the matrix copies nothing.
Load(i) ==
    /\ At(i, "load")
    /\ k[i] > 0
    /\ IF OutOfRange THEN UNCHANGED scratch ELSE Extract(i)
    /\ BarrierThen(i, "compute")
    /\ UNCHANGED <<launch, block, batch, k, buffer, ofs, regRes, c>>

\* compute_block_gemm.
Multiplied(i) ==
    [j \in RegCols |-> [l \in RegRows |->
        Mad([t \in 0 .. launch.clElems - 1 |->
               <<scratch[CellOfA(i, t, l)], scratch[CellOfB(i, t, j)]>>],
            regRes[i][j][l])]]

\* Mutant: the direction is not turned round.
SyncSmemOneWay(i) ==
    IF launch.doubleBuffer
    THEN /\ buffer' = [buffer EXCEPT ![i] = @ + ofs[i]]
         /\ UNCHANGED ofs
         /\ Goto(i, "load")
    ELSE BarrierThen(i, "load") /\ UNCHANGED <<buffer, ofs>>

\* sync_smem: the other buffer, or a barrier.
SyncSmem(i) ==
    IF launch.doubleBuffer
    THEN /\ buffer' = [buffer EXCEPT ![i] = @ + ofs[i]]
         /\ ofs' = [ofs EXCEPT ![i] = -@]
         /\ Goto(i, "load")
    ELSE BarrierThen(i, "load") /\ UNCHANGED <<buffer, ofs>>

\* The product of the panel, the pointers moved on, and sync_smem.  A negative
\* k would say the same as zero: there is no panel left.
Compute(i) ==
    /\ At(i, "compute")
    /\ regRes' = [regRes EXCEPT ![i] = Multiplied(i)]
    /\ k' = [k EXCEPT ![i] = Max({@ - launch.clElems, 0})]
    /\ SyncSmem(i)
    /\ UNCHANGED <<launch, block, batch, scratch, c>>

\* Mutant: K is not started again for the next batch.
StoreAndKeepK(i) ==
    /\ At(i, "load")
    /\ k[i] = 0
    /\ c' = Over([a \in {AddressOfC(i, r) : r \in Stored(i)} |->
                    LET s == CHOOSE r \in Stored(i) : AddressOfC(i, r) = a
                    IN regRes[i][s[1]][s[2]]],
                  c)
    /\ batch' = [batch EXCEPT ![i] = @ + BatchStride]
    /\ regRes' = [regRes EXCEPT ![i] = ScalingC(i, batch'[i])]
    /\ Goto(i, IF batch'[i] < launch.batchSize THEN "load" ELSE "done")
    /\ UNCHANGED <<launch, block, k, buffer, ofs, scratch>>

\* Mutant: the batch loop does not count down.
StoreForEver(i) ==
    /\ At(i, "load")
    /\ k[i] = 0
    /\ c' = Over([a \in {AddressOfC(i, r) : r \in Stored(i)} |->
                    LET s == CHOOSE r \in Stored(i) : AddressOfC(i, r) = a
                    IN regRes[i][s[1]][s[2]]],
                  c)
    /\ Goto(i, IF batch[i] < launch.batchSize THEN "load" ELSE "done")
    /\ UNCHANGED <<launch, block, batch, k, buffer, ofs, regRes, scratch>>

\* store_output_block, and the next batch, if any, with scaling_c for it.
Store(i) ==
    /\ At(i, "load")
    /\ k[i] = 0
    /\ c' = Over([a \in {AddressOfC(i, r) : r \in Stored(i)} |->
                    LET s == CHOOSE r \in Stored(i) : AddressOfC(i, r) = a
                    IN regRes[i][s[1]][s[2]]],
                  c)
    /\ batch' = [batch EXCEPT ![i] = @ + BatchStride]
    /\ k' = [k EXCEPT ![i] = launch.k]
    /\ regRes' = [regRes EXCEPT ![i] = ScalingC(i, batch'[i])]
    /\ Goto(i, IF batch'[i] < launch.batchSize THEN "load" ELSE "done")
    /\ UNCHANGED <<launch, block, buffer, ofs, scratch>>

Step(i) == Load(i) \/ Compute(i) \/ Store(i)

Finished == (\A i \in Item : pc[i] = "done") /\ UNCHANGED vars

Next == Finished \/ \E i \in Item : Step(i)

\* A device makes progress on every work-item of a group that has started.
Fairness == \A i \in Item : WF_vars(Step(i))

Spec == Init /\ [][Next]_vars /\ Fairness

-------------------------------------------------------------------------------
(***************************************************************************)
(* Properties                                                              *)
(***************************************************************************)

TypeOK ==
    /\ pc \in [Item -> {"load", "compute", "done"}]
    /\ barriers \in [Item -> Nat]
    /\ waiting \in [Item -> BOOLEAN]
    /\ batch \in [Item -> Nat]
    /\ k \in [Item -> 0 .. launch.k]
    /\ buffer \in [Item -> 0 .. Buffers - 1]
    /\ ofs \in [Item -> {1, -1}]
    /\ DOMAIN scratch = 0 .. LocalMemorySize - 1
    /\ \A i \in Item, j \in RegCols, l \in RegRows :
          IsAccumulator(regRes[i][j][l])
    /\ DOMAIN c \subseteq 0 .. launch.batchSize * CSize - 1

\* The cells of local memory that the next step of a work-item writes and reads.
Writes(i) ==
    IF At(i, "load") /\ k[i] > 0 /\ ~OutOfRange
    THEN {x.to : x \in LoadsOfA(i) \cup LoadsOfB(i)} ELSE {}

Reads(i) ==
    IF At(i, "compute") /\ ~OutOfRange
    THEN {CellOfA(i, t, l) : t \in 0 .. launch.clElems - 1, l \in RegRows}
           \cup {CellOfB(i, t, j) : t \in 0 .. launch.clElems - 1,
                                    j \in RegCols}
    ELSE {}

\* A work-item that runs ahead into the next panel, or the next batch, must not
\* write the cells that another one is still to read.
NoLocalRace ==
    LET writes == [i \in Item |-> Writes(i)]
        reads == [i \in Item |-> Reads(i)]
    IN \A i, u \in Item :
          i # u => writes[i] \cap (reads[u] \cup writes[u]) = {}

\* The addresses of op(A) and of op(B) in batch b.
MatrixA(b) == {b * ASize + Address(launch.transA, row, l, launch.lda) :
                  row \in 0 .. launch.m - 1, l \in 0 .. launch.k - 1}
MatrixB(b) == {b * BSize + Address(launch.transB, l, col, launch.ldb) :
                  l \in 0 .. launch.k - 1, col \in 0 .. launch.n - 1}

\* The checks at the edges keep the copies within the matrices, the one of the
\* batch that the work-item is at, and within local memory.
LoadsInBounds ==
    \A i \in Item : (At(i, "load") /\ k[i] > 0 /\ ~OutOfRange) =>
        LET loadsA == LoadsOfA(i)
            loadsB == LoadsOfB(i)
        IN /\ {x.to : x \in loadsA \cup loadsB} \subseteq DOMAIN scratch
           /\ {x.address : x \in {y \in loadsA : y.inRange}}
                \subseteq MatrixA(batch[i])
           /\ {x.address : x \in {y \in loadsB : y.inRange}}
                \subseteq MatrixB(batch[i])

\* The part of C that is a group's: <<batch, row, column>>.
GroupShare(group) ==
    {e \in (0 .. launch.batchSize - 1) \X (0 .. launch.m - 1)
             \X (0 .. launch.n - 1) :
        /\ e[1] >= WgBatchId(group)
        /\ (e[1] - WgBatchId(group)) % BatchStride = 0
        /\ e[2] - WgRow(group) \in 0 .. BlockRows - 1
        /\ e[3] - WgCol(group) \in 0 .. BlockCols - 1}

\* What beta * C + op(A) * op(B) is at an element.
Expected(e) ==
    [c |-> IF launch.betaZero THEN {}
           ELSE {e[1] * CSize + e[2] + e[3] * launch.ldc},
     of |-> {<<FromA(e[1] * ASize
                       + Address(launch.transA, e[2], l, launch.lda)),
               FromB(e[1] * BSize
                       + Address(launch.transB, l, e[3], launch.ldb))>> :
               l \in 0 .. launch.k - 1},
     once |-> TRUE]

\* When the group is done, it has stored its share of C and nothing else, each
\* element with all its products, each of them once, whatever panel and buffer
\* they came through and whatever stood in local memory from the batch before.
BlockExact ==
    (\A i \in Item : pc[i] = "done") =>
        LET share == GroupShare(launch.group)
            At3(e) == e[1] * CSize + e[2] + e[3] * launch.ldc
        IN /\ DOMAIN c = {At3(e) : e \in share}
           /\ \A e \in share : c[At3(e)] = Expected(e)

\* Every element of every C is the share of one group of the launch and of no
\* other.  It is a fact about the launch, looked at when the group is done.
SharesPartitionC ==
    (\A i \in Item : pc[i] = "done") =>
        LET shares == [g \in Groups |-> GroupShare(g)]
        IN \A e \in (0 .. launch.batchSize - 1) \X (0 .. launch.m - 1)
                      \X (0 .. launch.n - 1) :
              Cardinality({g \in Groups : e \in shares[g]}) = 1

\* Every work-item returns.
Termination == <>(\A i \in Item : pc[i] = "done")
================================================================================
