----------------------------- MODULE GemmInterleaved -----------------------------
(***************************************************************************)
(* A work-item of the GEMM kernel for interleaved batches                  *)
(* (src/operations/blas3/gemm_interleaved.hpp): element (row, col) of all  *)
(* the batches lie next to each other, and an item computes the same       *)
(* elements of packets of batches at once.  There is one trip over K and  *)
(* no loop over batches.                                                   *)
(***************************************************************************)
EXTENDS GemmItem

\* What the kernel asserts and what it relies on: an item has whole packets of
\* batches, and K is counted after the loop's first trip.
InterleavedAssumption ==
    \A l \in Launches :
        /\ {l.wgBatchs, l.itemBatchs} \subseteq Nat \ {0}
        /\ l.itemBatchs % l.packet = 0
        /\ l.k > 0

\* Mutant: the packets of an item follow each other.
PacketStrideOfOneItem == launch.packet

\* item_batchs / VectorSize, and how far the packets of an item are apart: those
\* of the items of a group take turns.
Packets == launch.itemBatchs \div launch.packet
PacketStride == launch.wgBatchs * launch.packet
BlocksPerBatch == DivUp(launch.batchSize, launch.wgBatchs * launch.itemBatchs)

\* get_nd_range.
Groups == 0 .. BlocksPerRow * DivUp(launch.n, BlockCols) * BlocksPerBatch - 1
Items == 0 .. launch.wgRows * launch.wgCols * launch.wgBatchs - 1

\* Where an item's elements start: batches first, then rows, then columns.
Place(group, item) ==
    LET wgBatch == (group % BlocksPerBatch) * launch.wgBatchs
        tile == group \div BlocksPerBatch
        wgRow == (tile % BlocksPerRow) * BlockRows
        wgCol == (tile \div BlocksPerRow) * BlockCols
        local == item \div launch.wgBatchs
    IN [internal |->
            /\ (launch.batchSize \div launch.itemBatchs) - wgBatch >= launch.wgBatchs
            /\ launch.m - wgRow >= BlockRows /\ launch.n - wgCol >= BlockCols,
        batch |-> (item % launch.wgBatchs) * launch.packet + wgBatch * launch.itemBatchs,
        row |-> wgRow + (local % launch.wgRows) * launch.itemRows,
        col |-> wgCol + (local \div launch.wgRows) * launch.itemCols]

OutOfRange(p) ==
    p.batch >= launch.batchSize \/ p.row >= launch.m \/ p.col >= launch.n

\* The layout: the batch is the dimension that moves fastest.
InterleavedA(b, row, l) ==
    b + launch.batchSize * Address(launch.transA, row, l, launch.lda)
InterleavedB(b, l, col) ==
    b + launch.batchSize * Address(launch.transB, l, col, launch.ldb)
InterleavedC(b, row, col) == b + launch.batchSize * (row + col * launch.ldc)

\* A lane of one of an item's packets is named by its distance from the item's
\* first batch.
Lanes == {q * PacketStride + p : q \in 0 .. Packets - 1, p \in 0 .. launch.packet - 1}
PacketOf(lane) == lane \div PacketStride
PacketStart(lane) == lane - (lane % launch.packet)

\* Mutant: the packets are not checked against the number of batches.
LoadsAnyLane(index, size, lane) == block.internal \/ index < size

\* load: at an edge the element and each lane of a packet are checked, or the
\* packet as a whole when mb_start, added twice, leaves it among the batches.
LoadsLane(index, size, lane) ==
    \/ block.internal
    \/ /\ index < size
       /\ \/ 2 * block.batch + PacketStart(lane) + launch.packet - 1 < launch.batchSize
          \/ block.batch + lane < launch.batchSize

\* How many of an item's rows, or columns, are inside of C.
Within(start, item, size) == IF start + item <= size THEN item ELSE size - start
RowsIn == Within(block.row, launch.itemRows, launch.m)
ColsIn == Within(block.col, launch.itemCols, launch.n)

\* Of a row or column that is outside load sets one register to zero, though each
\* has as many as there are packets: with several, the last keep what they held.
LeftOut(i, lane, inside, item) ==
    /\ i >= inside
    /\ i * Packets + PacketOf(lane) >= inside * Packets + (item - inside)

\* The registers, lane by lane.
RegA(r, lane) ==
    IF LoadsLane(block.row + r, launch.m, lane)
    THEN FromA(InterleavedA(block.batch + lane, block.row + r, KDone))
    ELSE IF LeftOut(r, lane, RowsIn, launch.itemRows) THEN Garbage ELSE Zero
RegB(j, lane) ==
    IF LoadsLane(block.col + j, launch.n, lane)
    THEN FromB(InterleavedB(block.batch + lane, KDone, block.col + j))
    ELSE IF LeftOut(j, lane, ColsIn, launch.itemCols) THEN Garbage ELSE Zero

\* The lanes of the elements of C that an item stores: <<column, row, lane>>.
StoredAt(group, item) ==
    LET p == Place(group, item)
    IN {x \in RegCols \X RegRows \X Lanes :
          p.internal \/ (/\ p.row + x[2] < launch.m /\ p.col + x[1] < launch.n
                         /\ p.batch + x[3] < launch.batchSize)}

Stored == StoredAt(launch.group, launch.item)
AddressOfC(x) == InterleavedC(block.batch + x[3], block.row + x[2], block.col + x[1])

\* The lanes of the elements that are inside of C, among the batches or not.
Inside ==
    {x \in RegCols \X RegRows \X Lanes :
        block.row + x[2] < launch.m /\ block.col + x[1] < launch.n}

\* The accumulators that scaling_c and store have for one of these, named after
\* what compute_block has them for.  Of an element outside they skip one register,
\* so that with several packets those of the columns that follow are shifted.
RegisterOf(x) ==
    LET ofColumn == RowsIn * Packets + (launch.itemRows - RowsIn)
        number == x[1] * ofColumn + x[2] * Packets + PacketOf(x[3])
        element == number \div Packets
    IN <<element \div launch.itemRows, element % launch.itemRows,
         (number % Packets) * PacketStride + (x[3] % launch.packet)>>

\* A launch whose items have one packet, or skip nothing before an element of C.
SkipsFit(l) ==
    \/ l.itemBatchs = l.packet
    \/ l.m % l.itemRows = 0
    \/ 1 \in {l.itemCols, l.n}

\* scaling_c.  Lanes beyond the last batch are zero; registers that are skipped
\* are not initialised.
ScaledInto(register) ==
    IF launch.betaZero THEN Nothing
    ELSE IF \E y \in Stored : RegisterOf(y) = register
         THEN Scaled(AddressOfC(CHOOSE y \in Stored : RegisterOf(y) = register))
    ELSE IF \E y \in Inside : RegisterOf(y) = register THEN Nothing
    ELSE Uninitialised
ScalingC ==
    [x \in RegCols \X RegRows |-> [lane \in Lanes |-> ScaledInto(<<x[1], x[2], lane>>)]]

Init ==
    /\ launch \in Launches
    /\ launch.group \in Groups /\ launch.item \in Items
    /\ block = Place(launch.group, launch.item)
    /\ pc = IF OutOfRange(block) THEN "done" ELSE "run"
    /\ batch = block.batch
    /\ k = launch.k
    /\ regRes = ScalingC
    /\ c = [a \in {} |-> Nothing]

\* compute_block for one step of K.
Compute ==
    /\ pc = "run" /\ k > 0
    /\ regRes' = [x \in RegCols \X RegRows |-> [lane \in Lanes |->
                     Mad(<<<<RegA(x[2], lane), RegB(x[1], lane)>>>>, regRes[x][lane])]]
    /\ k' = k - 1
    /\ UNCHANGED <<launch, block, pc, batch, c>>

Accumulated(x) == LET y == RegisterOf(x) IN regRes[<<y[1], y[2]>>][y[3]]

StoreOf(stored) ==
    /\ pc = "run" /\ k = 0
    /\ c' = [a \in {AddressOfC(x) : x \in stored} |->
               Accumulated(CHOOSE x \in stored : AddressOfC(x) = a)]
    /\ pc' = "done"
    /\ UNCHANGED <<launch, block, batch, k, regRes>>

\* Mutant: a lane beyond the last batch is stored with the others.
StoreWholePackets == StoreOf({<<x[1], x[2], lane>> : x \in Stored, lane \in Lanes})

\* store.
Store == StoreOf(Stored)

Next == Compute \/ Store

-------------------------------------------------------------------------------
(***************************************************************************)
(* Properties                                                              *)
(***************************************************************************)

\* No load is of an element outside the matrices or of a batch that is not
\* there, though the check of a whole packet adds the first batch twice.
LoadsInBounds ==
    (pc = "run" /\ k > 0) =>
        \A lane \in Lanes :
            /\ \A r \in RegRows : LoadsLane(block.row + r, launch.m, lane) =>
                  block.row + r < launch.m /\ block.batch + lane < launch.batchSize
            /\ \A j \in RegCols : LoadsLane(block.col + j, launch.n, lane) =>
                  block.col + j < launch.n /\ block.batch + lane < launch.batchSize

\* The elements that an item computes.
ItemShare(group, item) ==
    LET p == Place(group, item)
    IN IF OutOfRange(p) THEN {}
       ELSE {<<p.batch + x[3], p.row + x[2], p.col + x[1]>> :
                x \in StoredAt(group, item)}

\* An item that has returned has stored its elements and nothing else, each
\* with all its products once and from its own batch.
ItemExact ==
    pc = "done" =>
        LET share == ItemShare(launch.group, launch.item)
            C(e) == InterleavedC(e[1], e[2], e[3])
        IN /\ DOMAIN c = {C(e) : e \in share}
           /\ \A e \in share : c[C(e)] =
                 Product(launch.betaZero, C(e),
                         {<<InterleavedA(e[1], e[2], l), InterleavedB(e[1], l, e[3])>> :
                             l \in 0 .. launch.k - 1})

\* Every element of every C is the share of one work-item of the launch.
SharesPartitionC ==
    pc = "done" =>
        LET shares == [x \in Groups \X Items |-> ItemShare(x[1], x[2])]
        IN \A e \in Elements :
              Cardinality({x \in DOMAIN shares : e \in shares[x]}) = 1
================================================================================
