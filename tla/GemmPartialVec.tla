----------------------------- MODULE GemmPartialVec -----------------------------
(***************************************************************************)
(* A work-item of the GEMM kernel without local memory and with partial    *)
(* vectorisation (src/operations/blas3/gemm_no_local_partial_vec.hpp).  It *)
(* goes through K one step at a time; of A and B, each is loaded in        *)
(* packets only if the packets lie along M or N in memory.                 *)
(***************************************************************************)
EXTENDS GemmItem

PartialVecAssumption ==
    \A l \in Launches :
        /\ l.wgCols * l.itemCols = l.wgRows * l.itemRows
        /\ l.itemRows % l.packet = 0 /\ l.itemCols % l.packet = 0

\* get_workgroup_cluster, get_num_workgroup_cluster and get_nd_range.
WorkgroupCluster == BlocksPerRow * DivUp(launch.n, BlockCols)
NumWorkgroupCluster == DivUp(4 * launch.computeUnits, WorkgroupCluster)
Groups == 0 .. WorkgroupCluster * NumWorkgroupCluster - 1
Items == 0 .. launch.wgRows * launch.wgCols - 1

WgBatchId(group) == group \div WorkgroupCluster
BatchStride == NumWorkgroupCluster

\* Where an item's part of C starts, and the packets of A and of B.
Place(group, item) ==
    LET wgId == group % WorkgroupCluster
        wgRow == (wgId % BlocksPerRow) * BlockRows
        wgCol == (wgId \div BlocksPerRow) * BlockCols
        internal == launch.m - wgRow >= BlockRows /\ launch.n - wgCol >= BlockCols
        aPacket == IF internal /\ ~launch.transA THEN launch.packet ELSE 1
        bPacket == IF internal /\ launch.transB THEN launch.packet ELSE 1
    IN [internal |-> internal, aPacket |-> aPacket, bPacket |-> bPacket,
        row |-> wgRow + (item % launch.wgRows) * aPacket,
        col |-> wgCol + (item \div launch.wgRows) * bPacket]

OutOfRange == block.row >= launch.m \/ block.col >= launch.n

\* A register stands for an element of a packet; packets are a work-group apart.
Spread(start, wg, packet, r) == start + (r \div packet) * wg * packet + (r % packet)
RowOf(p, r) == Spread(p.row, launch.wgRows, p.aPacket, r)
ColOf(p, j) == Spread(p.col, launch.wgCols, p.bPacket, j)

\* boundary_check_c: the registers of an item whose elements are in C.
StoredAt(group, item) ==
    LET p == Place(group, item)
    IN {x \in RegCols \X RegRows :
          p.internal \/ (RowOf(p, x[2]) < launch.m /\ ColOf(p, x[1]) < launch.n)}

Stored == StoredAt(launch.group, launch.item)
AddressOfC(b, x) == StridedC(b, RowOf(block, x[2]), ColOf(block, x[1]))

\* Mutant: a packet is loaded wherever its first element is.
InRangeIfTheFirstIs(start, wg, packet, size, r) == block.internal \/ start < size

\* load: a packet is loaded when its last element is in the matrix.
InRange(start, wg, packet, size, r) ==
    block.internal \/ start + (r \div packet) * wg * packet + packet - 1 < size

LoadsA(r) == InRange(block.row, launch.wgRows, block.aPacket, launch.m, r)
LoadsB(j) == InRange(block.col, launch.wgCols, block.bPacket, launch.n, j)

RegA(r) ==
    IF OutOfRange THEN Garbage
    ELSE IF LoadsA(r) THEN FromA(StridedA(batch, RowOf(block, r), KDone)) ELSE Zero
RegB(j) ==
    IF OutOfRange THEN Garbage
    ELSE IF LoadsB(j) THEN FromB(StridedB(batch, KDone, ColOf(block, j))) ELSE Zero

\* scaling_c for batch b: an accumulator outside C stays uninitialised.
ScalingC(b) ==
    [j \in RegCols |-> [r \in RegRows |->
        IF launch.betaZero THEN Nothing
        ELSE IF OutOfRange \/ <<j, r>> \notin Stored THEN Uninitialised
        ELSE Scaled(AddressOfC(b, <<j, r>>))]]

Init ==
    /\ launch \in Launches
    /\ launch.group \in Groups /\ launch.item \in Items
    /\ block = Place(launch.group, launch.item)
    /\ pc = IF WgBatchId(launch.group) < launch.batchSize THEN "run" ELSE "done"
    /\ batch = WgBatchId(launch.group)
    /\ k = launch.k
    /\ regRes = ScalingC(WgBatchId(launch.group))
    /\ c = [a \in {} |-> Nothing]

\* compute_block_gemm_no_shared.
Multiplied ==
    [j \in RegCols |-> [r \in RegRows |->
        Mad(<<<<RegA(r), RegB(j)>>>>, regRes[j][r])]]

\* The loads of one step of K and their product.
Compute ==
    /\ pc = "run" /\ k > 0
    /\ regRes' = Multiplied
    /\ k' = k - 1
    /\ UNCHANGED <<launch, block, pc, batch, c>>

\* What store leaves in C: alpha_ times the accumulators.
StoredC ==
    IF OutOfRange THEN c
    ELSE Over([a \in {AddressOfC(batch, x) : x \in Stored} |->
                 LET x == CHOOSE y \in Stored : AddressOfC(batch, y) = a
                 IN regRes[x[1]][x[2]]],
              c)

\* Mutant: K is not started again for the next batch.
StoreAndKeepK ==
    /\ pc = "run" /\ k = 0
    /\ c' = StoredC
    /\ batch' = batch + BatchStride
    /\ regRes' = ScalingC(batch')
    /\ pc' = IF batch' < launch.batchSize THEN "run" ELSE "done"
    /\ UNCHANGED <<launch, block, k>>

\* store, and the next batch, if any, with scaling_c for it.
Store ==
    /\ pc = "run" /\ k = 0
    /\ c' = StoredC
    /\ batch' = batch + BatchStride
    /\ k' = launch.k
    /\ regRes' = ScalingC(batch')
    /\ pc' = IF batch' < launch.batchSize THEN "run" ELSE "done"
    /\ UNCHANGED <<launch, block>>

Next == Compute \/ Store

-------------------------------------------------------------------------------
(***************************************************************************)
(* Properties                                                              *)
(***************************************************************************)

\* No load leaves the matrices: at an edge every index is checked on its own.
LoadsInBounds ==
    (pc = "run" /\ k > 0 /\ ~OutOfRange) =>
        /\ \A r \in RegRows : LoadsA(r) => RowOf(block, r) < launch.m
        /\ \A j \in RegCols : LoadsB(j) => ColOf(block, j) < launch.n

\* The elements that an item computes, in all its batches.
ItemShare(group, item) ==
    LET p == Place(group, item)
    IN {e \in Elements :
          /\ p.row < launch.m /\ p.col < launch.n
          /\ e[1] >= WgBatchId(group)
          /\ (e[1] - WgBatchId(group)) % BatchStride = 0
          /\ \E x \in StoredAt(group, item) :
                e[2] = RowOf(p, x[2]) /\ e[3] = ColOf(p, x[1])}

\* An item that has returned has stored its elements and nothing else, each
\* with all its products once.
ItemExact ==
    pc = "done" =>
        LET share == ItemShare(launch.group, launch.item)
        IN /\ DOMAIN c = {StridedC(e[1], e[2], e[3]) : e \in share}
           /\ \A e \in share : c[StridedC(e[1], e[2], e[3])] = StridedProduct(e)

\* Every element of every C is the share of one work-item of the launch.
SharesPartitionC ==
    pc = "done" =>
        LET shares == [x \in Groups \X Items |-> ItemShare(x[1], x[2])]
        IN \A e \in Elements :
              Cardinality({x \in DOMAIN shares : e \in shares[x]}) = 1
================================================================================
