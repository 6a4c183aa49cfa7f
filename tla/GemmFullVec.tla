------------------------------ MODULE GemmFullVec ------------------------------
(***************************************************************************)
(* A work-item of the GEMM kernel without local memory and with full       *)
(* vectorisation (src/operations/blas3/gemm_no_local_full_vec.hpp).  In a  *)
(* block inside C it moves packets of A, of B and of C and multiplies a    *)
(* packet of K at a time; in a block at an edge all packets are of one     *)
(* element and the rows and columns of an item are spread over the block.  *)
(***************************************************************************)
EXTENDS GemmItem

\* The static_asserts of the kernel: when it is vectorised an item computes a
\* square of one packet.
FullVecAssumption ==
    \A l \in Launches :
        /\ l.wgCols * l.itemCols = l.wgRows * l.itemRows
        /\ l.itemRows % l.packet = 0 /\ l.itemCols % l.packet = 0
        /\ l.packet = 1 \/ (l.itemRows = l.packet /\ l.itemCols = l.packet)

\* get_workgroup_cluster, get_num_workgroup_cluster and get_nd_range.
WorkgroupCluster == BlocksPerRow * DivUp(launch.n, BlockCols)
NumWorkgroupCluster == DivUp(4 * launch.computeUnits, WorkgroupCluster)
Groups == 0 .. WorkgroupCluster * NumWorkgroupCluster - 1
Items == 0 .. launch.wgRows * launch.wgCols - 1

\* Mutant: every group starts with the first batch.
WgBatchIdIsZero(group) == 0

WgBatchId(group) == group \div WorkgroupCluster
BatchStride == NumWorkgroupCluster

\* Where an item's part of C starts, and whether its block is inside C.
Place(group, item) ==
    LET wgId == group % WorkgroupCluster
        wgRow == (wgId % BlocksPerRow) * BlockRows
        wgCol == (wgId \div BlocksPerRow) * BlockCols
        internal == /\ launch.packet # 1
                    /\ launch.m - wgRow >= BlockRows
                    /\ launch.n - wgCol >= BlockCols
        vectorOfs == IF internal THEN launch.packet ELSE 1
    IN [internal |-> internal,
        packet |-> vectorOfs,
        row |-> wgRow + (item % launch.wgRows) * vectorOfs,
        col |-> wgCol + (item \div launch.wgRows)
                          * (IF launch.transB THEN vectorOfs ELSE 1)]

OutOfRange == block.row >= launch.m \/ block.col >= launch.n

\* The row and the column of C that a register stands for.
RowOf(p, r) == p.row + (r \div p.packet) * launch.wgRows * p.packet + (r % p.packet)
ColOf(p, j) ==
    p.col + j * (IF p.internal /\ launch.transB THEN 1 ELSE launch.wgCols)

\* boundary_check_c: the registers of an item whose elements are in C.
StoredAt(group, item) ==
    LET p == Place(group, item)
    IN {x \in RegCols \X RegRows :
          p.internal \/ (RowOf(p, x[2]) < launch.m /\ ColOf(p, x[1]) < launch.n)}

Stored == StoredAt(launch.group, launch.item)
AddressOfC(b, x) == StridedC(b, RowOf(block, x[2]), ColOf(block, x[1]))

\* Mutant: the last packet of K is loaded whole.
InKNotChecked(t) == TRUE

\* Whether step t of the packet of K at hand is there: in the last, partial one
\* it may not be.
InK(t) == k >= block.packet \/ t < k

\* load_block_a.  At an edge the first row alone is looked at when A is not
\* transposed.
LoadsA(r, t) ==
    /\ \/ block.internal
       \/ block.row + (IF launch.transA THEN r * launch.wgRows ELSE 0) < launch.m
    /\ InK(t)

\* load_single_b.  At an edge the first column alone is looked at when B is
\* transposed.
LoadsB(j, t) ==
    /\ \/ block.internal
       \/ block.col + (IF launch.transB THEN 0 ELSE j * launch.wgCols) < launch.n
    /\ InK(t)

\* The registers after the loads.
RegA(r, t) ==
    IF OutOfRange THEN Garbage
    ELSE IF LoadsA(r, t) THEN FromA(StridedA(batch, RowOf(block, r), KDone + t))
    ELSE Zero
RegB(j, t) ==
    IF OutOfRange THEN Garbage
    ELSE IF LoadsB(j, t) THEN FromB(StridedB(batch, KDone + t, ColOf(block, j)))
    ELSE Zero

\* scaling_c for batch b: an accumulator outside C stays uninitialised.
ScalingC(b) ==
    [j \in RegCols |-> [r \in RegRows |->
        IF launch.betaZero THEN Nothing
        ELSE IF OutOfRange \/ <<j, r>> \notin Stored THEN Uninitialised
        ELSE Scaled(AddressOfC(b, <<j, r>>))]]

Init ==
    /\ launch \in Launches
    /\ launch.group \in Groups /\ launch.item \in Items
    /\ block = Place(launch.group, launch.item)
    /\ pc = IF WgBatchId(launch.group) < launch.batchSize THEN "run" ELSE "done"
    /\ batch = WgBatchId(launch.group)
    /\ k = launch.k
    /\ regRes = ScalingC(WgBatchId(launch.group))
    /\ c = [a \in {} |-> Nothing]

\* compute_block_gemm_no_shared, for all the partial blocks of B.
Multiplied ==
    [j \in RegCols |-> [r \in RegRows |->
        Mad([t \in 0 .. block.packet - 1 |-> <<RegA(r, t), RegB(j, t)>>],
            regRes[j][r])]]

\* load_and_compute_block, for a packet of K or for what is left of it.
Compute ==
    /\ pc = "run" /\ k > 0
    /\ regRes' = Multiplied
    /\ k' = Max({k - block.packet, 0})
    /\ UNCHANGED <<launch, block, pc, batch, c>>

\* What store leaves in C: alpha_ times the accumulators.
StoredC ==
    IF OutOfRange THEN c
    ELSE Over([a \in {AddressOfC(batch, x) : x \in Stored} |->
                 LET x == CHOOSE y \in Stored : AddressOfC(batch, y) = a
                 IN regRes[x[1]][x[2]]],
              c)

\* Mutant: the accumulators are not scaled again for the next batch.
StoreAndKeepResult ==
    /\ pc = "run" /\ k = 0
    /\ c' = StoredC
    /\ batch' = batch + BatchStride
    /\ k' = launch.k
    /\ pc' = IF batch' < launch.batchSize THEN "run" ELSE "done"
    /\ UNCHANGED <<launch, block, regRes>>

\* store, and the next batch, if any, with scaling_c for it.
Store ==
    /\ pc = "run" /\ k = 0
    /\ c' = StoredC
    /\ batch' = batch + BatchStride
    /\ k' = launch.k
    /\ regRes' = ScalingC(batch')
    /\ pc' = IF batch' < launch.batchSize THEN "run" ELSE "done"
    /\ UNCHANGED <<launch, block>>

Next == Compute \/ Store

-------------------------------------------------------------------------------
(***************************************************************************)
(* Properties                                                              *)
(***************************************************************************)

\* The addresses of the loads that are made are elements of the matrices of the
\* batch at hand.
LoadsInBounds ==
    (pc = "run" /\ k > 0 /\ ~OutOfRange) =>
        \A t \in 0 .. block.packet - 1 :
            /\ \A r \in RegRows : LoadsA(r, t) =>
                  RowOf(block, r) < launch.m /\ KDone + t < launch.k
            /\ \A j \in RegCols : LoadsB(j, t) =>
                  ColOf(block, j) < launch.n /\ KDone + t < launch.k

\* The elements that an item computes, in all its batches.
ItemShare(group, item) ==
    LET p == Place(group, item)
    IN {e \in Elements :
          /\ p.row < launch.m /\ p.col < launch.n
          /\ e[1] >= WgBatchId(group)
          /\ (e[1] - WgBatchId(group)) % BatchStride = 0
          /\ \E x \in StoredAt(group, item) :
                e[2] = RowOf(p, x[2]) /\ e[3] = ColOf(p, x[1])}

\* An item that has returned has stored its elements and nothing else, each
\* with all its products once, whatever packets they were loaded in and
\* whatever else was loaded beyond the edge.
ItemExact ==
    pc = "done" =>
        LET share == ItemShare(launch.group, launch.item)
        IN /\ DOMAIN c = {StridedC(e[1], e[2], e[3]) : e \in share}
           /\ \A e \in share : c[StridedC(e[1], e[2], e[3])] = StridedProduct(e)

\* Every element of every C is the share of one work-item of the launch.
SharesPartitionC ==
    pc = "done" =>
        LET shares == [x \in Groups \X Items |-> ItemShare(x[1], x[2])]
        IN \A e \in Elements :
              Cardinality({x \in DOMAIN shares : e \in shares[x]}) = 1
================================================================================
