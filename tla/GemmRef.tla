-------------------------------- MODULE GemmRef --------------------------------
(***************************************************************************)
(* A work-item of the reference GEMM kernel                                *)
(* (src/operations/blas3/gemm_ref.hpp): one element of C, in its own batch *)
(* and in every batch_stride-th after it.  The loops count down k_ and     *)
(* batch_size_, members of the item's own copy of the kernel.              *)
(***************************************************************************)
EXTENDS GemmItem

\* One element an item; a work-group is a row of items.
RefAssumption ==
    \A l \in Launches : l.itemRows = 1 /\ l.itemCols = 1 /\ l.wgCols = 1

WgSize == launch.wgRows

\* get_workgroup_cluster, get_num_workgroup_cluster and get_nd_range.
WorkgroupCluster == DivUp(launch.m * launch.n, WgSize)
NumWorkgroupCluster == DivUp(4 * launch.computeUnits, WorkgroupCluster)
Groups == 0 .. WorkgroupCluster * NumWorkgroupCluster - 1
Items == 0 .. WgSize - 1

WgBatchId(group) == group \div WorkgroupCluster
BatchStride == NumWorkgroupCluster

ItemId(group, item) == (group % WorkgroupCluster) * WgSize + item
Row(group, item) == ItemId(group, item) % launch.m
Col(group, item) == ItemId(group, item) \div launch.m

\* Whether an item has anything to do.
Works(group, item) ==
    /\ WgBatchId(group) < launch.batchSize
    /\ ItemId(group, item) < launch.m * launch.n


RegRes(r) == [j \in RegCols |-> [i \in RegRows |-> r]]

Init ==
    /\ launch \in Launches
    /\ launch.group \in Groups /\ launch.item \in Items
    /\ block = [row |-> Row(launch.group, launch.item),
                col |-> Col(launch.group, launch.item)]
    /\ pc = IF Works(launch.group, launch.item) THEN "run" ELSE "done"
    /\ batch = WgBatchId(launch.group)
    /\ k = launch.k
    /\ regRes = RegRes(Nothing)
    /\ c = [a \in {} |-> Nothing]

\* One step of K.
Compute ==
    /\ pc = "run" /\ k > 0
    /\ regRes' = RegRes(Mad(<<<<FromA(StridedA(batch, block.row, KDone)),
                               FromB(StridedB(batch, KDone, block.col))>>>>,
                            regRes[0][0]))
    /\ k' = k - 1
    /\ UNCHANGED <<launch, block, pc, batch, c>>

\* Mutant: k_ is left at zero.
StoreAndKeepK ==
    /\ pc = "run" /\ k = 0
    /\ LET address == StridedC(batch, block.row, block.col)
       IN c' = Over([a \in {address} |-> [regRes[0][0] EXCEPT
                                !.c = IF launch.betaZero THEN {} ELSE {a}]],
                    c)
    /\ batch' = batch + BatchStride
    /\ regRes' = RegRes(Nothing)
    /\ pc' = IF batch' < launch.batchSize THEN "run" ELSE "done"
    /\ UNCHANGED <<launch, block, k>>

\* alpha * reg_res, with beta * C unless beta is zero, and the next batch.
Store ==
    /\ pc = "run" /\ k = 0
    /\ LET address == StridedC(batch, block.row, block.col)
       IN c' = Over([a \in {address} |-> [regRes[0][0] EXCEPT
                                !.c = IF launch.betaZero THEN {} ELSE {a}]],
                    c)
    /\ batch' = batch + BatchStride
    /\ k' = launch.k
    /\ regRes' = RegRes(Nothing)
    /\ pc' = IF batch' < launch.batchSize THEN "run" ELSE "done"
    /\ UNCHANGED <<launch, block>>

Next == Compute \/ Store

-------------------------------------------------------------------------------
(***************************************************************************)
(* Properties                                                              *)
(***************************************************************************)

\* The elements that an item computes, in all its batches.
ItemShare(group, item) ==
    {e \in Elements :
        /\ Works(group, item)
        /\ e[1] >= WgBatchId(group)
        /\ (e[1] - WgBatchId(group)) % BatchStride = 0
        /\ e[2] = Row(group, item) /\ e[3] = Col(group, item)}

\* An item that has returned has stored its elements and nothing else, each
\* with all its products once, in every batch it came to.
ItemExact ==
    pc = "done" =>
        LET share == ItemShare(launch.group, launch.item)
        IN /\ DOMAIN c = {StridedC(e[1], e[2], e[3]) : e \in share}
           /\ \A e \in share : c[StridedC(e[1], e[2], e[3])] = StridedProduct(e)

\* Every element of every C is the share of one work-item of the launch.
SharesPartitionC ==
    pc = "done" =>
        LET shares == [x \in Groups \X Items |-> ItemShare(x[1], x[2])]
        IN \A e \in Elements :
              Cardinality({x \in DOMAIN shares : e \in shares[x]}) = 1
================================================================================
