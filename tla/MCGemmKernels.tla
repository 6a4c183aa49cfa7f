----------------------------- MODULE MCGemmKernels -----------------------------
(***************************************************************************)
(* The launches of GemmKernels for TLC.  The sizes are such that matrices  *)
(* end with a block or a panel or inside one, and that there are more      *)
(* batches than groups side by side, or fewer.                             *)
(***************************************************************************)
EXTENDS GemmKernels

\* The template arguments of the two kernels with local memory: packets,
\* buffers, padding and, for the first, the shape of tiles of blocks.
LocalKernel(item, tl, doubleBuffer, nbc) ==
    [kernel |-> "local",
     itemRows |-> item, itemCols |-> item, packet |-> item,
     tlRows |-> tl, tlCols |-> tl, clElems |-> 2,
     doubleBuffer |-> doubleBuffer, nbcA |-> nbc, nbcB |-> nbc]
LocalKernels ==
    {LocalKernel(1, 1, TRUE, FALSE), LocalKernel(1, 2, FALSE, TRUE),
     LocalKernel(2, 1, TRUE, TRUE), LocalKernel(2, 1, FALSE, FALSE)}

TallSkinnyKernel(item, doubleBuffer, nbc) ==
    [kernel |-> "tallSkinny",
     itemRows |-> item, itemCols |-> item, clElems |-> 2,
     doubleBuffer |-> doubleBuffer, nbcA |-> nbc, nbcB |-> nbc]
TallSkinnyKernels ==
    {TallSkinnyKernel(1, TRUE, TRUE), TallSkinnyKernel(2, FALSE, FALSE)}

\* The ones without: the shapes of a group and of an item, and the packet.
ItemKernel(kernel, wgRows, wgCols, itemRows, itemCols, packet) ==
    [kernel |-> kernel, wgRows |-> wgRows, wgCols |-> wgCols, wgBatchs |-> 2,
     itemRows |-> itemRows, itemCols |-> itemCols, packet |-> packet]
FullVecKernels ==
    {ItemKernel("fullVec", 2, 2, 2, 2, 2), ItemKernel("fullVec", 1, 2, 2, 1, 1)}
PartialVecKernels ==
    {ItemKernel("partialVec", 1, 1, 4, 4, 2), ItemKernel("partialVec", 2, 1, 1, 2, 1)}

\* The kernel for interleaved batches: one packet an item or, as ARM has it, two.
InterleavedKernel(wgRows, wgCols, itemRows, itemCols, packet, itemBatchs) ==
    ItemKernel("interleaved", wgRows, wgCols, itemRows, itemCols, packet)
        @@ [itemBatchs |-> itemBatchs]
InterleavedKernels ==
    {InterleavedKernel(2, 1, 1, 2, 2, 2), InterleavedKernel(1, 2, 2, 1, 1, 2),
     InterleavedKernel(2, 1, 2, 2, 2, 4)}

RefKernels ==
    {ItemKernel("ref", 4, 1, 1, 1, 1), ItemKernel("ref", 3, 1, 1, 1, 1)}

\* m, n, k and the number of batches, or, for the tall and skinny kernel, of
\* groups along K.
Sizes == {<<3, 2, 3, 3>>, <<5, 4, 4, 1>>, <<2, 3, 1, 3>>}
TallSkinnySizes == {<<3, 2, 5, 1>>, <<2, 3, 3, 3>>, <<5, 2, 5, 2>>}
ItemSizes == {<<3, 2, 3, 3>>, <<5, 6, 4, 1>>, <<4, 4, 1, 5>>}

Call(s, transA, transB) ==
    [m |-> s[1], n |-> s[2], k |-> s[3], transA |-> transA, transB |-> transB,
     betaZero |-> transA = transB,
     lda |-> (IF transA THEN s[3] ELSE s[1]) + 1,
     ldb |-> (IF transB THEN s[2] ELSE s[3]),
     ldc |-> s[1] + 1]

\* No launch of these sizes has more groups, or more items in one.
MaxGroup == 11
MaxItem == 3

LaunchesOf(kernels, sizes, Parts(_)) ==
    {kernel @@ Call(s, transA, transB) @@ part :
        kernel \in kernels, transA \in BOOLEAN, transB \in BOOLEAN,
        <<s, part>> \in UNION {{<<x, y>> : y \in Parts(x)} : x \in sizes}}

GroupsOf(s) ==
    {[batchSize |-> s[4], computeUnits |-> 1, group |-> g] : g \in 0 .. MaxGroup}
SlicesOf(s) ==
    {[depth |-> s[4], final |-> s[4] = 1, group |-> g] : g \in 0 .. MaxGroup}
ItemsOf(s) ==
    {[batchSize |-> s[4], computeUnits |-> 1, group |-> g, item |-> i] :
        g \in 0 .. MaxGroup, i \in 0 .. MaxItem}

SmallLocalLaunches == LaunchesOf(LocalKernels, Sizes, GroupsOf)
SmallTallSkinnyLaunches == LaunchesOf(TallSkinnyKernels, TallSkinnySizes, SlicesOf)
ItemLaunches(kernels) == LaunchesOf(kernels, ItemSizes, ItemsOf)
SmallFullVecLaunches == ItemLaunches(FullVecKernels)
SmallPartialVecLaunches == ItemLaunches(PartialVecKernels)

\* SkipsFit of the kernel for interleaved batches: no n is one here.
FitsSkips(l) ==
    l.itemBatchs = l.packet \/ l.m % l.itemRows = 0 \/ l.itemCols = 1

SmallInterleavedLaunches ==
    {l \in ItemLaunches(InterleavedKernels) : FitsSkips(l)}
SmallRefLaunches == ItemLaunches(RefKernels)

\* The others: items with two packets at the last rows of C.
ShiftedInterleavedLaunches ==
    {l \in ItemLaunches(InterleavedKernels) : ~FitsSkips(l)}
================================================================================
