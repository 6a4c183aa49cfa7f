------------------------------- MODULE GemmKernels -------------------------------
(***************************************************************************)
(* The GEMM kernels.  A behaviour is one work-group of a kernel with local *)
(* memory, or one work-item of a kernel without, in a launch of one of     *)
(* them; the kernel is part of the launch.                                 *)
(***************************************************************************)
EXTENDS Integers, TLC

CONSTANTS WgRows, WgCols,   \* the shape of a work-group of the kernels with
                            \* local memory
          LocalLaunches, TallSkinnyLaunches,
          FullVecLaunches, PartialVecLaunches, InterleavedLaunches, RefLaunches

VARIABLES launch, block, pc, barriers, waiting, batch, k, tile, buffer, ofs,
          regRes, scratch, c

vars == <<launch, block, pc, barriers, waiting, batch, k, tile, buffer, ofs,
          regRes, scratch, c>>

Item == 0 .. WgRows * WgCols - 1

-------------------------------------------------------------------------------
(***************************************************************************)
(* The kernels                                                             *)
(***************************************************************************)

L == INSTANCE GemmLocal WITH Launches <- LocalLaunches
T == INSTANCE GemmPartialLocal WITH Launches <- TallSkinnyLaunches
F == INSTANCE GemmFullVec WITH Launches <- FullVecLaunches
P == INSTANCE GemmPartialVec WITH Launches <- PartialVecLaunches
I == INSTANCE GemmInterleaved WITH Launches <- InterleavedLaunches
R == INSTANCE GemmRef WITH Launches <- RefLaunches

\* A launch names its kernel.
KernelsAssumption ==
    /\ \A l \in LocalLaunches : l.kernel = "local"
    /\ \A l \in TallSkinnyLaunches : l.kernel = "tallSkinny"
    /\ \A l \in FullVecLaunches : l.kernel = "fullVec"
    /\ \A l \in PartialVecLaunches : l.kernel = "partialVec"
    /\ \A l \in InterleavedLaunches : l.kernel = "interleaved"
    /\ \A l \in RefLaunches : l.kernel = "ref"

GemmKernelsAssumption ==
    /\ KernelsAssumption
    /\ L!GemmLocalAssumption
    /\ T!GemmPartialAssumption
    /\ F!GemmItemAssumption /\ F!FullVecAssumption
    /\ P!GemmItemAssumption /\ P!PartialVecAssumption
    /\ I!GemmItemAssumption /\ I!InterleavedAssumption
    /\ R!GemmItemAssumption /\ R!RefAssumption

ASSUME GemmKernelsAssumption

Runs(kernel) == launch.kernel = kernel

\* Variables that the kernel of the launch has no use for are zero.
WithoutLocalMemory ==
    /\ barriers = 0 /\ waiting = 0 /\ tile = 0
    /\ buffer = 0 /\ ofs = 0 /\ scratch = 0

Init ==
    \/ L!Init /\ tile = 0
    \/ T!Init /\ block = 0 /\ batch = 0 /\ k = 0 /\ buffer = 0 /\ ofs = 0
    \/ F!Init /\ WithoutLocalMemory
    \/ P!Init /\ WithoutLocalMemory
    \/ I!Init /\ WithoutLocalMemory
    \/ R!Init /\ WithoutLocalMemory

WithoutLocal == UNCHANGED <<barriers, waiting, tile, buffer, ofs, scratch>>

GroupStep(i) ==
    \/ Runs("local") /\ L!Step(i) /\ UNCHANGED tile
    \/ Runs("tallSkinny") /\ T!Step(i) /\ UNCHANGED <<block, batch, k, buffer, ofs>>

ItemStep ==
    \/ Runs("fullVec") /\ F!Next /\ WithoutLocal
    \/ Runs("partialVec") /\ P!Next /\ WithoutLocal
    \/ Runs("interleaved") /\ I!Next /\ WithoutLocal
    \/ Runs("ref") /\ R!Next /\ WithoutLocal

Returned ==
    IF Runs("local") \/ Runs("tallSkinny") THEN \A i \in Item : pc[i] = "done"
    ELSE pc = "done"

Finished == Returned /\ UNCHANGED vars

Next == (\E i \in Item : GroupStep(i)) \/ ItemStep \/ Finished

\* A device does not stop while some work-item of a group can go on.
Fairness == WF_vars((\E i \in Item : GroupStep(i)) \/ ItemStep)

Spec == Init /\ [][Next]_vars /\ Fairness

-------------------------------------------------------------------------------
(***************************************************************************)
(* Properties: each kernel's own, stated in its module                     *)
(***************************************************************************)

\* The type invariants.
TypeOK ==
    /\ Runs("local") => L!TypeOK
    /\ Runs("tallSkinny") => T!TypeOK
    /\ Runs("fullVec") => F!TypeOK
    /\ Runs("partialVec") => P!TypeOK
    /\ Runs("interleaved") => I!TypeOK
    /\ Runs("ref") => R!TypeOK

\* In the kernels with local memory, no work-item writes a cell that another
\* may be reading or writing, however far it runs ahead.
NoLocalRace ==
    /\ Runs("local") => L!NoLocalRace
    /\ Runs("tallSkinny") => T!NoLocalRace

\* No load leaves the matrices, in the kernels whose checks look at the index
\* that is loaded.
LoadsInBounds ==
    /\ Runs("local") => L!LoadsInBounds
    /\ Runs("tallSkinny") => T!LoadsInBounds
    /\ Runs("partialVec") => P!LoadsInBounds
    /\ Runs("interleaved") => I!LoadsInBounds

\* "Check that the last element of the packet loaded is in range", in the
\* kernel with full vectorisation.
FullVecLoadsInBounds == Runs("fullVec") => F!LoadsInBounds

\* A work-group that is done has stored its share of C, or of the cube of
\* partial products, and nothing else, each element with all its products once.
BlockExact ==
    /\ Runs("local") => L!BlockExact
    /\ Runs("tallSkinny") => T!BlockExact

\* So has a work-item of a kernel without local memory, in all its batches.
ItemExact ==
    /\ Runs("fullVec") => F!ItemExact
    /\ Runs("partialVec") => P!ItemExact
    /\ Runs("interleaved") => I!ItemExact
    /\ Runs("ref") => R!ItemExact

\* The groups, or the items, of a launch share out every C without overlap; of
\* the tall and skinny kernel, also K.
SharesPartitionC ==
    /\ Runs("local") => L!SharesPartitionC
    /\ Runs("tallSkinny") => T!SharesPartitionC
    /\ Runs("fullVec") => F!SharesPartitionC
    /\ Runs("partialVec") => P!SharesPartitionC
    /\ Runs("interleaved") => I!SharesPartitionC
    /\ Runs("ref") => R!SharesPartitionC

\* Every work-item returns, past every barrier.
Termination == <>Returned
================================================================================
