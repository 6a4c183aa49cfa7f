------------------------------ MODULE GroupKernels ------------------------------
(***************************************************************************)
(* One work-group of the kernels that work in local memory, other than     *)
(* GEMM and the full reduction: the BLAS 2 kernels, the row reduction and  *)
(* the inversion of a diagonal block.  A behaviour is one work-group of    *)
(* one launch; the kernel is part of the launch.                           *)
(***************************************************************************)
EXTENDS PrimeField, TLC

CONSTANTS GemvLaunches, RowLaunches, ColLaunches, GerLaunches,
          PartialRowsLaunches, InverterLaunches,
          MaxItems, BarrierForgives,   \* of the row reduction
          BlockSize                    \* of the inverter

VARIABLES launch, pc, waiting, barriers, pos, offset, rhs, acc, scratch, out

vars == <<launch, pc, waiting, barriers, pos, offset, rhs, acc, scratch, out>>

-------------------------------------------------------------------------------
(***************************************************************************)
(* The kernels                                                             *)
(***************************************************************************)

G == INSTANCE Gemv WITH Launches <- GemvLaunches
W == INSTANCE GemvRow WITH Launches <- RowLaunches
C == INSTANCE GemvCol WITH Launches <- ColLaunches
E == INSTANCE GerCol WITH Launches <- GerLaunches
R == INSTANCE PartialRows
        WITH Launches <- PartialRowsLaunches, elemCol <- pos, val <- acc,
             stride <- offset
D == INSTANCE DiagonalBlocksInverter
        WITH Launches <- InverterLaunches, atBarrier <- waiting, column <- pos,
             sum <- acc, local <- scratch, invA <- out

\* A launch names its kernel.
KernelsAssumption ==
    /\ \A l \in GemvLaunches : l.kernel = "gemv"
    /\ \A l \in RowLaunches : l.kernel = "gemvRow"
    /\ \A l \in ColLaunches : l.kernel = "gemvCol"
    /\ \A l \in GerLaunches : l.kernel = "gerCol"
    /\ \A l \in PartialRowsLaunches : l.kernel = "partialRows"
    /\ \A l \in InverterLaunches : l.kernel = "inverter"

\* The sizes of a BLAS 2 launch.
GroupSizes(l) == l.localSz \in Nat \ {0} /\ l.group \in Nat
TriangleSizes(l) ==
    /\ GroupSizes(l)
    /\ {l.dimR, l.dimC, l.nWGRow, l.nWGCol} \subseteq Nat \ {0}
    /\ l.localMemory \in Nat

\* Both the work-items of a group and the elements of a cache line are powers
\* of two in every back-end, so one of the two is a multiple of the other.
Blas2Assumption ==
    /\ \A l \in GemvLaunches :
          /\ GroupSizes(l)
          /\ l.clElems \in Nat \ {0} /\ l.lda \in Nat
          /\ l.localSz % l.clElems = 0 \/ l.localSz < l.clElems
    /\ \A l \in RowLaunches : TriangleSizes(l)
    /\ \A l \in ColLaunches : TriangleSizes(l)
    /\ \A l \in GerLaunches : TriangleSizes(l)

GroupKernelsAssumption ==
    /\ KernelsAssumption
    /\ Blas2Assumption
    /\ R!PartialRowsAssumption
    /\ D!InverterAssumption

\* How many groups a BLAS 2 call launches for its sizes, of which this is one, and
\* how many columns of partial dot products it then adds up (Blas2Launches).
GemvGrid(l) ==
    LET nc == IF l.trans THEN l.n ELSE l.m
        c == IF l.trans THEN l.m ELSE l.n
    IN /\ {l.m, l.n} \subseteq Nat \ {0}
       /\ l.wgsPerC = IF l.local THEN G!DivUp(c, l.localSz) ELSE 1
       /\ l.columns = l.wgsPerC
       /\ l.groupRange = l.wgsPerC * G!DivUp(nc, l.localSz)
       /\ l.group < l.groupRange
Blas2Grids ==
    /\ \A l \in GemvLaunches : GemvGrid(l)
    /\ \A l \in RowLaunches \cup ColLaunches : l.columns = l.nWGCol
    /\ \A l \in ColLaunches :
          /\ l.group < l.nWGRow * l.nWGCol
          /\ \E cols \in 1 .. l.dimC : l.nWGCol = C!DivUp(l.dimC, cols)
    /\ \A l \in GerLaunches :
          l.dimR < l.localSz => l.dimC <= l.localSz * l.nWGCol

ASSUME GroupKernelsAssumption
ASSUME Blas2Grids

Runs(kernel) == launch.kernel = kernel

\* Variables that a kernel has no use for are zero.
Init ==
    \/ G!Init /\ rhs = 0
    \/ W!Init /\ rhs = 0
    \/ C!Init /\ rhs = 0
    \/ E!Init /\ rhs = 0
    \/ R!Init /\ waiting = 0
    \/ D!Init /\ offset = 0 /\ rhs = 0

Step(i) ==
    \/ Runs("gemv") /\ G!Step(i) /\ UNCHANGED rhs
    \/ Runs("gemvRow") /\ W!Step(i) /\ UNCHANGED rhs
    \/ Runs("gemvCol") /\ C!Step(i) /\ UNCHANGED rhs
    \/ Runs("gerCol") /\ E!Step(i) /\ UNCHANGED rhs
    \/ Runs("partialRows") /\ R!Step(i) /\ UNCHANGED waiting
    \/ Runs("inverter") /\ D!Step(i) /\ UNCHANGED <<offset, rhs>>

Returned == \A i \in DOMAIN pc : pc[i] = "done"

Finished == Returned /\ UNCHANGED vars

Next == (\E i \in DOMAIN pc : Step(i)) \/ Finished

\* A device does not stop while some work-item of a group can go on.
Fairness == WF_vars(\E i \in DOMAIN pc : Step(i))

Spec == Init /\ [][Next]_vars /\ Fairness

-------------------------------------------------------------------------------
(***************************************************************************)
(* Properties: each kernel's own, stated in its module                     *)
(***************************************************************************)

TypeOK ==
    /\ Runs("gemv") => G!TypeOK
    /\ Runs("gemvRow") => W!TypeOK
    /\ Runs("gemvCol") => C!TypeOK
    /\ Runs("gerCol") => E!TypeOK
    /\ Runs("partialRows") => R!TypeOK
    /\ Runs("inverter") => D!TypeOK

\* No work-item writes a cell of local memory that another may be reading or
\* writing, however far one of them runs ahead.
NoLocalRace ==
    /\ Runs("gemv") => G!NoLocalRace
    /\ Runs("gemvRow") => W!NoLocalRace
    /\ Runs("gemvCol") => C!NoLocalRace
    /\ Runs("gerCol") => E!NoLocalRace
    /\ Runs("partialRows") => R!NoScratchRace
    /\ Runs("inverter") => D!NoLocalRace

\* A group of a BLAS 2 kernel that is done has written its share of the output
\* and nothing else, each product in it once, whatever order its items ran in.
BlockExact ==
    /\ Runs("gemv") => G!BlockExact
    /\ Runs("gemvRow") => W!BlockExact
    /\ Runs("gemvCol") => C!BlockExact
    /\ Runs("gerCol") => E!BlockExact

\* The groups of a BLAS 2 launch share out the matrix, and leave no cell of the
\* temporary that is then summed unwritten.
SharesPartitionOutput ==
    /\ Runs("gemv") => G!SharesPartitionOutput
    /\ Runs("gemvRow") => W!SharesPartitionOutput
    /\ Runs("gemvCol") => C!SharesPartitionOutput
    /\ Runs("gerCol") => E!SharesPartitionOutput

\* The cells that a group of the row reduction writes are exact, and are in the
\* output.
CellsExact == Runs("partialRows") => R!CellsExact
OutputFits == Runs("partialRows") => R!OutputFits

\* The work-items of a group of the row reduction stay together: none returns
\* while others are at a barrier.
GroupSynchronizes == Runs("partialRows") => R!GroupSynchronizes

\* What the inverter writes is the inverse of its block.
InverseExact == Runs("inverter") => D!InverseExact

\* Every work-item returns, past every barrier, and every row of a group of the
\* row reduction has got its cell.
Termination == <>(Returned /\ (Runs("partialRows") => R!CellsWritten))
================================================================================
