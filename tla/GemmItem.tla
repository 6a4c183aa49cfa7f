-------------------------------- MODULE GemmItem --------------------------------
(***************************************************************************)
(* What the GEMM kernels without local memory have in common.  Their       *)
(* work-items share nothing, so that one of them, any of any group, is the *)
(* whole system: it keeps its accumulators in registers, goes through K,   *)
(* stores its elements of C and goes on to its next batch.                 *)
(*                                                                         *)
(* "launch" never changes: template arguments, sizes, the number of        *)
(* compute units, and the ids of the group and of the item.                *)
(***************************************************************************)
EXTENDS GemmProduct, TLC

CONSTANT Launches   \* the launches to consider

GemmItemAssumption ==
    \A l \in Launches :
        /\ {l.wgRows, l.wgCols, l.itemRows, l.itemCols, l.packet,
            l.m, l.n, l.batchSize, l.computeUnits} \subseteq Nat \ {0}
        /\ l.k \in Nat
        /\ {l.lda, l.ldb, l.ldc} \subseteq Nat
        /\ l.lda >= (IF l.transA THEN l.k ELSE l.m)
        /\ l.ldb >= (IF l.transB THEN l.n ELSE l.k)
        /\ l.ldc >= l.m

VARIABLES launch,
          block,      \* where its part of C is: fixed by eval before its loops
          pc,         \* "run" until the item returns
          batch,      \* the batch it works on
          k,          \* how much of K is left
          regRes,     \* its accumulators
          c           \* the cells of C that it has stored

vars == <<launch, block, pc, batch, k, regRes, c>>

BlockRows == launch.wgRows * launch.itemRows
BlockCols == launch.wgCols * launch.itemCols
BlocksPerRow == DivUp(launch.m, BlockRows)

RegRows == 0 .. launch.itemRows - 1
RegCols == 0 .. launch.itemCols - 1

\* The step of K that the next product is for.
KDone == launch.k - k

ASize == IF launch.transA THEN launch.m * launch.lda ELSE launch.k * launch.lda
BSize == IF launch.transB THEN launch.ldb * launch.k ELSE launch.n * launch.ldb
CSize == launch.ldc * launch.n

\* Strided batches: each matrix is whole and they follow each other.
StridedA(b, row, l) == b * ASize + Address(launch.transA, row, l, launch.lda)
StridedB(b, l, col) == b * BSize + Address(launch.transB, l, col, launch.ldb)
StridedC(b, row, col) == b * CSize + row + col * launch.ldc

\* The elements of a call: <<batch, row, column>>.
Elements ==
    (0 .. launch.batchSize - 1) \X (0 .. launch.m - 1) \X (0 .. launch.n - 1)

\* beta * C + op(A) * op(B) at an element, with its addresses.
Product(beta0, addressC, addressesAB) ==
    [c |-> IF beta0 THEN {} ELSE {addressC},
     of |-> {<<FromA(p[1]), FromB(p[2])>> : p \in addressesAB},
     once |-> TRUE]

StridedProduct(e) ==
    Product(launch.betaZero, StridedC(e[1], e[2], e[3]),
            {<<StridedA(e[1], e[2], l), StridedB(e[1], l, e[3])>> :
                l \in 0 .. launch.k - 1})

TypeOK ==
    /\ pc \in {"run", "done"}
    /\ batch \in Nat
    /\ k \in 0 .. launch.k
    /\ \A j \in DOMAIN regRes : \A r \in DOMAIN regRes[j] :
          IsAccumulator(regRes[j][r])
    /\ DOMAIN c \subseteq 0 .. launch.batchSize * CSize - 1
================================================================================
