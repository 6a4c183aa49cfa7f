------------------------- MODULE MCReductionExecutor -------------------------
(***************************************************************************)
(* ReductionExecutor for TLC.                                              *)
(***************************************************************************)
EXTENDS ReductionExecutor

\* Sizes around every boundary of a launch of "grid" work-items: none, one,
\* less than a block, whole blocks, and a second trip of the kernel's loop
\* over the grid (which takes 2 * grid elements a trip).
SizesFor(local, grid) ==
    {0, 1, local, 2 * local + 1, grid, 2 * grid, 2 * grid + local + 1}

\* What the BLAS 1 interface asks for.
InterfaceCalls ==
    UNION {[local : {l}, grid : {InterfaceGrid(l)},
            size : SizesFor(l, InterfaceGrid(l)),
            scr : BOOLEAN, mayThrow : BOOLEAN] : l \in {1, 2, 4, 8}}

\* Grids of one launch to four, the temporaries taking turns.
ManyLaunches ==
    [local : {1, 2}, grid : {4, 10, 12, 17}, size : {0, 9, 33}, scr : BOOLEAN,
     mayThrow : {FALSE}]

\* The same with failing submissions.
ManyFailures ==
    [local : {2}, grid : {10, 17}, size : {33}, scr : BOOLEAN, mayThrow : {TRUE}]

AllCalls == InterfaceCalls \cup ManyLaunches \cup ManyFailures
================================================================================
