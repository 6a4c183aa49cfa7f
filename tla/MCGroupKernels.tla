----------------------------- MODULE MCGroupKernels -----------------------------
(***************************************************************************)
(* The launches of GroupKernels for TLC.                                   *)
(***************************************************************************)
EXTENDS GroupKernels

CONSTANTS MaxRows, MaxCols, MaxCount, Units   \* of the row reduction

B == INSTANCE Blas2Launches

-------------------------------------------------------------------------------
(***************************************************************************)
(* The BLAS 2 kernels, in the launches of the BLAS 2 calls                 *)
(***************************************************************************)

Default == [cols |-> 0, memory |-> 0]

\* GEMV: one group and several in either direction, the last ones partial.
SmallGemvs ==
    {B!GemvLaunch(local, trans, d[1], d[2], d[1] + 1, 2 * cl, cl) :
        local \in BOOLEAN, trans \in BOOLEAN, cl \in {1, 2},
        d \in {<<3, 5>>, <<5, 3>>, <<2, 1>>}}

\* A transposed column of 1024 floats as the R-Car back-end launches it: a group
\* has half as many items as a cache line has elements.
NarrowGemvs == {B!BackendGemv("rcar", TRUE, 1024, 1, 4)}

\* TRMV and SYMV, with the default sizes and with blocks of x that are smaller
\* than what a group has of it.
TriangleCalls ==
    {B!TrmvLaunch(upper, trans, unit, n, localSz, s) :
        upper \in BOOLEAN, trans \in BOOLEAN, unit \in BOOLEAN, n \in {1, 3, 5},
        localSz \in {2}, s \in {Default, [cols |-> 3, memory |-> 2]}}
      \cup {B!TrmvLaunch(upper, TRUE, unit, 5, 4, [cols |-> 0, memory |-> 8]) :
               upper \in BOOLEAN, unit \in BOOLEAN}
      \cup UNION {B!SymvLaunches(upper, n, 2, s) : upper \in BOOLEAN, n \in {3, 4},
                     s \in {Default, [cols |-> 3, memory |-> 2]}}

UpdateCalls ==
    UNION {{B!GerLaunch(5, 3, 2, s), B!GerLaunch(1, 5, 2, s),
            B!SyrLaunch(TRUE, 4, 2, s), B!SyrLaunch(FALSE, 3, 2, s),
            B!Syr2Launch(TRUE, 3, 2, s), B!Syr2Launch(FALSE, 5, 2, s)} :
              s \in {Default, [cols |-> 2, memory |-> 2]}}

\* Each of the groups of a call's launches of a kernel.
GroupsOf(c) ==
    IF c.kernel = "gemv" THEN 0 .. c.groupRange - 1
    ELSE 0 .. c.nWGRow * c.nWGCol - 1
Launched(calls, kernel) ==
    UNION {{c @@ [group |-> g] : g \in GroupsOf(c)} :
              c \in {x \in calls : x.kernel = kernel}}

SmallGemvLaunches == Launched(SmallGemvs, "gemv")
NarrowGemvLaunches == Launched(NarrowGemvs, "gemv")
TriangleRowLaunches == Launched(TriangleCalls, "gemvRow")
TriangleColLaunches == Launched(TriangleCalls, "gemvCol")
UpdateLaunches == Launched(UpdateCalls, "gerCol")

-------------------------------------------------------------------------------
(***************************************************************************)
(* The row reduction: the launches of get_nd_range on a device of Units    *)
(* compute units, for two shapes of work-group: blocks of two rows, whose  *)
(* bottom group may have work-items without a row, and rows of four        *)
(* columns, whose tree has two levels.                                     *)
(***************************************************************************)

Shapes == {<<2, 2>>, <<1, 4>>}

\* get_workgroup_cluster and get_num_workgroup_cluster.
Cluster(wgRows, rows, count) == ((rows - 1) \div wgRows + 1) * count
NumClusters(wgRows, rows, count) ==
    (4 * Units - 1) \div Cluster(wgRows, rows, count) + 1

Matrices(shape) ==
    [kernel : {"partialRows"}, wgRows : {shape[1]}, wgCols : {shape[2]},
     rows : 1 .. MaxRows, cols : 0 .. (MaxCols + shape[2]), count : 1 .. MaxCount,
     group : 0 .. MaxRows * MaxCount * 4 * Units]

\* The work-groups that the output has room for ...
UsefulRows ==
    UNION {{l \in Matrices(s) : l.group < Cluster(l.wgRows, l.rows, l.count)} :
               s \in Shapes}

\* ... and all that get_nd_range asks for.
AllRows ==
    UNION {{l \in Matrices(s) :
               l.group < Cluster(l.wgRows, l.rows, l.count)
                         * NumClusters(l.wgRows, l.rows, l.count)} :
               s \in Shapes}

-------------------------------------------------------------------------------
(***************************************************************************)
(* The inversion of a diagonal block: every regular triangle modulo P, in  *)
(* the first block of a matrix or in the second, whole or cut off by the   *)
(* end of the matrix.                                                      *)
(***************************************************************************)

\* n, with the block to invert: a whole block, one cut off after one row, and one
\* after two.
Sizes == {<<3, 0>>, <<1, 0>>, <<5, 1>>}

InTriangle(upper, i, j) == IF upper THEN i <= j ELSE i >= j

\* The triangles of a block of "live" rows; with "unit" the diagonal holds ones.
Triangles(upper, unit, live) ==
    LET cells == {c \in (0 .. live - 1) \X (0 .. live - 1) :
                     InTriangle(upper, c[1], c[2])}
        off == {c \in cells : c[1] # c[2]}
    IN {[c \in cells |-> IF c \in off THEN o[c] ELSE d[c[1]]] :
           o \in [off -> Number],
           d \in [0 .. live - 1 -> IF unit THEN {1} ELSE Number \ {0}]}

\* The cells of A: the triangle in its block, and nothing that may be read
\* anywhere else.
Cells(n, lda, block, triangle) ==
    [a \in 0 .. lda * n - 1 |->
        LET c == <<(a % lda) - block * BlockSize,
                   (a \div lda) - block * BlockSize>>
        IN IF c \in DOMAIN triangle THEN triangle[c] ELSE Undefined]

LiveRows(n, block) == Min({BlockSize, n - block * BlockSize})

AllTriangles ==
    UNION {{[kernel |-> "inverter", unit |-> unit, upper |-> upper, n |-> s[1],
             lda |-> s[1] + 1, block |-> s[2],
             a |-> Cells(s[1], s[1] + 1, s[2], t)] :
               t \in Triangles(upper, unit, LiveRows(s[1], s[2]))} :
           unit \in BOOLEAN, upper \in BOOLEAN, s \in Sizes}
================================================================================
