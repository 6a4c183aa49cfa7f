------------------------------ MODULE LibraryKernels ------------------------------
(***************************************************************************)
(* The kernels that each BLAS call submits, in their order, and what each  *)
(* one does to memory: src/interface/blas1_interface.hpp (element-wise     *)
(* calls), blas2_interface.hpp and gemm_interface.hpp, the specialisations *)
(* for GEMM of src/executors/executor_sycl.hpp, and the copies of          *)
(* src/policy/sycl_policy_handler.hpp.                                     *)
(*                                                                         *)
(* An element-wise kernel has its work-items here.  The kernels that work  *)
(* in groups are one step each: modules Gemv to GerCol and GemmLocal to    *)
(* PartialRows show that their groups, in any order, amount to that step.  *)
(***************************************************************************)
EXTENDS ExpressionTrees, Sequences

CONSTANTS LocalSize,         \* the size of a work-group
          ComputeUnits,      \* get_num_compute_units
          TileM, TileN,      \* the tile of the tall and skinny kernel
          TileK,
          TallSkinnyAbove    \* 2048 in the code

B2 == INSTANCE Blas2Launches

Default == [cols |-> 0, memory |-> 0]

(***************************************************************************)
(* A kernel: what it is, the buffers it has accessors to, its work-items.  *)
(* A call is its kernels and the sizes of the temporaries it makes.        *)
(***************************************************************************)

TreeKernel(t) ==
    [kind |-> "tree", tree |-> t, items |-> Items(t, LocalSize),
     reads |-> Bound(t), writes |-> Bound(t)]

Group(kind, buffers, fields) ==
    [kind |-> kind, args |-> fields, items |-> {0},
     reads |-> buffers, writes |-> buffers]

NoTemps == [b \in {} |-> 0]

OneTree(t) == [temps |-> NoTemps, kernels |-> <<TreeKernel(t)>>]

-------------------------------------------------------------------------------
(***************************************************************************)
(* BLAS 1                                                                  *)
(***************************************************************************)

Vx(c) == VectorView(c.x, c.incx, c.n)
Vy(c) == VectorView(c.y, c.incy, c.n)

Axpy(c) == OneTree(Assign(Vy(c), Add(Vy(c), ScalarProduct(c.alpha, Vx(c)))))

Copy(c) == OneTree(Assign(Vy(c), Vx(c)))

Swap(c) == OneTree(DoubleAssign(Vy(c), Vx(c), Vx(c), Vy(c)))

\* With alpha = 0 what the vector holds does not count, even if it is a NaN.
ScalTree(it, n, alpha, inc) ==
    LET vx == VectorView(it, inc, n)
    IN Assign(vx, IF alpha = 0 THEN AdditionIdentity(vx) ELSE ScalarProduct(alpha, vx))

Scal(c) == OneTree(ScalTree(c.x, c.n, c.alpha, c.incx))

Rot(c) ==
    OneTree(DoubleAssign(Vx(c), Vy(c),
        Add(ScalarProduct(c.cos, Vx(c)), ScalarProduct(c.sin, Vy(c))),
        Add(ScalarProduct(Minus(c.sin), Vx(c)), ScalarProduct(c.cos, Vy(c)))))

-------------------------------------------------------------------------------
(***************************************************************************)
(* BLAS 2                                                                  *)
(***************************************************************************)

\* A matrix-vector product into the columns of a temporary, each the sum over
\* "width" columns of the part of the matrix that the launch has.
Dots(out, a, x, width, l) ==
    Group("dots", {out.buffer, a.buffer, x.buffer},
          [out |-> out, a |-> a, x |-> x, width |-> width, lower |-> l.lower,
           diag |-> l.diag, upper |-> l.upper, unit |-> l.unit])

Whole == [lower |-> TRUE, diag |-> TRUE, upper |-> TRUE, unit |-> FALSE]

\* The temporary called name of call number k, and a view of all of it.
Temporary(k, name, rows, cols, ld, colMajor) ==
    MatrixView(Iterator(<<name, k>>, rows * cols), rows, cols, ld, colMajor)

TempSizes(views) ==
    [b \in {v.buffer : v \in views} |->
        LET v == CHOOSE u \in views : u.buffer = b IN v.rows * v.cols]

\* _gemv_impl.  A transposed product reads the matrix by rows.
Gemv(c, k) ==
    LET cDim == IF c.trans THEN c.m ELSE c.n
        ld == IF c.trans THEN c.n ELSE c.m
        columns == IF c.local THEN B2!DivUp(cDim, LocalSize) ELSE 1
        dots == Temporary(k, "dots", ld, columns, ld, TRUE)
        a == MatrixView(c.a, ld, cDim, c.lda, ~c.trans)
        vx == VectorView(c.x, c.incx, cDim)
        vy == VectorView(c.y, c.incy, ld)
        product == ScalarProduct(c.alpha, IF c.local THEN SumMatrixColumns(dots)
                                                     ELSE dots)
    IN [temps |-> TempSizes({dots}),
        kernels |-> <<Dots(dots, a, vx, IF c.local THEN LocalSize ELSE cDim, Whole),
                      TreeKernel(Assign(vy, IF c.beta = 0 THEN product
                                   ELSE Add(ScalarProduct(c.beta, vy), product)))>>]

\* A triangle of an n x n matrix: by columns, or by rows of its transpose.
TriangleDots(l, c, k, name) ==
    LET byColumns == l.kernel = "gemvCol"
        mat == Temporary(k, name, c.n, l.columns, l.columns, FALSE)
    IN [mat |-> mat,
        kernel |-> Dots(mat, MatrixView(c.a, c.n, c.n, c.lda, byColumns),
                        Vx(c), IF byColumns THEN LocalSize ELSE c.n, l)]

Trmv(c, k) ==
    LET d == TriangleDots(B2!TrmvLaunch(c.upper, c.trans, c.unit, c.n, LocalSize,
                                        Default), c, k, "mat1")
    IN [temps |-> TempSizes({d.mat}),
        kernels |-> <<d.kernel, TreeKernel(Assign(Vx(c), SumMatrixColumns(d.mat)))>>]

\* _symv_impl: also with beta = 0, y is read.
Symv(c, k) ==
    LET launches == B2!SymvLaunches(c.upper, c.n, LocalSize, Default)
        Launch(kernel) == CHOOSE l \in launches : l.kernel = kernel
        dC == TriangleDots(Launch("gemvCol"), c, k, "matC")
        dR == TriangleDots(Launch("gemvRow"), c, k, "matR")
        sum == Add(SumMatrixColumns(dR.mat), SumMatrixColumns(dC.mat))
    IN [temps |-> TempSizes({dC.mat, dR.mat}),
        kernels |-> <<dC.kernel, dR.kernel,
                      TreeKernel(Assign(Vy(c), Add(ScalarProduct(c.beta, Vy(c)),
                                                   ScalarProduct(c.alpha, sum))))>>]

\* A rank 1 or rank 2 update of the part of a matrix that the launch has.
Update(l, c, m, x, y) ==
    [temps |-> NoTemps,
     kernels |-> <<Group("update", {c.a.buffer, x.buffer, y.buffer},
                         [a |-> MatrixView(c.a, m, c.n, c.lda, TRUE),
                          alpha |-> c.alpha, x |-> x, y |-> y, single |-> l.single,
                          lower |-> l.lower, diag |-> l.diag, upper |-> l.upper])>>]

Ger(c) == Update(B2!GerLaunch(c.m, c.n, LocalSize, Default), c, c.m,
                 VectorView(c.x, c.incx, c.m), Vy(c))
Syr(c) == Update(B2!SyrLaunch(c.upper, c.n, LocalSize, Default), c, c.n, Vx(c), Vx(c))
Syr2(c) ==
    Update(B2!Syr2Launch(c.upper, c.n, LocalSize, Default), c, c.n, Vx(c), Vy(c))

-------------------------------------------------------------------------------
(***************************************************************************)
(* Which GEMM kernel a back-end launches (src/interface/blas3/backend).    *)
(* The library is built for one back-end.  A kernel is named after its     *)
(* module here; its tile sizes are parameters there and are left out, and  *)
(* so are the presets of single networks on ARM and the IMGDNN library.    *)
(***************************************************************************)

DefaultCpu(c) ==
    IF c.m <= 128 /\ c.n <= 128 /\ c.k <= 128 THEN "GemmFullVec"
                                              ELSE "GemmPartialVec"

Rcar(c) == "GemmLocal"

NvidiaGpu(c) == "GemmLocal"

ArmGpu(c) == "GemmPartialVec"

AmdGpu(c) ==
    IF /\ c.batches = 1
       /\ \/ c.k > 8192 /\ c.m <= 1024 /\ c.n <= 1024
          \/ c.k > 1024 /\ c.m <= 256 /\ c.n <= 256
    THEN "tall_skinny" ELSE "GemmLocal"

\* Mutant: batches are not looked at.
IntelTallSkinnyBatches(c) ==
    \/ c.k >= 4096 /\ c.m * c.n <= 16384
    \/ c.k >= 1024 /\ c.m * c.n <= 4096
    \/ c.transA
    \/ c.transB /\ c.m * c.n > 1048576

IntelTallSkinny(c) ==
    /\ c.batches = 1
    /\ \/ c.k >= 4096 /\ c.m * c.n <= 16384
       \/ c.k >= 1024 /\ c.m * c.n <= 4096
       \/ c.transA
       \/ c.transB /\ c.m * c.n > 1048576

IntelGpu(c) ==
    IF IntelTallSkinny(c) THEN "tall_skinny"
    ELSE IF (c.m > 128 \/ c.n > 128) /\ c.transB /\ ~c.transA THEN "GemmPartialVec"
    ELSE "GemmLocal"

PowerVr(c) ==
    IF <<c.m, c.k, c.n>> \in {<<546, 128, 1>>, <<546, 256, 1>>} THEN "GemmFullVec"
                                                               ELSE "GemmLocal"

Backends == {"default_cpu", "rcar", "nvidia_gpu", "arm_gpu", "amd_gpu",
             "intel_gpu", "power_vr"}

\* _gemm: every back-end turns to the interleaved kernel first.
GemmKernel(backend, c) ==
    IF c.interleaved THEN "GemmInterleaved"
    ELSE CASE backend = "default_cpu" -> DefaultCpu(c)
           [] backend = "rcar" -> Rcar(c)
           [] backend = "nvidia_gpu" -> NvidiaGpu(c)
           [] backend = "arm_gpu" -> ArmGpu(c)
           [] backend = "amd_gpu" -> AmdGpu(c)
           [] backend = "intel_gpu" -> IntelGpu(c)
           [] backend = "power_vr" -> PowerVr(c)

-------------------------------------------------------------------------------
(***************************************************************************)
(* GEMM                                                                    *)
(***************************************************************************)

\* A launch that writes all of C, or of as many batches of it.  It is exact, as
\* the kernels are but the interleaved one with several packets of batches an
\* item, which only ARM's back-end has.
GemmLaunch(c, batches, interleaved) ==
    Group("gemm", {c.a.buffer, c.b.buffer, c.c.buffer},
          [c EXCEPT !.batches = batches, !.interleaved = interleaved])

\* get_ideal_cube_depth
CubeDepth(c) ==
    LET groupCountMn == B2!DivUp(c.m, TileM) * B2!DivUp(c.n, TileN)
    IN (4 * ComputeUnits - 1) \div groupCountMn + 1

\* Mutant: the copy from the temporary to C does not wait for the reduction.
ReduceUnbound(from, to) ==
    [Group("sumColumns", {}, [from |-> from, to |-> to]) EXCEPT !.reads = {from.buffer}]

\* The reduction of the columns of a matrix, its rows laid out as "to".
Reduce(from, to) ==
    Group("sumColumns", {from.buffer, to.buffer}, [from |-> from, to |-> to])

\* execute(Gemm<..., tall_skinny>): one batch, whatever batch_size is.
TallSkinny(c, k) ==
    LET depth == CubeDepth(c)
        area == c.m * c.n
        buffer == Temporary(k, "cube", area, depth, area, TRUE)
        temp == Temporary(k, "temp", c.m, c.n, c.m, TRUE)
        vc == MatrixView(c.c, c.m, c.n, c.ldc, TRUE)
        partial == Group("partial", {c.a.buffer, c.b.buffer, buffer.buffer},
                         [call |-> c, cube |-> buffer, depth |-> depth])
        from == IF c.beta = 0 THEN temp ELSE Add(temp, ScalarProduct(c.beta, vc))
    IN IF depth = 1 \/ c.k <= TallSkinnyAbove
       THEN [temps |-> NoTemps, kernels |-> <<GemmLaunch(c, 1, FALSE)>>]
       ELSE IF c.beta = 0 /\ c.ldc = c.m
       THEN [temps |-> TempSizes({buffer}), kernels |-> <<partial, Reduce(buffer, vc)>>]
       ELSE [temps |-> TempSizes({buffer, temp}),
             kernels |-> <<partial, Reduce(buffer, temp), TreeKernel(Assign(vc, from))>>]

\* Mutant: the columns of the batches after the first are forgotten.
AlphaZeroFirstBatch(c) ==
    LET Column(j) == TreeKernel(ScalTree(Ahead(c.c, j * c.ldc), c.m, c.beta, 1))
    IN [temps |-> NoTemps,
        kernels |-> [j \in 1 .. c.n |-> Column(j - 1)]]

\* _gemm_backend with alpha = 0: C is scaled as a whole, or column by column.
AlphaZero(c) ==
    LET Column(j) == TreeKernel(ScalTree(Ahead(c.c, j * c.ldc), c.m, c.beta, 1))
    IN IF c.ldc = c.m THEN OneTree(ScalTree(c.c, c.n * c.m * c.batches, c.beta, 1))
       ELSE [temps |-> NoTemps,
             kernels |-> [j \in 1 .. c.batches * c.n |-> Column(j - 1)]]

\* _gemm_backend, in a library built for one of the back-ends.
Gemm(c, k, backend) ==
    LET kernel == GemmKernel(backend, c)
    IN CASE c.alpha = 0 -> AlphaZero(c)
         [] c.alpha # 0 /\ kernel = "tall_skinny" -> TallSkinny(c, k)
         [] OTHER -> [temps |-> NoTemps,
                      kernels |-> <<GemmLaunch(c, c.batches, kernel = "GemmInterleaved")>>]

-------------------------------------------------------------------------------
(***************************************************************************)
(* Copies between the host and the device, and what a call amounts to      *)
(***************************************************************************)

\* Copies of n elements: cgh.copy between a buffer and a host array, cgh.fill.
CopyToDevice(c) ==
    [temps |-> NoTemps,
     kernels |-> <<[kind |-> "toDevice", args |-> c, items |-> {0},
                    reads |-> {}, writes |-> {c.x.buffer}]>>]
CopyToHost(c) ==
    [temps |-> NoTemps,
     kernels |-> <<[kind |-> "toHost", args |-> c, items |-> {0},
                    reads |-> {c.x.buffer}, writes |-> {}]>>]
Fill(c) ==
    [temps |-> NoTemps,
     kernels |-> <<[kind |-> "fill", args |-> c, items |-> {0},
                    reads |-> {}, writes |-> {c.x.buffer}]>>]

Refused == [temps |-> NoTemps, kernels |-> <<>>]

\* The calls that throw std::invalid_argument.  The characters are looked at
\* only if alpha # 0 in GEMM, and one wrong one of two passes in TRMV.
Throws(c) ==
    CASE c.op = "trmv" -> {"uplo", "diag"} \subseteq c.wrong
      [] c.op = "symv" -> "uplo" \in c.wrong
      [] c.op = "gemm" -> c.alpha # 0 /\ c.wrong # {}
      [] OTHER -> FALSE

\* What call number k submits.
Kernels(c, k, backend) ==
    IF Throws(c) THEN Refused
    ELSE CASE c.op = "axpy" -> Axpy(c)
           [] c.op = "copy" -> Copy(c)
           [] c.op = "swap" -> Swap(c)
           [] c.op = "scal" -> Scal(c)
           [] c.op = "rot" -> Rot(c)
           [] c.op = "gemv" -> Gemv(c, k)
           [] c.op = "trmv" -> Trmv(c, k)
           [] c.op = "symv" -> Symv(c, k)
           [] c.op = "ger" -> Ger(c)
           [] c.op = "syr" -> Syr(c)
           [] c.op = "syr2" -> Syr2(c)
           [] c.op = "gemm" -> Gemm(c, k, backend)
           [] c.op = "toDevice" -> CopyToDevice(c)
           [] c.op = "toHost" -> CopyToHost(c)
           [] c.op = "fill" -> Fill(c)

-------------------------------------------------------------------------------
(***************************************************************************)
(* What a kernel does to memory                                            *)
(***************************************************************************)

\* The values at some addresses of a buffer are replaced.
Put(memory, buffer, values) ==
    [memory EXCEPT ![buffer] =
        [a \in DOMAIN @ |-> IF a \in DOMAIN values THEN values[a] ELSE @[a]]]

\* The addresses that "At" gives the members of a set, with a value for each.
ValuesAt(S, Where(_), Value(_)) ==
    [a \in {Where(s) : s \in S} |-> Value(CHOOSE s \in S : Where(s) = a)]

MatrixPlaces(v) == (0 .. v.rows - 1) \X (0 .. v.cols - 1)

Entry(memory, v, i, j) == At(memory, v.buffer, MatrixAt(v, i, j))
VectorEntry(memory, v, i) == At(memory, v.buffer, VectorAt(v, i))

InTriangle(l, i, j) == \/ l.diag /\ i = j
                       \/ l.lower /\ i > j
                       \/ l.upper /\ i < j

AfterDots(memory, g) ==
    LET Columns(p) == {j \in p[2] * g.width .. (p[2] + 1) * g.width - 1 :
                          j < g.a.cols /\ InTriangle(g, p[1], j)}
        Where(p) == MatrixAt(g.out, p[1], p[2])
        Value(p) ==
            LET Term(j) == Times(IF g.unit /\ p[1] = j THEN 1
                                 ELSE Entry(memory, g.a, p[1], j),
                                 VectorEntry(memory, g.x, j))
            IN SumOf(Columns(p), Term)
    IN Put(memory, g.out.buffer, ValuesAt(MatrixPlaces(g.out), Where, Value))

AfterUpdate(memory, g) ==
    LET Where(p) == MatrixAt(g.a, p[1], p[2])
        Product(i, j) == Times(VectorEntry(memory, g.x, i), VectorEntry(memory, g.y, j))
        Value(p) ==
            Plus(Entry(memory, g.a, p[1], p[2]),
                 Times(g.alpha, IF g.single THEN Product(p[1], p[2])
                                ELSE Plus(Product(p[1], p[2]), Product(p[2], p[1]))))
        Updated == {p \in MatrixPlaces(g.a) : InTriangle(g, p[1], p[2])}
    IN Put(memory, g.a.buffer, ValuesAt(Updated, Where, Value))

\* The address of an element of one matrix of a batch.
BatchAt(g, it, ld, cols, i, j, batch) ==
    it.offset + (IF g.interleaved THEN (i + j * ld) * g.batches + batch
                                  ELSE i + j * ld + batch * ld * cols)

\* An element of op(A), and of op(B).
OpA(memory, g, i, l, batch) ==
    At(memory, g.a.buffer,
       IF g.transA THEN BatchAt(g, g.a, g.lda, g.m, l, i, batch)
                   ELSE BatchAt(g, g.a, g.lda, g.k, i, l, batch))
OpB(memory, g, l, j, batch) ==
    At(memory, g.b.buffer,
       IF g.transB THEN BatchAt(g, g.b, g.ldb, g.k, j, l, batch)
                   ELSE BatchAt(g, g.b, g.ldb, g.n, l, j, batch))

\* alpha times the sum over a part of K.
GemmSum(memory, g, i, j, batch, part) ==
    LET Term(l) == Times(OpA(memory, g, i, l, batch), OpB(memory, g, l, j, batch))
    IN Times(g.alpha, SumOf(part, Term))

AfterGemm(memory, g) ==
    LET Where(p) == BatchAt(g, g.c, g.ldc, g.n, p[1], p[2], p[3])
        Value(p) ==
            LET product == GemmSum(memory, g, p[1], p[2], p[3], 0 .. g.k - 1)
            IN IF g.beta = 0 THEN product
               ELSE Plus(product, Times(g.beta, At(memory, g.c.buffer, Where(p))))
        Elements == (0 .. g.m - 1) \X (0 .. g.n - 1) \X (0 .. g.batches - 1)
    IN Put(memory, g.c.buffer, ValuesAt(Elements, Where, Value))

\* GemmPartial: each slice of the cube has the sum over its own tiles of K, and
\* those past the end of K are zero.
AfterPartial(memory, p) ==
    LET g == p.call
        share == TileK * B2!DivUp(g.k, TileK * p.depth)
        Part(d) == {l \in d * share .. (d + 1) * share - 1 : l < g.k}
        Where(q) == MatrixAt(p.cube, q[1], q[2])
        Value(q) == GemmSum(memory, [g EXCEPT !.batches = 1], q[1] % g.m,
                            q[1] \div g.m, 0, Part(q[2]))
    IN Put(memory, p.cube.buffer, ValuesAt(MatrixPlaces(p.cube), Where, Value))

AfterReduce(memory, g) ==
    LET Where(i) == MatrixAtIndex(g.to, i)
        Value(i) == LET Column(j) == Entry(memory, g.from, i, j)
                    IN SumOf(0 .. g.from.cols - 1, Column)
    IN Put(memory, g.to.buffer, ValuesAt(0 .. g.from.rows - 1, Where, Value))

\* What the work-item i of a kernel does.
AfterItem(memory, kernel, i) ==
    LET g == kernel.args
    IN CASE kernel.kind = "tree" -> After(memory, kernel.tree, i)
         [] kernel.kind = "dots" -> AfterDots(memory, g)
         [] kernel.kind = "update" -> AfterUpdate(memory, g)
         [] kernel.kind = "gemm" -> AfterGemm(memory, g)
         [] kernel.kind = "partial" -> AfterPartial(memory, g)
         [] kernel.kind = "sumColumns" -> AfterReduce(memory, g)
         [] kernel.kind = "toDevice" ->
               Put(memory, g.x.buffer, [a \in g.x.offset .. g.x.offset + g.n - 1 |->
                                           memory[g.y.buffer][a - g.x.offset]])
         [] kernel.kind = "toHost" ->
               Put(memory, g.y.buffer, [a \in 0 .. g.n - 1 |->
                                           memory[g.x.buffer][g.x.offset + a]])
         [] kernel.kind = "fill" ->
               Put(memory, g.x.buffer, [a \in g.x.offset .. g.x.offset + g.n - 1 |->
                                           g.alpha])
================================================================================
