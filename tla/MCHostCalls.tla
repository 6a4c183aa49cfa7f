------------------------------- MODULE MCHostCalls -------------------------------
(***************************************************************************)
(* The calls and the programs of HostCalls for TLC.                        *)
(***************************************************************************)
EXTENDS HostCalls

CONSTANTS MaxK,      \* the largest dimension of A in a call of _trsm
          MaxOther,  \* the largest of the other dimension of B
          Alphas

-------------------------------------------------------------------------------
(***************************************************************************)
(* The calls of _trsm: both sides, both triangles, op(A) = A and its       *)
(* transpose, unit and not, with up to MaxK rows in A and leading          *)
(* dimensions with and without a gap.                                      *)
(***************************************************************************)

\* Numbers without a pattern that a wrong address could keep.
Scatter(address) == (address * address + 3 * address + 1) % P
Nonzero(address) == 1 + ((2 * address * address + address) % (P - 1))

\* A holds its triangle, ones on the diagonal of a unit matrix, and nothing that
\* may be read in the rest (the test of the library puts NaN there).
MatrixA(upper, unit, k, lda) ==
    [a \in 0 .. lda * k - 1 |->
        LET row == a % lda
            col == a \div lda
        IN CASE row = col -> IF unit THEN 1 ELSE Nonzero(a)
             [] row < k /\ row # col /\ (upper = (row < col)) -> Nonzero(a)
             [] OTHER -> Undefined]

MatrixB(m, n, ldb) == [a \in 0 .. ldb * n - 1 |-> Scatter(a)]

CallWith(legal, onLeft, upper, trans, unit, m, n, alpha, gapA, gapB) ==
    LET k == IF onLeft THEN m ELSE n
    IN [legal |-> legal, left |-> onLeft, upper |-> upper, trans |-> trans,
        M |-> m, N |-> n, lda |-> k + gapA, ldb |-> m + gapB, alpha |-> alpha,
        A |-> MatrixA(upper, unit, k, k + gapA),
        B |-> MatrixB(m, n, m + gapB)]

GoodCalls ==
    {CallWith(TRUE, s[1], s[2], s[3], s[4],
              IF s[1] THEN d[1] ELSE d[2], IF s[1] THEN d[2] ELSE d[1],
              alpha, gap[1], gap[2]) :
        s \in BOOLEAN \X BOOLEAN \X BOOLEAN \X BOOLEAN,
        d \in (1 .. MaxK) \X (1 .. MaxOther),
        alpha \in Alphas,
        gap \in {<<0, 0>>, <<1, 1>>}}

BadCalls ==
    {CallWith(TRUE, TRUE, TRUE, FALSE, FALSE, 0, 1, 1, 0, 0),
     CallWith(TRUE, FALSE, TRUE, FALSE, FALSE, 1, 0, 1, 0, 0),
     CallWith(FALSE, TRUE, TRUE, FALSE, FALSE, 2, 1, 1, 0, 0)}

AllTrsmCalls == GoodCalls \cup BadCalls

-------------------------------------------------------------------------------
(***************************************************************************)
(* The matrices to reduce                                                  *)
(***************************************************************************)

\* A matrix for the one-step reduction and some for the two-step one, with
\* different numbers of block columns.
Matrix(r, c) == [rows |-> r, cols |-> c, name |-> <<"in", r, c>>]
SmallMatrices == {Matrix(2, 4), Matrix(1, 5), Matrix(3, 6), Matrix(2, 9), Matrix(1, 17)}

-------------------------------------------------------------------------------
(***************************************************************************)
(* The programs of the other calls.  What a correct call does not read     *)
(* holds Undefined: the other triangle, the gaps, what is overwritten.     *)
(***************************************************************************)

Buffer(name) == <<name, 0>>
Start(name, count) == Iterator(Buffer(name), count)

\* Numbers without a pattern, and memory that nothing has written.
Data(seed, count) == [a \in 0 .. count - 1 |-> (a * a + seed * a + seed) % P]
Garbage(count) == [a \in 0 .. count - 1 |-> Undefined]

On(backend, calls, memory) ==
    [calls |-> calls, memory |-> memory, backend |-> backend]
Program(calls, memory) == On("intel_gpu", calls, memory)
Holds(name, contents) == Buffer(name) :> contents

-------------------------------------------------------------------------------
(***************************************************************************)
(* Vectors                                                                 *)
(***************************************************************************)

Strides == {-2, -1, 1, 2}

\* x from the second element of its buffer, y from the first.
Vectors(n, incx, incy) ==
    [n |-> n, incx |-> incx, incy |-> incy,
     x |-> Ahead(Start("x", 2 + (n - 1) * Abs(incx)), 1),
     y |-> Start("y", 1 + (n - 1) * Abs(incy)),
     alpha |-> 3, cos |-> 2, sin |-> 5]
VectorData(v) == Holds("x", Data(2, v.x.count)) @@ Holds("y", Data(3, v.y.count))

\* A call of another operation on the same arguments; x and y change roles.
Op(op, v) == [op |-> op] @@ v
Back(op, v) == [op |-> op, x |-> v.y, incx |-> v.incy, y |-> v.x, incy |-> v.incx] @@ v

\* Two calls with no wait between them: the second one reads what the first
\* writes, or writes what it reads.
VectorPrograms ==
    LET Pairs(v) ==
            {<<Op("axpy", v), Back("copy", v)>>, <<Op("rot", v), Back("axpy", v)>>,
             <<Op("copy", v), Op("scal", [alpha |-> 0] @@ v)>>,
             <<Op("swap", v), Op("scal", v)>>}
    IN UNION {{Program(calls, VectorData(v)) : calls \in Pairs(v)} :
                 v \in {Vectors(3, incx, incy) : incx \in Strides, incy \in Strides}}

\* Two rows of one matrix, as in a pivoting step.
RowPrograms ==
    LET Rows(inc1, inc2) ==
            [n |-> 3, incx |-> inc1, incy |-> inc2, x |-> Start("x", 6),
             y |-> Ahead(Start("x", 6), 1), cos |-> 2, sin |-> 5]
    IN {Program(<<[op |-> op] @@ Rows(incs[1], incs[2])>>, Holds("x", Data(4, 6))) :
           op \in {"swap", "rot"}, incs \in {<<2, 2>>, <<2, -2>>}}

\* To the device, one call there, and back to a second array of the host.
TransferPrograms ==
    LET x == Ahead(Start("x", 4), 1)
        Move(op, host) == [op |-> op, n |-> 3, x |-> x, incx |-> 1,
                           y |-> Start(host, 3), incy |-> 1]
        Between(op, alpha) == [op |-> op, n |-> 3, x |-> x, incx |-> 1, alpha |-> alpha]
    IN {Program(<<Move("toDevice", "in"), call, Move("toHost", "out")>>,
                Holds("x", Garbage(4)) @@ Holds("in", Data(5, 3))
                   @@ Holds("out", Garbage(3))) :
           call \in {Between("fill", 4), Between("scal", 2)}}

-------------------------------------------------------------------------------
(***************************************************************************)
(* BLAS 2                                                                  *)
(***************************************************************************)

\* The triangle of an n x n matrix, without its diagonal if that is ones.
TriangleData(upper, unit, n, lda) ==
    [a \in 0 .. lda * n - 1 |->
        LET row == a % lda
            col == a \div lda
        IN IF row < n /\ (IF unit THEN row # col ELSE TRUE)
              /\ (IF upper THEN row <= col ELSE row >= col)
           THEN (2 * a * a + a + 1) % P ELSE Undefined]
GeneralData(m, n, lda) ==
    [a \in 0 .. lda * n - 1 |-> IF a % lda < m THEN (a * a + 3) % P ELSE Undefined]

\* x and y start anywhere, and in the reverse order if their increment says so.
GemvPrograms ==
    LET Call(local, trans, m, n, beta, inc) ==
            LET long == IF trans THEN m ELSE n
                short == IF trans THEN n ELSE m
            IN [op |-> "gemv", local |-> local, trans |-> trans, m |-> m, n |-> n,
                alpha |-> 2, beta |-> beta, a |-> Start("a", n * (m + 1)), lda |-> m + 1,
                x |-> Ahead(Start("x", 1 + long), 1), incx |-> -1,
                y |-> Start("y", 1 + (short - 1) * Abs(inc)), incy |-> inc]
        Memory(c) ==
            Holds("a", GeneralData(c.m, c.n, c.lda)) @@ Holds("x", Data(2, c.x.count))
               @@ Holds("y", IF c.beta = 0 THEN Garbage(c.y.count) ELSE Data(3, c.y.count))
        Scaled(c) == [op |-> "scal", x |-> c.y, n |-> IF c.trans THEN c.n ELSE c.m,
                      incx |-> c.incy, alpha |-> 3]
    IN {Program(<<c, Scaled(c)>>, Memory(c)) :
           c \in {Call(local, trans, d[1], d[2], beta, inc) :
                     local \in BOOLEAN, trans \in BOOLEAN, beta \in {0, 4},
                     d \in {<<2, 3>>, <<3, 2>>, <<1, 3>>}, inc \in {1, -2}}}

TrianglePrograms ==
    LET Call(op, upper, trans, unit, inc) ==
            [op |-> op, upper |-> upper, trans |-> trans, unit |-> unit, n |-> 3,
             a |-> Start("a", 12), lda |-> 4, alpha |-> 2, beta |-> 3,
             x |-> Start("x", 5), incx |-> inc, y |-> Start("y", 3), incy |-> -1,
             wrong |-> {}]
        Memory(c) == Holds("a", TriangleData(c.upper, c.unit, 3, 4))
                        @@ Holds("x", Data(2, 5)) @@ Holds("y", Data(3, 3))
        InPlace == {Call("trmv", upper, trans, unit, 2) :
                       upper \in BOOLEAN, trans \in BOOLEAN, unit \in BOOLEAN}
        Others == {Call(op, upper, FALSE, FALSE, -2) :
                      op \in {"symv", "syr", "syr2"}, upper \in BOOLEAN}
    IN {Program(<<c>>, Memory(c)) : c \in InPlace}
          \cup {Program(<<c, [c EXCEPT !.op = "trmv"]>>, Memory(c)) : c \in Others}

UpdatePrograms ==
    LET ger == [op |-> "ger", m |-> 3, n |-> 2, alpha |-> 2, a |-> Start("a", 8),
                lda |-> 4, x |-> Start("x", 5), incx |-> -2, y |-> Start("y", 2),
                incy |-> -1]
    IN {Program(<<ger, [op |-> "swap", n |-> 2] @@ ger>>,
                Holds("a", GeneralData(3, 2, 4)) @@ Holds("x", Data(2, 5))
                   @@ Holds("y", Data(3, 2)))}

-------------------------------------------------------------------------------
(***************************************************************************)
(* GEMM                                                                    *)
(***************************************************************************)

\* s: m, n, k, the transpositions, the gap in C, the batches and how they lie.
Product(s, alpha, beta) ==
    LET lda == IF s.transA THEN s.k ELSE s.m
        ldb == IF s.transB THEN s.n ELSE s.k
        ldc == s.m + s.gap
    IN s @@ [op |-> "gemm", alpha |-> alpha, beta |-> beta, wrong |-> {},
             lda |-> lda, ldb |-> ldb, ldc |-> ldc,
             a |-> Start("a", s.m * s.k * s.batches),
             b |-> Start("b", s.k * s.n * s.batches),
             c |-> Start("c", ldc * s.n * s.batches)]

Shape(m, n, k, transA, transB, gap, batches, interleaved) ==
    [m |-> m, n |-> n, k |-> k, transA |-> transA, transB |-> transB, gap |-> gap,
     batches |-> batches, interleaved |-> interleaved]

ProductData(g) ==
    Holds("a", Data(2, g.a.count)) @@ Holds("b", Data(4, g.b.count))
       @@ Holds("c", IF g.beta = 0 THEN Garbage(g.c.count) ELSE Data(3, g.c.count))

ScaledC(g) == [g EXCEPT !.alpha = 0, !.beta = 3]

\* A product, and what is there then scaled: in every layout that both have
\* right.  With TransA the product is the one for tall and skinny matrices.
ProductShapes ==
    {Shape(2, 2, k, transA, transB, gap, batches, FALSE) :
        k \in {1, 5}, transA \in BOOLEAN, transB \in BOOLEAN, gap \in {0, 1},
        batches \in {1, 2}}
      \cup {Shape(2, 1, 3, transA, transB, 0, 2, TRUE) :
               transA \in BOOLEAN, transB \in BOOLEAN}
      \cup {Shape(3, 3, 5, TRUE, FALSE, 1, 1, FALSE)}

ProductPrograms ==
    {Program(<<g, ScaledC(g)>>, ProductData(g)) :
        g \in {Product(s, 2, beta) : s \in ProductShapes, beta \in {0, 4}}}

\* The other back-ends.
BackendPrograms ==
    LET g == Product(Shape(2, 2, 3, TRUE, FALSE, 0, 2, FALSE), 2, 4)
    IN {On(backend, <<g, ScaledC(g)>>, ProductData(g)) :
           backend \in {"default_cpu", "rcar", "nvidia_gpu", "arm_gpu", "amd_gpu",
                        "power_vr"}}

\* With alpha = 0 and a gap, when the batches are interleaved.
InterleavedPrograms ==
    LET g == Product(Shape(2, 2, 2, FALSE, FALSE, 1, 2, TRUE), 0, 3)
    IN {Program(<<g>>, ProductData(g))}

-------------------------------------------------------------------------------

\* Calls that throw change nothing, and the program goes on; letters that are
\* not looked at do not matter.
RefusedPrograms ==
    LET v == Vectors(2, 1, 1)
        Followed(c) == <<c, Op("axpy", v)>>
        Wrong(op, letters) ==
            [op |-> op, upper |-> TRUE, trans |-> FALSE, unit |-> FALSE,
             a |-> Start("x", 4), lda |-> 2, beta |-> 1, wrong |-> letters] @@ v
        g == [Product(Shape(2, 2, 2, FALSE, FALSE, 0, 1, FALSE), 2, 3)
                 EXCEPT !.wrong = {"transA"}]
    IN {Program(Followed(c), VectorData(v)) :
           c \in {Wrong("trmv", {"uplo", "diag"}), Wrong("symv", {"uplo"})}}
          \cup {Program(<<g, ScaledC(g)>>, ProductData(g))}

AllPrograms ==
    UNION {VectorPrograms, RowPrograms, TransferPrograms, GemvPrograms,
           TrianglePrograms, UpdatePrograms, ProductPrograms, BackendPrograms,
           RefusedPrograms}
================================================================================
