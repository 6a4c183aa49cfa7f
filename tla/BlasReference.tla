------------------------------ MODULE BlasReference ------------------------------
(***************************************************************************)
(* What a BLAS call promises, stated on vectors and matrices and without   *)
(* kernels, views or temporaries: the abstract specification that the      *)
(* calls of LibraryKernels are compared with.  A vector of n elements with *)
(* the increment inc has its element i at i * inc from its start, or, if   *)
(* inc is negative, with the first element furthest from the start; a      *)
(* matrix is stored by columns.                                            *)
(***************************************************************************)
EXTENDS PrimeField, Sequences

\* The address of an element of a vector, a matrix, a matrix of a batch.
ElementAt(it, inc, n, i) ==
    it.offset + (IF inc > 0 THEN i * inc ELSE (n - 1 - i) * (-inc))
EntryAt(it, ld, i, j) == it.offset + i + j * ld
BatchEntryAt(c, it, ld, columns, i, j, batch) ==
    IF c.interleaved THEN it.offset + c.batches * (i + j * ld) + batch
                     ELSE it.offset + i + ld * (j + columns * batch)

Element1(memory, it, inc, n, i) == memory[it.buffer][ElementAt(it, inc, n, i)]
Entry2(memory, it, ld, i, j) == memory[it.buffer][EntryAt(it, ld, i, j)]

\* Memory with some addresses of a buffer written, each with Value of the s
\* that is there.
Written(memory, it, S, Where(_), Value(_)) ==
    [memory EXCEPT ![it.buffer] =
        [a \in DOMAIN @ |->
            IF \E s \in S : Where(s) = a
            THEN Value(CHOOSE s \in S : Where(s) = a) ELSE @[a]]]

WrittenVector(memory, it, inc, n, Value(_)) ==
    LET Where(i) == ElementAt(it, inc, n, i)
    IN Written(memory, it, 0 .. n - 1, Where, Value)

\* beta * y, or nothing.
Scaled(beta, y) == IF beta = 0 THEN 0 ELSE Times(beta, y)

\* The elements of the calls' matrices as they are meant: of op(A), of a
\* triangle with its zeros and its ones, of a symmetric matrix by one triangle.
GeneralEntry(memory, c, i, j) ==
    IF c.trans THEN Entry2(memory, c.a, c.lda, j, i) ELSE Entry2(memory, c.a, c.lda, i, j)
Stored1(upper, i, j) == IF upper THEN i <= j ELSE i >= j
TriangleEntry(memory, c, i, j) ==
    LET row == IF c.trans THEN j ELSE i
        col == IF c.trans THEN i ELSE j
    IN IF ~Stored1(c.upper, row, col) THEN 0
       ELSE IF c.unit /\ i = j THEN 1 ELSE Entry2(memory, c.a, c.lda, row, col)
SymmetricEntry(memory, c, i, j) ==
    IF Stored1(c.upper, i, j) THEN Entry2(memory, c.a, c.lda, i, j)
                              ELSE Entry2(memory, c.a, c.lda, j, i)

\* What memory holds when a call has been made on it.
Blas(memory, c) ==
    LET X(n, i) == Element1(memory, c.x, c.incx, n, i)
        Y(n, i) == Element1(memory, c.y, c.incy, n, i)
        ToX(m, n, Value(_)) == WrittenVector(m, c.x, c.incx, n, Value)
        ToY(m, n, Value(_)) == WrittenVector(m, c.y, c.incy, n, Value)
    IN
    CASE c.op = "axpy" ->
            ToY(memory, c.n, LAMBDA i : Plus(Times(c.alpha, X(c.n, i)), Y(c.n, i)))
      [] c.op = "copy" -> ToY(memory, c.n, LAMBDA i : X(c.n, i))
      [] c.op = "swap" ->
            ToX(ToY(memory, c.n, LAMBDA i : X(c.n, i)), c.n, LAMBDA i : Y(c.n, i))
      [] c.op = "scal" -> ToX(memory, c.n, LAMBDA i : Scaled(c.alpha, X(c.n, i)))
      [] c.op = "rot" ->
            ToX(ToY(memory, c.n, LAMBDA i : Plus(Times(c.cos, Y(c.n, i)),
                                                 Minus(Times(c.sin, X(c.n, i))))),
                c.n, LAMBDA i : Plus(Times(c.cos, X(c.n, i)), Times(c.sin, Y(c.n, i))))
      [] c.op = "gemv" ->
            LET rows == IF c.trans THEN c.n ELSE c.m
                cols == IF c.trans THEN c.m ELSE c.n
                Dot(i) == SumOf(0 .. cols - 1,
                                LAMBDA j : Times(GeneralEntry(memory, c, i, j), X(cols, j)))
            IN ToY(memory, rows, LAMBDA i : Plus(Times(c.alpha, Dot(i)),
                                                 Scaled(c.beta, Y(rows, i))))
      [] c.op = "trmv" ->
            ToX(memory, c.n, LAMBDA i : SumOf(0 .. c.n - 1,
                LAMBDA j : Times(TriangleEntry(memory, c, i, j), X(c.n, j))))
      [] c.op = "symv" ->
            LET Dot(i) == SumOf(0 .. c.n - 1,
                             LAMBDA j : Times(SymmetricEntry(memory, c, i, j), X(c.n, j)))
            IN ToY(memory, c.n, LAMBDA i : Plus(Times(c.alpha, Dot(i)),
                                                Scaled(c.beta, Y(c.n, i))))
      [] c.op \in {"ger", "syr", "syr2"} ->
            LET m == IF c.op = "ger" THEN c.m ELSE c.n
                Where(p) == EntryAt(c.a, c.lda, p[1], p[2])
                Product(p) ==
                    CASE c.op = "ger" -> Times(X(m, p[1]), Y(c.n, p[2]))
                      [] c.op = "syr" -> Times(X(m, p[1]), X(m, p[2]))
                      [] c.op = "syr2" -> Plus(Times(X(m, p[1]), Y(m, p[2])),
                                               Times(Y(m, p[1]), X(m, p[2])))
                Value(p) == Plus(Entry2(memory, c.a, c.lda, p[1], p[2]),
                                 Times(c.alpha, Product(p)))
                Updated == {p \in (0 .. m - 1) \X (0 .. c.n - 1) :
                               c.op # "ger" => Stored1(c.upper, p[1], p[2])}
            IN Written(memory, c.a, Updated, Where, Value)
      [] c.op = "gemm" ->
            LET A(i, l, b) ==
                    IF c.transA THEN BatchEntryAt(c, c.a, c.lda, c.m, l, i, b)
                                ELSE BatchEntryAt(c, c.a, c.lda, c.k, i, l, b)
                B(l, j, b) ==
                    IF c.transB THEN BatchEntryAt(c, c.b, c.ldb, c.k, j, l, b)
                                ELSE BatchEntryAt(c, c.b, c.ldb, c.n, l, j, b)
                Where(p) == BatchEntryAt(c, c.c, c.ldc, c.n, p[1], p[2], p[3])
                Dot(i, j, b) ==
                    SumOf(0 .. c.k - 1, LAMBDA l : Times(memory[c.a.buffer][A(i, l, b)],
                                                         memory[c.b.buffer][B(l, j, b)]))
                Value(p) ==
                    Plus(IF c.alpha = 0 THEN 0
                         ELSE Times(c.alpha, Dot(p[1], p[2], p[3])),
                         Scaled(c.beta, memory[c.c.buffer][Where(p)]))
                Entries == (0 .. c.m - 1) \X (0 .. c.n - 1) \X (0 .. c.batches - 1)
            IN Written(memory, c.c, Entries, Where, Value)
      [] c.op = "toDevice" ->
            ToX(memory, c.n, LAMBDA i : memory[c.y.buffer][i])
      [] c.op = "toHost" -> ToY(memory, c.n, LAMBDA i : X(c.n, i))
      [] c.op = "fill" -> ToX(memory, c.n, LAMBDA i : c.alpha)

\* The buffers that a call changes.
Outputs(c) ==
    CASE c.op \in {"axpy", "copy", "gemv", "symv", "toHost"} -> {c.y.buffer}
      [] c.op \in {"swap", "rot"} -> {c.x.buffer, c.y.buffer}
      [] c.op \in {"scal", "trmv", "toDevice", "fill"} -> {c.x.buffer}
      [] c.op \in {"ger", "syr", "syr2"} -> {c.a.buffer}
      [] c.op = "gemm" -> {c.c.buffer}
================================================================================
