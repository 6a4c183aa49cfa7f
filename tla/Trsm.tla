---------------------------------- MODULE Trsm ----------------------------------
(***************************************************************************)
(* _trsm (src/interface/trsm_interface.hpp): the triangular solve          *)
(*     op(A) * X = alpha * B     or     X * op(A) = alpha * B              *)
(* by blocks: the diagonal blocks of A are inverted, each block of the     *)
(* solution is a product with one of them, and what is left of B is        *)
(* updated with each block solved.  The host submits all kernels and       *)
(* returns; a program that wants B submits a copy of it and waits.         *)
(*                                                                         *)
(* Matrices are buffers of numbers modulo P, addressed as in the code,     *)
(* with the gaps that leading dimensions leave and with Undefined in the   *)
(* part of A that may not be read.  A whole GEMM, copy or inversion is one *)
(* step of the device here; DiagonalBlocksInverter has the work-items of   *)
(* the inversion.                                                          *)
(***************************************************************************)
EXTENDS PrimeField, CommandQueue

CONSTANTS BlockSize,   \* blockSize, 16 in the code
          Calls        \* the calls to consider

\* A call: the arguments of _trsm with the flags decoded, and the contents of
\* A and B.  "legal" is whether the four characters are among those accepted.
TrsmAssumption ==
    /\ BlockSize \in Nat \ {0}
    /\ \A c \in Calls :
          /\ {c.legal, c.left, c.upper, c.trans} \subseteq BOOLEAN
          /\ {c.M, c.N, c.lda, c.ldb} \subseteq Nat
          /\ c.alpha \in Number

VARIABLES call,    \* the arguments of the call
          host,    \* where the host is
          i,       \* the loop's variable, the block it is at
          events,  \* trsmEvents
          mem      \* the contents of the buffers, and of the program's copy

vars == <<queue, complete, call, host, i, events, mem>>

\* "check" to "copyBack" are the stages of _trsm; "read" is when it has
\* returned and the program has not asked for B yet.
Location == {"check", "fill", "invert", "copyIn", "solve", "update", "copyBack",
             "read", "end", "threw"}

K == IF call.left THEN call.M ELSE call.N

\* B is Rows by Columns; X has the same shape and leading dimension.
BSize == call.ldb * (call.N - 1) + call.M

RoundUp(x) == ((x + BlockSize - 1) \div BlockSize) * BlockSize
InvASize == RoundUp(K) * BlockSize

\* Whether op(A) is lower triangular, and whether blocks are solved from the
\* first to the last.
OpLower == call.upper = call.trans
Ascending == call.left = OpLower

SpecialBlockSize == IF K % BlockSize = 0 THEN BlockSize ELSE K % BlockSize

\* Mutant: the last block is taken for a whole one.
IStartWhole == IF Ascending THEN 0 ELSE K - BlockSize

IStart == IF Ascending THEN 0 ELSE K - SpecialBlockSize

CurrentBlockSize ==
    IF Ascending THEN Min({K - i, BlockSize})
    ELSE IF i = IStart THEN SpecialBlockSize ELSE BlockSize

\* alpha is applied with the first block, to the block and to the rest.
AlphaAt == IF i = IStart THEN call.alpha ELSE 1

Init ==
    /\ QueueInit
    /\ call \in Calls
    /\ host = "check"
    /\ i = IStart
    /\ events = {}
    /\ mem = [A    |-> call.A,
              B    |-> call.B,
              X    |-> [a \in 0 .. BSize - 1 |-> Undefined],
              invA |-> [a \in 0 .. InvASize - 1 |-> Undefined],
              copy |-> [a \in DOMAIN call.B |-> Undefined]]

-------------------------------------------------------------------------------
(***************************************************************************)
(* The kernels.  The views of an expression tree bind all of their buffers *)
(* for reading and writing.                                                *)
(***************************************************************************)

\* A matrix in a buffer.
Mat(buffer, offset, ld, trans) ==
    [buffer |-> buffer, offset |-> offset, ld |-> ld, trans |-> trans]

Fill == [kind |-> "fill", reads |-> {}, writes |-> {"invA"}]

Invert == [kind |-> "invert", reads |-> {"A", "invA"}, writes |-> {"A", "invA"}]

Copy(from, to) == [kind |-> "copy", from |-> from, to |-> to,
                   reads |-> {from, to}, writes |-> {from, to}]

CopyToHost == [kind |-> "copy", from |-> "B", to |-> "copy",
               reads |-> {"B"}, writes |-> {}]

Scal(offset, n, beta, buffer) ==
    [kind |-> "scal", offset |-> offset, n |-> n, beta |-> beta,
     buffer |-> buffer, reads |-> {buffer}, writes |-> {buffer}]

\* internal::_gemm, C = alpha * op(A) * op(B) + beta * C.  With alpha = 0 it is
\* one kernel that scales C, or one for each of its columns.
Gemm(m, n, k, alpha, a, b, beta, c) ==
    IF alpha = 0
    THEN IF c.ld = m THEN <<Scal(c.offset, m * n, beta, c.buffer)>>
         ELSE [j \in 1 .. n |-> Scal(c.offset + (j - 1) * c.ld, m, beta, c.buffer)]
    ELSE <<[kind |-> "gemm", m |-> m, n |-> n, k |-> k, alpha |-> alpha,
            a |-> a, b |-> b, beta |-> beta, c |-> c,
            reads |-> {a.buffer, b.buffer, c.buffer},
            writes |-> {a.buffer, b.buffer, c.buffer}]>>

\* What a buffer holds at an address, if it is in it.
Read(buffer, address) ==
    IF address \in DOMAIN mem[buffer] THEN mem[buffer][address] ELSE Undefined

Cell(x, row, col) ==
    Read(x.buffer, x.offset + (IF x.trans THEN col + row * x.ld
                                          ELSE row + col * x.ld))

\* The cell of C that a row and a column of the product go to.
Places(g) == [p \in (0 .. g.m - 1) \X (0 .. g.n - 1) |->
                 g.c.offset + p[1] + p[2] * g.c.ld]

GemmCell(g, row, col) ==
    LET Term(l) == Times(Cell(g.a, row, l), Cell(g.b, l, col))
        product == Times(g.alpha, SumOf(0 .. g.k - 1, Term))
    IN IF g.beta = 0 THEN product
       ELSE Plus(product, Times(g.beta, Cell(g.c, row, col)))

AfterGemm(g) ==
    [mem EXCEPT ![g.c.buffer] =
        [a \in DOMAIN @ |->
            IF \E p \in DOMAIN Places(g) : Places(g)[p] = a
            THEN LET p == CHOOSE p \in DOMAIN Places(g) : Places(g)[p] = a
                 IN GemmCell(g, p[1], p[2])
            ELSE @[a]]]

\* The inverse of the lower triangle t(row, col) of "size" rows, a row from the
\* ones before it.
InverseOf(t(_, _), size) ==
    LET inv[row \in 0 .. size - 1] ==
            [col \in 0 .. size - 1 |->
                IF row < col THEN 0
                ELSE LET Term(k) == Times(t(row, k), inv[k][col])
                     IN IF row = col THEN Reciprocal(t(row, row))
                        ELSE Times(Reciprocal(t(row, row)),
                                   Minus(SumOf(col .. row - 1, Term)))]
    IN inv

\* The kernel DiagonalBlocksInverter leaves in invA the inverse of each block
\* of A, column by column; outside of the matrix there is nothing to rely on.
AfterInvert ==
    LET Live(b) == Min({BlockSize, K - b * BlockSize})
        Block(b, row, col) ==
            Read("A", b * BlockSize + row + (b * BlockSize + col) * call.lda)
        Lower(b) == InverseOf(LAMBDA r, c : Block(b, r, c), Live(b))
        Upper(b) == InverseOf(LAMBDA r, c : Block(b, c, r), Live(b))
        InvertedCell(b, row, col) ==
            IF row >= Live(b) \/ col >= Live(b) THEN Undefined
            ELSE IF call.upper THEN Upper(b)[col][row] ELSE Lower(b)[row][col]
    IN [mem EXCEPT !["invA"] =
          [a \in DOMAIN @ |->
              LET inBlock == a % (BlockSize * BlockSize)
              IN InvertedCell(a \div (BlockSize * BlockSize),
                              inBlock % BlockSize, inBlock \div BlockSize)]]

After(c) ==
    CASE c.kind = "fill"   -> [mem EXCEPT !["invA"] = [a \in DOMAIN @ |-> 0]]
      [] c.kind = "invert" -> AfterInvert
      [] c.kind = "copy"   -> [mem EXCEPT ![c.to] =
                                 [a \in DOMAIN @ |->
                                    IF a \in DOMAIN mem[c.from]
                                    THEN mem[c.from][a] ELSE @[a]]]
      [] c.kind = "scal"   -> [mem EXCEPT ![c.buffer] =
                                 [a \in DOMAIN @ |->
                                    IF a \in c.offset .. c.offset + c.n - 1
                                    THEN IF c.beta = 0 THEN 0 ELSE Times(c.beta, @[a])
                                    ELSE @[a]]]
      [] c.kind = "gemm"   -> AfterGemm(c)

-------------------------------------------------------------------------------
(***************************************************************************)
(* The host                                                                *)
(***************************************************************************)

\* The kernels are submitted in this order, and their events kept.
SubmitAll(kernels) ==
    /\ queue' = queue \o kernels
    /\ events' = events \cup (Len(queue) + 1 .. Len(queue) + Len(kernels))
    /\ UNCHANGED <<complete, call, mem>>

\* The same with the events dropped.
SubmitUnheeded(kernels) ==
    /\ queue' = queue \o kernels
    /\ UNCHANGED <<complete, call, events, mem>>

\* The arguments are checked before anything is submitted.
Check ==
    /\ host = "check"
    /\ host' = IF call.M = 0 \/ call.N = 0 \/ call.lda = 0 \/ call.ldb = 0
                  \/ ~call.legal
               THEN "threw" ELSE "fill"
    /\ UNCHANGED <<queue, complete, call, i, events, mem>>

Stage(kernel, from, to) ==
    /\ host = from
    /\ host' = to
    /\ SubmitAll(<<kernel>>)
    /\ UNCHANGED i

FillInvA == Stage(Fill, "fill", "invert")
InvertBlocks == Stage(Invert, "invert", "copyIn")
CopyIn == Stage(Copy("B", "X"), "copyIn", "solve")

\* Mutant: the events are those of the loop only.
CopyBackUnheeded ==
    /\ host = "copyBack"
    /\ host' = "read"
    /\ SubmitUnheeded(<<Copy("X", "B")>>)
    /\ UNCHANGED i

CopyBack == Stage(Copy("X", "B"), "copyBack", "read")

\* Where a block of B and of X starts.
At(block) == IF call.left THEN block ELSE block * call.ldb

Dense(buffer, block) == Mat(buffer, At(block), call.ldb, FALSE)

\* op(A) or a part of it, on its side of a block of B or of X.
GemmOf(size, k, alpha, triangle, dense, beta, c) ==
    IF call.left THEN Gemm(size, call.N, k, alpha, triangle, dense, beta, c)
    ELSE Gemm(call.M, size, k, alpha, dense, triangle, beta, c)

\* The tests before the two breaks of the ascending loops differ: on the right
\* the last of the whole blocks is followed by an update of no columns.
LastBlock ==
    CASE Ascending /\ call.left  -> i + BlockSize >= K
      [] Ascending /\ ~call.left -> i + BlockSize > K
      [] OTHER                   -> i - BlockSize < 0

\* X_i = A_ii^-1 * B_i.
Solve ==
    /\ host = "solve"
    /\ SubmitAll(GemmOf(CurrentBlockSize, CurrentBlockSize, AlphaAt,
                        Mat("invA", i * BlockSize, BlockSize, call.trans),
                        Dense("B", i), 0, Dense("X", i)))
    /\ host' = IF LastBlock THEN "copyBack" ELSE "update"
    /\ UNCHANGED i

\* The part of B that is still to be solved: where it starts and how much it is.
RestFrom == IF Ascending THEN i + BlockSize ELSE 0
RestSize == IF Ascending THEN K - i - BlockSize ELSE i

\* Mutant: the rows and the columns of A are swapped.
OffsetATransposed ==
    IF call.left = call.trans THEN RestFrom + i * call.lda
    ELSE i + RestFrom * call.lda

OffsetA ==
    IF call.left = ~call.trans THEN RestFrom + i * call.lda
    ELSE i + RestFrom * call.lda

UpdateKernels ==
    GemmOf(RestSize, IF Ascending THEN BlockSize ELSE CurrentBlockSize, MinusOne,
           Mat("A", OffsetA, call.lda, call.trans), Dense("X", i),
           AlphaAt, Dense("B", RestFrom))

NextBlock == IF Ascending THEN i + BlockSize ELSE i - BlockSize

MoreBlocks(b) == IF Ascending THEN b < K ELSE b >= 0

\* B_rest = -1 * A_rest,i * X_i + B_rest.  On the left, first block to last,
\* the event of the update is dropped: the one of the solve is kept once more.
Update ==
    /\ host = "update"
    /\ IF call.left /\ Ascending THEN SubmitUnheeded(UpdateKernels)
                                 ELSE SubmitAll(UpdateKernels)
    /\ i' = NextBlock
    /\ host' = IF MoreBlocks(NextBlock) THEN "solve" ELSE "copyBack"

\* The program asks for B as soon as _trsm has returned.
ReadBack == Stage(CopyToHost, "read", "end")

Host == \/ Check \/ FillInvA \/ InvertBlocks \/ CopyIn
        \/ Solve \/ Update \/ CopyBack \/ ReadBack

Run(e) ==
    /\ Ready(e)
    /\ mem' = After(queue[e])
    /\ Complete(e)
    /\ UNCHANGED <<call, host, i, events>>

Device == \E e \in DOMAIN queue : Run(e)

Finished == host \in {"end", "threw"} /\ Idle /\ UNCHANGED vars

Next == Host \/ Device \/ Finished

\* The host is a sequential program, and the device runs what may run.
Fairness == WF_vars(Host) /\ WF_vars(Device)

Spec == Init /\ [][Next]_vars /\ Fairness

-------------------------------------------------------------------------------
(***************************************************************************)
(* Properties                                                              *)
(***************************************************************************)

TypeOK ==
    /\ complete \subseteq {NoEvent} \cup DOMAIN queue
    /\ host \in Location
    /\ i \in Int /\ (host \in {"solve", "update"} => i \in 0 .. K - 1)
    /\ events \subseteq DOMAIN queue
    /\ \A b \in DOMAIN mem : \A a \in DOMAIN mem[b] : mem[b][a] \in Element

\* op(A), with its zeros.
OpA(row, col) ==
    IF (IF OpLower THEN row >= col ELSE row <= col)
    THEN call.A[IF call.trans THEN col + row * call.lda ELSE row + col * call.lda]
    ELSE 0

\* A buffer holds the solution: its product with op(A) is alpha times the B of
\* the call, and the gaps between its columns are those of B.
Solves(x) ==
    /\ \A row \in 0 .. call.M - 1, col \in 0 .. call.N - 1 :
          LET OnTheLeft(k)  == Times(OpA(row, k), x[k + col * call.ldb])
              OnTheRight(k) == Times(x[row + k * call.ldb], OpA(k, col))
          IN (IF call.left THEN SumOf(0 .. K - 1, OnTheLeft)
                           ELSE SumOf(0 .. K - 1, OnTheRight))
             = Times(call.alpha, call.B[row + col * call.ldb])
    /\ \A a \in DOMAIN x : a % call.ldb >= call.M => x[a] = call.B[a]

\* A program that copies B back right after the call, without waiting for the
\* events of the call (blas3_trsm_test.cpp), gets the solution when the copy
\* has completed: also with B updated in place while its blocks are solved,
\* with a last block that is not whole, and with op(A) on either side.
CopiedIsSolution ==
    (host = "end" /\ Idle) => Solves(mem.copy)

\* A program that has waited for the events that _trsm returned may take B for
\* the solution, and no kernel of the call is left, although an event of some
\* of them was dropped: what it waits for comes after them in the queue.
WaitedIsSolved ==
    (host \in {"read", "end"} /\ Waited(events)) =>
        /\ Solves(mem.B)
        /\ \A e \in DOMAIN queue : e \in complete \/ queue[e] = CopyToHost

\* A call with unusable arguments throws, every other one returns, and its
\* kernels complete.
CallEnded == host \in {"end", "threw"} /\ Idle

CallEnds == <>CallEnded
================================================================================
