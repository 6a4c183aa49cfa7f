------------------------------ MODULE ExpressionTrees ------------------------------
(***************************************************************************)
(* The expression trees of the element-wise kernels                        *)
(* (src/operations/blas1_trees.hpp, and SumMatrixColumns of blas2/gemv.hpp)*)
(* and their execution without local memory (src/executors/                *)
(* executor_sycl.hpp): one work-item evaluates the tree at its index,      *)
(* reading and writing memory through the views at the leaves.             *)
(*                                                                         *)
(* "memory" is a function from buffers to their contents.                  *)
(***************************************************************************)
EXTENDS PrimeField

-------------------------------------------------------------------------------
(***************************************************************************)
(* Buffer iterators (src/container/sycl_iterator.hpp and                   *)
(* include/container/sycl_iterator.h) and the views that a kernel reads    *)
(* and writes memory through (src/views/view_sycl.hpp): which address of   *)
(* a buffer an index of a vector or of a matrix stands for.                *)
(*                                                                         *)
(* A stride of zero is left out: the code divides by it.                   *)
(***************************************************************************)

\* A BufferIterator on a buffer of "count" elements.
Iterator(buffer, count) == [buffer |-> buffer, offset |-> 0, count |-> count]

Ahead(it, n) == [it EXCEPT !.offset = @ + n]

\* get_size: the elements from the iterator to the end, which is also the
\* range of an accessor made from it.
ElementsLeft(it) == it.count - it.offset

Abs(n) == IF n < 0 THEN -n ELSE n

RoundUpRatio(num, den) == (num + den - 1) \div den

\* calculate_input_data_size
InputDataSize(left, strd, size) ==
    IF size < RoundUpRatio(left, Abs(strd)) THEN size
                                            ELSE RoundUpRatio(left, Abs(strd))

\* Mutant: a vector with a negative stride starts where the iterator is.
DispForward(disp, strd, size) == disp

\* With a negative stride the first element is the one furthest ahead.
Disp(disp, strd, size) ==
    IF strd > 0 THEN disp ELSE disp + (size - 1) * (-strd)

VectorView(it, strd, n) ==
    LET size == InputDataSize(ElementsLeft(it), strd, n)
    IN [node |-> "vector", buffer |-> it.buffer, size |-> size,
        disp |-> Disp(it.offset, strd, size), stride |-> strd]

VectorAt(v, i) == v.disp + i * v.stride

MatrixView(it, rows, cols, ld, colMajor) ==
    [node |-> "matrix", buffer |-> it.buffer, rows |-> rows, cols |-> cols,
     ld |-> ld, disp |-> it.offset, colMajor |-> colMajor]

MatrixAt(v, i, j) ==
    v.disp + (IF v.colMajor THEN i + v.ld * j ELSE j + v.ld * i)

\* eval(indx): the elements are numbered column by column, in either layout.
MatrixAtIndex(v, index) ==
    LET j == index \div v.rows
    IN MatrixAt(v, index - v.rows * j, j)

-------------------------------------------------------------------------------
(***************************************************************************)
(* The trees                                                               *)
(***************************************************************************)

\* What a view reads, if the address is in the buffer.
At(memory, buffer, address) ==
    IF address \in DOMAIN memory[buffer] THEN memory[buffer][address] ELSE Undefined

\* Nodes: the operators that the calls make trees of.
ScalarProduct(scalar, arg) == [node |-> "scalarProduct", scalar |-> scalar, arg |-> arg]
AdditionIdentity(arg) == [node |-> "zero", arg |-> arg]
Add(left, right) == [node |-> "add", left |-> left, right |-> right]
SumMatrixColumns(arg) == [node |-> "sumColumns", arg |-> arg]

Assign(to, from) == [node |-> "assign", to |-> to, from |-> from]
DoubleAssign(to1, to2, from1, from2) ==
    [node |-> "doubleAssign", to1 |-> to1, to2 |-> to2,
     from1 |-> from1, from2 |-> from2]

Leaves == {"vector", "matrix"}

\* The operands of a node.
Operands(t) ==
    CASE t.node \in Leaves -> {}
      [] t.node \in {"scalarProduct", "zero", "sumColumns"} -> {t.arg}
      [] t.node = "add" -> {t.left, t.right}
      [] t.node = "assign" -> {t.to, t.from}
      [] t.node = "doubleAssign" -> {t.to1, t.from1, t.to2, t.from2}

\* The nodes of a tree.  MaxDepth is that of the deepest tree of the calls.
MaxDepth == 5

Nodes(t) ==
    LET at[depth \in 0 .. MaxDepth] ==
            IF depth = 0 THEN {t} ELSE UNION {Operands(x) : x \in at[depth - 1]}
    IN UNION {at[depth] : depth \in 0 .. MaxDepth}

\* get_size: of two operands the second one tells.
Size(t) ==
    LET size[x \in Nodes(t)] ==
            CASE x.node = "vector" -> x.size
              [] x.node = "matrix" -> x.rows * x.cols
              [] x.node = "sumColumns" -> x.arg.rows
              [] x.node \in {"scalarProduct", "zero"} -> size[x.arg]
              [] x.node = "add" -> size[x.right]
              [] x.node = "assign" -> size[x.from]
              [] x.node = "doubleAssign" -> size[x.from2]
    IN size[t]

\* Mutant: only what is written is bound.
BoundLeft(t) == IF t.node = "assign" THEN {t.to.buffer} ELSE {t.to1.buffer, t.to2.buffer}

\* bind: the buffers that the kernel requires accessors to.
Bound(t) == {x.buffer : x \in {y \in Nodes(t) : y.node \in Leaves}}

Place(v, i) == IF v.node = "vector" THEN VectorAt(v, i) ELSE MatrixAtIndex(v, i)

\* eval(i) of what stands on the right of an assignment.
Eval(memory, t, i) ==
    LET Column(view, j) == At(memory, view.buffer, MatrixAt(view, i, j))
        value[x \in Nodes(t)] ==
            CASE x.node \in Leaves -> At(memory, x.buffer, Place(x, i))
              [] x.node = "scalarProduct" -> Times(x.scalar, value[x.arg])
              [] x.node = "zero" -> 0
              [] x.node = "add" -> Plus(value[x.left], value[x.right])
              [] x.node = "sumColumns" ->
                    SumOf(0 .. x.arg.cols - 1, LAMBDA j : Column(x.arg, j))
    IN value[t]

Stored(memory, v, i, value) == [memory EXCEPT ![v.buffer][Place(v, i)] = value]

\* Mutant: the first assignment is made before the second value is read.
AfterOneByOne(memory, t, i) ==
    IF t.node = "assign" THEN Stored(memory, t.to, i, Eval(memory, t.from, i))
    ELSE LET first == Stored(memory, t.to1, i, Eval(memory, t.from1, i))
         IN Stored(first, t.to2, i, Eval(first, t.from2, i))

\* eval(i) of an assignment: both values of a double one are read before either
\* is stored.
After(memory, t, i) ==
    IF t.node = "assign" THEN Stored(memory, t.to, i, Eval(memory, t.from, i))
    ELSE Stored(Stored(memory, t.to1, i, Eval(memory, t.from1, i)),
                t.to2, i, Eval(memory, t.from2, i))

\* execute(t, localSize): as many whole groups as cover the tree.
GlobalSize(t, localSize) == ((Size(t) + localSize - 1) \div localSize) * localSize

\* Mutant: also the work-item after the last element.
ValidThreadToo(t, i) == i <= Size(t)

ValidThread(t, i) == i < Size(t)

\* The work-items that do anything.
Items(t, localSize) ==
    {i \in 0 .. GlobalSize(t, localSize) - 1 : ValidThread(t, i)}
================================================================================
