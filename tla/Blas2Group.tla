------------------------------- MODULE Blas2Group -------------------------------
(***************************************************************************)
(* What the BLAS 2 kernels have in common: one work-group, its barriers,   *)
(* its local memory, and what it writes in its output.  What a work-item   *)
(* does between two barriers is one step; NoLocalRace says that the other  *)
(* items cannot tell.                                                      *)
(*                                                                         *)
(* "launch" never changes: the template arguments, the sizes, the numbers  *)
(* of groups and the group's id.                                           *)
(***************************************************************************)
EXTENDS GemmProduct, Sequences

CONSTANT Launches   \* the launches to consider

VARIABLES launch,
          pc,        \* what each work-item does next
          waiting,   \* whether it is inside a barrier before that
          barriers,  \* how many barriers it has reached
          pos,       \* the variable of its outer loop
          offset,    \* the variable of its inner loop
          acc,       \* its accumulator
          scratch,   \* local memory
          out        \* what the group has written in its output

vars == <<launch, pc, waiting, barriers, pos, offset, acc, scratch, out>>

Item == 0 .. launch.localSz - 1

Runs(i) == waiting[i] => \A u \in Item : barriers[u] >= barriers[i]

At(i, l) == pc[i] = l /\ Runs(i)

Goto(i, l) ==
    /\ pc' = [pc EXCEPT ![i] = l]
    /\ waiting' = [waiting EXCEPT ![i] = FALSE]
    /\ UNCHANGED barriers

BarrierThen(i, l) ==
    /\ pc' = [pc EXCEPT ![i] = l]
    /\ waiting' = [waiting EXCEPT ![i] = TRUE]
    /\ barriers' = [barriers EXCEPT ![i] = @ + 1]

\* A group before its first step.
Start(l, pos0, cells, garbage) ==
    /\ pc = [i \in Item |-> l]
    /\ waiting = [i \in Item |-> FALSE]
    /\ barriers = [i \in Item |-> 0]
    /\ pos = [i \in Item |-> pos0]
    /\ offset = [i \in Item |-> 0]
    /\ acc = [i \in Item |-> Nothing]
    /\ scratch = [a \in 0 .. cells - 1 |-> garbage]
    /\ out = [a \in {} |-> Nothing]

\* The output once its cell a is written.
Put(a, value) == Over([x \in {a} |-> value], out)

Done == \A i \in Item : pc[i] = "done"

\* A product that consists of these terms, each once.
Exactly(products) == [c |-> {}, of |-> products, once |-> TRUE]

\* The sum of two accumulators.
Added(a, b) == [c |-> a.c \cup b.c, of |-> a.of \cup b.of,
                once |-> a.once /\ b.once /\ a.of \cap b.of = {}]

Elem(row, col) == FromA(<<row, col>>)

\* The part of a matrix that the template arguments Lower, Diag, Upper and Unit
\* choose: with Unit its diagonal is one and is not read.
Strict == IF ~launch.diag \/ launch.unit THEN 1 ELSE 0
InTriangle(row, col) ==
    \/ launch.lower /\ col + Strict <= row
    \/ launch.upper /\ col >= row + Strict

\* vector_.eval(row), the product by a diagonal that is one.
One == <<"one", 0>>
UnitTerm(row) == <<One, FromB(row)>>

\* The products of a row of the triangle with x, over a set of columns.
RowProducts(row, cols) ==
    {<<Elem(row, col), FromB(col)>> : col \in {l \in cols : InTriangle(row, l)}}
      \cup (IF launch.diag /\ launch.unit /\ row \in cols THEN {UnitTerm(row)}
            ELSE {})

TypeOK ==
    /\ DOMAIN pc = Item
    /\ waiting \in [Item -> BOOLEAN]
    /\ barriers \in [Item -> Nat]
    /\ pos \in [Item -> Nat]
    /\ offset \in [Item -> 0 .. launch.localSz]
    /\ \A i \in Item : acc[i].once \in BOOLEAN
================================================================================
