-------------------------------- MODULE Partial --------------------------------
(***************************************************************************)
(* The values a reduction computes with (blas1_trees.hpp, and the          *)
(* operators of blas_operators.hpp).                                       *)
(*                                                                         *)
(* Every reduction operator of the library (AddOperator,                   *)
(* AbsoluteAddOperator, IMaxOperator, IMinOperator) is used as a           *)
(* commutative and associative operation with a neutral element, so what   *)
(* a partial result is depends only on which elements of the input went    *)
(* into it, and how often.  A partial result is therefore the set "of" of  *)
(* the input positions it accounts for, with a flag "once" that stays TRUE *)
(* as long as no position was counted twice.  Rounding is not modelled.    *)
(*                                                                         *)
(* Memory that nothing has written yet has the value Garbage, which is a   *)
(* pseudo position of its own: a result that has read it carries it for    *)
(* ever.                                                                   *)
(***************************************************************************)
EXTENDS Integers

\* The pseudo position that a read of uninitialised memory contributes.
GarbageId == -1

Position == Nat \cup {GarbageId}

Partial == [of : SUBSET Position, once : BOOLEAN]

\* operator_t::init(): the neutral element.
Neutral == [of |-> {}, once |-> TRUE]

\* rhs_.eval(k) for an element k of the input vector.
Element(k) == [of |-> {k}, once |-> TRUE]

Garbage == Element(GarbageId)

\* operator_t::eval(l, r).
Eval(l, r) == [of   |-> l.of \cup r.of,
               once |-> l.once /\ r.once /\ l.of \cap r.of = {}]

\* The reduction of exactly the positions in S, each of them counted once.
Exactly(S) == [of |-> S, once |-> TRUE]

\* Eval over all the cells c[i] with i in S, in any order.
EvalAll(c, S) ==
    [of   |-> UNION {c[i].of : i \in S},
     once |-> /\ \A i \in S : c[i].once
              /\ \A i, j \in S : i # j => c[i].of \cap c[j].of = {}]

\* How a kernel of "groups" work-groups of "local" work-items deals an input of
\* n elements: blocks of 2 * local elements go to the groups in turn.
Share(n, local, group, groups) ==
    {i \in 0 .. n - 1 : (i \div (2 * local)) % groups = group}
================================================================================
