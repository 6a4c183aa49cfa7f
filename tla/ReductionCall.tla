------------------------------ MODULE ReductionCall ------------------------------
(***************************************************************************)
(* What Executor::execute(AssignReduction) promises to the BLAS 1          *)
(* interface: for a grid it supports, and if no submission fails, the      *)
(* reduction of the whole input appears in the result in one step, and it  *)
(* appears.  ReductionExecutor implements it with a chain of kernels.      *)
(***************************************************************************)
EXTENDS Partial

VARIABLES size,       \* of the input, which does not change
          promised,   \* whether the call is one that the promise is made for
          result      \* what is in lhs, Garbage before

vars == <<size, promised, result>>

Init == promised => result = Garbage

Deliver ==
    /\ result = Garbage
    /\ result' = Exactly(0 .. size - 1)
    /\ UNCHANGED <<size, promised>>

\* No promise, and a promise that a failing submission ends.
Otherwise == ~promised'

Next == Deliver \/ Otherwise

Safety == Init /\ [][Next]_vars

Spec == Safety /\ WF_vars(promised /\ Deliver)
================================================================================
