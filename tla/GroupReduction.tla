---------------------------- MODULE GroupReduction ----------------------------
(***************************************************************************)
(* What a work-group of a reduction kernel promises to the program that    *)
(* launched it: it delivers its result once, whole, and the result is the  *)
(* reduction of exactly the group's share of the input.  ReductionExecutor *)
(* runs kernels whose groups take the step Deliver; AssignReduction        *)
(* implements it with work-items, local memory and barriers.               *)
(***************************************************************************)
EXTENDS Partial

VARIABLES launch,  \* local, groups, group and size, which never change
          result   \* what the group has delivered, Garbage before

Init == result = Garbage

Deliver ==
    /\ result = Garbage
    /\ result' = Exactly(Share(launch.size, launch.local,
                               launch.group, launch.groups))
    /\ UNCHANGED launch

Safety == Init /\ [][Deliver]_<<launch, result>>

Spec == Safety /\ WF_<<launch, result>>(Deliver)
================================================================================
