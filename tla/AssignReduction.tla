---------------------------- MODULE AssignReduction ----------------------------
(***************************************************************************)
(* One work-group of the kernel AssignReduction::eval(scratch, nd_item)    *)
(* (src/operations/blas1_trees.hpp): LocalSz work-items accumulate their   *)
(* share of the input in a register, put it in local memory, and reduce    *)
(* local memory as a binary tree with a barrier after every level.  The    *)
(* work-items run interleaved, one access to memory at a time.             *)
(*                                                                         *)
(* A behaviour is one launch of the kernel as seen by one work-group.  The *)
(* constants of the launch are in the variable "launch", chosen by Init    *)
(* and never changed:                                                      *)
(*    groups   number of work-groups; the kernel's global_num_thread_ is   *)
(*             groups * LocalSz (Executor::execute builds it so)           *)
(*    group    the id of this work-group                                   *)
(*    size     rhs_.get_size()                                             *)
(***************************************************************************)
EXTENDS Partial

CONSTANTS LocalSz,   \* work-items of a group, and local_num_thread_
          Launches   \* the launches to consider

ASSUME LocalSzAssumption == LocalSz \in Nat \ {0}

ASSUME LaunchesAssumption ==
    /\ Launches \subseteq [groups : Nat \ {0}, group : Nat, size : Nat]
    /\ \A l \in Launches : l.group < l.groups

Thread == 0 .. LocalSz - 1

VARIABLES launch,    \* the constants of this launch
          pc,        \* where each work-item is
          k,         \* the grid loop's index, per work-item
          val,       \* the register val, per work-item
          offset,    \* the tree loop's variable, per work-item
          scratch,   \* local memory of the group
          barriers,  \* how many barriers each work-item has reached
          lhs        \* the element lhs_.eval(groupid)

vars == <<launch, pc, k, val, offset, scratch, barriers, lhs>>

\* "grid"    in the loop over the grid, or about to store val in scratch
\* "arrive"  about to call the barrier
\* "wait"    inside the barrier
\* "tree"    at the test of the tree loop, with offset up to date
\* "store"   both operands read, the sum not yet stored
\* "return"  about to read lhs_.eval(groupid), the value nobody uses
\* "done"    returned
Location == {"grid", "arrive", "wait", "tree", "store", "return", "done"}

GlobalNum == launch.groups * LocalSz

FirstIndex(t) == 2 * launch.group * LocalSz + t

Init ==
    /\ launch \in Launches
    /\ pc = [t \in Thread |-> "grid"]
    /\ k = [t \in Thread |-> FirstIndex(t)]
    /\ val = [t \in Thread |-> Neutral]
    \* the loop starts from localSz >> 1: Leave halves it, the first time too
    /\ offset = [t \in Thread |-> LocalSz]
    /\ scratch = [t \in Thread |-> Garbage]
    /\ barriers = [t \in Thread |-> 0]
    /\ lhs = Garbage

Goto(t, l) == pc' = [pc EXCEPT ![t] = l]

\* Mutant: the loop steps by global_num_thread_, not twice that.
GridStepHalf(t) ==
    /\ pc[t] = "grid"
    /\ k[t] < launch.size
    /\ LET one == Eval(val[t], Element(k[t]))
       IN val' = [val EXCEPT ![t] =
                    IF k[t] + LocalSz < launch.size
                    THEN Eval(one, Element(k[t] + LocalSz)) ELSE one]
    /\ k' = [k EXCEPT ![t] = @ + GlobalNum]
    /\ UNCHANGED <<launch, pc, offset, scratch, barriers, lhs>>

\* Mutant: the index of the loop is not advanced.
GridStepStuck(t) ==
    /\ pc[t] = "grid"
    /\ k[t] < launch.size
    /\ val' = [val EXCEPT ![t] = Eval(@, Element(k[t]))]
    /\ UNCHANGED <<launch, pc, k, offset, scratch, barriers, lhs>>

\* One iteration of the loop over the grid: one or two elements of rhs_.
GridStep(t) ==
    /\ pc[t] = "grid"
    /\ k[t] < launch.size
    /\ LET one == Eval(val[t], Element(k[t]))
           two == Eval(one, Element(k[t] + LocalSz))
       IN val' = [val EXCEPT ![t] = IF k[t] + LocalSz < launch.size
                                    THEN two ELSE one]
    /\ k' = [k EXCEPT ![t] = @ + 2 * GlobalNum]
    /\ UNCHANGED <<launch, pc, offset, scratch, barriers, lhs>>

\* scratch[localid] = val
PutScratch(t) ==
    /\ pc[t] = "grid"
    /\ k[t] >= launch.size
    /\ scratch' = [scratch EXCEPT ![t] = val[t]]
    /\ Goto(t, "arrive")
    /\ UNCHANGED <<launch, k, val, offset, barriers, lhs>>

\* Reach the barrier: after a store, or at once for a work-item that takes
\* no part in this level of the tree (localid >= offset).
Arrive(t) ==
    /\ \/ pc[t] = "arrive"
       \/ pc[t] = "tree" /\ offset[t] > 0 /\ t >= offset[t]
    /\ barriers' = [barriers EXCEPT ![t] = @ + 1]
    /\ Goto(t, "wait")
    /\ UNCHANGED <<launch, k, val, offset, scratch, lhs>>

\* Mutant: no barrier at the end of a level.
LeaveAtOnce(t) ==
    /\ pc[t] = "wait"
    /\ offset' = [offset EXCEPT ![t] = @ \div 2]
    /\ Goto(t, "tree")
    /\ UNCHANGED <<launch, k, val, scratch, barriers, lhs>>

\* Mutant: the offset is shifted to the left.
LeaveShiftLeft(t) ==
    /\ pc[t] = "wait"
    /\ \A u \in Thread : barriers[u] >= barriers[t]
    /\ offset' = [offset EXCEPT ![t] = @ * 2]
    /\ Goto(t, "tree")
    /\ UNCHANGED <<launch, k, val, scratch, barriers, lhs>>

\* The barrier lets a work-item go when all of its group have reached it; on
\* the way out the tree loop computes its next offset.
Leave(t) ==
    /\ pc[t] = "wait"
    /\ \A u \in Thread : barriers[u] >= barriers[t]
    /\ offset' = [offset EXCEPT ![t] = @ \div 2]
    /\ Goto(t, "tree")
    /\ UNCHANGED <<launch, k, val, scratch, barriers, lhs>>

\* The two reads of one level of the tree ...
LoadPair(t) ==
    /\ pc[t] = "tree"
    /\ t < offset[t]
    /\ val' = [val EXCEPT ![t] = Eval(scratch[t], scratch[t + offset[t]])]
    /\ Goto(t, "store")
    /\ UNCHANGED <<launch, k, offset, scratch, barriers, lhs>>

\* Mutant: the barrier inside the tree loop is only for those that skip a level.
StoreSumAndGoOn(t) ==
    /\ pc[t] = "store"
    /\ scratch' = [scratch EXCEPT ![t] = val[t]]
    /\ offset' = [offset EXCEPT ![t] = @ \div 2]
    /\ Goto(t, "tree")
    /\ UNCHANGED <<launch, k, val, barriers, lhs>>

\* ... and its write.
StoreSum(t) ==
    /\ pc[t] = "store"
    /\ scratch' = [scratch EXCEPT ![t] = val[t]]
    /\ Goto(t, "arrive")
    /\ UNCHANGED <<launch, k, val, offset, barriers, lhs>>

\* Mutant: the test localid == 0 is dropped.
WriteBackByAll(t) ==
    /\ pc[t] = "tree"
    /\ offset[t] = 0
    /\ lhs' = scratch[t]
    /\ Goto(t, "return")
    /\ UNCHANGED <<launch, k, val, offset, scratch, barriers>>

\* The loop is over: work-item 0 writes the result of the group.
WriteBack(t) ==
    /\ pc[t] = "tree"
    /\ offset[t] = 0
    /\ t = 0
    /\ lhs' = scratch[t]
    /\ Goto(t, "return")
    /\ UNCHANGED <<launch, k, val, offset, scratch, barriers>>

\* Mutant: a work-item returns as soon as the tree has no more work for it.
ReturnWhenIdle(t) ==
    /\ \/ pc[t] = "return"
       \/ pc[t] = "tree" /\ t >= offset[t] /\ t # 0
    /\ Goto(t, "done")
    /\ UNCHANGED <<launch, k, val, offset, scratch, barriers, lhs>>

\* return lhs_.eval(groupid): a read whose value ExpressionTreeEvaluator
\* drops; the work-items other than 0 come here straight from the loop.
Return(t) ==
    /\ \/ pc[t] = "return"
       \/ pc[t] = "tree" /\ offset[t] = 0 /\ t # 0
    /\ Goto(t, "done")
    /\ UNCHANGED <<launch, k, val, offset, scratch, barriers, lhs>>

Step(t) == \/ GridStep(t)
           \/ PutScratch(t)
           \/ Arrive(t)
           \/ Leave(t)
           \/ LoadPair(t)
           \/ StoreSum(t)
           \/ WriteBack(t)
           \/ Return(t)

\* The end of the kernel: nothing is left to do.
Finished == /\ \A t \in Thread : pc[t] = "done"
            /\ UNCHANGED vars

Next == Finished \/ \E t \in Thread : Step(t)

\* A SYCL device makes progress on every work-item of a group that has
\* started: without that no barrier could ever be passed.
Fairness == \A t \in Thread : WF_vars(Step(t))

Spec == Init /\ [][Next]_vars /\ Fairness

\* The tree of the kernel halves the work-group until one work-item is left,
\* which takes in every cell only when no halving loses the last of an odd
\* number: when every divisor of LocalSz above 1 is even.
LocalSzIsPowerOfTwo ==
    \A d \in 2 .. LocalSz : (\E q \in 1 .. LocalSz : LocalSz = d * q) => d % 2 = 0

-------------------------------------------------------------------------------
(***************************************************************************)
(* Properties                                                              *)
(***************************************************************************)

TypeOK ==
    /\ launch \in Launches
    /\ pc \in [Thread -> Location]
    /\ k \in [Thread -> Nat]
    /\ val \in [Thread -> Partial]
    /\ offset \in [Thread -> 0 .. LocalSz]
    /\ scratch \in [Thread -> Partial]
    /\ barriers \in [Thread -> Nat]
    /\ lhs \in Partial

\* The cells of scratch that the next step of a work-item reads or writes.
Reads(t) ==
    IF pc[t] # "tree" THEN {}
    ELSE {c \in Thread : \/ t < offset[t] /\ c \in {t, t + offset[t]}
                         \/ offset[t] = 0 /\ t = 0 /\ c = t}

Writes(t) ==
    IF pc[t] = "store" \/ (pc[t] = "grid" /\ k[t] >= launch.size)
    THEN {t} ELSE {}

\* No two work-items are ever about to access the same cell of local memory
\* with one of them writing it: the barriers the code calls mandatory are
\* where they must be.
NoScratchRace ==
    \A t, u \in Thread :
        t # u => Writes(t) \cap (Reads(u) \cup Writes(u)) = {}

\* A work-item that reads a cell for level "offset" of the tree finds there
\* what the level before it left, never a value of an older or a newer
\* level: the owner of every cell it reads has finished level 2 * offset and
\* has not stored level offset, its own cell excepted.
ReadsAreOfThisLevel ==
    \A t \in Thread : \A c \in Reads(t) \ {t} :
        barriers[c] >= barriers[t] /\ pc[c] \notin {"store", "grid"}

\* The elements of the input that fall to this group.
GroupShare == Share(launch.size, LocalSz, launch.group, launch.groups)

\* What the group leaves in lhs_.eval(groupid) is the reduction of exactly
\* its share of the input, each element counted once and nothing else read.
GroupResultExact == lhs # Garbage => lhs = Exactly(GroupShare)

\* No work-item returns while another one waits at a barrier that the first
\* never reached: all work-items of a group execute the same barriers.
BarriersConverge ==
    \A t, u \in Thread :
        pc[t] = "done" => barriers[u] <= barriers[t]

\* Every work-item returns.
Termination == <>(\A t \in Thread : pc[t] = "done")

\* The promise of the kernel to the executor: a group delivers, in one step,
\* the reduction of its share.
Group == INSTANCE GroupReduction
            WITH launch <- [local |-> LocalSz, groups |-> launch.groups,
                            group |-> launch.group, size |-> launch.size],
                 result <- lhs

GroupSpec == Group!Spec
================================================================================
