------------------------------ MODULE PartialRows ------------------------------
(***************************************************************************)
(* One work-group of the kernel ReductionPartialRows::eval                 *)
(* (src/operations/extension/reduction_partial_rows.hpp): a block of       *)
(* WgRows * WgCols work-items reduces WgRows rows of a matrix, each over   *)
(* the columns that fall to the group's block column, through a tree in    *)
(* local memory with the barrier at the start of every level.              *)
(*                                                                         *)
(* "launch" holds the constants of the launch, never changed: the work-    *)
(* group's shape (params_t::work_group_rows and work_group_cols), the      *)
(* dimensions rows and cols of in_ (stored by columns, leading dimension   *)
(* rows), group_count_cols_ as count, and the group's id.                  *)
(***************************************************************************)
EXTENDS Partial

CONSTANTS Launches,         \* the launches to consider
          MaxItems,         \* the work-items of the largest work-group
          BarrierForgives   \* whether a barrier lets a group go on when some
                            \* of its work-items have returned before it

PartialRowsAssumption ==
    /\ \A l \in Launches :
          /\ {l.wgRows, l.wgCols, l.rows, l.count} \subseteq Nat \ {0}
          /\ {l.cols, l.group} \subseteq Nat
    /\ MaxItems \in Nat /\ \A l \in Launches : l.wgRows * l.wgCols <= MaxItems
    /\ BarrierForgives \in BOOLEAN

VARIABLES launch,
          pc,         \* where each work-item is
          elemCol,    \* elem_col, the sequential loop's index
          val,        \* the accumulator, then the sum of a level of the tree
          stride,     \* the tree loop's variable
          rhs,        \* rhs_idx
          scratch,    \* local memory
          barriers,   \* how many barriers each work-item has reached
          out         \* the cells this group has written in out_

WgRows == launch.wgRows
WgCols == launch.wgCols

Item == 0 .. WgRows * WgCols - 1

vars == <<launch, pc, elemCol, val, stride, rhs, scratch, barriers, out>>

\* "start"   before the test of global_row
\* "load"    in the sequential loop, or about to store the accumulator
\* "tree"    at the test of the tree loop
\* "wait"    inside the barrier
\* "level"   past the barrier
\* "store"   both operands read, the sum not yet stored
\* "done"    returned
Location == {"start", "load", "tree", "wait", "level", "store", "done"}

LocalCol(t) == t \div WgRows
LocalRow(t) == t - LocalCol(t) * WgRows

GroupCountRows == (launch.rows - 1) \div WgRows + 1
GroupCol == launch.group \div GroupCountRows
GroupRow == launch.group - GroupCol * GroupCountRows

GlobalRow(t) == GroupRow * WgRows + LocalRow(t)
GlobalCol(t) == GroupCol * WgCols + LocalCol(t)

TotalItemCols == WgCols * launch.count

\* The element of in_ at a row and a column: its place in the buffer.
At(row, col) == launch.rows * col + row

Init ==
    /\ launch \in Launches
    /\ pc = [t \in Item |-> "start"]
    /\ elemCol = [t \in Item |-> GlobalCol(t)]
    /\ val = [t \in Item |-> Neutral]
    /\ stride = [t \in Item |-> WgCols \div 2]
    /\ rhs = [t \in Item |->
                (LocalCol(t) + WgCols \div 2) * WgRows + LocalRow(t)]
    /\ scratch = [t \in Item |-> Garbage]
    /\ barriers = [t \in Item |-> 0]
    /\ out = <<>>

Goto(t, l) == pc' = [pc EXCEPT ![t] = l]

\* Mutant: every work-item works.
EnterAll(t) ==
    /\ pc[t] = "start"
    /\ Goto(t, "load")
    /\ UNCHANGED <<launch, elemCol, val, stride, rhs, scratch, barriers, out>>

\* Mutant: the last row does not count.
EnterShort(t) ==
    /\ pc[t] = "start"
    /\ Goto(t, IF GlobalRow(t) >= launch.rows - 1 THEN "done" ELSE "load")
    /\ UNCHANGED <<launch, elemCol, val, stride, rhs, scratch, barriers, out>>

\* In the groups at the bottom of the matrix some work-items do not work: they
\* return before the first barrier.
Enter(t) ==
    /\ pc[t] = "start"
    /\ Goto(t, IF GlobalRow(t) >= launch.rows THEN "done" ELSE "load")
    /\ UNCHANGED <<launch, elemCol, val, stride, rhs, scratch, barriers, out>>

\* Mutant: the loop steps by the columns of one group.
LoadNextBlock(t) ==
    /\ pc[t] = "load"
    /\ elemCol[t] < launch.cols
    /\ val' = [val EXCEPT ![t] = Eval(@, Element(At(GlobalRow(t), elemCol[t])))]
    /\ elemCol' = [elemCol EXCEPT ![t] = @ + WgCols]
    /\ UNCHANGED <<launch, pc, stride, rhs, scratch, barriers, out>>

\* One trip of the sequential loop.
LoadElement(t) ==
    /\ pc[t] = "load"
    /\ elemCol[t] < launch.cols
    /\ val' = [val EXCEPT ![t] = Eval(@, Element(At(GlobalRow(t), elemCol[t])))]
    /\ elemCol' = [elemCol EXCEPT ![t] = @ + TotalItemCols]
    /\ UNCHANGED <<launch, pc, stride, rhs, scratch, barriers, out>>

\* The accumulator goes to local memory.
PutScratch(t) ==
    /\ pc[t] = "load"
    /\ elemCol[t] >= launch.cols
    /\ scratch' = [scratch EXCEPT ![WgRows * LocalCol(t) + LocalRow(t)] = val[t]]
    /\ Goto(t, "tree")
    /\ UNCHANGED <<launch, elemCol, val, stride, rhs, barriers, out>>

\* The tree loop goes on: every work-item that is still there arrives at the
\* barrier, whether or not it has a part in the level.
Arrive(t) ==
    /\ pc[t] = "tree"
    /\ stride[t] > 0
    /\ barriers' = [barriers EXCEPT ![t] = @ + 1]
    /\ Goto(t, "wait")
    /\ UNCHANGED <<launch, elemCol, val, stride, rhs, scratch, out>>

\* Mutant: no barrier in the tree loop.
LeaveAtOnce(t) ==
    /\ pc[t] = "wait"
    /\ Goto(t, "level")
    /\ UNCHANGED <<launch, elemCol, val, stride, rhs, scratch, barriers, out>>

\* What the barrier does when a work-item of the group has returned is not
\* defined: devices that count the live work-items let the others go on,
\* devices that count all of them do not.
Leave(t) ==
    /\ pc[t] = "wait"
    /\ \A u \in Item : \/ barriers[u] >= barriers[t]
                       \/ BarrierForgives /\ pc[u] = "done"
    /\ Goto(t, "level")
    /\ UNCHANGED <<launch, elemCol, val, stride, rhs, scratch, barriers, out>>

\* A work-item with no part in the level goes to the next one.
Skip(t) ==
    /\ pc[t] = "level"
    /\ LocalCol(t) >= stride[t]
    /\ stride' = [stride EXCEPT ![t] = @ \div 2]
    /\ Goto(t, "tree")
    /\ UNCHANGED <<launch, elemCol, val, rhs, scratch, barriers, out>>

LoadPair(t) ==
    /\ pc[t] = "level"
    /\ LocalCol(t) < stride[t]
    /\ val' = [val EXCEPT ![t] =
                 Eval(scratch[LocalCol(t) * WgRows + LocalRow(t)],
                      scratch[rhs[t]])]
    /\ Goto(t, "store")
    /\ UNCHANGED <<launch, elemCol, stride, rhs, scratch, barriers, out>>

\* Mutant: rhs_idx is moved by the whole stride.
StoreSumFar(t) ==
    /\ pc[t] = "store"
    /\ scratch' = [scratch EXCEPT ![LocalCol(t) * WgRows + LocalRow(t)] = val[t]]
    /\ rhs' = [rhs EXCEPT ![t] = @ - stride[t] * WgRows]
    /\ stride' = [stride EXCEPT ![t] = @ \div 2]
    /\ Goto(t, "tree")
    /\ UNCHANGED <<launch, elemCol, val, barriers, out>>

StoreSum(t) ==
    /\ pc[t] = "store"
    /\ scratch' = [scratch EXCEPT ![LocalCol(t) * WgRows + LocalRow(t)] = val[t]]
    /\ rhs' = [rhs EXCEPT ![t] = @ - (stride[t] \div 2) * WgRows]
    /\ stride' = [stride EXCEPT ![t] = @ \div 2]
    /\ Goto(t, "tree")
    /\ UNCHANGED <<launch, elemCol, val, barriers, out>>

\* Where a row's result goes: a column of out_ for each block column.
Cell(row) == GroupCol * launch.rows + row

\* After the loop the work-items of the first column write the results.
WriteBack(t) ==
    /\ pc[t] = "tree"
    /\ stride[t] = 0
    /\ LocalCol(t) = 0
    /\ out' = [i \in DOMAIN out \cup {Cell(GlobalRow(t))} |->
                 IF i = Cell(GlobalRow(t)) THEN scratch[LocalRow(t)] ELSE out[i]]
    /\ Goto(t, "done")
    /\ UNCHANGED <<launch, elemCol, val, stride, rhs, scratch, barriers>>

Return(t) ==
    /\ pc[t] = "tree"
    /\ stride[t] = 0
    /\ LocalCol(t) # 0
    /\ Goto(t, "done")
    /\ UNCHANGED <<launch, elemCol, val, stride, rhs, scratch, barriers, out>>

Step(t) == \/ Enter(t)
           \/ LoadElement(t)
           \/ PutScratch(t)
           \/ Arrive(t)
           \/ Leave(t)
           \/ Skip(t)
           \/ LoadPair(t)
           \/ StoreSum(t)
           \/ WriteBack(t)
           \/ Return(t)

Finished == (\A t \in Item : pc[t] = "done") /\ UNCHANGED vars

Next == Finished \/ \E t \in Item : Step(t)

Fairness == \A t \in 0 .. MaxItems - 1 : WF_vars(t \in Item /\ Step(t))

Spec == Init /\ [][Next]_vars /\ Fairness

-------------------------------------------------------------------------------
(***************************************************************************)
(* Properties                                                              *)
(***************************************************************************)

TypeOK ==
    /\ launch.group \in Nat
    /\ pc \in [Item -> Location]
    /\ elemCol \in [Item -> Nat]
    /\ val \in [Item -> Partial]
    /\ stride \in [Item -> 0 .. WgCols]
    /\ rhs \in [Item -> Nat]
    /\ scratch \in [Item -> Partial]
    /\ barriers \in [Item -> Nat]
    /\ DOMAIN out \subseteq Nat

Reads(t) ==
    CASE pc[t] = "level" /\ LocalCol(t) < stride[t] -> {t, rhs[t]}
      [] pc[t] = "tree" /\ stride[t] = 0 /\ LocalCol(t) = 0 -> {LocalRow(t)}
      [] OTHER -> {}

Writes(t) ==
    IF pc[t] = "store" \/ (pc[t] = "load" /\ elemCol[t] >= launch.cols)
    THEN {t} ELSE {}

\* One barrier a level, at its start, is enough: no two work-items are about to
\* access the same cell of local memory with one of them writing it, although
\* a level's writes and the next level's reads share the array.
NoScratchRace ==
    \A t, u \in Item :
        t # u => Writes(t) \cap (Reads(u) \cup Writes(u)) = {}

\* The columns of a row that fall to this block column.
ColumnShare(row) ==
    {At(row, c) : c \in {c \in 0 .. launch.cols - 1 :
                            /\ c >= GroupCol * WgCols
                            /\ (c - GroupCol * WgCols) % TotalItemCols < WgCols}}

\* Each cell the group writes holds the reduction of exactly its row's share,
\* with no element of another row, none twice, and nothing uninitialised even
\* when part of the block of work-items has returned early.
CellsExact ==
    \A row \in 0 .. launch.rows - 1 :
        Cell(row) \in DOMAIN out => out[Cell(row)] = Exactly(ColumnShare(row))

\* The comment on the class: "the output buffer will contain the same number of
\* rows as the input buffer and a smaller number of columns", the number given
\* to the constructor as group_count_cols.
OutputFits == DOMAIN out \subseteq 0 .. launch.rows * launch.count - 1

\* The comment on the barrier: "synchronize group".  No work-item returns while
\* another is at a barrier that the first never reached.
GroupSynchronizes ==
    \A t, u \in Item : pc[t] = "done" => barriers[u] <= barriers[t]

\* Every row of the group's block gets its cell.
CellsWritten ==
    \A t \in Item : LocalCol(t) = 0 /\ GlobalRow(t) < launch.rows
                      => Cell(GlobalRow(t)) \in DOMAIN out
AllCellsWritten == <>CellsWritten
================================================================================
