-------------------------- MODULE RowReductionExecutor --------------------------
(***************************************************************************)
(* Executor::execute(Reduction<..., partial_rows>)                         *)
(* (src/executors/executor_sycl.hpp): a matrix with many columns is        *)
(* reduced in two kernels through a temporary with group_count_cols        *)
(* columns, one with few columns in a single kernel.  The two limits of    *)
(* the two-step reduction are function-local statics: they keep, for all   *)
(* later calls, the values that the first two-step call gave them.         *)
(*                                                                         *)
(* A program makes NumCalls calls, each with an output of its own, and     *)
(* waits for none of them before the next.  A work-group's cell of the     *)
(* output is one step here: PartialRows has the work-items behind it.      *)
(***************************************************************************)
EXTENDS Partial, CommandQueue, FiniteSets

CONSTANTS WgCols,           \* params_t::work_group_cols
          TwoStepAbove,     \* 2048 in the code
          Matrices,         \* the inputs: rows, cols and the name of a buffer
          NumCalls

Call == 1 .. NumCalls
NoLimit == 0

\* The buffers of a call: its temporary and its output.
Temp(c) == <<"temp", c>>
Out(c) == <<"out", c>>

\* The temporary and the output of a call are no inputs.
RowReductionAssumption ==
    /\ {WgCols, TwoStepAbove, NumCalls} \subseteq Nat \ {0}
    /\ \A m \in Matrices :
          /\ m.rows \in Nat \ {0} /\ m.cols \in Nat \ {0}
          /\ \A c \in Call : m.name \notin {Temp(c), Out(c)}

VARIABLES in,       \* in_ of each call made so far
          static,   \* group_count_cols, NoLimit before its initialisation
          events,   \* the events of each call made so far
          ran,      \* for each command, the cells that have been written
          mem       \* the contents of each buffer of each call

vars == <<queue, complete, in, static, events, ran, mem>>

CeilDiv(a, b) == (a - 1) \div b + 1

\* The initialiser of the static group_count_cols.
Limit(m) == IF WgCols < CeilDiv(m.cols, WgCols)
            THEN WgCols ELSE CeilDiv(m.cols, WgCols)

Init ==
    /\ QueueInit
    /\ in = <<>>
    /\ static = NoLimit
    /\ events = <<>>
    /\ ran = <<>>
    /\ mem = <<>>

\* Mutant: only the output is bound.
StepOutputBound(c, src, cols, dst, rows, count) ==
    [call |-> c, src |-> src, cols |-> cols, dst |-> dst, rows |-> rows,
     count |-> count, reads |-> {dst}, writes |-> {dst}]

\* A kernel of the current call: cols columns of src into count columns of dst.
\* The views bind both of their buffers for reading and writing.
Step(c, src, cols, dst, rows, count) ==
    [call |-> c, src |-> src, cols |-> cols, dst |-> dst, rows |-> rows,
     count |-> count,
     reads |-> {src, dst}, writes |-> {src, dst}]

TwoSteps(c, m, count) ==
    <<Step(c, m.name, m.cols, Temp(c), m.rows, count),
      Step(c, Temp(c), count, Out(c), m.rows, 1)>>

OneStep(c, m) == <<Step(c, m.name, m.cols, Out(c), m.rows, 1)>>

Cells(n) == [i \in 0 .. n - 1 |-> Garbage]

\* Mutant: only the event of the first step is returned.
EventsOfFirst(n) == {Len(queue) + 1}

\* Mutant: the events are those of the next call.
EventsAhead(n) == Len(queue) + 2 .. Len(queue) + n + 1

\* The events of the n kernels submitted.
EventsOf(n) == Len(queue) + 1 .. Len(queue) + n

\* One call of execute.  It submits all its kernels at once.
Execute(m) ==
    LET c == Len(in) + 1
        twoStep == m.cols > TwoStepAbove
        count == IF static = NoLimit THEN Limit(m) ELSE static
        kernels == IF twoStep THEN TwoSteps(c, m, count) ELSE OneStep(c, m)
    IN /\ c \in Call
       /\ in' = Append(in, m)
       /\ static' = IF twoStep THEN count ELSE static
       /\ queue' = queue \o kernels
       /\ ran' = ran \o [i \in DOMAIN kernels |-> {}]
       /\ events' = Append(events, EventsOf(Len(kernels)))
       /\ mem' = Append(mem, [temp |-> IF twoStep THEN Cells(m.rows * count)
                                       ELSE <<>>,
                              out  |-> Cells(m.rows)])
       /\ UNCHANGED complete

\* The elements of a row of the source that fall to a block column, and what
\* reducing them gives.
ColumnsOf(k, col) ==
    {x \in 0 .. k.cols - 1 :
        x >= col * WgCols /\ (x - col * WgCols) % (WgCols * k.count) < WgCols}

Reduce(k, col, row) ==
    IF k.src = Temp(k.call)
    THEN EvalAll(mem[k.call].temp,
                 {k.rows * x + row : x \in ColumnsOf(k, col)})
    ELSE Exactly({k.rows * x + row : x \in ColumnsOf(k, col)})

CellsOf(k) == {k.rows * col + row : col \in 0 .. k.count - 1, row \in 0 .. k.rows - 1}

\* One cell of the output of command e.
WriteCell(e, col, row) ==
    LET k == queue[e]
        cell == k.rows * col + row
        dst == IF k.dst = Out(k.call) THEN "out" ELSE "temp"
    IN /\ Ready(e)
       /\ cell \in CellsOf(k) \ ran[e]
       /\ ran' = [ran EXCEPT ![e] = @ \cup {cell}]
       /\ mem' = IF cell \in DOMAIN mem[k.call][dst]
                 THEN [mem EXCEPT ![k.call][dst][cell] = Reduce(k, col, row)]
                 ELSE mem
       /\ UNCHANGED <<queue, complete, in, static, events>>

\* The command completes some time after its cells are written: the groups that
\* get_num_workgroup_cluster adds to keep the device busy have block columns
\* from k.count on, and write past the end of the output (see PartialRows).
Finish(e) ==
    /\ Ready(e)
    /\ ran[e] = CellsOf(queue[e])
    /\ Complete(e)
    /\ UNCHANGED <<in, static, events, ran, mem>>

Host == \E m \in Matrices : Execute(m)

Device ==
    \E e \in DOMAIN queue :
        \/ \E col \in 0 .. queue[e].count - 1 :
              \E row \in 0 .. queue[e].rows - 1 : WriteCell(e, col, row)
        \/ Finish(e)

Finished == Len(in) = NumCalls /\ Idle /\ UNCHANGED vars

Next == Host \/ Device \/ Finished

Fairness == WF_vars(Host) /\ WF_vars(Device)

Spec == Init /\ [][Next]_vars /\ Fairness

-------------------------------------------------------------------------------
(***************************************************************************)
(* Properties                                                              *)
(***************************************************************************)

TypeOK ==
    /\ in \in Seq(Matrices)
    /\ static \in Nat
    /\ complete \subseteq {NoEvent} \cup DOMAIN queue
    /\ Len(events) = Len(in) /\ Len(mem) = Len(in) /\ Len(ran) = Len(queue)
    /\ \A c \in DOMAIN events : events[c] \subseteq DOMAIN queue
    /\ \A c \in DOMAIN mem : \A i \in DOMAIN mem[c].out : mem[c].out[i] \in Partial

RowOf(m, row) == {m.rows * x + row : x \in 0 .. m.cols - 1}

\* When the events that a call returned have completed, every row of its output
\* is the reduction of all the columns of that row of its input: also when the
\* limits of the two-step reduction are those of another call's matrix.
RowsExact ==
    \A c \in DOMAIN in : Waited(events[c]) =>
        \A row \in DOMAIN mem[c].out :
            mem[c].out[row] = Exactly(RowOf(in[c], row))

\* A cell of an output is written once, and never holds part of its row: nobody
\* who reads the output of a call early takes a partial result for the result.
RowsAppearWhole ==
    \A c \in DOMAIN in : \A row \in DOMAIN mem[c].out :
       mem'[c].out[row] # mem[c].out[row]
           => /\ mem[c].out[row] = Garbage
              /\ mem'[c].out[row] = Exactly(RowOf(in[c], row))

OutputAppearsWhole == [][RowsAppearWhole]_vars

\* Every call is made, and every call completes.
AllWaited == Len(in) = NumCalls /\ \A c \in Call : Waited(events[c])

AllComplete == <>AllWaited
================================================================================
