---------------------------- MODULE ReductionExecutor ----------------------------
(***************************************************************************)
(* Executor::execute(AssignReduction) and its overload with a scratch      *)
(* buffer (src/executors/executor_sycl.hpp): the host loop that launches   *)
(* the reduction kernel over the input, then over the partial results of   *)
(* the launch before, ping-ponging between two temporary vectors, until    *)
(* one work-group is left, which writes the result.  The host runs ahead   *)
(* of the device: the launches are commands of the queue.                  *)
(*                                                                         *)
(* A work-group of a launch is one step here: AssignReduction shows that   *)
(* work-items, local memory and barriers implement that step.              *)
(***************************************************************************)
EXTENDS Partial, CommandQueue, FiniteSets

CONSTANT Calls   \* the calls of execute to consider

\* A call: t.local_num_thread_, t.global_num_thread_, t.get_size(), whether it
\* is the overload that receives its scratch buffer, and whether q_.submit may
\* throw a cl::sycl::exception.
CallsAssumption ==
    Calls \subseteq [local : Nat \ {0}, grid : Nat \ {0}, size : Nat,
                    scr : BOOLEAN, mayThrow : BOOLEAN]

ASSUME CallsAssumption

VARIABLES call,    \* the arguments of the call
          host,    \* "loop" in the do-while loop, "returned" after it
          nWG,     \* the loop's variables
          frst,
          even,
          event,   \* the events pushed so far
          ran,     \* for each command, the work-groups that have run
          mem      \* contents of the vectors lhs, opShMem1 and opShMem2

vars == <<queue, complete, call, host, nWG, frst, even, event, ran, mem>>

\* Mutant: the division rounds down.
FloorDiv(a, b) == a \div b

CeilDiv(a, b) == (a + b - 1) \div b

FirstNumGroups(c) == CeilDiv(c.grid, 2 * c.local)

\* Mutant: the temporaries have room for the groups of the second launch only.
SharedSizeOfSecond(c) == CeilDiv(FirstNumGroups(c), 2 * c.local)

SharedSize(c) ==
    IF FirstNumGroups(c) < c.local THEN c.local ELSE FirstNumGroups(c)

\* The grid that the BLAS 1 interface asks for: nWG = 2 * localSize.
InterfaceGrid(local) == local * (2 * local)

Vector == {"lhs", "opShMem1", "opShMem2"}

\* The buffer a vector is a view of: one for both temporaries when the caller
\* gave the scratch buffer.
BufferOf(v) ==
    IF call.scr /\ v \in {"opShMem1", "opShMem2"} THEN "scr" ELSE v

Init ==
    /\ QueueInit
    /\ call \in Calls
    /\ host = "loop"
    /\ nWG = FirstNumGroups(call)
    /\ frst = TRUE
    /\ even = FALSE
    /\ event = {}
    /\ ran = <<>>
    /\ mem = [v \in Vector |->
                [i \in 0 .. (IF v = "lhs" THEN 0 ELSE SharedSize(call) - 1) |->
                    Garbage]]

\* Mutant: the first launch writes to lhs, however many groups it has.
DestinationLhsFirst ==
    IF nWG = 1 \/ frst THEN "lhs"
    ELSE IF ~even THEN "opShMem1" ELSE "opShMem2"

\* Mutant: the vectors do not take turns.
DestinationFixed == IF nWG = 1 THEN "lhs" ELSE "opShMem1"

Destination ==
    IF nWG = 1 THEN "lhs"
    ELSE IF frst \/ ~even THEN "opShMem1" ELSE "opShMem2"

\* Mutant: every launch after the first reads the same vector.
SourceFixed == IF frst THEN "rhs" ELSE "opShMem2"

Source ==
    IF frst THEN "rhs" ELSE IF even THEN "opShMem1" ELSE "opShMem2"

\* The tree of the next launch: its operands and its number of groups.
NextLaunch ==
    LET bound == {BufferOf(Destination), BufferOf(Source)}
    IN [src |-> Source, dst |-> Destination, groups |-> nWG,
        reads |-> bound, writes |-> bound]

\* _N = nWG and the loop's end.
Iterate ==
    /\ nWG' = CeilDiv(nWG, 2 * call.local)
    /\ host' = IF nWG > 1 THEN "loop" ELSE "returned"
    /\ frst' = FALSE
    /\ even' = ~even

\* One iteration of the loop whose execute_tree submits its kernel.
Launch ==
    /\ host = "loop"
    /\ Submit(NextLaunch)
    /\ ran' = Append(ran, {})
    /\ event' = event \cup {NextEvent}
    /\ Iterate
    /\ UNCHANGED <<call, mem>>

\* One iteration whose submission throws: execute_tree prints the message and
\* returns a default event, and the loop goes on.
LaunchThrows ==
    /\ call.mayThrow
    /\ host = "loop"
    /\ event' = event \cup {NoEvent}
    /\ Iterate
    /\ UNCHANGED <<queue, complete, call, ran, mem>>

\* The size of the operand of a launch: the temporaries are views of
\* sharedSize elements whatever the number of partial results in them.
SrcSize(c) == IF c.src = "rhs" THEN call.size ELSE SharedSize(call)

\* What a work-group reduces: the cells of its share of the operand.
Reduce(c, g) ==
    LET share == Share(SrcSize(c), call.local, g, c.groups)
    IN IF c.src = "rhs" THEN Exactly(share) ELSE EvalAll(mem[c.src], share)

\* Work-group g of command e runs, and the command completes with its last
\* work-group.
RunGroup(e, g) ==
    /\ Ready(e)
    /\ g \in (0 .. queue[e].groups - 1) \ ran[e]
    /\ mem' = [mem EXCEPT ![queue[e].dst][g] = Reduce(queue[e], g)]
    /\ ran' = [ran EXCEPT ![e] = @ \cup {g}]
    /\ IF Cardinality(ran[e]) + 1 = queue[e].groups
       THEN Complete(e)
       ELSE UNCHANGED <<queue, complete>>
    /\ UNCHANGED <<call, host, nWG, frst, even, event>>

Device == \E e \in DOMAIN queue : \E g \in 0 .. queue[e].groups - 1 :
             RunGroup(e, g)

Finished == host = "returned" /\ Idle /\ UNCHANGED vars

Next == Launch \/ LaunchThrows \/ Device \/ Finished

\* The host is a sequential program, and the device runs what may run.
Fairness == WF_vars(Launch \/ LaunchThrows) /\ WF_vars(Device)

Spec == Init /\ [][Next]_vars /\ Fairness

-------------------------------------------------------------------------------
(***************************************************************************)
(* Properties                                                              *)
(***************************************************************************)

Command == [src : Vector \cup {"rhs"}, dst : Vector, groups : Nat \ {0},
            reads : SUBSET {"rhs", "lhs", "opShMem1", "opShMem2", "scr"},
            writes : SUBSET {"rhs", "lhs", "opShMem1", "opShMem2", "scr"}]

TypeOK ==
    /\ queue \in Seq(Command)
    /\ complete \subseteq {NoEvent} \cup DOMAIN queue
    /\ call \in Calls
    /\ host \in {"loop", "returned"}
    /\ nWG \in Nat \ {0}
    /\ frst \in BOOLEAN /\ even \in BOOLEAN
    /\ event \subseteq {NoEvent} \cup DOMAIN queue
    /\ ran \in Seq(SUBSET Nat) /\ Len(ran) = Len(queue)
    /\ \A v \in Vector : \A i \in DOMAIN mem[v] : mem[v][i] \in Partial

result == mem["lhs"][0]

WholeInput == Exactly(0 .. call.size - 1)

\* The grids of the BLAS 1 interface, for which execute was written.  With a
\* grid whose first launch has more groups than one and fewer than a group has
\* work-items, or that takes three launches, a later launch reduces cells of
\* the temporaries that nothing wrote.
Supported == call.grid = InterfaceGrid(call.local)

\* A caller that has waited for the events execute returned finds in lhs the
\* reduction of the whole input, every element of it evaluated exactly once
\* (an operand may be an assignment: blas1_scal_asum_test.cpp), provided that
\* no submission failed.
WaitedResultExact ==
    (Supported /\ host = "returned" /\ Waited(event) /\ NoEvent \notin event)
        => result = WholeInput

\* Even when a submission fails the result is never a sum of some of the
\* elements only: it is exact, or made from memory that nothing initialised.
NeverPartOfTheInput ==
    Supported => GarbageId \in result.of \/ result = WholeInput

\* No work-group writes past the end of the vector it writes to, for any grid.
WritesInBounds ==
    \A e \in DOMAIN queue : queue[e].groups - 1 \in DOMAIN mem[queue[e].dst]

\* While some work-groups of a launch have run and others have not, no cell of
\* the vector they all read is written, by the launch itself or by another:
\* with two vectors taking turns the launches of a call never overtake, for
\* any grid and whatever submissions fail.
OperandsStable ==
    [][\A e \in DOMAIN queue :
          ran[e] # {} /\ e \notin complete /\ queue[e].src # "rhs"
              => mem'[queue[e].src] = mem[queue[e].src]]_vars

\* The promise of execute to the BLAS 1 interface: the result of the whole
\* input appears in one step, and it appears.
Promised == INSTANCE ReductionCall
               WITH size <- call.size,
                    promised <- Supported /\ NoEvent \notin event

CallSpec == Promised!Spec
================================================================================
