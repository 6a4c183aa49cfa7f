------------------------------ MODULE Blas1Session ------------------------------
(***************************************************************************)
(* A host program that calls the BLAS 1 reductions (_dot, _asum, _iamax,   *)
(* _iamin, _nrm2 of src/interface/blas1_interface.hpp) and reads their     *)
(* results, over the queue.  Every call has one of two forms:              *)
(*    "passed"    the overload that writes the result in a container rs    *)
(*                and returns events; the program copies rs to the host    *)
(*                with copy_to_host, waits for the copy when it needs the  *)
(*                value, and may submit further calls on the same rs       *)
(*                before it does (the protocol of test/unittest/blas1)     *)
(*    "returned"  the overload that returns the value itself               *)
(* A whole reduction is one command here: ReductionExecutor shows that its *)
(* launches implement that.                                                *)
(***************************************************************************)
EXTENDS CommandQueue

CONSTANTS NumCalls,   \* calls in a session
          Forms       \* the forms the session uses

SessionAssumption ==
    NumCalls \in Nat \ {0} /\ Forms \subseteq {"passed", "returned"}

Call == 1 .. NumCalls

\* _nrm2 has a second kernel, the square root; the other four do not differ.
Op == {"dot", "nrm2"}

VARIABLES op,       \* the operation of each call
          form,     \* the form of each call
          current,  \* the call the host is in
          stage,    \* the next thing it does in that call
          events,   \* for each call, the events of its kernels
          copied,   \* for each call, the event of its copy_to_host
          device,   \* the contents of each device container
          res,      \* the host variable each call's copy goes to
          got       \* the value the program got from each call

vars == <<queue, complete, op, form, current, stage, events, copied, device,
          res, got>>

Nobody == 0

\* Values: what a cell holds, and of which call.
Value == [is : {"undefined", "initial", "sum", "result"}, of : Call \cup {Nobody}]
Undefined  == [is |-> "undefined", of |-> Nobody]
Initial    == [is |-> "initial", of |-> Nobody]
Sum(c)     == [is |-> "sum", of |-> c]
Result(c)  == [is |-> "result", of |-> c]

\* The program has one container rs for all its calls; a call that returns
\* its value makes a gpu_res of its own.
Rs == Nobody
Target(c) == IF form[c] = "passed" THEN Rs ELSE c

Init ==
    /\ QueueInit
    /\ op \in [Call -> Op]
    /\ form \in [Call -> Forms]
    /\ current = 1
    /\ stage = "kernel"
    /\ events = [c \in Call |-> {}]
    /\ copied = [c \in Call |-> NoEvent]
    /\ device = [b \in Call \cup {Rs} |-> Undefined]
    /\ res = [c \in Call |-> Initial]
    /\ got = [c \in Call |-> Undefined]

\* Mutant: the view binds its buffer for reading only.
KernelReading(kind, c) ==
    [kind |-> kind, call |-> c, reads |-> {Target(c)}, writes |-> {}]

\* A kernel over the result container: a read_write accessor to it.
KernelOn(kind, c) ==
    [kind |-> kind, call |-> c, reads |-> {Target(c)}, writes |-> {Target(c)}]

InCall(s) == current \in Call /\ stage = s

SubmitOf(kind, next) ==
    /\ Submit(KernelOn(kind, current))
    /\ events' = [events EXCEPT ![current] = @ \cup {NextEvent}]
    /\ stage' = next
    /\ UNCHANGED <<op, form, current, copied, device, res, got>>

\* ex.execute(assignOp): the reduction into rs.
SubmitReduction ==
    /\ InCall("kernel")
    /\ SubmitOf("reduce", IF op[current] = "nrm2" THEN "sqrt" ELSE "copy")

\* Mutant: the event of the second kernel is dropped, not concatenated.
SubmitSqrtEventLost ==
    /\ InCall("sqrt")
    /\ Submit(KernelOn("sqrt", current))
    /\ stage' = "copy"
    /\ UNCHANGED <<op, form, current, events, copied, device, res, got>>

\* _nrm2's second kernel, rs = sqrt(rs); its event is concatenated.
SubmitSqrt == InCall("sqrt") /\ SubmitOf("sqrt", "copy")

\* copy_to_host(rs, &res, 1).  A passed call is over: the next one can start.
SubmitCopy ==
    /\ InCall("copy")
    /\ Submit([kind |-> "copy", call |-> current,
               reads |-> {Target(current)}, writes |-> {}])
    /\ copied' = [copied EXCEPT ![current] = NextEvent]
    /\ IF form[current] = "passed"
       THEN current' = current + 1 /\ stage' = "kernel"
       ELSE current' = current /\ stage' = "return"
    /\ UNCHANGED <<op, form, events, device, res, got>>

\* return res[0]: the value-returning overloads do not wait for the copy.
ReturnValue ==
    /\ InCall("return")
    /\ got' = [got EXCEPT ![current] = res[current]]
    /\ current' = current + 1
    /\ stage' = "kernel"
    /\ UNCHANGED <<queue, complete, op, form, events, copied, device, res>>

\* The program waits for the copy of a passed call and reads its variable.
WaitAndRead(c) ==
    /\ form[c] = "passed"
    /\ copied[c] # NoEvent
    /\ got[c] = Undefined
    /\ Waited({copied[c]})
    /\ got' = [got EXCEPT ![c] = res[c]]
    /\ UNCHANGED <<queue, complete, op, form, current, stage, events, copied,
                   device, res>>

\* The device runs a command.
Run(e) ==
    /\ Ready(e)
    /\ Complete(e)
    /\ LET c == queue[e].call
           b == Target(c)
       IN CASE queue[e].kind = "reduce" ->
                  /\ device' = [device EXCEPT ![b] =
                                  IF op[c] = "nrm2" THEN Sum(c) ELSE Result(c)]
                  /\ UNCHANGED res
            [] queue[e].kind = "sqrt" ->
                  /\ device' = [device EXCEPT ![b] =
                                  IF @ = Sum(c) THEN Result(c) ELSE Undefined]
                  /\ UNCHANGED res
            [] queue[e].kind = "copy" ->
                  /\ res' = [res EXCEPT ![c] = device[b]]
                  /\ UNCHANGED device
    /\ UNCHANGED <<op, form, current, stage, events, copied, got>>

Host == SubmitReduction \/ SubmitSqrt \/ SubmitCopy \/ ReturnValue
Device == \E e \in DOMAIN queue : Run(e)

Finished == /\ current \notin Call
            /\ \A c \in Call : got[c] # Undefined
            /\ Idle
            /\ UNCHANGED vars

Next == Host \/ Device \/ (\E c \in Call : WaitAndRead(c)) \/ Finished

Fairness == /\ WF_vars(Host) /\ WF_vars(Device)
            /\ \A c \in Call : WF_vars(WaitAndRead(c))

Spec == Init /\ [][Next]_vars /\ Fairness

-------------------------------------------------------------------------------
(***************************************************************************)
(* Properties                                                              *)
(***************************************************************************)

Command == [kind : {"reduce", "sqrt", "copy"}, call : Call,
            reads : SUBSET (Call \cup {Rs}), writes : SUBSET (Call \cup {Rs})]

TypeOK ==
    /\ queue \in Seq(Command)
    /\ complete \subseteq {NoEvent} \cup DOMAIN queue
    /\ op \in [Call -> Op] /\ form \in [Call -> Forms]
    /\ current \in 1 .. NumCalls + 1
    /\ stage \in {"kernel", "sqrt", "copy", "return"}
    /\ events \in [Call -> SUBSET DOMAIN queue]
    /\ copied \in [Call -> {NoEvent} \cup DOMAIN queue]
    /\ device \in [Call \cup {Rs} -> Value]
    /\ res \in [Call -> Value] /\ got \in [Call -> Value]

\* README, "Blas 1": the result of a call is "written in rs if passed": what
\* the program reads after waiting for its copy is the result of that call,
\* not an intermediate value, not the result of a call submitted before it or
\* after it on the same container.
PassedCallReadsItsResult ==
    \A c \in Call :
        form[c] = "passed" /\ got[c] # Undefined => got[c] = Result(c)

\* README, "Blas 1": the result of a call is, if rs is not passed, "returned".
ReturnedCallReturnsItsResult ==
    \A c \in Call :
        form[c] = "returned" /\ got[c] # Undefined => got[c] = Result(c)

\* The events a call returned cover all of its kernels: when they have
\* completed, and no later call has started to use rs, rs holds the result.
EventsCoverCall ==
    \A c \in Call :
        /\ form[c] = "passed"
        /\ current > c
        /\ Waited(events[c])
        /\ \A d \in Call : d > c => events[d] \cap complete = {}
        => device[Rs] = Result(c)

\* Every call of the program gets a value.
AllAnswered == \A c \in Call : got[c] # Undefined

EveryCallAnswered == <>AllAnswered
================================================================================
