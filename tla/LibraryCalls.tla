------------------------------ MODULE LibraryCalls ------------------------------
(***************************************************************************)
(* A host program that calls the element-wise BLAS 1 operations, BLAS 2    *)
(* and GEMM, and copies data to the device and back.  A call makes its     *)
(* temporaries, submits its kernels and returns their events; the program  *)
(* makes its calls one after the other and waits for none of them before   *)
(* the next.  The kernels are those of LibraryKernels, run by the queue of *)
(* CommandQueue in any order it allows, the work-items of an element-wise  *)
(* kernel in any order too.                                                *)
(***************************************************************************)
EXTENDS LibraryKernels, CommandQueue, TLC

CONSTANT Programs   \* for each, its calls, what its buffers hold, the back-end

R == INSTANCE BlasReference

LibraryAssumption ==
    /\ {LocalSize, ComputeUnits, TileM, TileN, TileK, TallSkinnyAbove}
          \subseteq Nat \ {0}
    /\ \A p \in Programs : p.backend \in Backends

VARIABLES program,   \* the program that runs
          next,      \* the number of calls it has begun
          todo,      \* the kernels that the call it is in has still to submit
          events,    \* the events of each call begun
          left,      \* for each command, the work-items that have not run
          mem,       \* the contents of the buffers
          expected   \* for each number of calls, what they are to leave

libraryVars == <<queue, complete, program, next, todo, events, left, mem, expected>>

\* Nothing is done on the host, so a call may be looked at as made on what the
\* calls before it are to leave.
Expected(p) ==
    LET after[k \in 0 .. Len(p.calls)] ==
            IF k = 0 THEN p.memory
            ELSE IF Throws(p.calls[k]) THEN after[k - 1]
            ELSE R!Blas(after[k - 1], p.calls[k])
    IN after

LibraryInit ==
    /\ QueueInit
    /\ program \in Programs
    /\ next = 0
    /\ todo = <<>>
    /\ events = <<>>
    /\ left = <<>>
    /\ mem = program.memory
    /\ expected = Expected(program)

\* A temporary of a call holds nothing in particular.
NewTemps(sizes) ==
    [b \in DOMAIN sizes |-> [a \in 0 .. sizes[b] - 1 |-> Undefined]]

\* The program makes its next call.
Begin ==
    /\ todo = <<>>
    /\ next < Len(program.calls)
    /\ \E c \in {program.calls[next + 1]} :
          \E made \in {Kernels(c, next + 1, program.backend)} :
             /\ todo' = made.kernels
             /\ mem' = mem @@ NewTemps(made.temps)
    /\ next' = next + 1
    /\ events' = Append(events, {})
    /\ UNCHANGED <<queue, complete, program, left, expected>>

\* Mutant: only the event of the first kernel is returned.
SubmitKernelAlone ==
    /\ todo # <<>>
    /\ Submit(Head(todo))
    /\ left' = Append(left, Head(todo).items)
    /\ events' = [events EXCEPT ![next] = IF @ = {} THEN {NextEvent} ELSE @]
    /\ todo' = Tail(todo)
    /\ UNCHANGED <<program, next, mem, expected>>

\* A kernel of the call is submitted; concatenate_vectors, append_vector.
SubmitKernel ==
    /\ todo # <<>>
    /\ Submit(Head(todo))
    /\ left' = Append(left, Head(todo).items)
    /\ events' = [events EXCEPT ![next] = @ \cup {NextEvent}]
    /\ todo' = Tail(todo)
    /\ UNCHANGED <<program, next, mem, expected>>

\* A work-item of command e.
Item(e, i) ==
    /\ Ready(e)
    /\ i \in left[e]
    /\ left' = [left EXCEPT ![e] = @ \ {i}]
    /\ \E kernel \in {queue[e]} : mem' = AfterItem(mem, kernel, i)
    /\ UNCHANGED <<queue, complete, program, next, todo, events, expected>>

Finish(e) ==
    /\ Ready(e)
    /\ left[e] = {}
    /\ Complete(e)
    /\ UNCHANGED <<program, next, todo, events, left, mem, expected>>

LibraryHost == Begin \/ SubmitKernel

LibraryDevice == \E e \in DOMAIN queue : Finish(e) \/ \E i \in left[e] : Item(e, i)

-------------------------------------------------------------------------------
(***************************************************************************)
(* Properties                                                              *)
(***************************************************************************)

LibraryTypeOK ==
    /\ next \in 0 .. Len(program.calls)
    /\ Len(events) = next /\ Len(left) = Len(queue)
    /\ complete \subseteq {NoEvent} \cup DOMAIN queue
    /\ \A k \in DOMAIN events : events[k] \subseteq DOMAIN queue
    /\ \A e \in DOMAIN left : left[e] \subseteq queue[e].items
    /\ \A b \in DOMAIN mem : \A a \in DOMAIN mem[b] : mem[b][a] \in Element

Writers(b) == {k \in 1 .. next : b \in R!Outputs(program.calls[k])
                                 /\ ~Throws(program.calls[k])}

HasReturned(k) == k < next \/ todo = <<>>

\* A program that waits for the events of the last call that writes a buffer
\* finds in it what the calls up to that one promise, every element of it and
\* the gaps between them, though it waited for none of the other calls: also
\* when calls after it have been made, and when they read or write the same
\* buffers.  A buffer that no call writes is as it was.
BuffersAsExpected ==
    \A b \in DOMAIN program.memory :
        IF Writers(b) = {} THEN mem[b] = expected[0][b]
        ELSE LET w == Max(Writers(b))
             IN HasReturned(w) /\ Waited(events[w]) => mem[b] = expected[w][b]

\* Every call has been made and has returned, and its kernels have completed.
AllReturned == next = Len(program.calls) /\ todo = <<>>
AllCompleted == AllReturned /\ \A k \in DOMAIN events : Waited(events[k])
================================================================================
