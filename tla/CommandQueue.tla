------------------------------ MODULE CommandQueue ------------------------------
(***************************************************************************)
(* The SYCL queue behind the policy handler, as the library uses it: the   *)
(* runtime itself is not part of the repository.  q_.submit returns at     *)
(* once with an event; a command runs when every command submitted before  *)
(* it that conflicts with it (one of the two writes a buffer that the      *)
(* other uses) is complete; commands that do not conflict run in any order *)
(* and at the same time.  The views bind every buffer of an expression     *)
(* tree with a read_write accessor, copy_to_host with a read accessor, and *)
(* copy_to_device and fill with a write accessor.                          *)
(*                                                                         *)
(* A command is a record with at least the sets of buffers "reads" and     *)
(* "writes"; the event of a command is its place in the queue.  An event   *)
(* of the default constructor is NoEvent: waiting for it returns at once.  *)
(***************************************************************************)
EXTENDS Naturals, Sequences

VARIABLES queue,     \* the commands submitted, oldest first
          complete   \* the events of the commands that have completed

NoEvent == 0

QueueInit == queue = <<>> /\ complete = {NoEvent}

Conflict(c, d) ==
    \/ c.writes \cap (d.reads \cup d.writes) # {}
    \/ c.reads \cap d.writes # {}

\* Command e may run.
Ready(e) ==
    /\ e \in DOMAIN queue
    /\ e \notin complete
    /\ \A d \in 1 .. e - 1 : d \in complete \/ ~Conflict(queue[d], queue[e])

\* Mutant: the event is the one of the submission after.
NextEventLate == Len(queue) + 2

\* The event that the next submission returns.
NextEvent == Len(queue) + 1

Submit(c) == queue' = Append(queue, c) /\ UNCHANGED complete

\* Mutant: the event of a command that has run is not signalled.
CompleteSilently(e) == UNCHANGED <<queue, complete>>

Complete(e) == complete' = complete \cup {e} /\ UNCHANGED queue

\* cl::sycl::event::wait(events) returns.
Waited(events) == events \subseteq complete

Idle == DOMAIN queue \subseteq complete
================================================================================
