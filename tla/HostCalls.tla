-------------------------------- MODULE HostCalls --------------------------------
(***************************************************************************)
(* The parts of the library that submit several kernels and wait for none: *)
(* Trsm, RowReductionExecutor, Blas1Session and LibraryCalls, each over    *)
(* the queue of CommandQueue.  One of them runs in a behaviour.            *)
(***************************************************************************)
EXTENDS LibraryCalls

CONSTANTS Parts,                    \* those that may run
          BlockSize, TrsmCalls,     \* of Trsm
          WgCols, TwoStepAbove,     \* of RowReductionExecutor
          Matrices, RowCalls,
          SessionCalls, Forms       \* of Blas1Session

\* Each part has the variables of LibraryCalls for its own.
VARIABLES part,      \* the part of the library that runs
          form, got  \* of Blas1Session

vars == <<part, libraryVars, form, got>>

-------------------------------------------------------------------------------
(***************************************************************************)
(* The parts                                                               *)
(***************************************************************************)

T == INSTANCE Trsm WITH Calls <- TrsmCalls, call <- program, host <- todo, i <- next
E == INSTANCE RowReductionExecutor
        WITH NumCalls <- RowCalls, in <- program, static <- next, ran <- left
S == INSTANCE Blas1Session
        WITH NumCalls <- SessionCalls, op <- program, current <- next, stage <- todo,
             copied <- left, device <- mem, res <- expected

HostCallsAssumption ==
    /\ T!TrsmAssumption
    /\ E!RowReductionAssumption
    /\ S!SessionAssumption
    /\ LibraryAssumption

ASSUME HostCallsAssumption

Runs(p) == part = p

Init ==
    /\ part \in Parts
    /\ \/ Runs("trsm") /\ T!Init /\ left = 0 /\ expected = 0 /\ form = 0 /\ got = 0
       \/ Runs("rows") /\ E!Init /\ todo = 0 /\ expected = 0 /\ form = 0 /\ got = 0
       \/ Runs("session") /\ S!Init
       \/ Runs("library") /\ LibraryInit /\ form = 0 /\ got = 0

Host ==
    \/ Runs("trsm") /\ T!Host /\ UNCHANGED <<part, left, expected, form, got>>
    \/ Runs("rows") /\ E!Host /\ UNCHANGED <<part, todo, expected, form, got>>
    \/ Runs("session") /\ S!Host /\ UNCHANGED part
    \/ Runs("library") /\ LibraryHost /\ UNCHANGED <<part, form, got>>

Device ==
    \/ Runs("trsm") /\ T!Device /\ UNCHANGED <<part, left, expected, form, got>>
    \/ Runs("rows") /\ E!Device /\ UNCHANGED <<part, todo, expected, form, got>>
    \/ Runs("session") /\ S!Device /\ UNCHANGED part
    \/ Runs("library") /\ LibraryDevice /\ UNCHANGED <<part, form, got>>

WaitAndRead(c) == Runs("session") /\ S!WaitAndRead(c) /\ UNCHANGED part

\* What each part is to come to.
AllDone ==
    CASE part = "trsm" -> T!CallEnded
      [] part = "rows" -> E!AllWaited
      [] part = "session" -> S!AllAnswered
      [] part = "library" -> AllCompleted

Finished == AllDone /\ Idle /\ UNCHANGED vars

Next ==
    \/ Host \/ Device \/ Finished
    \/ \E c \in 1 .. SessionCalls : WaitAndRead(c)

\* The host is a sequential program, and the device runs what may run.
Fairness == /\ WF_vars(Host) /\ WF_vars(Device)
            /\ \A c \in 1 .. SessionCalls : WF_vars(WaitAndRead(c))

Spec == Init /\ [][Next]_vars /\ Fairness

-------------------------------------------------------------------------------
(***************************************************************************)
(* Properties: each part's own, stated in its module                       *)
(***************************************************************************)

TypeOK ==
    /\ Runs("trsm") => T!TypeOK
    /\ Runs("rows") => E!TypeOK
    /\ Runs("session") => S!TypeOK
    /\ Runs("library") => LibraryTypeOK

\* The solution of a triangular system is in a copy of B that the program asks
\* for without waiting, and in B when the events of the call have completed.
CopiedIsSolution == Runs("trsm") => T!CopiedIsSolution
WaitedIsSolved == Runs("trsm") => T!WaitedIsSolved

\* A row reduction that has been waited for is exact, and no part of a row is
\* ever seen in the output.
RowsExact == Runs("rows") => E!RowsExact
OutputAppearsWhole == [][Runs("rows") => E!RowsAppearWhole]_vars

\* What a program reads from the container it passed to a reduction is the
\* result of that call, and the events of the call cover it.
PassedCallReadsItsResult == Runs("session") => S!PassedCallReadsItsResult
EventsCoverCall == Runs("session") => S!EventsCoverCall

\* A buffer whose last call has been waited for holds what the calls of the
\* program promise, though none of the others was waited for.
WaitedIsExpected == Runs("library") => BuffersAsExpected

\* Every call returns and every kernel of it completes.
CallsComplete == <>AllDone
================================================================================
