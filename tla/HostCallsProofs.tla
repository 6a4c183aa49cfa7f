----------------------------- MODULE HostCallsProofs -----------------------------
(***************************************************************************)
(* Proofs about the parts of HostCalls that submit reductions: what a      *)
(* program gets from a BLAS 1 reduction, for any number of calls, and what *)
(* the two steps of a row reduction leave, for any matrices; and about the *)
(* views that all calls pass on.                                           *)
(***************************************************************************)
EXTENDS HostCalls, GridArithmetic

\* A sequence with an element replaced.
LEMMA Replaced ==
    ASSUME NEW A, NEW q \in Seq(A), NEW c \in DOMAIN q, NEW r \in A,
           NEW s, s = [q EXCEPT ![c] = r]
    PROVE  /\ s \in Seq(A) /\ Len(s) = Len(q) /\ s[c] = r
           /\ \A b \in DOMAIN q : b # c => s[b] = q[b]
OBVIOUS

-------------------------------------------------------------------------------
(***************************************************************************)
(* Blas1Session                                                            *)
(***************************************************************************)

\* The commands of a call, in their order, and those that have been submitted.
KindsOf(c) == IF program[c] = "nrm2" THEN {"reduce", "sqrt", "copy"}
                                     ELSE {"reduce", "copy"}
Rank(kind) == CASE kind = "reduce" -> 1 [] kind = "sqrt" -> 2 [] kind = "copy" -> 3

SubmittedOfCurrent ==
    CASE todo = "kernel" -> {}
      [] todo = "sqrt" -> {"reduce"}
      [] todo = "copy" -> {"reduce", "sqrt"}
      [] todo = "return" -> {"reduce", "sqrt", "copy"}

Submitted(c, kind) ==
    /\ kind \in KindsOf(c)
    /\ c < next \/ (c = next /\ kind \in SubmittedOfCurrent)

Precedes(k, l) ==
    k.call < l.call \/ (k.call = l.call /\ Rank(k.kind) < Rank(l.kind))

\* The queue holds the commands that have been submitted, in order.
CommandOk(k) ==
    /\ k.reads = {S!Target(k.call)}
    /\ k.writes = IF k.kind = "copy" THEN {} ELSE {S!Target(k.call)}
    /\ Submitted(k.call, k.kind)

Commands == \A e \in DOMAIN queue : CommandOk(queue[e])

InOrder == \A d, e \in DOMAIN queue : d < e => Precedes(queue[d], queue[e])

AllPresent ==
    \A c \in S!Call : \A kind \in KindsOf(c) : Submitted(c, kind) =>
        \E e \in DOMAIN queue : queue[e].call = c /\ queue[e].kind = kind

Stages ==
    /\ todo = "sqrt" => program[next] = "nrm2"
    /\ todo = "return" => form[next] # "passed"
    /\ todo # "kernel" => next \in S!Call

QueueInv == Commands /\ InOrder /\ AllPresent /\ Stages

\* The events that a call returns are those of its kernels, and the copy's.
EventInv ==
    /\ \A c \in S!Call : \A e \in DOMAIN queue :
          e \in events[c] <=> queue[e].call = c /\ queue[e].kind # "copy"
    /\ \A c \in S!Call : left[c] # NoEvent =>
          queue[left[c]].call = c /\ queue[left[c]].kind = "copy"

\* Commands that conflict complete in the order of the queue.
OrderInv ==
    \A d, e \in DOMAIN queue :
        d < e /\ e \in complete /\ Conflict(queue[d], queue[e]) => d \in complete

OnRs(e) == queue[e].kind # "copy" /\ form[queue[e].call] = "passed"

\* What a kernel of a passed call leaves in rs.
LeftBy(k) == IF k.kind = "reduce" /\ program[k.call] = "nrm2"
             THEN S!Sum(k.call) ELSE S!Result(k.call)

\* rs holds what the last kernel on it that has completed has left there.
RsInv ==
    \A e \in DOMAIN queue :
        /\ OnRs(e) /\ e \in complete
        /\ \A d \in DOMAIN queue : d > e /\ OnRs(d) => d \notin complete
        => mem[S!Rs] = LeftBy(queue[e])

\* The copy of a passed call that has completed has copied its result.
CopyInv ==
    \A c \in S!Call :
        form[c] = "passed" /\ left[c] # NoEvent /\ left[c] \in complete
            => expected[c] = S!Result(c)

SessionInv ==
    /\ S!TypeOK
    /\ QueueInv /\ EventInv /\ OrderInv /\ RsInv /\ CopyInv
    /\ S!PassedCallReadsItsResult

\* The parts of the invariant that type the state.
SessionTypes == S!TypeOK /\ QueueInv

LEMMA Kinds ==
    ASSUME NEW c, NEW kind \in KindsOf(c)
    PROVE  /\ kind \in {"reduce", "sqrt", "copy"}
           /\ kind = "reduce" => Rank(kind) = 1
           /\ kind = "sqrt" => Rank(kind) = 2 /\ program[c] = "nrm2"
           /\ kind = "copy" => Rank(kind) = 3
           /\ Rank(kind) \in 1 .. 3
           /\ program[c] = "nrm2" => "sqrt" \in KindsOf(c)
           /\ {"reduce", "copy"} \subseteq KindsOf(c)
BY DEF KindsOf, Rank

LEMMA QueueTyped ==
    ASSUME S!TypeOK, QueueInv, NEW e \in DOMAIN queue
    PROVE  /\ e \in Nat \ {0} /\ e \in 1 .. Len(queue) /\ Len(queue) \in Nat
           /\ queue[e] \in S!Command
           /\ queue[e].call \in S!Call /\ queue[e].call \in Nat \ {0}
           /\ queue[e].kind \in KindsOf(queue[e].call)
           /\ queue[e].reads = {S!Target(queue[e].call)}
           /\ queue[e].writes = IF queue[e].kind = "copy" THEN {}
                                ELSE {S!Target(queue[e].call)}
<1>1. queue \in Seq(S!Command)
  BY DEF S!TypeOK
<1>2. /\ e \in Nat \ {0} /\ e \in 1 .. Len(queue) /\ Len(queue) \in Nat
      /\ queue[e] \in S!Command
  BY <1>1
<1>3. queue[e].call \in S!Call /\ queue[e].call \in Nat \ {0}
  BY <1>2 DEF S!Command, S!Call
<1>4. queue[e].kind \in KindsOf(queue[e].call)
  BY DEF QueueInv, Commands, CommandOk, Submitted
<1>5. /\ queue[e].reads = {S!Target(queue[e].call)}
      /\ queue[e].writes = IF queue[e].kind = "copy" THEN {}
                           ELSE {S!Target(queue[e].call)}
  BY DEF QueueInv, Commands, CommandOk
<1> QED
  BY <1>2, <1>3, <1>4, <1>5, Zenon

\* Two commands on rs conflict, unless both are copies.
LEMMA RsConflict ==
    ASSUME S!TypeOK, QueueInv, NEW d \in DOMAIN queue, NEW e \in DOMAIN queue,
           form[queue[d].call] = "passed", form[queue[e].call] = "passed",
           queue[d].kind # "copy" \/ queue[e].kind # "copy"
    PROVE  Conflict(queue[d], queue[e])
<1>1. S!Target(queue[d].call) = S!Rs /\ S!Target(queue[e].call) = S!Rs
  BY DEF S!Target
<1> QED
  BY <1>1, QueueTyped DEF Conflict

\* The kernels of a call are submitted in their order.
LEMMA SubmittedInOrder ==
    ASSUME NEW c, NEW k \in KindsOf(c), NEW l \in KindsOf(c), Rank(k) < Rank(l),
           Submitted(c, l), next \in Nat, c \in Nat,
           todo \in {"kernel", "sqrt", "copy", "return"}
    PROVE  Submitted(c, k)
<1>1. CASE c < next
  BY <1>1 DEF Submitted
<1>2. CASE c = next
  BY <1>2, Kinds DEF Submitted, SubmittedOfCurrent
<1> QED
  BY <1>1, <1>2 DEF Submitted

\* When a command of a passed call may run, rs holds what the kernel of the
\* same call before it has left there.
LEMMA Before ==
    ASSUME S!TypeOK, QueueInv, OrderInv, RsInv,
           NEW e \in DOMAIN queue, Ready(e), form[queue[e].call] = "passed",
           NEW k \in KindsOf(queue[e].call), k # "copy",
           Rank(k) < Rank(queue[e].kind),
           \A l \in KindsOf(queue[e].call) :
               ~(Rank(k) < Rank(l) /\ Rank(l) < Rank(queue[e].kind))
    PROVE  mem[S!Rs] = IF k = "reduce" /\ program[queue[e].call] = "nrm2"
                       THEN S!Sum(queue[e].call) ELSE S!Result(queue[e].call)
<1> DEFINE c == queue[e].call
<1>1. /\ c \in S!Call /\ c \in Nat \ {0} /\ e \in Nat \ {0}
      /\ queue[e].kind \in KindsOf(c) /\ e \notin complete
  BY QueueTyped DEF Ready
<1>2. Submitted(c, queue[e].kind)
  BY DEF QueueInv, Commands, CommandOk
<1>3. next \in Nat /\ todo \in {"kernel", "sqrt", "copy", "return"}
  BY DEF S!TypeOK
<1>4. Submitted(c, k)
  <2> HIDE DEF c
  <2> QED
    BY <1>1, <1>2, <1>3, SubmittedInOrder DEF c
<1>5. PICK d \in DOMAIN queue : queue[d].call = c /\ queue[d].kind = k
  BY <1>1, <1>4 DEF QueueInv, AllPresent
<1>6. d \in Nat \ {0} /\ Rank(k) \in 1 .. 3 /\ Rank(queue[e].kind) \in 1 .. 3
  <2>1. d \in Nat \ {0}
    BY QueueTyped
  <2>2. Rank(k) \in 1 .. 3 /\ Rank(queue[e].kind) \in 1 .. 3
    BY <1>1, Kinds, Zenon
  <2> QED
    BY <2>1, <2>2
<1>7. d < e
  <2>1. ~(e < d)
    BY <1>1, <1>5, <1>6 DEF QueueInv, InOrder, Precedes
  <2> QED
    BY <1>1, <1>5, <1>6, <2>1
<1>8. d \in complete
  <2>1. Conflict(queue[d], queue[e])
    BY <1>5, RsConflict
  <2> QED
    BY <1>1, <1>6, <1>7, <2>1 DEF Ready
<1>9. ASSUME NEW f \in DOMAIN queue, d < f, OnRs(f), f \in complete
      PROVE  FALSE
  <2>1. /\ f \in Nat \ {0} /\ queue[f].call \in Nat
        /\ queue[f].kind \in KindsOf(queue[f].call)
        /\ Rank(queue[f].kind) \in 1 .. 3
    <3>1. /\ f \in Nat \ {0} /\ queue[f].call \in Nat
          /\ queue[f].kind \in KindsOf(queue[f].call)
      BY QueueTyped
    <3>2. Rank(queue[f].kind) \in 1 .. 3
      BY <3>1, Kinds, Zenon
    <3> QED
      BY <3>1, <3>2
  <2>2. Conflict(queue[e], queue[f])
    BY <1>9, RsConflict DEF OnRs
  <2>3. f < e
    BY <1>1, <1>9, <2>1, <2>2 DEF OrderInv
  <2>4. Precedes(queue[d], queue[f]) /\ Precedes(queue[f], queue[e])
    BY <1>9, <2>3 DEF QueueInv, InOrder
  <2>5. queue[f].call = c
    BY <1>1, <1>5, <2>1, <2>4 DEF Precedes
  <2> QED
    BY <1>1, <1>5, <1>6, <2>1, <2>4, <2>5 DEF Precedes
<1>10. OnRs(d)
  BY <1>5 DEF OnRs
<1>11. mem[S!Rs] = LeftBy(queue[d])
  BY <1>8, <1>9, <1>10 DEF RsInv
<1> QED
  BY <1>5, <1>11 DEF LeftBy

\* The host submits a command: the one that the order of the kernels asks for.
LEMMA Submission ==
    ASSUME S!TypeOK, QueueInv, OrderInv, RsInv,
           next \in S!Call, NEW kind \in KindsOf(next), NEW cmd \in S!Command,
           cmd.kind = kind, cmd.call = next, cmd.reads = {S!Target(next)},
           cmd.writes = IF kind = "copy" THEN {} ELSE {S!Target(next)},
           queue' = Append(queue, cmd),
           complete' = complete, program' = program, form' = form, mem' = mem,
           \A c \in S!Call : \A k \in KindsOf(c) :
               Submitted(c, k)' <=> Submitted(c, k) \/ (c = next /\ k = kind),
           \A k \in KindsOf(next) : Submitted(next, k) => Rank(k) < Rank(kind)
    PROVE  /\ queue' \in Seq(S!Command)
           /\ DOMAIN queue' = DOMAIN queue \cup {Len(queue) + 1}
           /\ Len(queue) + 1 \notin DOMAIN queue
           /\ Len(queue) + 1 \in Nat \ {0}
           /\ Len(queue) + 1 \notin complete
           /\ queue'[Len(queue) + 1] = cmd
           /\ \A e \in DOMAIN queue : queue'[e] = queue[e]
           /\ (Commands /\ InOrder /\ AllPresent)' /\ OrderInv' /\ RsInv'
<1> DEFINE n == Len(queue) + 1
<1>1. /\ queue' \in Seq(S!Command) /\ Len(queue) \in Nat
      /\ DOMAIN queue' = DOMAIN queue \cup {n}
      /\ n \notin DOMAIN queue /\ n \in Nat \ {0} /\ n \notin complete
      /\ queue'[n] = cmd
      /\ \A e \in DOMAIN queue : queue'[e] = queue[e] /\ e < n /\ e \in Nat
  <2>1. queue \in Seq(S!Command) /\ complete \subseteq {0} \cup DOMAIN queue
    BY DEF S!TypeOK, S!NoEvent
  <2>2. n \in Nat \ {0} /\ \A e \in DOMAIN queue : e \in Nat
    BY <2>1
  <2> QED
    BY <2>1, <2>2
<1> HIDE DEF n
<1>2. \A c \in S!Call : S!Target(c)' = S!Target(c) /\ KindsOf(c)' = KindsOf(c)
  BY DEF S!Target, KindsOf
<1>3. \A e \in DOMAIN queue : /\ queue[e].call \in S!Call
                              /\ queue[e].kind \in KindsOf(queue[e].call)
                              /\ queue[e].call \in Nat \ {0}
  BY QueueTyped
<1>4. Commands'
  <2>1. ASSUME NEW k \in S!Command, CommandOk(k)
        PROVE  CommandOk(k)'
    <3>1. k.call \in S!Call /\ k.kind \in KindsOf(k.call)
      BY <2>1 DEF S!Command, CommandOk, Submitted
    <3>2. Submitted(k.call, k.kind)'
      BY <2>1, <3>1 DEF CommandOk
    <3> QED
      BY <1>2, <2>1, <3>1, <3>2 DEF CommandOk
  <2>2. CommandOk(cmd)'
    <3>1. PICK c \in S!Call : c = next
      OBVIOUS
    <3>2. Submitted(c, kind)' /\ c = cmd.call
      BY <3>1
    <3> QED
      BY <1>2, <3>2 DEF CommandOk
  <2>3. ASSUME NEW e \in DOMAIN queue'
        PROVE  CommandOk(queue[e])'
    <3>1. CASE e = n
      <4>1. queue'[e] = cmd
        BY <1>1, <3>1
      <4> QED
        BY <2>2, <4>1 DEF CommandOk, Submitted, KindsOf, S!Target
    <3>2. CASE e \in DOMAIN queue
      <4>1. /\ queue'[e] = queue[e]
            /\ queue[e] \in S!Command /\ CommandOk(queue[e])
        BY <1>1, <3>2, QueueTyped DEF QueueInv, Commands
      <4>2. PICK k \in S!Command : k = queue[e]
        BY <4>1
      <4>3. CommandOk(k)'
        BY <2>1, <4>1, <4>2
      <4> QED
        BY <4>1, <4>2, <4>3 DEF CommandOk, Submitted, KindsOf, S!Target
    <3> QED
      BY <1>1, <3>1, <3>2
  <2> QED
    BY <2>3 DEF Commands
<1>5. InOrder'
  <2> SUFFICES ASSUME NEW d \in DOMAIN queue', NEW e \in DOMAIN queue', d < e
               PROVE  Precedes(queue'[d], queue'[e])
    BY DEF InOrder, Precedes, Rank
  <2>1. CASE e \in DOMAIN queue
    <3>1. d \in DOMAIN queue
      BY <1>1, <2>1
    <3> QED
      BY <1>1, <2>1, <3>1 DEF QueueInv, InOrder
  <2>2. CASE e = n
    <3>1. d \in DOMAIN queue
      BY <1>1, <2>2
    <3>2. Submitted(queue[d].call, queue[d].kind)
      BY <3>1 DEF QueueInv, Commands, CommandOk
    <3>3. queue[d].call < next \/ queue[d].call = next
      BY <3>2 DEF Submitted
    <3>4. queue[d].call = next => Rank(queue[d].kind) < Rank(kind)
      BY <1>3, <3>1, <3>2
    <3> QED
      BY <1>1, <2>2, <3>1, <3>3, <3>4 DEF Precedes
  <2> QED
    BY <1>1, <2>1, <2>2
<1>6. AllPresent'
  <2> SUFFICES ASSUME NEW c \in S!Call, NEW k \in KindsOf(c), Submitted(c, k)'
               PROVE  \E e \in DOMAIN queue' : queue'[e].call = c /\ queue'[e].kind = k
    BY <1>2 DEF AllPresent, S!Call
  <2>1. CASE Submitted(c, k)
    <3>1. PICK e \in DOMAIN queue : queue[e].call = c /\ queue[e].kind = k
      BY <2>1 DEF QueueInv, AllPresent
    <3> QED
      BY <1>1, <3>1
  <2>2. CASE c = next /\ k = kind
    BY <1>1, <2>2
  <2> QED
    BY <2>1, <2>2
<1>7. OrderInv'
  BY <1>1 DEF OrderInv
<1>8. RsInv'
  <2> SUFFICES ASSUME NEW e \in DOMAIN queue', OnRs(e)', e \in complete',
                      \A d \in DOMAIN queue' : d > e /\ OnRs(d)' => d \notin complete'
               PROVE  (mem[S!Rs] = LeftBy(queue[e]))'
    BY DEF RsInv, S!Rs
  <2>1. e \in DOMAIN queue /\ queue'[e] = queue[e] /\ OnRs(e)
    BY <1>1 DEF OnRs
  <2>2. ASSUME NEW d \in DOMAIN queue, d > e, OnRs(d)
        PROVE  d \notin complete
    BY <1>1, <2>2 DEF OnRs
  <2>3. mem[S!Rs] = LeftBy(queue[e])
    BY <2>1, <2>2 DEF RsInv
  <2> QED
    BY <2>1, <2>3 DEF LeftBy
<1> QED
  BY <1>1, <1>4, <1>5, <1>6, <1>7, <1>8, Zenon DEF n

LEMMA Values ==
    /\ S!Undefined \in S!Value /\ S!Initial \in S!Value
    /\ \A c \in S!Call : S!Sum(c) \in S!Value /\ S!Result(c) \in S!Value
    /\ \A c \in S!Call : S!Result(c) # S!Undefined
    /\ S!Rs \notin S!Call
BY DEF S!Undefined, S!Initial, S!Sum, S!Result, S!Value, S!Nobody, S!Rs, S!Call

\* What the host has submitted does not change when the device runs a command.
LEMMA SameQueue ==
    ASSUME QueueInv, UNCHANGED <<queue, program, form, next, todo>>
    PROVE  QueueInv'
<1>1. \A c, k : Submitted(c, k)' <=> Submitted(c, k)
  BY DEF Submitted, SubmittedOfCurrent, KindsOf
<1>2. ASSUME NEW e \in DOMAIN queue
      PROVE  CommandOk(queue[e])'
  <2>1. CommandOk(queue[e])
    BY DEF QueueInv, Commands
  <2>2. /\ queue' = queue /\ form' = form /\ program' = program
        /\ next' = next /\ todo' = todo
    OBVIOUS
  <2> QED
    BY <2>1, <2>2 DEF CommandOk, Submitted, SubmittedOfCurrent, KindsOf, S!Target
<1>3. Commands'
  BY <1>2 DEF Commands
<1>4. InOrder'
  <2>1. InOrder /\ queue' = queue
    BY DEF QueueInv
  <2> QED
    BY <2>1 DEF InOrder
<1>5. AllPresent'
  BY <1>1 DEF QueueInv, AllPresent, KindsOf
<1>6. Stages'
  BY DEF QueueInv, Stages
<1> QED
  BY <1>3, <1>4, <1>5, <1>6 DEF QueueInv

\* The device runs a command of the queue.
LEMMA RunKeepsRs ==
    ASSUME S!TypeOK, QueueInv, OrderInv, RsInv,
           NEW e \in DOMAIN queue, S!Run(e)
    PROVE  RsInv'
<1> DEFINE c == queue[e].call
<1>1. /\ Ready(e) /\ e \notin complete /\ e \in Nat \ {0}
      /\ complete' = complete \cup {e}
      /\ queue' = queue /\ program' = program /\ form' = form
      /\ mem \in [S!Call \cup {S!Rs} -> S!Value]
  BY QueueTyped DEF S!Run, S!Ready, Ready, S!Conflict, Conflict, S!Complete, S!TypeOK
<1>2. /\ c \in S!Call /\ queue[e].kind \in KindsOf(c)
      /\ queue[e].kind \in {"reduce", "sqrt", "copy"}
  <2>1. c \in S!Call /\ queue[e].kind \in KindsOf(c)
    BY QueueTyped
  <2> QED
    BY <2>1, Kinds
<1>3. \A d : OnRs(d)' <=> OnRs(d)
  BY <1>1 DEF OnRs
<1>4. \A d \in DOMAIN queue : LeftBy(queue[d])' = LeftBy(queue[d])
  BY <1>1 DEF LeftBy, S!Sum, S!Result
<1>5. CASE ~OnRs(e)
  <2>1. mem'[S!Rs] = mem[S!Rs]
    <3>1. CASE queue[e].kind = "copy"
      BY <3>1 DEF S!Run
    <3>2. CASE queue[e].kind # "copy"
      <4>1. form[c] # "passed"
        BY <1>5, <3>2 DEF OnRs
      <4>2. S!Target(c) \in S!Call /\ S!Target(c) # S!Rs
        BY <1>2, <4>1, Values DEF S!Target
      <4> QED
        BY <1>1, <1>2, <3>2, <4>2 DEF S!Run
    <3> QED
      BY <3>1, <3>2
  <2>2. ASSUME NEW d \in DOMAIN queue, OnRs(d), d \in complete',
               \A f \in DOMAIN queue : f > d /\ OnRs(f) => f \notin complete'
        PROVE  mem'[S!Rs] = LeftBy(queue[d])
    BY <1>1, <1>5, <2>1, <2>2 DEF RsInv
  <2> QED
    BY <1>1, <1>3, <1>4, <2>2 DEF RsInv, S!Rs
<1>6. CASE OnRs(e)
  <2>1. form[c] = "passed" /\ queue[e].kind # "copy" /\ S!Target(c) = S!Rs
    BY <1>6 DEF OnRs, S!Target
  <2>2. mem'[S!Rs] = LeftBy(queue[e])
    <3>1. CASE queue[e].kind = "reduce"
      BY <1>1, <2>1, <3>1 DEF S!Run, LeftBy
    <3>2. CASE queue[e].kind = "sqrt"
      <4>1. program[c] = "nrm2" /\ "reduce" \in KindsOf(c)
        BY <1>2, <3>2, Kinds, Zenon
      <4>2. Rank("reduce") = 1 /\ Rank("sqrt") = 2 /\ \A l \in KindsOf(c) : Rank(l) \in 1 .. 3
        BY DEF KindsOf, Rank
      <4>3. mem[S!Rs] = S!Sum(c)
        BY <1>1, <2>1, <3>2, <4>1, <4>2, Before
      <4> QED
        BY <1>1, <2>1, <3>2, <4>3 DEF S!Run, LeftBy
    <3> QED
      BY <1>2, <2>1, <3>1, <3>2
  <2>3. ASSUME NEW d \in DOMAIN queue, OnRs(d), d \in complete', d # e, d > e
        PROVE  FALSE
    <3>1. Conflict(queue[e], queue[d])
      BY <1>6, <2>3, RsConflict DEF OnRs
    <3> QED
      BY <1>1, <2>3, <3>1 DEF OrderInv
  <2>4. ASSUME NEW d \in DOMAIN queue, OnRs(d), d \in complete',
               \A f \in DOMAIN queue : f > d /\ OnRs(f) => f \notin complete'
        PROVE  d = e
    <3>1. d \in Nat
      BY QueueTyped
    <3> QED
      BY <1>1, <1>6, <2>3, <2>4, <3>1
  <2> QED
    BY <1>1, <1>3, <1>4, <2>2, <2>4 DEF RsInv, S!Rs
<1> QED
  BY <1>5, <1>6

LEMMA RunKeepsCopies ==
    ASSUME S!TypeOK, QueueInv, EventInv, OrderInv, RsInv, CopyInv,
           NEW e \in DOMAIN queue, S!Run(e)
    PROVE  CopyInv'
<1>1. /\ Ready(e) /\ e \in Nat \ {0}
      /\ complete' = complete \cup {e}
      /\ queue' = queue /\ program' = program /\ form' = form /\ left' = left
      /\ expected \in [S!Call -> S!Value]
  BY QueueTyped DEF S!Run, S!Ready, Ready, S!Conflict, Conflict, S!Complete, S!TypeOK
<1>2. /\ queue[e].call \in S!Call /\ queue[e].kind \in KindsOf(queue[e].call)
      /\ queue[e].call \in Nat
  BY QueueTyped
<1>3. queue[e].kind \in {"reduce", "sqrt", "copy"}
  BY <1>2, Kinds
<1> SUFFICES ASSUME NEW c \in S!Call, form[c] = "passed", left[c] # NoEvent,
                    left[c] \in complete \cup {e}
             PROVE  expected'[c] = S!Result(c)
  BY <1>1 DEF CopyInv, S!Result
<1>4. /\ queue[left[c]].call = c /\ queue[left[c]].kind = "copy"
      /\ left[c] \in DOMAIN queue
  BY DEF EventInv, S!TypeOK, NoEvent, S!NoEvent
<1>5. CASE left[c] = e
  <2>1. queue[e].call = c /\ queue[e].kind = "copy" /\ S!Target(c) = S!Rs
    BY <1>4, <1>5 DEF S!Target
  <2>2. expected'[c] = mem[S!Rs]
    BY <1>1, <2>1 DEF S!Run
  <2>3. CASE program[c] = "nrm2"
    <3>1. "sqrt" \in KindsOf(c) /\ Rank("sqrt") = 2 /\ Rank("copy") = 3
      BY <2>3 DEF KindsOf, Rank
    <3>2. \A l \in KindsOf(c) : Rank(l) \in 1 .. 3
      BY DEF KindsOf, Rank
    <3> QED
      BY <1>1, <2>1, <2>2, <3>1, <3>2, Before
  <2>4. CASE program[c] # "nrm2"
    <3>1. KindsOf(c) = {"reduce", "copy"} /\ Rank("reduce") = 1 /\ Rank("copy") = 3
      BY <2>4 DEF KindsOf, Rank
    <3>2. \A l \in KindsOf(c) : ~(Rank("reduce") < Rank(l) /\ Rank(l) < Rank("copy"))
      BY <3>1
    <3> QED
      BY <1>1, <2>1, <2>2, <2>4, <3>1, <3>2, Before
  <2> QED
    BY <2>3, <2>4
<1>6. CASE left[c] # e
  <2>1. expected[c] = S!Result(c)
    BY <1>6 DEF CopyInv
  <2>2. expected'[c] = expected[c]
    <3>1. CASE queue[e].kind # "copy"
      BY <1>3, <3>1 DEF S!Run
    <3>2. CASE queue[e].kind = "copy"
      <4>1. ASSUME queue[e].call = c PROVE FALSE
        <5>1. Rank("copy") = 3 /\ left[c] \in Nat /\ c \in Nat
          BY <1>2, <1>4, <4>1, QueueTyped DEF Rank
        <5>2. ~Precedes(queue[e], queue[left[c]]) /\ ~Precedes(queue[left[c]], queue[e])
          BY <1>4, <3>2, <4>1, <5>1 DEF Precedes
        <5> QED
          BY <1>1, <1>4, <1>6, <5>1, <5>2 DEF QueueInv, InOrder
      <4>2. expected' = [expected EXCEPT ![queue[e].call] = mem[S!Target(queue[e].call)]]
        BY <3>2 DEF S!Run
      <4> QED
        BY <1>1, <4>1, <4>2
    <3> QED
      BY <3>1, <3>2
  <2> QED
    BY <2>1, <2>2
<1> QED
  BY <1>5, <1>6

LEMMA RunKeeps ==
    ASSUME SessionInv, NEW e \in DOMAIN queue, S!Run(e)
    PROVE  SessionInv'
<1> USE DEF SessionInv
<1>1. /\ Ready(e) /\ e \in Nat \ {0}
      /\ complete' = complete \cup {e}
      /\ UNCHANGED <<queue, program, form, next, todo, events, left, got>>
  BY QueueTyped DEF S!Run, S!Ready, Ready, S!Conflict, Conflict, S!Complete
<1>2. queue[e].call \in S!Call /\ queue[e].kind \in {"reduce", "sqrt", "copy"}
  <2>1. queue[e].call \in S!Call /\ queue[e].kind \in KindsOf(queue[e].call)
    BY QueueTyped
  <2> QED
    BY <2>1, Kinds
<1>3. S!TypeOK'
  <2>1. /\ mem \in [S!Call \cup {S!Rs} -> S!Value] /\ expected \in [S!Call -> S!Value]
        /\ S!Target(queue[e].call) \in S!Call \cup {S!Rs}
    BY <1>2 DEF S!TypeOK, S!Target
  <2>2. mem' \in [S!Call \cup {S!Rs} -> S!Value] /\ expected' \in [S!Call -> S!Value]
    <3>1. CASE queue[e].kind = "reduce"
      BY <1>2, <2>1, <3>1, Values DEF S!Run
    <3>2. CASE queue[e].kind = "sqrt"
      BY <1>2, <2>1, <3>2, Values DEF S!Run
    <3>3. CASE queue[e].kind = "copy"
      BY <1>2, <2>1, <3>3, Values DEF S!Run
    <3> QED
      BY <1>2, <3>1, <3>2, <3>3
  <2>3. /\ queue' = queue /\ complete' = complete \cup {e} /\ program' = program
        /\ form' = form /\ next' = next /\ todo' = todo /\ events' = events
        /\ left' = left /\ got' = got
    BY <1>1
  <2> QED
    BY <2>2, <2>3 DEF S!TypeOK
<1>4. QueueInv'
  BY <1>1, SameQueue
<1>5. EventInv'
  BY <1>1 DEF EventInv
<1>6. OrderInv'
  <2>1. ASSUME NEW d \in DOMAIN queue, NEW f \in DOMAIN queue, d < f,
               f \in complete \cup {e}, Conflict(queue[d], queue[f])
        PROVE  d \in complete \cup {e}
    <3>1. CASE f = e
      <4>1. d \in 1 .. e - 1
        BY <1>1, <2>1, <3>1, QueueTyped
      <4> QED
        BY <1>1, <2>1, <3>1, <4>1 DEF Ready
    <3>2. CASE f # e
      BY <2>1, <3>2 DEF OrderInv
    <3> QED
      BY <3>1, <3>2
  <2> QED
    BY <1>1, <2>1 DEF OrderInv
<1>7. RsInv'
  BY RunKeepsRs
<1>8. CopyInv'
  BY RunKeepsCopies
<1>9. S!PassedCallReadsItsResult'
  BY <1>1 DEF S!PassedCallReadsItsResult, S!Result, S!Undefined
<1> QED
  BY <1>3, <1>4, <1>5, <1>6, <1>7, <1>8, <1>9

\* The host submits one of the kernels of the call it is in.
LEMMA SubmitKernelKeeps ==
    ASSUME SessionInv, next \in S!Call,
           NEW kind \in KindsOf(next), kind # "copy",
           NEW stage \in {"sqrt", "copy"}, stage = "sqrt" => program[next] = "nrm2",
           S!SubmitOf(kind, stage),
           \A c \in S!Call : \A k \in KindsOf(c) :
               Submitted(c, k)' <=> Submitted(c, k) \/ (c = next /\ k = kind),
           \A k \in KindsOf(next) : Submitted(next, k) => Rank(k) < Rank(kind)
    PROVE  SessionInv'
<1> USE DEF SessionInv
<1> DEFINE n == Len(queue) + 1
           cmd == S!KernelOn(kind, next)
<1>1. /\ queue' = Append(queue, cmd) /\ complete' = complete
      /\ events' = [events EXCEPT ![next] = @ \cup {n}]
      /\ todo' = stage
      /\ program' = program /\ form' = form /\ next' = next /\ left' = left
      /\ mem' = mem /\ expected' = expected /\ got' = got
  BY DEF S!SubmitOf, S!Submit, S!NextEvent
<1>2. /\ cmd.kind = kind /\ cmd.call = next /\ cmd.reads = {S!Target(next)}
      /\ cmd.writes = {S!Target(next)} /\ cmd \in S!Command
  <2>1. kind \in {"reduce", "sqrt", "copy"}
    BY DEF KindsOf
  <2>2. S!Target(next) \in S!Call \cup {S!Rs}
    BY DEF S!Target
  <2>3. cmd = [kind |-> kind, call |-> next, reads |-> {S!Target(next)},
               writes |-> {S!Target(next)}]
    BY DEF S!KernelOn
  <2>4. cmd \in S!Command
    BY <2>1, <2>2, <2>3 DEF S!Command
  <2> HIDE DEF cmd
  <2> QED
    BY <2>3, <2>4
<1>3. /\ queue' \in Seq(S!Command)
      /\ DOMAIN queue' = DOMAIN queue \cup {n}
      /\ n \notin DOMAIN queue /\ n \in Nat \ {0} /\ n \notin complete
      /\ queue'[n] = cmd
      /\ \A e \in DOMAIN queue : queue'[e] = queue[e]
      /\ (Commands /\ InOrder /\ AllPresent)' /\ OrderInv' /\ RsInv'
  <2>1. /\ S!TypeOK /\ QueueInv /\ OrderInv /\ RsInv
        /\ cmd.writes = IF kind = "copy" THEN {} ELSE {S!Target(next)}
    BY <1>2
  <2> HIDE DEF cmd
  <2> QED
    BY <1>1, <1>2, <2>1, Submission, ZenonT(30)
<1> HIDE DEF n, cmd
<1>4. QueueInv'
  BY <1>1, <1>3 DEF QueueInv, Stages
<1>5. S!TypeOK'
  <2>1. /\ complete' \subseteq {0} \cup DOMAIN queue'
        /\ events' \in [S!Call -> SUBSET DOMAIN queue']
        /\ left' \in [S!Call -> {0} \cup DOMAIN queue']
    BY <1>1, <1>3 DEF S!TypeOK, S!NoEvent
  <2> QED
    BY <1>1, <1>3, <2>1 DEF S!TypeOK, S!NoEvent
<1>6. events \in [S!Call -> SUBSET DOMAIN queue] /\ left \in [S!Call -> {0} \cup DOMAIN queue]
  BY DEF S!TypeOK, S!NoEvent
<1>7. EventInv'
  <2>1. ASSUME NEW c \in S!Call, NEW e \in DOMAIN queue'
        PROVE  e \in events'[c] <=> queue'[e].call = c /\ queue'[e].kind # "copy"
    <3>1. CASE e = n
      BY <1>1, <1>2, <1>3, <1>6, <3>1
    <3>2. CASE e \in DOMAIN queue
      <4>1. e \in events'[c] <=> e \in events[c]
        BY <1>1, <1>3, <1>6, <3>2
      <4> QED
        BY <1>3, <3>2, <4>1 DEF EventInv
    <3> QED
      BY <1>3, <3>1, <3>2
  <2>2. ASSUME NEW c \in S!Call, left[c] # 0
        PROVE  queue'[left[c]].call = c /\ queue'[left[c]].kind = "copy"
    BY <1>3, <1>6, <2>2 DEF EventInv, NoEvent
  <2> QED
    BY <1>1, <2>1, <2>2 DEF EventInv, NoEvent
<1>8. CopyInv' /\ S!PassedCallReadsItsResult'
  BY <1>1 DEF CopyInv, S!PassedCallReadsItsResult, S!Result, S!Undefined
<1> QED
  BY <1>3, <1>4, <1>5, <1>7, <1>8

LEMMA SubmitReductionKeeps ==
    ASSUME SessionInv, S!SubmitReduction
    PROVE  SessionInv'
<1> DEFINE stage == IF program[next] = "nrm2" THEN "sqrt" ELSE "copy"
<1>1. /\ next \in S!Call /\ todo = "kernel" /\ S!SubmitOf("reduce", stage)
      /\ "reduce" \in KindsOf(next)
  BY DEF S!SubmitReduction, S!InCall, KindsOf
<1>2. todo' = stage /\ next' = next /\ program' = program
  BY <1>1 DEF S!SubmitOf
<1>3. ASSUME NEW c \in S!Call, NEW k \in KindsOf(c)
      PROVE  Submitted(c, k)' <=> Submitted(c, k) \/ (c = next /\ k = "reduce")
  BY <1>1, <1>2, <1>3 DEF Submitted, SubmittedOfCurrent, KindsOf
<1>4. ASSUME NEW k \in KindsOf(next), Submitted(next, k)
      PROVE  FALSE
  BY <1>1, <1>4 DEF Submitted, SubmittedOfCurrent, S!Call
<1> QED
  BY <1>1, <1>3, <1>4, SubmitKernelKeeps

LEMMA SubmitSqrtKeeps ==
    ASSUME SessionInv, S!SubmitSqrt
    PROVE  SessionInv'
<1>1. /\ next \in S!Call /\ todo = "sqrt" /\ S!SubmitOf("sqrt", "copy")
      /\ program[next] = "nrm2" /\ "sqrt" \in KindsOf(next)
  BY DEF S!SubmitSqrt, S!InCall, KindsOf, SessionInv, QueueInv, Stages
<1>2. todo' = "copy" /\ next' = next /\ program' = program
  BY <1>1 DEF S!SubmitOf
<1>3. ASSUME NEW c \in S!Call, NEW k \in KindsOf(c)
      PROVE  Submitted(c, k)' <=> Submitted(c, k) \/ (c = next /\ k = "sqrt")
  BY <1>1, <1>2, <1>3 DEF Submitted, SubmittedOfCurrent, KindsOf
<1>4. ASSUME NEW k \in KindsOf(next), Submitted(next, k)
      PROVE  Rank(k) < Rank("sqrt")
  BY <1>1, <1>4 DEF Submitted, SubmittedOfCurrent, S!Call, Rank
<1> QED
  BY <1>1, <1>3, <1>4, SubmitKernelKeeps

\* The host submits the copy of the result of the call it is in.
LEMMA SubmitCopyKeeps ==
    ASSUME SessionInv, S!SubmitCopy
    PROVE  SessionInv'
<1> USE DEF SessionInv
<1> DEFINE n == Len(queue) + 1
           cmd == [kind |-> "copy", call |-> next, reads |-> {S!Target(next)},
                   writes |-> {}]
<1>1. /\ next \in S!Call /\ todo = "copy"
      /\ queue' = Append(queue, cmd) /\ complete' = complete
      /\ left' = [left EXCEPT ![next] = n]
      /\ form[next] = "passed" => next' = next + 1 /\ todo' = "kernel"
      /\ form[next] # "passed" => next' = next /\ todo' = "return"
      /\ program' = program /\ form' = form /\ events' = events
      /\ mem' = mem /\ expected' = expected /\ got' = got
  BY DEF S!SubmitCopy, S!InCall, S!Submit, S!NextEvent
<1>2. /\ cmd.kind = "copy" /\ cmd.call = next /\ cmd.reads = {S!Target(next)}
      /\ cmd.writes = {} /\ cmd \in S!Command
  <2>1. S!Target(next) \in S!Call \cup {S!Rs}
    BY <1>1 DEF S!Target
  <2> QED
    BY <1>1, <2>1 DEF S!Command
<1>3. ASSUME NEW c \in S!Call, NEW k \in KindsOf(c)
      PROVE  Submitted(c, k)' <=> Submitted(c, k) \/ (c = next /\ k = "copy")
  BY <1>1, <1>3 DEF Submitted, SubmittedOfCurrent, KindsOf, S!Call
<1>4. ASSUME NEW k \in KindsOf(next), Submitted(next, k)
      PROVE  Rank(k) < Rank("copy")
  BY <1>1, <1>4 DEF Submitted, SubmittedOfCurrent, S!Call, Rank
<1>5. /\ queue' \in Seq(S!Command)
      /\ DOMAIN queue' = DOMAIN queue \cup {n}
      /\ n \notin DOMAIN queue /\ n \in Nat \ {0} /\ n \notin complete
      /\ queue'[n] = cmd
      /\ \A e \in DOMAIN queue : queue'[e] = queue[e]
      /\ (Commands /\ InOrder /\ AllPresent)' /\ OrderInv' /\ RsInv'
  <2>1. "copy" \in KindsOf(next)
    BY DEF KindsOf
  <2> HIDE DEF cmd
  <2> QED
    BY <1>1, <1>2, <1>3, <1>4, <2>1, Submission
<1> HIDE DEF n, cmd
<1>6. QueueInv'
  BY <1>1, <1>5 DEF QueueInv, Stages
<1>7. S!TypeOK'
  <2>1. /\ complete' \subseteq {0} \cup DOMAIN queue'
        /\ events' \in [S!Call -> SUBSET DOMAIN queue']
        /\ left' \in [S!Call -> {0} \cup DOMAIN queue']
    BY <1>1, <1>5 DEF S!TypeOK, S!NoEvent
  <2>2. next' \in 1 .. SessionCalls + 1 /\ todo' \in {"kernel", "return"}
    <3>1. SessionCalls \in Nat \ {0}
      BY HostCallsAssumption DEF HostCallsAssumption, S!SessionAssumption
    <3> QED
      BY <1>1, <3>1 DEF S!Call
  <2> QED
    BY <1>1, <1>5, <2>1, <2>2 DEF S!TypeOK, S!NoEvent
<1>8. events \in [S!Call -> SUBSET DOMAIN queue] /\ left \in [S!Call -> {0} \cup DOMAIN queue]
  BY DEF S!TypeOK, S!NoEvent
<1>9. EventInv'
  <2>1. ASSUME NEW c \in S!Call, NEW e \in DOMAIN queue'
        PROVE  e \in events'[c] <=> queue'[e].call = c /\ queue'[e].kind # "copy"
    <3>1. CASE e = n
      BY <1>1, <1>2, <1>5, <1>8, <3>1
    <3>2. CASE e \in DOMAIN queue
      BY <1>1, <1>5, <3>2 DEF EventInv
    <3> QED
      BY <1>5, <3>1, <3>2
  <2>2. ASSUME NEW c \in S!Call, left'[c] # 0
        PROVE  queue'[left'[c]].call = c /\ queue'[left'[c]].kind = "copy"
    <3>1. CASE c = next
      BY <1>1, <1>2, <1>5, <1>8, <3>1
    <3>2. CASE c # next
      <4>1. left'[c] = left[c] /\ left[c] \in DOMAIN queue
        BY <1>1, <1>8, <2>2, <3>2
      <4> QED
        BY <1>5, <2>2, <4>1 DEF EventInv, NoEvent
    <3> QED
      BY <3>1, <3>2
  <2> QED
    BY <2>1, <2>2 DEF EventInv, NoEvent
<1>10. CopyInv'
  <2>1. ASSUME NEW c \in S!Call, form[c] = "passed", left'[c] # 0, left'[c] \in complete
        PROVE  expected[c] = S!Result(c)
    <3>1. left'[c] = left[c]
      BY <1>1, <1>5, <1>8, <2>1
    <3> QED
      BY <2>1, <3>1 DEF CopyInv, NoEvent
  <2> QED
    BY <1>1, <2>1 DEF CopyInv, S!Result, NoEvent
<1>11. S!PassedCallReadsItsResult'
  BY <1>1 DEF S!PassedCallReadsItsResult, S!Result, S!Undefined
<1> QED
  BY <1>5, <1>6, <1>7, <1>9, <1>10, <1>11

\* The host returns a value, or reads one that it has waited for.
LEMMA ReturnKeeps ==
    ASSUME SessionInv, S!ReturnValue
    PROVE  SessionInv'
<1> USE DEF SessionInv
<1>1. /\ next \in S!Call /\ next \in Nat /\ todo = "return" /\ form[next] # "passed"
      /\ got' = [got EXCEPT ![next] = expected[next]]
      /\ next' = next + 1 /\ todo' = "kernel"
      /\ UNCHANGED <<queue, complete, program, form, events, left, mem, expected>>
  BY DEF S!ReturnValue, S!InCall, QueueInv, Stages, S!Call
<1>2. ASSUME NEW c \in S!Call, NEW k \in KindsOf(c)
      PROVE  Submitted(c, k)' <=> Submitted(c, k)
  BY <1>1, <1>2 DEF Submitted, SubmittedOfCurrent, KindsOf, S!Call
<1>3. Commands'
  <2>1. ASSUME NEW e \in DOMAIN queue
        PROVE  CommandOk(queue[e])'
    <3>1. /\ queue[e].call \in S!Call /\ queue[e].kind \in KindsOf(queue[e].call)
          /\ CommandOk(queue[e])
      BY QueueTyped DEF QueueInv, Commands
    <3> QED
      BY <1>1, <3>1 DEF CommandOk, Submitted, SubmittedOfCurrent, KindsOf, S!Target, S!Call
  <2> QED
    BY <1>1, <2>1 DEF Commands
<1>4. InOrder'
  <2>1. InOrder /\ queue' = queue
    BY <1>1 DEF QueueInv
  <2> QED
    BY <2>1 DEF InOrder
<1>5. AllPresent'
  BY <1>1, <1>2 DEF QueueInv, AllPresent, KindsOf
<1>6. QueueInv'
  BY <1>1, <1>3, <1>4, <1>5 DEF QueueInv, Stages
<1>7. S!TypeOK'
  <2>1. next' \in 1 .. SessionCalls + 1
    <3>1. SessionCalls \in Nat \ {0}
      BY HostCallsAssumption DEF HostCallsAssumption, S!SessionAssumption
    <3> QED
      BY <1>1, <3>1 DEF S!Call
  <2>2. got' \in [S!Call -> S!Value]
    BY <1>1 DEF S!TypeOK
  <2> QED
    BY <1>1, <2>1, <2>2 DEF S!TypeOK
<1>8. EventInv' /\ OrderInv' /\ CopyInv'
  BY <1>1 DEF EventInv, OrderInv, CopyInv, S!Result
<1>9. RsInv'
  BY <1>1 DEF RsInv, OnRs, LeftBy, S!Result, S!Sum
<1>10. S!PassedCallReadsItsResult'
  BY <1>1 DEF S!PassedCallReadsItsResult, S!Result, S!Undefined, S!TypeOK
<1> QED
  BY <1>6, <1>7, <1>8, <1>9, <1>10

LEMMA WaitKeeps ==
    ASSUME SessionInv, NEW c \in S!Call, S!WaitAndRead(c)
    PROVE  SessionInv'
<1> USE DEF SessionInv
<1>1. /\ form[c] = "passed" /\ left[c] # 0 /\ left[c] \in complete
      /\ got' = [got EXCEPT ![c] = expected[c]]
      /\ UNCHANGED <<queue, complete, program, form, next, todo, events, left,
                     mem, expected>>
  BY DEF S!WaitAndRead, S!Waited, S!NoEvent
<1>2. QueueInv'
  BY <1>1, SameQueue
<1>3. S!TypeOK'
  <2>1. got' \in [S!Call -> S!Value]
    BY <1>1 DEF S!TypeOK
  <2> QED
    BY <1>1, <2>1 DEF S!TypeOK
<1>4. EventInv' /\ OrderInv' /\ CopyInv'
  BY <1>1 DEF EventInv, OrderInv, CopyInv, S!Result
<1>5. RsInv'
  BY <1>1 DEF RsInv, OnRs, LeftBy, S!Result, S!Sum
<1>6. S!PassedCallReadsItsResult'
  <2>1. expected[c] = S!Result(c)
    BY <1>1 DEF CopyInv, NoEvent
  <2> QED
    BY <1>1, <2>1 DEF S!PassedCallReadsItsResult, S!Result, S!Undefined, S!TypeOK
<1> QED
  BY <1>2, <1>3, <1>4, <1>5, <1>6

-------------------------------------------------------------------------------
\* The session's invariant holds while the session runs.
SessionKept == Runs("session") => SessionInv

LEMMA SessionStart == Init => SessionKept
<1> SUFFICES ASSUME Init, Runs("session")
             PROVE  SessionInv
  BY DEF SessionKept
<1>1. S!Init
  BY DEF Init, Runs
<1>2. queue = <<>> /\ complete = {0} /\ DOMAIN queue = {}
  BY <1>1 DEF S!Init, S!QueueInit, S!NoEvent
<1>3. SessionCalls \in Nat \ {0}
  BY HostCallsAssumption DEF HostCallsAssumption, S!SessionAssumption
<1>4. S!TypeOK
  <2>1. S!Undefined \in S!Value /\ S!Initial \in S!Value
    BY Values
  <2> QED
    BY <1>1, <1>2, <1>3, <2>1 DEF S!Init, S!TypeOK, S!NoEvent
<1>5. QueueInv
  <2>1. \A c \in S!Call : \A k : ~Submitted(c, k)
    BY <1>1 DEF S!Init, Submitted, SubmittedOfCurrent, S!Call
  <2> QED
    BY <1>1, <1>2, <2>1 DEF S!Init, QueueInv, Commands, InOrder, AllPresent, Stages
<1>6. EventInv /\ OrderInv /\ RsInv /\ CopyInv
  BY <1>1, <1>2 DEF S!Init, EventInv, OrderInv, RsInv, CopyInv, NoEvent, S!NoEvent
<1>7. S!PassedCallReadsItsResult
  BY <1>1 DEF S!Init, S!PassedCallReadsItsResult
<1> QED
  BY <1>4, <1>5, <1>6, <1>7 DEF SessionInv

LEMMA SessionStep == SessionKept /\ [Next]_vars => SessionKept'
<1> SUFFICES ASSUME SessionKept, [Next]_vars, Runs("session")'
             PROVE  SessionInv'
  BY DEF SessionKept
<1>1. part' = part
  BY DEF Next, Host, Device, WaitAndRead, Finished, vars
<1>2. part = "session" /\ SessionInv
  BY <1>1 DEF SessionKept, Runs
<1>3. CASE S!SubmitReduction
  BY <1>2, <1>3, SubmitReductionKeeps
<1>4. CASE S!SubmitSqrt
  BY <1>2, <1>4, SubmitSqrtKeeps
<1>5. CASE S!SubmitCopy
  BY <1>2, <1>5, SubmitCopyKeeps
<1>6. CASE S!ReturnValue
  BY <1>2, <1>6, ReturnKeeps
<1>7. ASSUME NEW e \in DOMAIN queue, S!Run(e)
      PROVE  SessionInv'
  BY <1>2, <1>7, RunKeeps
<1>8. ASSUME NEW c \in S!Call, S!WaitAndRead(c)
      PROVE  SessionInv'
  BY <1>2, <1>8, WaitKeeps
<1>9. CASE UNCHANGED vars
  <2>1. UNCHANGED <<queue, complete, program, form, next, todo, events, left,
                    mem, expected, got>>
    BY <1>9 DEF vars, libraryVars
  <2>2. QueueInv'
    BY <1>2, <2>1, SameQueue DEF SessionInv
  <2>3. S!TypeOK'
    BY <1>2, <2>1 DEF SessionInv, S!TypeOK
  <2>4. EventInv' /\ OrderInv' /\ CopyInv'
    BY <1>2, <2>1 DEF SessionInv, EventInv, OrderInv, CopyInv, S!Result
  <2>5. RsInv'
    BY <1>2, <2>1 DEF SessionInv, RsInv, OnRs, LeftBy, S!Result, S!Sum
  <2>6. S!PassedCallReadsItsResult'
    BY <1>2, <2>1 DEF SessionInv, S!PassedCallReadsItsResult, S!Result, S!Undefined
  <2> QED
    BY <2>2, <2>3, <2>4, <2>5, <2>6 DEF SessionInv
<1>10. \/ S!Host \/ S!Device \/ UNCHANGED vars
       \/ \E c \in S!Call : S!WaitAndRead(c)
  BY <1>2 DEF Next, Host, Device, WaitAndRead, Finished, Runs, S!Call
<1> QED
  BY <1>3, <1>4, <1>5, <1>6, <1>7, <1>8, <1>9, <1>10 DEF S!Host, S!Device

\* Whatever the calls of a session are, and however the device orders them, what
\* the program reads from the container it passed to a call is that call's result.
THEOREM PassedCallReads == Spec => []PassedCallReadsItsResult
<1>1. SessionKept => PassedCallReadsItsResult
  BY DEF SessionKept, SessionInv, PassedCallReadsItsResult
<1> QED
  BY <1>1, SessionStart, SessionStep, PTL DEF Spec

\* The events of a call cover all its kernels: when they have completed, the
\* container holds the result, unless a later call has started to use it.
THEOREM EventsCover == Spec => []EventsCoverCall
<1>1. ASSUME SessionInv, NEW c \in S!Call, form[c] = "passed", next > c,
             events[c] \subseteq complete,
             \A d \in S!Call : d > c => events[d] \cap complete = {}
      PROVE  mem[S!Rs] = S!Result(c)
  <2> USE DEF SessionInv
  <2> DEFINE last == IF program[c] = "nrm2" THEN "sqrt" ELSE "reduce"
  <2>1. /\ last \in KindsOf(c) /\ last # "copy"
        /\ \A k \in KindsOf(c) : k # "copy" => Rank(k) \in 1 .. Rank(last)
        /\ Rank(last) \in 1 .. 3
    BY DEF KindsOf, Rank
  <2>2. Submitted(c, last)
    BY <1>1, <2>1 DEF Submitted, S!TypeOK, S!Call
  <2>3. PICK e \in DOMAIN queue : queue[e].call = c /\ queue[e].kind = last
    BY <1>1, <2>1, <2>2 DEF QueueInv, AllPresent
  <2>4. e \in events[c] /\ e \in complete
    BY <1>1, <2>1, <2>3 DEF EventInv
  <2>5. ASSUME NEW d \in DOMAIN queue, d > e, OnRs(d), d \in complete
        PROVE  FALSE
    <3>1. /\ queue[d].call \in S!Call /\ queue[d].call \in Nat /\ c \in Nat
          /\ queue[d].kind \in KindsOf(queue[d].call) /\ d \in Nat /\ e \in Nat
      <4>1. c \in Nat
        BY DEF S!Call
      <4> QED
        BY <1>1, <4>1, QueueTyped
    <3>2. Precedes(queue[e], queue[d])
      BY <1>1, <2>5, <3>1 DEF QueueInv, InOrder
    <3>3. CASE queue[d].call = c
      <4>1. Rank(queue[d].kind) \in 1 .. Rank(last)
        BY <2>1, <2>5, <3>1, <3>3 DEF OnRs
      <4> QED
        BY <2>1, <2>3, <3>1, <3>2, <3>3, <4>1 DEF Precedes
    <3>4. CASE queue[d].call # c
      <4>1. queue[d].call > c
        BY <2>3, <3>1, <3>2, <3>4 DEF Precedes
      <4>2. d \in events[queue[d].call]
        BY <1>1, <2>5, <3>1 DEF OnRs, EventInv
      <4> QED
        BY <1>1, <2>5, <3>1, <4>1, <4>2
    <3> QED
      BY <3>3, <3>4
  <2>6. OnRs(e)
    BY <1>1, <2>1, <2>3 DEF OnRs
  <2>7. mem[S!Rs] = LeftBy(queue[e])
    BY <1>1, <2>4, <2>5, <2>6 DEF RsInv
  <2> QED
    BY <2>3, <2>7 DEF LeftBy
<1>2. SessionKept => EventsCoverCall
  BY <1>1 DEF SessionKept, EventsCoverCall, S!EventsCoverCall, S!Waited
<1> QED
  BY <1>2, SessionStart, SessionStep, PTL DEF Spec

-------------------------------------------------------------------------------
(***************************************************************************)
(* RowReductionExecutor                                                    *)
(***************************************************************************)

\* The cells of a row of a container of n columns.
RowCells(rows, n, row) == {rows * x + row : x \in 0 .. n - 1}

\* The parts of a row that the first step leaves in t.
PartsOfRow(t, cols, w, count, rows, row) ==
    \A y \in 0 .. count - 1 :
        t[rows * y + row] =
            E!Exactly({rows * x + row : x \in BlockColumns(cols, w, count, y)})

\* Reducing them gives the whole row.
LEMMA TwoStepsReduceRow ==
    ASSUME NEW w \in Nat \ {0}, NEW count \in Nat \ {0}, NEW rows \in Nat \ {0},
           NEW cols \in Nat, NEW row \in 0 .. rows - 1, NEW t,
           PartsOfRow(t, cols, w, count, rows, row)
    PROVE  E!EvalAll(t, RowCells(rows, count, row))
               = E!Exactly(RowCells(rows, cols, row))
<1> DEFINE Part(y) == {rows * x + row : x \in BlockColumns(cols, w, count, y)}
           Cell(y) == rows * y + row
           cells == {rows * y + row : y \in 0 .. count - 1}
           all == {rows * x + row : x \in 0 .. cols - 1}
<1>1. \A y \in 0 .. count - 1 : t[Cell(y)].of = Part(y) /\ t[Cell(y)].once = TRUE
  <2>1. \A A : E!Exactly(A).of = A /\ E!Exactly(A).once = TRUE
    BY DEF E!Exactly
  <2> QED
    BY <2>1, Zenon DEF PartsOfRow
<1>2. UNION {t[i].of : i \in cells} = all
  <2>1. ASSUME NEW z, z \in UNION {t[i].of : i \in cells}
        PROVE  z \in all
    <3>1. PICK y \in 0 .. count - 1 : z \in t[Cell(y)].of
      BY <2>1
    <3>2. PICK x \in BlockColumns(cols, w, count, y) : z = rows * x + row
      BY <1>1, <3>1
    <3>3. x \in 0 .. cols - 1
      BY <3>2 DEF BlockColumns
    <3> QED
      BY <3>2, <3>3
  <2>2. ASSUME NEW z \in all
        PROVE  z \in UNION {t[i].of : i \in cells}
    <3>1. PICK x \in 0 .. cols - 1 : z = rows * x + row
      OBVIOUS
    <3>2. PICK y \in 0 .. count - 1 : x >= y * w /\ (x - y * w) % (w * count) < w
      <4>1. x \in Nat
        OBVIOUS
      <4>2. /\ (x \div w) % count \in 0 .. count - 1
            /\ x >= ((x \div w) % count) * w
            /\ (x - ((x \div w) % count) * w) % (w * count) < w
        BY <4>1, BlockColumn, Zenon
      <4> QED
        BY <4>2, Zenon
    <3>3. x \in BlockColumns(cols, w, count, y)
      BY <3>2 DEF BlockColumns
    <3>4. z \in Part(y)
      BY <3>1, <3>3
    <3>5. z \in t[Cell(y)].of
      BY <1>1, <3>4
    <3>6. Cell(y) \in cells
      OBVIOUS
    <3> QED
      BY <3>5, <3>6, Zenon
  <2> QED
    BY <2>1, <2>2
<1>3. \A i \in cells : t[i].once
  BY <1>1
<1>4. ASSUME NEW i \in cells, NEW j \in cells, i # j
      PROVE  t[i].of \cap t[j].of = {}
  <2>1. PICK y \in 0 .. count - 1 : i = Cell(y)
    OBVIOUS
  <2>2. PICK z \in 0 .. count - 1 : j = Cell(z)
    OBVIOUS
  <2>3. y # z
    BY <1>4, <2>1, <2>2
  <2>4. ASSUME NEW v \in Part(y), v \in Part(z)
        PROVE  FALSE
    <3>1. PICK x1 \in BlockColumns(cols, w, count, y) : v = rows * x1 + row
      OBVIOUS
    <3>2. PICK x2 \in BlockColumns(cols, w, count, z) : v = rows * x2 + row
      BY <2>4
    <3>3. /\ x1 \in Nat /\ x1 >= y * w /\ (x1 - y * w) % (w * count) < w
          /\ x2 \in Nat /\ x2 >= z * w /\ (x2 - z * w) % (w * count) < w
      BY DEF BlockColumns
    <3>4. x1 = x2
      BY <3>1, <3>2, <3>3, OnePlace
    <3>5. (x1 \div w) % count = y
      BY <3>3, BlockColumn, Zenon
    <3>6. (x2 \div w) % count = z
      BY <3>3, BlockColumn, Zenon
    <3> QED
      BY <2>3, <3>4, <3>5, <3>6
  <2>5. Part(y) \cap Part(z) = {}
    BY <2>4
  <2> HIDE DEF Part, Cell
  <2> QED
    BY <1>1, <2>1, <2>2, <2>5
<1>5. E!EvalAll(t, cells) = [of |-> UNION {t[i].of : i \in cells}, once |-> TRUE]
  BY <1>3, <1>4 DEF E!EvalAll
<1> QED
  BY <1>2, <1>5 DEF E!Exactly, RowCells

-------------------------------------------------------------------------------
\* The types of the state.
Buffers == {m.name : m \in Matrices} \cup {E!Temp(c) : c \in E!Call}
                \cup {E!Out(c) : c \in E!Call}
RowStep == [call : E!Call, src : Buffers, cols : Nat, dst : Buffers, rows : Nat,
            count : Nat, reads : SUBSET Buffers, writes : SUBSET Buffers]
Contents == {<<>>} \cup UNION {[cells -> E!Partial] : cells \in SUBSET Nat}
RowMem == [temp : Contents, out : Contents]

RowTypes ==
    /\ program \in Seq(Matrices) /\ Len(program) <= RowCalls
    /\ next \in Nat
    /\ queue \in Seq(RowStep)
    /\ complete \subseteq {NoEvent} \cup DOMAIN queue
    /\ events \in Seq(SUBSET Nat) /\ Len(events) = Len(program)
    /\ mem \in Seq(RowMem) /\ Len(mem) = Len(program)
    /\ left \in Seq(SUBSET Nat) /\ Len(left) = Len(queue)

IntoTemp(k) == k.dst = E!Temp(k.call)
IntoOut(k) == k.dst = E!Out(k.call)

\* A kernel reduces a matrix, or what the kernel before it has left in the
\* temporary of the call.
RowShape(e) ==
    LET k == queue[e]
        m == program[k.call]
    IN /\ k.call \in DOMAIN program /\ k.rows = m.rows /\ k.count # 0
       /\ k.src \in k.reads /\ k.dst \in k.writes
       /\ IntoOut(k) => k.count = 1
       /\ IntoOut(k) \/ IntoTemp(k)
       /\ \/ k.src = m.name /\ k.cols = m.cols
          \/ /\ k.src = E!Temp(k.call) /\ IntoOut(k)
             /\ e - 1 \in DOMAIN queue
             /\ queue[e - 1].call = k.call /\ IntoTemp(queue[e - 1])
             /\ k.cols = queue[e - 1].count

RowShapes == \A e \in DOMAIN queue : RowShape(e)

RowUnique ==
    \A d, e \in DOMAIN queue :
        queue[d].call = queue[e].call /\ queue[d].dst = queue[e].dst => d = e

\* What has been written of the output of each kernel.
RowRan ==
    \A e \in DOMAIN queue :
        /\ left[e] \subseteq E!CellsOf(queue[e])
        /\ e \in complete => left[e] = E!CellsOf(queue[e])

\* The temporary of a call: every cell that has been written is the reduction of
\* the columns of the row that fall to the block column of the cell.
TempOk(k, ran, temp) ==
    /\ DOMAIN temp = 0 .. k.rows * k.count - 1
    /\ \A col \in 0 .. k.count - 1 : \A row \in 0 .. k.rows - 1 :
          k.rows * col + row \in ran =>
              temp[k.rows * col + row] =
                  E!Exactly({k.rows * x + row :
                                x \in BlockColumns(k.cols, WgCols, k.count, col)})

\* The output of a call: every cell that has been written is a whole row.
OutOk(k, ran, out) ==
    \A row \in 0 .. k.rows - 1 :
        out[row] = IF row \in ran THEN E!Exactly(E!RowOf(program[k.call], row))
                                  ELSE E!Garbage

RowValues ==
    \A e \in DOMAIN queue :
        /\ IntoTemp(queue[e]) => TempOk(queue[e], left[e], mem[queue[e].call].temp)
        /\ IntoOut(queue[e]) => OutOk(queue[e], left[e], mem[queue[e].call].out)

\* The events of a call are of its kernels, the one that writes the output too.
RowEvents ==
    \A c \in DOMAIN program :
        /\ events[c] \subseteq DOMAIN queue
        /\ DOMAIN mem[c].out = 0 .. program[c].rows - 1
        /\ \E e \in DOMAIN queue :
              e \in events[c] /\ queue[e].call = c /\ IntoOut(queue[e])

RowsInv == /\ RowTypes /\ RowShapes /\ RowUnique /\ RowRan /\ RowValues /\ RowEvents

-------------------------------------------------------------------------------
LEMMA RowConstants ==
    /\ WgCols \in Nat \ {0} /\ TwoStepAbove \in Nat \ {0} /\ RowCalls \in Nat \ {0}
    /\ \A m \in Matrices : m.rows \in Nat \ {0} /\ m.cols \in Nat \ {0}
    /\ \A m \in Matrices : \A c \in E!Call : m.name # E!Temp(c) /\ m.name # E!Out(c)
BY HostCallsAssumption DEF HostCallsAssumption, E!RowReductionAssumption

LEMMA Names ==
    /\ \A c, d : E!Temp(c) # E!Out(d)
    /\ \A c, d : E!Temp(c) = E!Temp(d) => c = d
    /\ \A c, d : E!Out(c) = E!Out(d) => c = d
BY DEF E!Temp, E!Out

\* With one block column, all columns fall to it.
LEMMA AllColumns ==
    ASSUME NEW k, k.cols \in Nat, k.count = 1
    PROVE  E!ColumnsOf(k, 0) = 0 .. k.cols - 1
<1>1. WgCols \in Nat \ {0}
  BY RowConstants
<1>2. E!ColumnsOf(k, 0) = BlockColumns(k.cols, WgCols, 1, 0)
  BY DEF E!ColumnsOf, BlockColumns
<1>3. ASSUME NEW x \in 0 .. k.cols - 1
      PROVE  x >= 0 * WgCols /\ (x - 0 * WgCols) % (WgCols * 1) < WgCols
  <2>1. x \in Nat /\ 1 \in Nat \ {0}
    OBVIOUS
  <2>2. /\ (x \div WgCols) % 1 \in 0 .. 1 - 1
        /\ x >= ((x \div WgCols) % 1) * WgCols
        /\ (x - ((x \div WgCols) % 1) * WgCols) % (WgCols * 1) < WgCols
    BY <1>1, <2>1, BlockColumn, Zenon
  <2>3. (x \div WgCols) % 1 = 0
    BY <2>2
  <2> QED
    BY <2>2, <2>3, Zenon
<1> QED
  BY <1>2, <1>3 DEF BlockColumns

\* One element of a container of a call is written.
LEMMA ContentsWritten ==
    ASSUME NEW f \in Contents, NEW i \in DOMAIN f, NEW v \in E!Partial
    PROVE  [f EXCEPT ![i] = v] \in Contents
<1>1. f # <<>>
  OBVIOUS
<1>2. PICK cells \in SUBSET Nat : f \in [cells -> E!Partial]
  BY <1>1 DEF Contents
<1>3. [f EXCEPT ![i] = v] \in [cells -> E!Partial]
  BY <1>2
<1> QED
  BY <1>3 DEF Contents

LEMMA Nested ==
    ASSUME NEW m, NEW c, NEW d, NEW i, NEW v
    PROVE  \E r : /\ r = [m[c] EXCEPT ![d] = [m[c][d] EXCEPT ![i] = v]]
                  /\ [m EXCEPT ![c][d][i] = v] = [m EXCEPT ![c] = r]
OBVIOUS

\* What the invariant says of one command.
LEMMA RowTyped ==
    ASSUME RowTypes, RowShapes, NEW e \in DOMAIN queue
    PROVE  /\ e \in Nat \ {0} /\ e \in 1 .. Len(queue)
           /\ queue[e].call \in E!Call /\ queue[e].call \in DOMAIN program
           /\ queue[e].call \in DOMAIN mem
           /\ program[queue[e].call] \in Matrices
           /\ mem[queue[e].call] \in RowMem
           /\ queue[e].rows = program[queue[e].call].rows
           /\ queue[e].rows \in Nat \ {0} /\ queue[e].count \in Nat \ {0}
           /\ queue[e].cols \in Nat
           /\ IntoOut(queue[e]) => queue[e].count = 1
           /\ IntoOut(queue[e]) <=> ~IntoTemp(queue[e])
           /\ e \in DOMAIN left
<1>1. /\ queue \in Seq(RowStep) /\ program \in Seq(Matrices)
      /\ mem \in Seq(RowMem) /\ Len(mem) = Len(program)
      /\ left \in Seq(SUBSET Nat) /\ Len(left) = Len(queue)
  BY DEF RowTypes
<1>2. e \in Nat \ {0} /\ e \in 1 .. Len(queue) /\ queue[e] \in RowStep /\ e \in DOMAIN left
  BY <1>1
<1>3. /\ queue[e].call \in DOMAIN program /\ queue[e].rows = program[queue[e].call].rows
      /\ queue[e].count # 0
      /\ IntoOut(queue[e]) => queue[e].count = 1
      /\ IntoOut(queue[e]) \/ IntoTemp(queue[e])
  BY DEF RowShapes, RowShape
<1>4. /\ queue[e].call \in DOMAIN mem /\ program[queue[e].call] \in Matrices
      /\ mem[queue[e].call] \in RowMem
  BY <1>1, <1>3
<1>5. queue[e].rows \in Nat \ {0}
  BY <1>3, <1>4, RowConstants
<1>6. ~(IntoOut(queue[e]) /\ IntoTemp(queue[e]))
  BY Names DEF IntoOut, IntoTemp
<1>7. /\ queue[e].call \in E!Call /\ queue[e].cols \in Nat
      /\ queue[e].count \in Nat \ {0}
  <2>1. /\ queue[e].call \in E!Call /\ queue[e].cols \in Nat
        /\ queue[e].count \in Nat
    BY <1>2 DEF RowStep
  <2> QED
    BY <1>3, <2>1
<1>8. IntoOut(queue[e]) <=> ~IntoTemp(queue[e])
  BY <1>3, <1>6
<1> QED
  BY <1>2, <1>3, <1>4, <1>5, <1>7, <1>8, Zenon

\* A kernel that reads a matrix reduces the columns of its block column.
LEMMA ReducedInput ==
    ASSUME RowTypes, RowShapes, NEW e \in DOMAIN queue,
           queue[e].src # E!Temp(queue[e].call), NEW col, NEW row
    PROVE  E!Reduce(queue[e], col, row)
               = E!Exactly({queue[e].rows * x + row : x \in
                      BlockColumns(queue[e].cols, WgCols, queue[e].count, col)})
<1>1. E!ColumnsOf(queue[e], col)
          = BlockColumns(queue[e].cols, WgCols, queue[e].count, col)
  BY DEF E!ColumnsOf, BlockColumns
<1> QED
  BY <1>1 DEF E!Reduce

\* A kernel into the output of a call reduces whole rows of its matrix: the
\* second step may run once the temporary is complete.
LEMMA ReducedRow ==
    ASSUME RowsInv, NEW e \in DOMAIN queue, Ready(e), IntoOut(queue[e]),
           NEW row \in 0 .. queue[e].rows - 1
    PROVE  E!Reduce(queue[e], 0, row)
               = E!Exactly(E!RowOf(program[queue[e].call], row))
<1> USE DEF RowsInv
<1> DEFINE k == queue[e]
           m == program[k.call]
<1>1. /\ e \in Nat \ {0} /\ k.call \in E!Call /\ m \in Matrices
      /\ k.rows = m.rows /\ k.rows \in Nat \ {0} /\ k.cols \in Nat /\ k.count = 1
  BY RowTyped
<1>2. E!ColumnsOf(k, 0) = 0 .. k.cols - 1
  BY <1>1, AllColumns
<1>3. RowShape(e)
  BY DEF RowShapes
<1>4. E!RowOf(m, row) = RowCells(k.rows, m.cols, row)
  BY <1>1 DEF E!RowOf, RowCells
<1>5. CASE k.src = m.name /\ k.cols = m.cols
  <2>1. k.src # E!Temp(k.call)
    BY <1>1, <1>5, RowConstants
  <2>2. E!Reduce(k, 0, row) = E!Exactly(RowCells(k.rows, k.cols, row))
    BY <1>2, <2>1 DEF E!Reduce, RowCells
  <2> QED
    BY <1>4, <1>5, <2>2
<1>6. CASE ~(k.src = m.name /\ k.cols = m.cols)
  <2> DEFINE d == e - 1
             f == queue[d]
             temp == mem[k.call].temp
  <2>1. /\ k.src = E!Temp(k.call) /\ d \in DOMAIN queue
        /\ f.call = k.call /\ IntoTemp(f) /\ k.cols = f.count
        /\ k.src \in k.reads
    BY <1>3, <1>6 DEF RowShape
  <2>2. /\ f.rows = k.rows /\ f.cols \in Nat /\ f.count \in Nat \ {0} /\ ~IntoOut(f)
        /\ d \in 1 .. e - 1
    <3>1. /\ f.rows = program[f.call].rows /\ f.cols \in Nat /\ f.count \in Nat \ {0}
          /\ (IntoOut(f) <=> ~IntoTemp(f)) /\ d \in Nat \ {0}
      BY <2>1, RowTyped
    <3> QED
      BY <1>1, <2>1, <3>1
  <2>3. f.cols = m.cols /\ f.dst \in f.writes /\ f.dst = k.src
    <3>1. RowShape(d)
      BY <2>1 DEF RowShapes
    <3> QED
      BY <2>1, <2>2, <3>1 DEF RowShape, IntoTemp
  <2>4. Conflict(f, k)
    BY <2>1, <2>3 DEF Conflict
  <2>5. d \in complete
    BY <2>2, <2>4 DEF Ready
  <2>6. left[d] = E!CellsOf(f) /\ TempOk(f, left[d], temp)
    BY <2>1, <2>5 DEF RowRan, RowValues
  <2>7. ASSUME NEW y \in 0 .. f.count - 1
        PROVE  temp[k.rows * y + row] = E!Exactly({k.rows * x + row : x \in
                                  BlockColumns(m.cols, WgCols, f.count, y)})
    <3>1. f.rows * y + row \in E!CellsOf(f)
      BY <2>2 DEF E!CellsOf
    <3>2. row \in 0 .. f.rows - 1
      BY <2>2
    <3> HIDE DEF temp, f, d
    <3> QED
      BY <2>2, <2>3, <2>6, <3>1, <3>2 DEF TempOk
  <2>8. m.cols \in Nat
    BY <1>1, RowConstants
  <2>9. E!EvalAll(temp, RowCells(k.rows, f.count, row))
            = E!Exactly(RowCells(k.rows, m.cols, row))
    <3>1. WgCols \in Nat \ {0} /\ row \in 0 .. k.rows - 1
      BY RowConstants
    <3>2. k.rows \in Nat \ {0} /\ f.count \in Nat \ {0}
      BY <1>1, <2>2
    <3> HIDE DEF k, m, f, d, temp
    <3>3. PartsOfRow(temp, m.cols, WgCols, f.count, k.rows, row)
      BY <2>7, Zenon DEF PartsOfRow
    <3> QED
      BY <2>8, <3>1, <3>2, <3>3, TwoStepsReduceRow
  <2>10. E!Reduce(k, 0, row) = E!EvalAll(temp, RowCells(k.rows, k.cols, row))
    BY <1>2, <2>1 DEF E!Reduce, RowCells
  <2> HIDE DEF m, f, d, temp
  <2>11. E!Reduce(k, 0, row) = E!Exactly(E!RowOf(m, row))
    <3> HIDE DEF k
    <3> QED
      BY <1>4, <2>1, <2>9, <2>10
  <2> QED
    BY <2>11 DEF m
<1> QED
  BY <1>5, <1>6

LEMMA ExactlyPartial ==
    ASSUME NEW A, A \subseteq Nat
    PROVE  E!Exactly(A) \in E!Partial
BY DEF E!Exactly, E!Partial, E!Position

\* What a work-group's cell of the output holds once it is written.
CellStep(e, col, row) ==
    LET k == queue[e]
        c == k.call
        cell == k.rows * col + row
        v == E!Reduce(k, col, row)
    IN     /\ Ready(e) /\ cell \in Nat /\ cell \notin left[e]
           /\ cell \in E!CellsOf(k)
           /\ left' \in Seq(SUBSET Nat) /\ Len(left') = Len(left)
           /\ left'[e] = left[e] \cup {cell}
           /\ \A f \in DOMAIN queue : f # e => left'[f] = left[f]
           /\ mem' \in Seq(RowMem) /\ Len(mem') = Len(mem)
           /\ \A b \in DOMAIN mem : b # c => mem'[b] = mem[b]
           /\ IntoOut(k) =>
                 /\ cell = row /\ v = E!Exactly(E!RowOf(program[c], row))
                 /\ mem'[c].temp = mem[c].temp
                 /\ mem'[c].out = [mem[c].out EXCEPT ![cell] = v]
                 /\ cell \in DOMAIN mem[c].out
           /\ IntoTemp(k) =>
                 /\ v = E!Exactly({k.rows * x + row : x \in
                             BlockColumns(k.cols, WgCols, k.count, col)})
                 /\ mem'[c].out = mem[c].out
                 /\ mem'[c].temp = [mem[c].temp EXCEPT ![cell] = v]
                 /\ cell \in DOMAIN mem[c].temp

LEMMA CellWritten ==
    ASSUME RowsInv, NEW e \in DOMAIN queue,
           NEW col \in 0 .. queue[e].count - 1, NEW row \in 0 .. queue[e].rows - 1,
           E!WriteCell(e, col, row)
    PROVE  CellStep(e, col, row)
<1> USE DEF RowsInv
<1> DEFINE k == queue[e]
           c == k.call
           cell == k.rows * col + row
           v == E!Reduce(k, col, row)
           d == IF IntoOut(k) THEN "out" ELSE "temp"
<1>1. /\ Ready(e) /\ cell \in E!CellsOf(k) /\ cell \notin left[e]
      /\ left' = [left EXCEPT ![e] = left[e] \cup {cell}]
      /\ mem' = IF cell \in DOMAIN mem[c][d]
                THEN [mem EXCEPT ![c][d][cell] = v] ELSE mem
  BY DEF E!WriteCell, E!Ready, Ready, E!Conflict, Conflict, IntoOut
<1>2. /\ c \in DOMAIN mem /\ program[c] \in Matrices /\ mem[c] \in RowMem
      /\ k.rows = program[c].rows /\ k.rows \in Nat \ {0} /\ k.count \in Nat \ {0}
      /\ k.cols \in Nat /\ c \in DOMAIN program
      /\ (IntoOut(k) => k.count = 1) /\ (IntoOut(k) <=> ~IntoTemp(k))
      /\ e \in DOMAIN left
  BY RowTyped
<1>3. cell \in Nat
  BY <1>2
<1>4. /\ left' \in Seq(SUBSET Nat) /\ Len(left') = Len(left)
      /\ left'[e] = left[e] \cup {cell}
      /\ \A f \in DOMAIN queue : f # e => left'[f] = left[f]
  <2>1. /\ left \in Seq(SUBSET Nat) /\ e \in DOMAIN left /\ DOMAIN left = DOMAIN queue
        /\ left[e] \cup {cell} \in SUBSET Nat
    <3>1. left \in Seq(SUBSET Nat) /\ queue \in Seq(RowStep) /\ Len(left) = Len(queue)
      BY DEF RowTypes
    <3>2. DOMAIN left = DOMAIN queue /\ left[e] \in SUBSET Nat
      BY <1>2, <3>1
    <3> HIDE DEF cell
    <3> QED
      BY <1>2, <1>3, <3>1, <3>2
  <2> HIDE DEF cell
  <2> QED
    BY <1>1, <2>1, Replaced
<1>5. CASE IntoOut(k)
  <2>1. cell = row /\ col = 0
    BY <1>2, <1>5
  <2>2. DOMAIN mem[c].out = 0 .. program[c].rows - 1
    BY <1>2 DEF RowEvents
  <2>3. cell \in DOMAIN mem[c].out
    BY <1>2, <2>1, <2>2
  <2>4. v = E!Exactly(E!RowOf(program[c], row))
    BY <1>1, <1>5, <2>1, ReducedRow
  <2>5. v \in E!Partial
    <3>1. E!RowOf(program[c], row) \subseteq Nat
      BY <1>2, RowConstants DEF E!RowOf
    <3> QED
      BY <2>4, <3>1, ExactlyPartial
  <2>6. d = "out" /\ mem[c][d] = mem[c].out
    BY <1>5
  <2>7. /\ mem' \in Seq(RowMem) /\ Len(mem') = Len(mem)
        /\ \A b \in DOMAIN mem : b # c => mem'[b] = mem[b]
        /\ mem'[c].temp = mem[c].temp
        /\ mem'[c].out = [mem[c].out EXCEPT ![cell] = v]
    <3> HIDE DEF v, cell, c, k, d
    <3>1. mem' = [mem EXCEPT ![c][d][cell] = v]
      BY <1>1, <2>3, <2>6
    <3>2. PICK r : /\ r = [mem[c] EXCEPT ![d] = [mem[c][d] EXCEPT ![cell] = v]]
                   /\ mem' = [mem EXCEPT ![c] = r]
      BY <3>1, Nested
    <3>3. /\ [mem[c].out EXCEPT ![cell] = v] \in Contents
          /\ r = [mem[c] EXCEPT !["out"] = [mem[c].out EXCEPT ![cell] = v]]
      <4>1. mem[c].out \in Contents
        BY <1>2 DEF RowMem
      <4> QED
        BY <2>3, <2>5, <2>6, <3>2, <4>1, ContentsWritten
    <3>4. /\ r \in RowMem
          /\ r.temp = mem[c].temp /\ r.out = [mem[c].out EXCEPT ![cell] = v]
      <4>1. PICK f \in Contents : f = [mem[c].out EXCEPT ![cell] = v]
        BY <3>3
      <4>2. r = [mem[c] EXCEPT !["out"] = f]
        BY <3>3, <4>1
      <4>3. PICK r1 \in RowMem : r1 = mem[c]
        BY <1>2
      <4>4. r = [r1 EXCEPT !["out"] = f]
        BY <4>2, <4>3
      <4>5. r \in RowMem /\ r.temp = r1.temp /\ r.out = f
        BY <4>1, <4>4 DEF RowMem
      <4> QED
        BY <4>1, <4>3, <4>5, Zenon
    <3>5. /\ mem' \in Seq(RowMem) /\ Len(mem') = Len(mem) /\ mem'[c] = r
          /\ \A b \in DOMAIN mem : b # c => mem'[b] = mem[b]
      BY <1>2, <3>2, <3>4, Replaced DEF RowTypes
    <3> QED
      BY <3>4, <3>5
  <2> HIDE DEF v, cell
  <2>8. ~IntoTemp(k)
    BY <1>2, <1>5
  <2> QED
    BY <1>1, <1>3, <1>4, <2>1, <2>3, <2>4, <2>7, <2>8 DEF v, cell, CellStep
<1>6. CASE ~IntoOut(k)
  <2>1. cell \in DOMAIN mem[c].temp
    <3>1. DOMAIN mem[c].temp = 0 .. k.rows * k.count - 1
      BY <1>2, <1>6 DEF RowValues, TempOk
    <3>2. k.rows * (col + 1) <= k.rows * k.count
      BY <1>2, MulMonotone
    <3>3. k.rows * (col + 1) = k.rows * col + k.rows /\ k.rows * k.count \in Nat
          /\ k.rows * col \in Nat
      BY <1>2
    <3>4. cell <= k.rows * k.count - 1
      BY <1>2, <3>2, <3>3
    <3> HIDE DEF cell
    <3> QED
      BY <1>3, <3>1, <3>3, <3>4
  <2>2. v = E!Exactly({k.rows * x + row : x \in
                                BlockColumns(k.cols, WgCols, k.count, col)})
    <3>1. RowShape(e)
      BY DEF RowShapes
    <3>2. k.src # E!Temp(c)
      BY <1>2, <1>6, <3>1, RowTyped, RowConstants DEF RowShape
    <3> QED
      BY <3>2, ReducedInput
  <2>3. v \in E!Partial
    <3>1. {k.rows * x + row : x \in BlockColumns(k.cols, WgCols, k.count, col)}
              \subseteq Nat
      BY <1>2 DEF BlockColumns
    <3> QED
      BY <2>2, <3>1, ExactlyPartial
  <2>4. d = "temp" /\ mem[c][d] = mem[c].temp
    BY <1>6
  <2>5. /\ mem' \in Seq(RowMem) /\ Len(mem') = Len(mem)
        /\ \A b \in DOMAIN mem : b # c => mem'[b] = mem[b]
        /\ mem'[c].out = mem[c].out
        /\ mem'[c].temp = [mem[c].temp EXCEPT ![cell] = v]
    <3> HIDE DEF v, cell, c, k, d
    <3>1. mem' = [mem EXCEPT ![c][d][cell] = v]
      BY <1>1, <2>1, <2>4
    <3>2. PICK r : /\ r = [mem[c] EXCEPT ![d] = [mem[c][d] EXCEPT ![cell] = v]]
                   /\ mem' = [mem EXCEPT ![c] = r]
      BY <3>1, Nested
    <3>3. /\ [mem[c].temp EXCEPT ![cell] = v] \in Contents
          /\ r = [mem[c] EXCEPT !["temp"] = [mem[c].temp EXCEPT ![cell] = v]]
      <4>1. mem[c].temp \in Contents
        BY <1>2 DEF RowMem
      <4> QED
        BY <2>1, <2>3, <2>4, <3>2, <4>1, ContentsWritten
    <3>4. /\ r \in RowMem
          /\ r.out = mem[c].out /\ r.temp = [mem[c].temp EXCEPT ![cell] = v]
      <4>1. PICK f \in Contents : f = [mem[c].temp EXCEPT ![cell] = v]
        BY <3>3
      <4>2. r = [mem[c] EXCEPT !["temp"] = f]
        BY <3>3, <4>1
      <4>3. PICK r1 \in RowMem : r1 = mem[c]
        BY <1>2
      <4>4. r = [r1 EXCEPT !["temp"] = f]
        BY <4>2, <4>3
      <4>5. r \in RowMem /\ r.out = r1.out /\ r.temp = f
        BY <4>1, <4>4 DEF RowMem
      <4> QED
        BY <4>1, <4>3, <4>5, Zenon
    <3>5. /\ mem' \in Seq(RowMem) /\ Len(mem') = Len(mem) /\ mem'[c] = r
          /\ \A b \in DOMAIN mem : b # c => mem'[b] = mem[b]
      BY <1>2, <3>2, <3>4, Replaced DEF RowTypes
    <3> QED
      BY <3>4, <3>5
  <2> QED
    BY <1>1, <1>3, <1>4, <1>6, <2>1, <2>2, <2>5, Zenon DEF CellStep
<1> QED
  BY <1>5, <1>6

\* Two cells of a container are the same cell of the same row and column.
LEMMA SameCell ==
    ASSUME NEW rows \in Nat \ {0}, NEW n \in Nat,
           NEW i \in 0 .. rows - 1, NEW j \in 0 .. rows - 1,
           NEW x \in 0 .. n - 1, NEW y \in 0 .. n - 1,
           rows * x + i = rows * y + j
    PROVE  x = y /\ i = j
BY OnePlace

LEMMA WriteKeeps ==
    ASSUME RowsInv, NEW e \in DOMAIN queue,
           NEW col \in 0 .. queue[e].count - 1, NEW row \in 0 .. queue[e].rows - 1,
           E!WriteCell(e, col, row)
    PROVE  RowsInv' /\ E!RowsAppearWhole
<1> USE DEF RowsInv
<1> DEFINE k == queue[e]
           c == k.call
           cell == k.rows * col + row
           v == E!Reduce(k, col, row)
<1>0. CellStep(e, col, row)
  BY CellWritten
<1>1. /\ Ready(e) /\ cell \in Nat /\ cell \notin left[e] /\ cell \in E!CellsOf(k)
      /\ left' \in Seq(SUBSET Nat) /\ Len(left') = Len(left)
      /\ left'[e] = left[e] \cup {cell}
      /\ \A f \in DOMAIN queue : f # e => left'[f] = left[f]
      /\ mem' \in Seq(RowMem) /\ Len(mem') = Len(mem)
      /\ \A b \in DOMAIN mem : b # c => mem'[b] = mem[b]
  BY <1>0, Zenon DEF CellStep
<1>2. IntoOut(k) =>
        /\ cell = row /\ v = E!Exactly(E!RowOf(program[c], row))
        /\ mem'[c].temp = mem[c].temp
        /\ mem'[c].out = [mem[c].out EXCEPT ![cell] = v]
        /\ cell \in DOMAIN mem[c].out
  BY <1>0, Zenon DEF CellStep
<1>3. IntoTemp(k) =>
        /\ v = E!Exactly({k.rows * x + row : x \in
                    BlockColumns(k.cols, WgCols, k.count, col)})
        /\ mem'[c].out = mem[c].out
        /\ mem'[c].temp = [mem[c].temp EXCEPT ![cell] = v]
        /\ cell \in DOMAIN mem[c].temp
  BY <1>0, Zenon DEF CellStep
<1>4. /\ queue' = queue /\ complete' = complete /\ program' = program
      /\ next' = next /\ events' = events
  BY DEF E!WriteCell
<1>5. /\ c \in DOMAIN mem /\ k.rows \in Nat \ {0} /\ k.count \in Nat \ {0}
      /\ k.rows = program[c].rows /\ (IntoOut(k) <=> ~IntoTemp(k))
  BY RowTyped
<1> HIDE DEF v, cell, c, k
<1>6. RowTypes'
  BY <1>1, <1>4 DEF RowTypes
<1>7. RowShapes' /\ RowUnique'
  <2>1. RowShapes'
    BY <1>4 DEF RowShapes, RowShape, IntoOut, IntoTemp
  <2> QED
    BY <1>4, <2>1 DEF RowUnique
<1>8. RowRan'
  <2>1. ASSUME NEW f \in DOMAIN queue
        PROVE  /\ left'[f] \subseteq E!CellsOf(queue[f])
               /\ f \in complete => left'[f] = E!CellsOf(queue[f])
    <3>1. CASE f = e
      <4>1. e \notin complete
        BY <1>1 DEF Ready
      <4> QED
        BY <1>1, <3>1, <4>1 DEF RowRan, k
    <3>2. CASE f # e
      BY <1>1, <3>2 DEF RowRan
    <3> QED
      BY <3>1, <3>2
  <2>2. \A f : E!CellsOf(queue[f])' = E!CellsOf(queue[f])
    BY <1>4 DEF E!CellsOf
  <2> QED
    BY <1>4, <2>1, <2>2 DEF RowRan
<1>9. ASSUME NEW f \in DOMAIN queue, f # e, queue[f].call = c
      PROVE  /\ IntoTemp(queue[f]) => ~IntoTemp(k)
             /\ IntoOut(queue[f]) => ~IntoOut(k)
  BY <1>9 DEF RowUnique, IntoTemp, IntoOut, c, k
<1>10. ASSUME NEW f \in DOMAIN queue, IntoTemp(queue[f])
       PROVE  TempOk(queue[f], left'[f], mem'[queue[f].call].temp)
  <2>1. TempOk(queue[f], left[f], mem[queue[f].call].temp) /\ queue[f].call \in DOMAIN mem
    BY <1>10, RowTyped DEF RowValues
  <2>2. CASE f # e
    <3>1. mem'[queue[f].call].temp = mem[queue[f].call].temp
      BY <1>1, <1>2, <1>5, <1>9, <1>10, <2>1, <2>2
    <3> QED
      BY <1>1, <2>1, <2>2, <3>1
  <2>3. CASE f = e
    <3> DEFINE t == mem[c].temp
               u == mem'[c].temp
    <3>1. /\ IntoTemp(k) /\ TempOk(k, left[e], t) /\ queue[f] = k /\ queue[f].call = c
      BY <1>10, <2>1, <2>3 DEF c, k
    <3>2. u = [t EXCEPT ![cell] = v] /\ cell \in DOMAIN t
      BY <1>3, <3>1
    <3>3. DOMAIN u = DOMAIN t /\ u[cell] = v /\ \A i \in DOMAIN t : i # cell => u[i] = t[i]
      <4> HIDE DEF t, u
      <4> QED
        BY <3>2
    <3>4. DOMAIN u = 0 .. k.rows * k.count - 1
      BY <3>1, <3>3 DEF TempOk
    <3>5. ASSUME NEW x \in 0 .. k.count - 1, NEW i \in 0 .. k.rows - 1,
                 k.rows * x + i \in left'[e]
          PROVE  u[k.rows * x + i] =
                     E!Exactly({k.rows * z + i : z \in
                                   BlockColumns(k.cols, WgCols, k.count, x)})
      <4>1. CASE k.rows * x + i = cell
        <5>1. x = col /\ i = row
          <6>1. col \in 0 .. k.count - 1 /\ row \in 0 .. k.rows - 1
            BY DEF k
          <6> QED
            BY <1>5, <4>1, <6>1, SameCell DEF cell
        <5> QED
          BY <1>3, <3>1, <3>3, <4>1, <5>1
      <4>2. CASE k.rows * x + i # cell
        <5>1. k.rows * x + i \in left[e]
          BY <1>1, <3>5, <4>2
        <5>2. t[k.rows * x + i] = E!Exactly({k.rows * z + i : z \in
                                   BlockColumns(k.cols, WgCols, k.count, x)})
          BY <3>1, <5>1 DEF TempOk
        <5>3. k.rows * x + i \in DOMAIN t
          <6>1. k.rows * x + i \in E!CellsOf(k)
            BY <5>1 DEF RowRan, k
          <6>2. k.rows * (x + 1) <= k.rows * k.count
            BY <1>5, MulMonotone
          <6>3. /\ k.rows * (x + 1) = k.rows * x + k.rows
                /\ k.rows * x \in Nat /\ k.rows * k.count \in Nat
            BY <1>5
          <6>4. k.rows * x + i \in 0 .. k.rows * k.count - 1
            BY <1>5, <6>2, <6>3
          <6> QED
            BY <3>3, <3>4, <6>4
        <5> QED
          BY <3>3, <4>2, <5>2, <5>3
      <4> QED
        BY <4>1, <4>2
    <3>6. TempOk(k, left'[e], u)
      <4> HIDE DEF u, t
      <4> QED
        BY <3>4, <3>5, Zenon DEF TempOk
    <3> QED
      BY <2>3, <3>1, <3>6
  <2> QED
    BY <2>2, <2>3
<1>11. ASSUME NEW f \in DOMAIN queue, IntoOut(queue[f])
       PROVE  OutOk(queue[f], left'[f], mem'[queue[f].call].out)
  <2>1. OutOk(queue[f], left[f], mem[queue[f].call].out) /\ queue[f].call \in DOMAIN mem
    BY <1>11, RowTyped DEF RowValues
  <2>2. CASE f # e
    <3>1. mem'[queue[f].call].out = mem[queue[f].call].out
      BY <1>1, <1>3, <1>5, <1>9, <1>11, <2>1, <2>2
    <3> QED
      BY <1>1, <2>1, <2>2, <3>1
  <2>3. CASE f = e
    <3> DEFINE t == mem[c].out
               u == mem'[c].out
    <3>1. /\ IntoOut(k) /\ OutOk(k, left[e], t) /\ queue[f] = k /\ queue[f].call = c
          /\ k.call = c
      BY <1>11, <2>1, <2>3 DEF c, k
    <3>2. u = [t EXCEPT ![cell] = v] /\ cell \in DOMAIN t /\ cell = row
      BY <1>2, <3>1
    <3>3. DOMAIN t = 0 .. k.rows - 1
      BY <1>5, <3>1, RowTyped DEF RowEvents, RowTypes, c, k
    <3>4. u[cell] = v /\ \A i \in DOMAIN t : i # cell => u[i] = t[i]
      <4> HIDE DEF t, u
      <4> QED
        BY <3>2
    <3>5. v = E!Exactly(E!RowOf(program[c], row))
      BY <1>2, <3>1
    <3> HIDE DEF t, u
    <3>6. OutOk(k, left'[e], u)
      BY <1>1, <3>1, <3>2, <3>3, <3>4, <3>5 DEF OutOk
    <3> QED
      BY <2>3, <3>1, <3>6 DEF u
  <2> QED
    BY <2>2, <2>3
<1>12. RowValues'
  <2>1. ASSUME NEW f \in DOMAIN queue
        PROVE  /\ (IntoTemp(queue[f]) =>
                      TempOk(queue[f], left[f], mem[queue[f].call].temp))'
               /\ (IntoOut(queue[f]) =>
                      OutOk(queue[f], left[f], mem[queue[f].call].out))'
    <3>1. (IntoTemp(queue[f]) =>
              TempOk(queue[f], left[f], mem[queue[f].call].temp))'
      BY <1>4, <1>10
    <3>2. (IntoOut(queue[f]) =>
              OutOk(queue[f], left[f], mem[queue[f].call].out))'
      BY <1>4, <1>11 DEF OutOk
    <3> QED
      BY <3>1, <3>2
  <2> QED
    BY <1>4, <2>1 DEF RowValues
<1>13. \A b \in DOMAIN program : DOMAIN mem'[b].out = DOMAIN mem[b].out
  <2> TAKE b \in DOMAIN program
  <2>1. b \in DOMAIN mem
    BY DEF RowTypes
  <2>2. CASE b # c
    BY <1>1, <2>1, <2>2
  <2>3. CASE b = c
    BY <1>2, <1>3, <1>5, <2>3
  <2> QED
    BY <2>2, <2>3
<1>14. RowEvents'
  BY <1>4, <1>13 DEF RowEvents, IntoOut
<1>15. E!RowsAppearWhole
  <2> SUFFICES ASSUME NEW b \in DOMAIN program, NEW i \in DOMAIN mem[b].out,
                      mem'[b].out[i] # mem[b].out[i]
               PROVE  /\ mem[b].out[i] = E!Garbage
                      /\ mem'[b].out[i] = E!Exactly(E!RowOf(program[b], i))
    BY DEF E!RowsAppearWhole
  <2>1. b = c /\ IntoOut(k)
    <3>1. b \in DOMAIN mem
      BY DEF RowTypes
    <3> QED
      BY <1>1, <1>3, <1>5, <3>1
  <2>2. mem'[c].out = [mem[c].out EXCEPT ![cell] = v] /\ cell = row
    BY <1>2, <2>1
  <2>3. i = row
    BY <2>1, <2>2
  <2>4. OutOk(k, left[e], mem[c].out)
    BY <2>1 DEF RowValues, c, k
  <2>5. mem[c].out[row] = E!Garbage
    <3>1. row \in 0 .. k.rows - 1 /\ row \notin left[e]
      BY <1>1, <2>2 DEF k
    <3> QED
      BY <2>4, <3>1 DEF OutOk
  <2> QED
    BY <1>2, <2>1, <2>2, <2>3, <2>5
<1> QED
  BY <1>6, <1>7, <1>8, <1>12, <1>14, <1>15

LEMMA FinishKeeps ==
    ASSUME RowsInv, NEW e \in DOMAIN queue, E!Finish(e)
    PROVE  RowsInv' /\ E!RowsAppearWhole
<1> USE DEF RowsInv
<1>1. /\ left[e] = E!CellsOf(queue[e]) /\ complete' = complete \cup {e}
      /\ queue' = queue /\ program' = program /\ next' = next
      /\ events' = events /\ left' = left /\ mem' = mem
  BY DEF E!Finish, E!Complete
<1>2. RowTypes'
  BY <1>1 DEF RowTypes
<1>3. RowShapes' /\ RowUnique'
  <2>1. RowShapes'
    BY <1>1 DEF RowShapes, RowShape, IntoOut, IntoTemp
  <2> QED
    BY <1>1, <2>1 DEF RowUnique
<1>4. RowRan'
  <2>1. \A f : E!CellsOf(queue[f])' = E!CellsOf(queue[f])
    BY <1>1 DEF E!CellsOf
  <2> QED
    BY <1>1, <2>1 DEF RowRan
<1>5. RowValues'
  BY <1>1 DEF RowValues, OutOk
<1>6. RowEvents'
  BY <1>1 DEF RowEvents, IntoOut
<1>7. E!RowsAppearWhole
  BY <1>1 DEF E!RowsAppearWhole
<1> QED
  BY <1>2, <1>3, <1>4, <1>5, <1>6, <1>7

LEMMA Uniform ==
    ASSUME NEW n \in Nat, NEW A, NEW a \in A
    PROVE  /\ [i \in 1 .. n |-> a] \in Seq(A)
           /\ Len([i \in 1 .. n |-> a]) = n
           /\ \A i \in 1 .. n : [j \in 1 .. n |-> a][i] = a
OBVIOUS

LEMMA Concatenated ==
    ASSUME NEW A, NEW q \in Seq(A), NEW r \in Seq(A)
    PROVE  /\ q \o r \in Seq(A) /\ Len(q \o r) = Len(q) + Len(r)
           /\ \A i \in DOMAIN q : (q \o r)[i] = q[i]
           /\ \A i \in 1 .. Len(r) : (q \o r)[Len(q) + i] = r[i]
OBVIOUS

\* The block columns that a call gives its first step.
LEMMA BlockCount ==
    ASSUME RowTypes, NEW m \in Matrices
    PROVE  (IF next = E!NoLimit THEN E!Limit(m) ELSE next) \in Nat \ {0}
<1>1. WgCols \in Nat \ {0} /\ m.cols \in Nat \ {0}
  BY RowConstants
<1>2. (m.cols - 1) \div WgCols \in Nat
  <2>1. m.cols - 1 \in Nat
    BY <1>1
  <2> QED
    BY <1>1, <2>1, DivMod
<1>3. E!CeilDiv(m.cols, WgCols) \in Nat \ {0}
  BY <1>2 DEF E!CeilDiv
<1>4. E!Limit(m) \in Nat \ {0}
  BY <1>1, <1>3 DEF E!Limit
<1> QED
  BY <1>4 DEF RowTypes, E!NoLimit

\* What a call adds to the state.
RowCalled(m, kernels, temp) ==
    LET c == Len(program) + 1
        n == Len(queue)
    IN /\ c \in E!Call /\ c \notin DOMAIN program
       /\ complete' = complete
       /\ program' \in Seq(Matrices) /\ Len(program') = c
       /\ DOMAIN program' = DOMAIN program \cup {c} /\ program'[c] = m
       /\ \A b \in DOMAIN program : program'[b] = program[b]
       /\ queue' \in Seq(RowStep) /\ Len(queue') = n + Len(kernels)
       /\ DOMAIN queue' = DOMAIN queue \cup n + 1 .. n + Len(kernels)
       /\ \A e \in DOMAIN queue : queue'[e] = queue[e] /\ left'[e] = left[e]
       /\ \A i \in 1 .. Len(kernels) :
             /\ queue'[n + i] = kernels[i] /\ left'[n + i] = {}
             /\ n + i \notin DOMAIN queue /\ n + i \notin complete
       /\ left' \in Seq(SUBSET Nat) /\ Len(left') = Len(queue')
       /\ events' \in Seq(SUBSET Nat) /\ Len(events') = c
       /\ events'[c] = n + 1 .. n + Len(kernels)
       /\ mem' \in Seq(RowMem) /\ Len(mem') = c
       /\ mem'[c].temp = temp /\ mem'[c].out = E!Cells(m.rows)
       /\ \A b \in DOMAIN program : events'[b] = events[b] /\ mem'[b] = mem[b]

LEMMA Calling ==
    ASSUME RowTypes, NEW m \in Matrices,
           NEW kernels \in Seq(RowStep), NEW temp \in Contents,
           Len(program) + 1 \in E!Call,
           program' = Append(program, m),
           queue' = queue \o kernels,
           left' = left \o [i \in DOMAIN kernels |-> {}],
           events' = Append(events, E!EventsOf(Len(kernels))),
           mem' = Append(mem, [temp |-> temp, out |-> E!Cells(m.rows)]),
           complete' = complete
    PROVE  RowCalled(m, kernels, temp)
<1> DEFINE c == Len(program) + 1
           n == Len(queue)
<1>1. /\ program \in Seq(Matrices) /\ queue \in Seq(RowStep)
      /\ events \in Seq(SUBSET Nat) /\ Len(events) = Len(program)
      /\ mem \in Seq(RowMem) /\ Len(mem) = Len(program)
      /\ left \in Seq(SUBSET Nat) /\ Len(left) = Len(queue)
      /\ complete \subseteq {0} \cup DOMAIN queue
  BY DEF RowTypes, NoEvent
<1>2. /\ program' \in Seq(Matrices) /\ Len(program') = c
      /\ DOMAIN program' = DOMAIN program \cup {c} /\ program'[c] = m
      /\ \A b \in DOMAIN program : program'[b] = program[b]
      /\ c \notin DOMAIN program
  BY <1>1
<1>3. /\ queue' \in Seq(RowStep) /\ Len(queue') = n + Len(kernels)
      /\ \A e \in DOMAIN queue : queue'[e] = queue[e]
      /\ \A i \in 1 .. Len(kernels) : queue'[n + i] = kernels[i]
  BY <1>1, Concatenated
<1>4. /\ DOMAIN queue' = DOMAIN queue \cup n + 1 .. n + Len(kernels)
      /\ \A i \in 1 .. Len(kernels) : n + i \notin DOMAIN queue /\ n + i \notin complete
  BY <1>1, <1>3
<1>5. /\ left' \in Seq(SUBSET Nat) /\ Len(left') = Len(queue')
      /\ \A e \in DOMAIN queue : left'[e] = left[e]
      /\ \A i \in 1 .. Len(kernels) : left'[n + i] = {}
  <2> DEFINE r == [i \in DOMAIN kernels |-> {}]
  <2>1. r \in Seq(SUBSET Nat) /\ Len(r) = Len(kernels) /\ \A i \in 1 .. Len(kernels) : r[i] = {}
    <3>1. DOMAIN kernels = 1 .. Len(kernels) /\ Len(kernels) \in Nat
      OBVIOUS
    <3>2. r = [i \in 1 .. Len(kernels) |-> {}] /\ {} \in SUBSET Nat
      BY <3>1
    <3> HIDE DEF r
    <3> QED
      BY <3>1, <3>2, Uniform
  <2> HIDE DEF r
  <2>2. DOMAIN left = DOMAIN queue /\ Len(left) = n
    BY <1>1
  <2>3. left' = left \o r
    BY DEF r
  <2>4. /\ left' \in Seq(SUBSET Nat) /\ Len(left') = Len(left) + Len(r)
        /\ \A i \in DOMAIN left : left'[i] = left[i]
        /\ \A i \in 1 .. Len(r) : left'[Len(left) + i] = r[i]
    <3>1. left \in Seq(SUBSET Nat)
      BY <1>1
    <3>2. PICK A : A = SUBSET Nat
      OBVIOUS
    <3>3. left \in Seq(A) /\ r \in Seq(A)
      BY <2>1, <3>1, <3>2
    <3>4. /\ left \o r \in Seq(A) /\ Len(left \o r) = Len(left) + Len(r)
          /\ \A i \in DOMAIN left : (left \o r)[i] = left[i]
          /\ \A i \in 1 .. Len(r) : (left \o r)[Len(left) + i] = r[i]
      BY <3>3, Concatenated
    <3> QED
      BY <2>3, <3>2, <3>4
  <2> HIDE DEF n
  <2> QED
    BY <1>3, <2>1, <2>2, <2>4
<1>6. /\ events' \in Seq(SUBSET Nat) /\ Len(events') = c
      /\ events'[c] = n + 1 .. n + Len(kernels)
      /\ \A b \in DOMAIN program : events'[b] = events[b]
  <2>1. E!EventsOf(Len(kernels)) = n + 1 .. n + Len(kernels)
        /\ n + 1 .. n + Len(kernels) \in SUBSET Nat
    BY <1>1 DEF E!EventsOf
  <2> QED
    BY <1>1, <2>1
<1>7. /\ mem' \in Seq(RowMem) /\ Len(mem') = c
      /\ mem'[c].temp = temp /\ mem'[c].out = E!Cells(m.rows)
      /\ \A b \in DOMAIN program : mem'[b] = mem[b]
  <2> DEFINE r == [temp |-> temp, out |-> E!Cells(m.rows)]
  <2>1. E!Cells(m.rows) \in Contents
    <3>1. E!Garbage \in E!Partial
      BY DEF E!Garbage, E!Element, E!GarbageId, E!Partial, E!Position
    <3>2. 0 .. m.rows - 1 \in SUBSET Nat
      BY RowConstants
    <3>3. E!Cells(m.rows) \in [0 .. m.rows - 1 -> E!Partial]
      BY <3>1 DEF E!Cells
    <3> QED
      BY <3>2, <3>3 DEF Contents
  <2>2. r \in RowMem /\ r.temp = temp /\ r.out = E!Cells(m.rows)
    BY <2>1 DEF RowMem
  <2> HIDE DEF r
  <2>3. mem' = Append(mem, r)
    BY DEF r
  <2> QED
    BY <1>1, <2>2, <2>3
<1> QED
  BY <1>2, <1>3, <1>4, <1>5, <1>6, <1>7 DEF RowCalled

\* The kernels of a call: one, or two by way of the temporary.
KernelsOf(c, m, kernels, temp) ==
    /\ Len(kernels) \in {1, 2}
    /\ \A i \in 1 .. Len(kernels) :
          LET k == kernels[i]
          IN /\ k.call = c /\ k.rows = m.rows /\ k.count # 0
             /\ k.src \in k.reads /\ k.dst \in k.writes
             /\ IntoOut(k) => k.count = 1
             /\ IntoOut(k) \/ IntoTemp(k)
             /\ IntoTemp(k) => DOMAIN temp = 0 .. k.rows * k.count - 1
             /\ \/ k.src = m.name /\ k.cols = m.cols
                \/ /\ i = 2 /\ k.src = E!Temp(c) /\ IntoOut(k)
                   /\ IntoTemp(kernels[1]) /\ k.cols = kernels[1].count
    /\ \A i, j \in 1 .. Len(kernels) : kernels[i].dst = kernels[j].dst => i = j
    /\ IntoOut(kernels[Len(kernels)])

LEMMA CalledKeeps ==
    ASSUME RowsInv, NEW m \in Matrices, NEW kernels \in Seq(RowStep), NEW temp,
           RowCalled(m, kernels, temp),
           KernelsOf(Len(program) + 1, m, kernels, temp), next' \in Nat
    PROVE  RowsInv' /\ E!RowsAppearWhole
<1> USE DEF RowsInv
<1> DEFINE c == Len(program) + 1
           n == Len(queue)
           N == Len(kernels)
<1>1. /\ c \in E!Call /\ c \notin DOMAIN program /\ complete' = complete
      /\ DOMAIN program' = DOMAIN program \cup {c} /\ program'[c] = m
      /\ \A b \in DOMAIN program : program'[b] = program[b]
      /\ DOMAIN queue' = DOMAIN queue \cup n + 1 .. n + N
      /\ \A e \in DOMAIN queue : queue'[e] = queue[e] /\ left'[e] = left[e]
      /\ events'[c] = n + 1 .. n + N
      /\ mem'[c].temp = temp /\ mem'[c].out = E!Cells(m.rows)
      /\ \A b \in DOMAIN program : events'[b] = events[b] /\ mem'[b] = mem[b]
  BY DEF RowCalled
<1>2. N \in {1, 2} /\ n \in Nat
  BY DEF KernelsOf, RowTypes
<1>3. ASSUME NEW i \in 1 .. N
      PROVE  /\ queue'[n + i] = kernels[i] /\ left'[n + i] = {}
             /\ n + i \notin DOMAIN queue /\ n + i \notin complete
             /\ n + i \in DOMAIN queue'
  <2>1. n + i \in n + 1 .. n + N
    BY <1>2
  <2> QED
    BY <1>1, <2>1 DEF RowCalled
<1>4. ASSUME NEW e \in DOMAIN queue', e \notin DOMAIN queue
      PROVE  \E i \in 1 .. N : e = n + i
  <2>1. e \in n + 1 .. n + N
    BY <1>1, <1>4
  <2>2. e - n \in 1 .. N /\ e = n + (e - n)
    BY <1>2, <2>1
  <2> QED
    BY <2>2
<1>5. ASSUME NEW e \in DOMAIN queue
      PROVE  queue[e].call \in DOMAIN program /\ queue[e].call # c
  BY <1>1, RowTyped
<1>6. RowTypes'
  <2>1. Len(program') <= RowCalls
    BY RowConstants DEF RowCalled, E!Call
  <2>2. complete' \subseteq {NoEvent} \cup DOMAIN queue'
    BY <1>1 DEF RowTypes
  <2> QED
    BY <2>1, <2>2 DEF RowTypes, RowCalled
<1>7. RowShapes'
  <2>1. ASSUME NEW e \in DOMAIN queue
        PROVE  RowShape(e)'
    <3>1. RowShape(e) /\ queue'[e] = queue[e]
      BY <1>1 DEF RowShapes
    <3>2. program'[queue[e].call] = program[queue[e].call]
      BY <1>1, <1>5
    <3>3. CASE queue[e].src = program[queue[e].call].name
               /\ queue[e].cols = program[queue[e].call].cols
      BY <1>1, <3>1, <3>2, <3>3 DEF RowShape
    <3>4. CASE ~(queue[e].src = program[queue[e].call].name
                 /\ queue[e].cols = program[queue[e].call].cols)
      <4>1. e - 1 \in DOMAIN queue /\ queue'[e - 1] = queue[e - 1]
        BY <1>1, <3>1, <3>4 DEF RowShape
      <4> QED
        BY <1>1, <3>1, <3>2, <3>4, <4>1 DEF RowShape
    <3> QED
      BY <3>3, <3>4
  <2>2. ASSUME NEW i \in 1 .. N, NEW e, e = n + i
        PROVE  RowShape(e)'
    <3>1. queue'[e] = kernels[i]
      BY <1>3, <2>2
    <3>2. /\ kernels[i].call = c /\ kernels[i].rows = m.rows /\ kernels[i].count # 0
          /\ kernels[i].src \in kernels[i].reads /\ kernels[i].dst \in kernels[i].writes
          /\ (IntoOut(kernels[i]) => kernels[i].count = 1)
          /\ (IntoOut(kernels[i]) \/ IntoTemp(kernels[i]))
          /\ \/ kernels[i].src = m.name /\ kernels[i].cols = m.cols
             \/ /\ i = 2 /\ kernels[i].src = E!Temp(c) /\ IntoOut(kernels[i])
                /\ IntoTemp(kernels[1]) /\ kernels[i].cols = kernels[1].count
      BY DEF KernelsOf
    <3>3. program'[c] = m /\ c \in DOMAIN program'
      BY <1>1
    <3>4. CASE kernels[i].src = m.name /\ kernels[i].cols = m.cols
      BY <3>1, <3>2, <3>3, <3>4 DEF RowShape
    <3>5. CASE ~(kernels[i].src = m.name /\ kernels[i].cols = m.cols)
      <4>1. i = 2 /\ 1 \in 1 .. N
        BY <1>2, <3>2, <3>5
      <4>2. queue'[n + 1] = kernels[1] /\ n + 1 \in DOMAIN queue' /\ kernels[1].call = c
        BY <1>3, <4>1 DEF KernelsOf
      <4>3. e - 1 = n + 1
        BY <1>2, <2>2, <4>1
      <4> QED
        BY <3>1, <3>2, <3>3, <3>5, <4>2, <4>3 DEF RowShape
    <3> QED
      BY <3>4, <3>5
  <2>3. ASSUME NEW e \in DOMAIN queue'
        PROVE  RowShape(e)'
    <3>1. CASE e \in DOMAIN queue
      BY <2>1, <3>1
    <3>2. CASE e \notin DOMAIN queue
      <4>1. PICK i \in 1 .. N : e = n + i
        BY <1>4, <3>2
      <4> QED
        BY <2>2, <4>1
    <3> QED
      BY <3>1, <3>2
  <2> QED
    BY <2>3 DEF RowShapes

<1>8. RowUnique'
  <2> SUFFICES ASSUME NEW d \in DOMAIN queue', NEW e \in DOMAIN queue',
                      queue'[d].call = queue'[e].call, queue'[d].dst = queue'[e].dst
               PROVE  d = e
    BY DEF RowUnique
  <2>1. CASE d \in DOMAIN queue /\ e \in DOMAIN queue
    BY <1>1, <2>1 DEF RowUnique
  <2>2. CASE d \notin DOMAIN queue /\ e \notin DOMAIN queue
    <3>1. PICK i \in 1 .. N : d = n + i
      BY <1>4, <2>2
    <3>2. PICK j \in 1 .. N : e = n + j
      BY <1>4, <2>2
    <3>3. kernels[i].dst = kernels[j].dst
      BY <1>3, <3>1, <3>2
    <3> QED
      BY <3>1, <3>2, <3>3 DEF KernelsOf
  <2>3. \A f \in DOMAIN queue' : queue'[f].call = c <=> f \notin DOMAIN queue
    <3> TAKE f \in DOMAIN queue'
    <3>1. CASE f \in DOMAIN queue
      BY <1>1, <1>5, <3>1
    <3>2. CASE f \notin DOMAIN queue
      <4>1. PICK i \in 1 .. N : f = n + i
        BY <1>4, <3>2
      <4> QED
        BY <1>3, <3>2, <4>1 DEF KernelsOf
    <3> QED
      BY <3>1, <3>2
  <2> QED
    BY <2>1, <2>2, <2>3
<1>9. RowRan'
  <2>1. ASSUME NEW e \in DOMAIN queue'
        PROVE  /\ left'[e] \subseteq E!CellsOf(queue'[e])
               /\ e \in complete => left'[e] = E!CellsOf(queue'[e])
    <3>1. CASE e \in DOMAIN queue
      BY <1>1, <3>1 DEF RowRan
    <3>2. CASE e \notin DOMAIN queue
      <4>1. PICK i \in 1 .. N : e = n + i
        BY <1>4, <3>2
      <4> QED
        BY <1>3, <4>1
    <3> QED
      BY <3>1, <3>2
  <2> QED
    BY <1>1, <2>1 DEF RowRan
<1>10. RowValues'
  <2>1. ASSUME NEW e \in DOMAIN queue'
        PROVE  /\ (IntoTemp(queue[e]) =>
                      TempOk(queue[e], left[e], mem[queue[e].call].temp))'
               /\ (IntoOut(queue[e]) =>
                      OutOk(queue[e], left[e], mem[queue[e].call].out))'
    <3>1. CASE e \in DOMAIN queue
      <4>1. /\ queue'[e] = queue[e] /\ left'[e] = left[e]
            /\ mem'[queue[e].call] = mem[queue[e].call]
            /\ program'[queue[e].call] = program[queue[e].call]
        BY <1>1, <1>5, <3>1
      <4> QED
        BY <3>1, <4>1 DEF RowValues, OutOk
    <3>2. CASE e \notin DOMAIN queue
      <4>1. PICK i \in 1 .. N : e = n + i
        BY <1>4, <3>2
      <4>2. /\ queue'[e] = kernels[i] /\ left'[e] = {} /\ kernels[i].call = c
            /\ kernels[i].rows = m.rows
            /\ IntoTemp(kernels[i]) =>
                  DOMAIN temp = 0 .. kernels[i].rows * kernels[i].count - 1
        BY <1>3, <4>1 DEF KernelsOf
      <4>3. IntoTemp(kernels[i]) => TempOk(kernels[i], {}, temp)
        BY <4>2 DEF TempOk
      <4>4. \A row \in 0 .. m.rows - 1 : E!Cells(m.rows)[row] = E!Garbage
        BY DEF E!Cells
      <4>5. /\ queue'[e] = kernels[i] /\ left'[e] = {} /\ mem'[c].temp = temp
            /\ mem'[c].out = E!Cells(m.rows) /\ kernels[i].call = c
        BY <1>1, <4>2
      <4>6. (IntoTemp(queue[e]) =>
                TempOk(queue[e], left[e], mem[queue[e].call].temp))'
        BY <4>3, <4>5
      <4>7. (IntoOut(queue[e]) =>
                OutOk(queue[e], left[e], mem[queue[e].call].out))'
        BY <4>2, <4>4, <4>5 DEF OutOk
      <4> QED
        BY <4>6, <4>7
    <3> QED
      BY <3>1, <3>2
  <2> QED
    BY <2>1 DEF RowValues
<1>11. RowEvents'
  <2>1. ASSUME NEW b \in DOMAIN program
        PROVE  /\ events'[b] \subseteq DOMAIN queue'
               /\ DOMAIN mem'[b].out = 0 .. program'[b].rows - 1
               /\ \E e \in DOMAIN queue' :
                     e \in events'[b] /\ queue'[e].call = b /\ IntoOut(queue'[e])
    <3>1. PICK e \in DOMAIN queue :
              e \in events[b] /\ queue[e].call = b /\ IntoOut(queue[e])
      BY DEF RowEvents
    <3>2. queue'[e] = queue[e] /\ e \in DOMAIN queue' /\ events'[b] = events[b]
      BY <1>1
    <3> QED
      BY <1>1, <3>1, <3>2 DEF RowEvents
  <2>2. /\ events'[c] \subseteq DOMAIN queue'
        /\ DOMAIN mem'[c].out = 0 .. program'[c].rows - 1
        /\ \E e \in DOMAIN queue' :
              e \in events'[c] /\ queue'[e].call = c /\ IntoOut(queue'[e])
    <3>1. events'[c] \subseteq DOMAIN queue' /\ DOMAIN mem'[c].out = 0 .. program'[c].rows - 1
      BY <1>1 DEF E!Cells
    <3>2. N \in 1 .. N /\ n + N \in n + 1 .. n + N
      <4> HIDE DEF n, N
      <4>1. N \in Nat /\ N >= 1 /\ n \in Nat
        BY <1>2
      <4> QED
        BY <4>1
    <3>3. /\ queue'[n + N] = kernels[N] /\ kernels[N].call = c /\ IntoOut(kernels[N])
          /\ n + N \in DOMAIN queue' /\ n + N \in events'[c]
      BY <1>1, <1>3, <3>2 DEF KernelsOf
    <3> QED
      BY <3>1, <3>3
  <2> QED
    BY <1>1, <2>1, <2>2 DEF RowEvents
<1>12. E!RowsAppearWhole
  BY <1>1 DEF E!RowsAppearWhole
<1> QED
  BY <1>6, <1>7, <1>8, <1>9, <1>10, <1>11, <1>12

LEMMA Sequences12 ==
    ASSUME NEW A, NEW a \in A, NEW b \in A
    PROVE  /\ <<a>> \in Seq(A) /\ Len(<<a>>) = 1 /\ <<a>>[1] = a
           /\ <<a, b>> \in Seq(A) /\ Len(<<a, b>>) = 2
           /\ <<a, b>>[1] = a /\ <<a, b>>[2] = b
OBVIOUS

LEMMA ExecuteKeeps ==
    ASSUME RowsInv, NEW m \in Matrices, E!Execute(m)
    PROVE  RowsInv' /\ E!RowsAppearWhole
<1> USE DEF RowsInv
<1> DEFINE c == Len(program) + 1
           count == IF next = E!NoLimit THEN E!Limit(m) ELSE next
           twoStep == m.cols > TwoStepAbove
           kernels == IF twoStep THEN E!TwoSteps(c, m, count) ELSE E!OneStep(c, m)
           temp == IF twoStep THEN E!Cells(m.rows * count) ELSE <<>>
<1>1. /\ c \in E!Call /\ complete' = complete
      /\ program' = Append(program, m)
      /\ next' = IF twoStep THEN count ELSE next
      /\ queue' = queue \o kernels
      /\ left' = left \o [i \in DOMAIN kernels |-> {}]
      /\ events' = Append(events, E!EventsOf(Len(kernels)))
      /\ mem' = Append(mem, [temp |-> temp, out |-> E!Cells(m.rows)])
  BY DEF E!Execute
<1>2. /\ count \in Nat \ {0} /\ m.rows \in Nat \ {0} /\ m.cols \in Nat \ {0}
      /\ m.name \in Buffers /\ E!Temp(c) \in Buffers /\ E!Out(c) \in Buffers
  BY <1>1, BlockCount, RowConstants DEF Buffers
<1>3. next' \in Nat
  BY <1>1, <1>2 DEF RowTypes
<1> HIDE DEF count, c
<1>4. CASE twoStep
  <2> DEFINE s1 == E!Step(c, m.name, m.cols, E!Temp(c), m.rows, count)
             s2 == E!Step(c, E!Temp(c), count, E!Out(c), m.rows, 1)
  <2>1. kernels = <<s1, s2>> /\ temp = E!Cells(m.rows * count)
    BY <1>4 DEF E!TwoSteps
  <2>2. /\ s1.call = c /\ s1.src = m.name /\ s1.cols = m.cols /\ s1.dst = E!Temp(c)
        /\ s1.rows = m.rows /\ s1.count = count /\ s1.src \in s1.reads
        /\ s1.dst \in s1.writes /\ s1 \in RowStep
    BY <1>1, <1>2 DEF E!Step, RowStep
  <2>3. /\ s2.call = c /\ s2.src = E!Temp(c) /\ s2.cols = count /\ s2.dst = E!Out(c)
        /\ s2.rows = m.rows /\ s2.count = 1 /\ s2.src \in s2.reads
        /\ s2.dst \in s2.writes /\ s2 \in RowStep
    BY <1>1, <1>2 DEF E!Step, RowStep
  <2> HIDE DEF s1, s2
  <2>4. /\ kernels \in Seq(RowStep) /\ Len(kernels) = 2
        /\ kernels[1] = s1 /\ kernels[2] = s2
    <3> HIDE DEF kernels, temp
    <3> QED
      BY <2>1, <2>2, <2>3, Sequences12
  <2>5. DOMAIN temp = 0 .. m.rows * count - 1 /\ temp \in Contents
    <3>1. E!Garbage \in E!Partial
      BY DEF E!Garbage, E!Element, E!GarbageId, E!Partial, E!Position
    <3>2. m.rows * count \in Nat
      BY <1>2
    <3>3. /\ temp \in [0 .. m.rows * count - 1 -> E!Partial]
          /\ 0 .. m.rows * count - 1 \in SUBSET Nat
      BY <2>1, <3>1, <3>2 DEF E!Cells
    <3> QED
      BY <3>3 DEF Contents
  <2> HIDE DEF kernels, temp
  <2>6. KernelsOf(c, m, kernels, temp)
    <3>1. /\ IntoTemp(s1) /\ ~IntoOut(s1) /\ IntoOut(s2) /\ ~IntoTemp(s2)
          /\ s1.dst # s2.dst
      BY <2>2, <2>3, Names DEF IntoTemp, IntoOut
    <3> QED
      BY <1>2, <2>2, <2>3, <2>4, <2>5, <3>1 DEF KernelsOf
  <2>7. RowCalled(m, kernels, temp)
    BY <1>1, <2>4, <2>5, Calling DEF c
  <2> QED
    BY <1>3, <2>4, <2>6, <2>7, CalledKeeps DEF c
<1>5. CASE ~twoStep
  <2> DEFINE s == E!Step(c, m.name, m.cols, E!Out(c), m.rows, 1)
  <2>1. kernels = <<s>> /\ temp = <<>>
    BY <1>5 DEF E!OneStep
  <2>2. /\ s.call = c /\ s.src = m.name /\ s.cols = m.cols /\ s.dst = E!Out(c)
        /\ s.rows = m.rows /\ s.count = 1 /\ s.src \in s.reads
        /\ s.dst \in s.writes /\ s \in RowStep
    BY <1>1, <1>2 DEF E!Step, RowStep
  <2> HIDE DEF s
  <2>3. kernels \in Seq(RowStep) /\ Len(kernels) = 1 /\ kernels[1] = s
    <3> HIDE DEF kernels, temp
    <3> QED
      BY <2>1, <2>2, Sequences12
  <2>4. temp \in Contents
    <3> HIDE DEF kernels, temp
    <3> QED
      BY <2>1 DEF Contents
  <2> HIDE DEF kernels, temp
  <2>5. KernelsOf(c, m, kernels, temp)
    <3>1. IntoOut(s) /\ ~IntoTemp(s)
      BY <2>2, Names DEF IntoTemp, IntoOut
    <3> QED
      BY <1>2, <2>2, <2>3, <3>1 DEF KernelsOf
  <2>6. RowCalled(m, kernels, temp)
    BY <1>1, <2>3, <2>4, Calling DEF c
  <2> QED
    BY <1>3, <2>3, <2>5, <2>6, CalledKeeps DEF c
<1> QED
  BY <1>4, <1>5

-------------------------------------------------------------------------------
\* The invariant of the row reductions holds while they run.
RowsKept == Runs("rows") => RowsInv

LEMMA RowsStart == Init => RowsKept
<1> SUFFICES ASSUME Init, Runs("rows")
             PROVE  RowsInv
  BY DEF RowsKept
<1>1. E!Init
  BY DEF Init, Runs
<1>2. /\ queue = <<>> /\ complete = {0} /\ program = <<>> /\ next = 0
      /\ events = <<>> /\ left = <<>> /\ mem = <<>>
      /\ DOMAIN queue = {} /\ DOMAIN program = {}
  BY <1>1 DEF E!Init, E!QueueInit, E!NoEvent, E!NoLimit
<1>3. RowTypes
  BY <1>2, RowConstants DEF RowTypes, NoEvent
<1>4. RowShapes /\ RowUnique /\ RowRan /\ RowValues /\ RowEvents
  BY <1>2 DEF RowShapes, RowUnique, RowRan, RowValues, RowEvents
<1> QED
  BY <1>3, <1>4 DEF RowsInv

LEMMA RowsSame ==
    ASSUME RowsInv, UNCHANGED <<queue, complete, program, next, events, left, mem>>
    PROVE  RowsInv' /\ E!RowsAppearWhole
<1> USE DEF RowsInv
<1>1. /\ complete' = complete /\ queue' = queue /\ program' = program
      /\ next' = next /\ events' = events /\ left' = left /\ mem' = mem
  OBVIOUS
<1>2. RowTypes'
  BY <1>1 DEF RowTypes
<1>3. RowShapes'
  BY <1>1 DEF RowShapes, RowShape, IntoOut, IntoTemp
<1>4. RowUnique'
  BY <1>1 DEF RowUnique
<1>5. RowRan'
  <2>1. \A f : E!CellsOf(queue[f])' = E!CellsOf(queue[f])
    BY <1>1 DEF E!CellsOf
  <2> QED
    BY <1>1, <2>1 DEF RowRan
<1>6. RowValues'
  BY <1>1 DEF RowValues, OutOk
<1>7. RowEvents'
  BY <1>1 DEF RowEvents, IntoOut
<1>8. E!RowsAppearWhole
  BY <1>1 DEF E!RowsAppearWhole
<1> QED
  BY <1>2, <1>3, <1>4, <1>5, <1>6, <1>7, <1>8

LEMMA RowsStep ==
    RowsKept /\ [Next]_vars => RowsKept' /\ (Runs("rows") => E!RowsAppearWhole)
<1> SUFFICES ASSUME RowsKept, [Next]_vars, Runs("rows")
             PROVE  RowsInv' /\ E!RowsAppearWhole
  <2>1. [Next]_vars => part' = part
    BY DEF Next, Host, Device, WaitAndRead, Finished, vars
  <2> QED
    BY <2>1 DEF RowsKept, Runs
<1>1. part = "rows" /\ RowsInv
  BY DEF RowsKept, Runs
<1>2. ASSUME NEW m \in Matrices, E!Execute(m)
      PROVE  RowsInv' /\ E!RowsAppearWhole
  BY <1>1, <1>2, ExecuteKeeps
<1>3. ASSUME NEW e \in DOMAIN queue, NEW col \in 0 .. queue[e].count - 1,
             NEW row \in 0 .. queue[e].rows - 1, E!WriteCell(e, col, row)
      PROVE  RowsInv' /\ E!RowsAppearWhole
  BY <1>1, <1>3, WriteKeeps
<1>4. ASSUME NEW e \in DOMAIN queue, E!Finish(e)
      PROVE  RowsInv' /\ E!RowsAppearWhole
  BY <1>1, <1>4, FinishKeeps
<1>5. CASE UNCHANGED vars
  <2>1. UNCHANGED <<queue, complete, program, next, events, left, mem>>
    BY <1>5 DEF vars, libraryVars
  <2> QED
    BY <1>1, <2>1, RowsSame
<1>6. E!Host \/ E!Device \/ UNCHANGED vars
  BY <1>1 DEF Next, Host, Device, WaitAndRead, Finished, Runs
<1> QED
  BY <1>2, <1>3, <1>4, <1>5, <1>6 DEF E!Host, E!Device

\* A row reduction that has been waited for is exact, whatever the matrices are
\* and whichever of them fixed the limits of the two-step reduction.
THEOREM RowsAreExact == Spec => []RowsExact
<1>1. ASSUME RowsInv, NEW c \in DOMAIN program, events[c] \subseteq complete,
             NEW row \in DOMAIN mem[c].out
      PROVE  mem[c].out[row] = E!Exactly(E!RowOf(program[c], row))
  <2> USE DEF RowsInv
  <2>1. PICK e \in DOMAIN queue :
            e \in events[c] /\ queue[e].call = c /\ IntoOut(queue[e])
    BY <1>1 DEF RowEvents
  <2>2. left[e] = E!CellsOf(queue[e]) /\ OutOk(queue[e], left[e], mem[c].out)
    BY <1>1, <2>1 DEF RowRan, RowValues
  <2>3. /\ queue[e].count = 1 /\ queue[e].rows \in Nat
        /\ queue[e].rows = program[c].rows
    BY <1>1, <2>1, RowTyped
  <2>4. row \in 0 .. queue[e].rows - 1
    BY <1>1, <2>3 DEF RowEvents
  <2>5. row \in left[e]
    <3>1. queue[e].rows * 0 + row = row /\ 0 \in 0 .. queue[e].count - 1
      BY <2>3, <2>4
    <3> QED
      BY <2>2, <2>4, <3>1 DEF E!CellsOf
  <2> QED
    BY <2>1, <2>2, <2>4, <2>5 DEF OutOk
<1>2. RowsKept => RowsExact
  BY <1>1 DEF RowsKept, RowsExact, E!RowsExact, E!Waited
<1>3. RowsKept /\ [Next]_vars => RowsKept'
  BY RowsStep
<1> QED
  BY <1>2, <1>3, RowsStart, PTL DEF Spec

\* A cell of the output of a row reduction is written once, with its whole row.
THEOREM RowsAppear == Spec => OutputAppearsWhole
<1>1. RowsKept /\ [Next]_vars => RowsKept'
  BY RowsStep
<1>2. RowsKept /\ [Next]_vars => [Runs("rows") => E!RowsAppearWhole]_vars
  BY RowsStep
<1> QED
  BY <1>1, <1>2, RowsStart, PTL DEF Spec, OutputAppearsWhole

-------------------------------------------------------------------------------
(***************************************************************************)
(* Views                                                                   *)
(*                                                                         *)
(* What the callers of the kernels rely on in the views: for every buffer, *)
(* offset, stride and size, a vector view stays within what its iterator   *)
(* has left and has its elements where BLAS puts them, and no two indices  *)
(* of a matrix view stand for the same element.                            *)
(***************************************************************************)

\* The last of the elements that fit, and no more, are before the end.
LEMMA RatioBounds ==
    ASSUME NEW rest \in Nat \ {0}, NEW a \in Nat \ {0}
    PROVE  /\ RoundUpRatio(rest, a) \in Nat \ {0}
           /\ (RoundUpRatio(rest, a) - 1) * a <= rest - 1
           /\ rest <= RoundUpRatio(rest, a) * a
<1> DEFINE s == rest + a - 1
           q == s \div a
           r == s % a
<1>1. s \in Nat /\ s >= a
  OBVIOUS
<1>2. q \in Nat /\ r \in 0 .. a - 1 /\ s = a * q + r
  <2> HIDE DEF s
  <2> QED
    BY <1>1, DivMod
<1>3. RoundUpRatio(rest, a) = q
  BY DEF RoundUpRatio
<1> HIDE DEF q, r
<1>4. s = rest + a - 1
  OBVIOUS
<1> HIDE DEF s
<1>5. a * q \in Int /\ q * a = a * q /\ (q - 1) * a = a * q - a
  BY <1>2
<1>6. q # 0
  <2> SUFFICES ASSUME q = 0 PROVE FALSE
    OBVIOUS
  <2>1. a * q = 0
    BY <1>2
  <2> QED
    BY <1>1, <1>2, <2>1
<1> QED
  BY <1>2, <1>3, <1>4, <1>5, <1>6

\* Multiples of a stride and of its absolute value.
LEMMA Strides ==
    ASSUME NEW strd \in Int \ {0}
    PROVE  /\ Abs(strd) \in Nat \ {0}
           /\ strd > 0 => Abs(strd) = strd
           /\ ~(strd > 0) => Abs(strd) = -strd
BY DEF Abs

\* The size of a vector view: at least one element, at most those asked for.
LEMMA SizeBounds ==
    ASSUME NEW rest \in Nat \ {0}, NEW strd \in Int \ {0}, NEW n \in Nat \ {0}
    PROVE  /\ InputDataSize(rest, strd, n) \in 1 .. n
           /\ (InputDataSize(rest, strd, n) - 1) * Abs(strd) <= rest - 1
<1> DEFINE a == Abs(strd)
           q == RoundUpRatio(rest, a)
           size == InputDataSize(rest, strd, n)
<1>1. a \in Nat \ {0}
  BY Strides
<1>2. q \in Nat \ {0} /\ (q - 1) * a <= rest - 1
  <2> HIDE DEF a
  <2> QED
    BY <1>1, RatioBounds
<1>3. size = (IF n < q THEN n ELSE q)
  BY DEF InputDataSize
<1> HIDE DEF a, q, size
<1>4. size \in 1 .. n /\ size <= q
  BY <1>2, <1>3
<1>5. a * (size - 1) <= a * (q - 1)
  BY <1>1, <1>2, <1>4, MulMonotone
<1>6. (size - 1) * a <= rest - 1
  BY <1>1, <1>2, <1>4, <1>5
<1> QED
  BY <1>4, <1>6 DEF size, a

\* An iterator that something is left of.
InBuffer(it) == it.offset \in Nat /\ it.count \in Nat /\ it.offset < it.count

\* Wherever the iterator is, whatever the stride and however many elements are
\* asked for, no element of a vector view is outside of the buffer or before
\* the iterator: also when the vector is read backwards.
THEOREM VectorViewInBuffer ==
    ASSUME NEW it, InBuffer(it), NEW strd \in Int \ {0}, NEW n \in Nat \ {0},
           NEW i \in 0 .. VectorView(it, strd, n).size - 1
    PROVE  VectorAt(VectorView(it, strd, n), i) \in it.offset .. it.count - 1
<1> DEFINE rest == ElementsLeft(it)
           size == InputDataSize(rest, strd, n)
           a == Abs(strd)
<1>1. it.offset \in Nat /\ it.count \in Nat /\ rest = it.count - it.offset
      /\ rest \in Nat \ {0}
  BY DEF InBuffer, ElementsLeft
<1>2. a \in Nat \ {0} /\ (strd > 0 => a = strd) /\ (~(strd > 0) => a = -strd)
  BY Strides
<1>3. size \in 1 .. n /\ (size - 1) * a <= rest - 1
  <2> HIDE DEF rest
  <2> QED
    BY <1>1, SizeBounds
<1>4. i \in 0 .. size - 1
  BY DEF VectorView
<1>5. VectorAt(VectorView(it, strd, n), i)
      = (IF strd > 0 THEN it.offset ELSE it.offset + (size - 1) * (-strd)) + i * strd
  BY DEF VectorAt, VectorView, Disp
<1> DEFINE last == size - 1
<1>6. last \in Nat /\ i \in 0 .. last
  BY <1>3, <1>4
<1>7. last * a <= rest - 1
  BY <1>3
<1> HIDE DEF rest, size, a, last
<1>8. a * 0 <= a * i /\ a * i <= a * last
  BY <1>2, <1>6, MulMonotone
<1>9. a * i \in Nat /\ a * last \in Nat /\ a * 0 = 0 /\ last * a = a * last
  BY <1>2, <1>6
<1>10. CASE strd > 0
  <2>1. i * strd = a * i
    BY <1>2, <1>6, <1>10
  <2> QED
    BY <1>1, <1>5, <1>7, <1>8, <1>9, <1>10, <2>1
<1>11. CASE ~(strd > 0)
  <2>1. i * strd = -(a * i)
    BY <1>2, <1>6, <1>11
  <2>2. (size - 1) * (-strd) = a * last
    BY <1>2, <1>6, <1>11 DEF last
  <2> QED
    BY <1>1, <1>5, <1>7, <1>8, <1>9, <1>11, <2>1, <2>2
<1> QED
  BY <1>10, <1>11

\* A vector as long as BLAS asks for, 1 + (n - 1) * |inc| elements, has all of
\* its n elements in the view, and the one numbered i where BLAS has it: i
\* strides ahead, or, with a negative stride, as many before the last one.
THEOREM VectorViewIsBlasVector ==
    ASSUME NEW it, InBuffer(it), NEW strd \in Int \ {0}, NEW n \in Nat \ {0},
           1 + (n - 1) * Abs(strd) <= ElementsLeft(it)
    PROVE  /\ VectorView(it, strd, n).size = n
           /\ \A i \in 0 .. n - 1 :
                 VectorAt(VectorView(it, strd, n), i) =
                    it.offset + (IF strd > 0 THEN i ELSE n - 1 - i) * Abs(strd)
<1> DEFINE rest == ElementsLeft(it)
           a == Abs(strd)
           q == RoundUpRatio(rest, a)
           size == InputDataSize(rest, strd, n)
<1>1. it.offset \in Nat /\ rest \in Nat \ {0}
  BY DEF InBuffer, ElementsLeft
<1>2. a \in Nat \ {0} /\ (strd > 0 => a = strd) /\ (~(strd > 0) => a = -strd)
  BY Strides
<1>3. q \in Nat \ {0} /\ rest <= q * a
  <2> HIDE DEF rest, a
  <2> QED
    BY <1>1, <1>2, RatioBounds
<1>4. size = (IF n < q THEN n ELSE q)
  BY DEF InputDataSize
<1>5. 1 + (n - 1) * a <= rest
  OBVIOUS
<1>6. VectorView(it, strd, n).size = size
  BY DEF VectorView
<1>7. \A i \in 0 .. n - 1 : VectorAt(VectorView(it, strd, n), i)
      = (IF strd > 0 THEN it.offset ELSE it.offset + (size - 1) * (-strd)) + i * strd
  BY DEF VectorAt, VectorView, Disp
<1> HIDE DEF rest, a, q, size
<1>8. n <= q
  <2> SUFFICES ASSUME q <= n - 1 PROVE FALSE
    BY <1>3
  <2>1. a * q <= a * (n - 1)
    BY <1>2, <1>3, MulMonotone
  <2>2. q * a = a * q /\ (n - 1) * a = a * (n - 1)
        /\ a * q \in Int /\ a * (n - 1) \in Int
    BY <1>2, <1>3
  <2> QED
    BY <1>1, <1>3, <1>5, <2>1, <2>2
<1>9. size = n
  BY <1>3, <1>4, <1>8
<1>10. ASSUME NEW i \in 0 .. n - 1
       PROVE  VectorAt(VectorView(it, strd, n), i) =
                 it.offset + (IF strd > 0 THEN i ELSE n - 1 - i) * a
  <2>1. CASE strd > 0
    BY <1>1, <1>2, <1>7, <2>1
  <2>2. CASE ~(strd > 0)
    <3>1. VectorAt(VectorView(it, strd, n), i)
          = it.offset + (n - 1) * a + i * strd
      BY <1>2, <1>7, <1>9, <2>2
    <3>2. i * strd = -(i * a) /\ (n - 1 - i) * a = (n - 1) * a - i * a
      BY <1>2, <2>2
    <3>3. (n - 1) * a \in Int /\ i * a \in Int
      BY <1>2
    <3> QED
      BY <1>1, <2>2, <3>1, <3>2, <3>3
  <2> QED
    BY <2>1, <2>2
<1> QED
  BY <1>6, <1>9, <1>10 DEF a

\* Sums of a place in a line and of whole lines are equal only if both are.
LEMMA SamePlace ==
    ASSUME NEW b \in Nat, NEW s \in Nat, s <= b, NEW d \in Nat,
           NEW r \in 0 .. s - 1, NEW t \in 0 .. s - 1,
           NEW p \in Nat, NEW q \in Nat,
           d + (r + b * p) = d + (t + b * q)
    PROVE  r = t /\ p = q
<1>1. b \in Nat \ {0} /\ r \in 0 .. b - 1 /\ t \in 0 .. b - 1
  OBVIOUS
<1> DEFINE x == b * p + r
           y == b * q + t
<1>2. b * p \in Nat /\ b * q \in Nat
  OBVIOUS
<1>3. x \in Nat /\ x = y
  BY <1>1, <1>2
<1>4. x = b * p + r /\ x = b * q + t
  BY <1>3
<1> HIDE DEF x, y
<1>5. x \div b = p /\ x % b = r
  BY <1>1, <1>3, <1>4, DivModUnique
<1>6. x \div b = q /\ x % b = t
  BY <1>1, <1>3, <1>4, DivModUnique
<1> QED
  BY <1>5, <1>6

\* Two places of a matrix, in either layout, are two addresses, provided the
\* leading dimension is at least the length of a column (of a row, in a view by
\* rows): work-items that store to places of their own do not meet.
THEOREM MatrixViewInjective ==
    ASSUME NEW v, v.disp \in Nat, v.rows \in Nat, v.cols \in Nat, v.ld \in Nat,
           v.colMajor \in BOOLEAN,
           IF v.colMajor THEN v.rows <= v.ld ELSE v.cols <= v.ld,
           NEW i \in 0 .. v.rows - 1, NEW j \in 0 .. v.cols - 1,
           NEW k \in 0 .. v.rows - 1, NEW l \in 0 .. v.cols - 1,
           MatrixAt(v, i, j) = MatrixAt(v, k, l)
    PROVE  i = k /\ j = l
<1>1. i \in Nat /\ j \in Nat /\ k \in Nat /\ l \in Nat
  OBVIOUS
<1>2. CASE v.colMajor
  <2>1. v.disp + (i + v.ld * j) = v.disp + (k + v.ld * l)
    BY <1>2 DEF MatrixAt
  <2>2. v.rows <= v.ld
    BY <1>2
  <2> QED
    BY <1>1, <2>1, <2>2, SamePlace
<1>3. CASE ~v.colMajor
  <2>1. v.disp + (j + v.ld * i) = v.disp + (l + v.ld * k)
    BY <1>3 DEF MatrixAt
  <2>2. v.cols <= v.ld
    BY <1>3
  <2> QED
    BY <1>1, <2>1, <2>2, SamePlace
<1> QED
  BY <1>2, <1>3

================================================================================
