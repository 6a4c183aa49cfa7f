------------------------ MODULE ReductionExecutorProofs ------------------------
(***************************************************************************)
(* Proofs about ReductionExecutor, for every set of calls: every number of *)
(* work-items and size of the input, and where it says so every grid and   *)
(* every choice of the submissions that fail.                              *)
(***************************************************************************)
EXTENDS ReductionExecutor, GridArithmetic, FiniteSetTheorems

(***************************************************************************)
(* The invariant that every grid keeps.                                    *)
(***************************************************************************)

Cells(v) == 0 .. (IF v = "lhs" THEN 0 ELSE SharedSize(call) - 1)

\* The temporaries have room for the groups of the launches to come.
LoopInv == nWG <= SharedSize(call)

MemInv ==
    /\ mem = [v \in Vector |-> mem[v]]
    /\ \A v \in Vector : mem[v] \in [Cells(v) -> Partial]

\* A launch reads one vector and writes another, and binds both.
CommandOk(c) ==
    /\ c.groups <= IF c.dst = "lhs" THEN 1 ELSE SharedSize(call)
    /\ c.src # c.dst /\ c.src # "lhs"
    /\ c.reads = {BufferOf(c.dst), BufferOf(c.src)}
    /\ c.writes = {BufferOf(c.dst), BufferOf(c.src)}

\* A launch starts after the ones before it that it conflicts with, and is
\* complete when its last group has run.
RanOk(e) ==
    /\ ran[e] \subseteq 0 .. queue[e].groups - 1
    /\ ran[e] # {} =>
          \A d \in 1 .. e - 1 : d \in complete \/ ~Conflict(queue[d], queue[e])
    /\ e \in complete => ran[e] = 0 .. queue[e].groups - 1

IInv == /\ TypeOK
        /\ LoopInv
        /\ MemInv
        /\ \A e \in DOMAIN queue : CommandOk(queue[e]) /\ RanOk(e)

(***************************************************************************)
(* The invariant of the grids of the BLAS 1 interface: one launch for one  *)
(* work-item, two for more.  Any of them may be missing.                   *)
(***************************************************************************)

IsFirst(c) ==
    /\ c.src = "rhs" /\ c.groups = call.local
    /\ c.dst = IF call.local = 1 THEN "lhs" ELSE "opShMem1"

IsLast(c) ==
    /\ call.local > 1
    /\ c.src = "opShMem1" /\ c.dst = "lhs" /\ c.groups = 1

QueueShape ==
    /\ Len(queue) \in 0 .. 2
    /\ Len(queue) = 1 => IsFirst(queue[1]) \/ IsLast(queue[1])
    /\ Len(queue) = 2 => IsFirst(queue[1]) /\ IsLast(queue[2])

LoopShape ==
    /\ host = "loop" /\ frst => Len(queue) = 0 /\ nWG = call.local /\ ~even
    /\ host = "loop" /\ ~frst =>
          /\ call.local > 1 /\ nWG = 1 /\ even
          /\ Len(queue) = 1 => IsFirst(queue[1])
          /\ Len(queue) < 2
    /\ host = "returned" => ~frst

\* Every submission so far has worked.
NoneFailed ==
    NoEvent \notin event =>
        /\ event = DOMAIN queue
        /\ Len(queue) = IF frst THEN 0
                        ELSE IF host = "loop" \/ call.local = 1 THEN 1 ELSE 2

\* The cells of the first temporary that the first launch has filled.
FirstRan == IF Len(queue) > 0 /\ IsFirst(queue[1]) THEN ran[1] ELSE {}

GroupPart(g) == Exactly(Share(call.size, call.local, g, call.local))

PartialResults ==
    call.local > 1 =>
        \A g \in 0 .. call.local - 1 :
            mem["opShMem1"][g] = IF g \in FirstRan THEN GroupPart(g) ELSE Garbage

\* The result comes from the input, or from a first launch that has run.
Delivered ==
    \/ Len(queue) = 1 /\ IsFirst(queue[1]) /\ call.local = 1 /\ ran[1] # {}
    \/ Len(queue) = 2 /\ ran[2] # {}

Result ==
    /\ Delivered => result = WholeInput
    /\ ~Delivered => GarbageId \in result.of

SupportedInv ==
    Supported => QueueShape /\ LoopShape /\ NoneFailed /\ PartialResults /\ Result

ExactInv == IInv /\ SupportedInv

-------------------------------------------------------------------------------
\* The arguments of a call have the types the code gives them.
LEMMA CallType ==
    ASSUME NEW c \in Calls
    PROVE  /\ c.local \in Nat \ {0} /\ c.grid \in Nat \ {0} /\ c.size \in Nat
           /\ c.scr \in BOOLEAN
<1>1. c \in [local : Nat \ {0}, grid : Nat \ {0}, size : Nat,
            scr : BOOLEAN, mayThrow : BOOLEAN]
  BY CallsAssumption DEF CallsAssumption
<1> QED
  BY <1>1

\* Rounding up a quotient: it is not zero, and not more than was divided.
LEMMA CeilDivBounds ==
    ASSUME NEW n \in Nat \ {0}, NEW l \in Nat \ {0}
    PROVE  CeilDiv(n, 2 * l) \in 1 .. n
<1> DEFINE b == 2 * l
           a == n + b - 1
<1>1. b \in Nat \ {0} /\ b >= 2 /\ a \in Nat
  OBVIOUS
<1>2. a \div b \in Nat /\ a % b \in 0 .. b - 1 /\ a = b * (a \div b) + (a % b)
  <2> HIDE DEF a, b
  <2> QED
    BY <1>1, DivMod
<1> DEFINE q == a \div b
<1>3. q \in Nat /\ a % b \in 0 .. b - 1 /\ a = b * q + (a % b)
  BY <1>2
<1>4. CeilDiv(n, 2 * l) = q
  BY DEF CeilDiv
<1> HIDE DEF q
<1>5. q >= 1
  <2> SUFFICES ASSUME q = 0 PROVE FALSE
    BY <1>3
  <2>1. b * q = 0
    BY <1>1
  <2> QED
    BY <1>1, <1>3, <2>1
<1>6. q <= n
  <2> SUFFICES ASSUME n + 1 <= q PROVE FALSE
    BY <1>3
  <2> HIDE DEF b
  <2>1. b * (n + 1) <= b * q /\ b * (n + 1) = b * n + b /\ b * n \in Nat
    BY <1>1, <1>3, MulMonotone
  <2>2. n * 1 <= n * b /\ n * b = b * n
    BY <1>1, MulMonotone
  <2> QED
    BY <1>1, <1>3, <2>1, <2>2
<1> QED
  BY <1>3, <1>4, <1>5, <1>6

\* The first launch has a group, and the temporaries have room for its groups.
LEMMA Sizes ==
    ASSUME NEW c \in Calls
    PROVE  /\ FirstNumGroups(c) \in Nat \ {0}
           /\ SharedSize(c) \in Nat \ {0}
           /\ FirstNumGroups(c) <= SharedSize(c)
<1>1. FirstNumGroups(c) \in Nat \ {0}
  BY CallType, CeilDivBounds DEF FirstNumGroups
<1> QED
  BY <1>1, CallType DEF SharedSize

\* What the groups reduce is a partial result.
LEMMA PartialClosed ==
    /\ Garbage \in Partial
    /\ \A n, l, g, m : Exactly(Share(n, l, g, m)) \in Partial
    /\ \A D : \A c \in [D -> Partial] : \A S \in SUBSET D :
           EvalAll(c, S) \in Partial
<1>1. Garbage \in Partial
  BY DEF Garbage, Element, Partial, Position
<1>2. ASSUME NEW n, NEW l, NEW g, NEW m
      PROVE  Exactly(Share(n, l, g, m)) \in Partial
  <2>1. Share(n, l, g, m) \subseteq Nat
    BY DEF Share
  <2> QED
    BY <2>1 DEF Exactly, Partial, Position
<1>3. ASSUME NEW D, NEW c \in [D -> Partial], NEW S \in SUBSET D
      PROVE  EvalAll(c, S) \in Partial
  <2>1. UNION {c[i].of : i \in S} \subseteq Position
    BY DEF Partial
  <2> QED
    BY <2>1 DEF EvalAll, Partial
<1> QED
  BY <1>1, <1>2, <1>3

-------------------------------------------------------------------------------
LEMMA InitIInv == Init => IInv
<1> SUFFICES ASSUME Init PROVE IInv
  OBVIOUS
<1>1. queue = <<>> /\ complete = {NoEvent} /\ call \in Calls /\ ran = <<>>
  BY DEF Init, QueueInit
<1>2. nWG \in Nat \ {0} /\ LoopInv
  BY <1>1, Sizes DEF Init, LoopInv
<1>3. MemInv
  BY PartialClosed DEF Init, MemInv, Cells
<1>4. \A v \in Vector : \A i \in DOMAIN mem[v] : mem[v][i] \in Partial
  BY <1>3 DEF MemInv
<1>5. /\ <<>> \in Seq(Command) /\ <<>> \in Seq(SUBSET Nat)
      /\ Len(<<>>) = 0 /\ DOMAIN <<>> = {}
  OBVIOUS
<1>6. TypeOK
  BY <1>1, <1>2, <1>4, <1>5 DEF Init, TypeOK
<1> QED
  BY <1>1, <1>2, <1>3, <1>5, <1>6 DEF IInv

\* The command that the loop submits.
LEMMA LaunchOk ==
    ASSUME IInv
    PROVE  NextLaunch \in Command /\ CommandOk(NextLaunch)
<1>1. nWG \in Nat \ {0} /\ nWG <= SharedSize(call) /\ even \in BOOLEAN
  BY DEF IInv, TypeOK, LoopInv
<1>2. /\ Source \in Vector \cup {"rhs"} /\ Destination \in Vector
      /\ Source # Destination /\ Source # "lhs"
      /\ nWG <= IF Destination = "lhs" THEN 1 ELSE SharedSize(call)
  BY <1>1 DEF Source, Destination, Vector
<1>3. BufferOf(Source) \in {"rhs", "lhs", "opShMem1", "opShMem2", "scr"}
      /\ BufferOf(Destination) \in {"rhs", "lhs", "opShMem1", "opShMem2", "scr"}
  BY <1>2 DEF BufferOf, Vector
<1> QED
  BY <1>1, <1>2, <1>3 DEF NextLaunch, Command, CommandOk

\* The loop goes on with fewer groups.
LEMMA IterateOk ==
    ASSUME IInv, Iterate
    PROVE  /\ nWG' \in Nat \ {0} /\ nWG' <= SharedSize(call)
           /\ host' \in {"loop", "returned"} /\ frst' = FALSE /\ even' \in BOOLEAN
<1>1. nWG \in Nat \ {0} /\ call \in Calls /\ nWG <= SharedSize(call)
  BY DEF IInv, TypeOK, LoopInv
<1>2. CeilDiv(nWG, 2 * call.local) \in 1 .. nWG
  BY <1>1, CallType, CeilDivBounds
<1>3. SharedSize(call) \in Nat
  BY <1>1, Sizes
<1> QED
  BY <1>1, <1>2, <1>3 DEF Iterate, IInv, TypeOK

LEMMA NextIInv == IInv /\ [Next]_vars => IInv'
<1> SUFFICES ASSUME IInv, [Next]_vars PROVE IInv'
  OBVIOUS
<1>1. /\ queue \in Seq(Command) /\ ran \in Seq(SUBSET Nat) /\ Len(ran) = Len(queue)
      /\ DOMAIN queue = 1 .. Len(queue) /\ Len(queue) \in Nat
      /\ complete \subseteq {NoEvent} \cup DOMAIN queue
      /\ event \subseteq {NoEvent} \cup DOMAIN queue
      /\ call \in Calls
  BY DEF IInv, TypeOK
<1>2. \A v \in Vector : \A i \in DOMAIN mem[v] : mem[v][i] \in Partial
  BY DEF IInv, TypeOK
<1>3. CASE Launch
  <2> DEFINE n == Len(queue) + 1
  <2>1. /\ queue' = Append(queue, NextLaunch) /\ complete' = complete
        /\ ran' = Append(ran, {}) /\ event' = event \cup {n}
        /\ call' = call /\ mem' = mem /\ Iterate
    BY <1>3 DEF Launch, Submit, NextEvent
  <2>2. /\ queue' \in Seq(Command) /\ ran' \in Seq(SUBSET Nat)
        /\ Len(ran') = Len(queue') /\ DOMAIN queue' = 1 .. n
        /\ queue'[n] = NextLaunch /\ ran'[n] = {}
        /\ \A e \in DOMAIN queue : queue'[e] = queue[e] /\ ran'[e] = ran[e]
    BY <1>1, <2>1, LaunchOk
  <2>3. TypeOK'
    BY <1>1, <1>2, <2>1, <2>2, IterateOk DEF TypeOK
  <2>4. LoopInv' /\ MemInv'
    BY <2>1, IterateOk DEF IInv, LoopInv, MemInv, Cells
  <2>5. ASSUME NEW e \in DOMAIN queue PROVE (CommandOk(queue[e]) /\ RanOk(e))'
    <3>1. /\ queue'[e] = queue[e] /\ ran'[e] = ran[e]
          /\ \A d \in 1 .. e - 1 : queue'[d] = queue[d]
      BY <1>1, <2>2
    <3>2. CommandOk(queue[e]) /\ RanOk(e)
      BY DEF IInv
    <3>3. CommandOk(queue[e])'
      BY <2>1, <3>1, <3>2 DEF CommandOk, BufferOf
    <3>4. RanOk(e)'
      BY <2>1, <3>1, <3>2 DEF RanOk
    <3> QED
      BY <3>3, <3>4
  <2>6. ASSUME NEW e, e = n PROVE (CommandOk(queue[e]) /\ RanOk(e))'
    <3>1. e \notin complete' /\ ran'[e] = {} /\ queue'[e] = NextLaunch
      BY <1>1, <2>1, <2>2, <2>6 DEF NoEvent
    <3>2. CommandOk(queue[e])'
      BY <2>1, <3>1, LaunchOk DEF CommandOk, BufferOf
    <3>3. RanOk(e)'
      BY <3>1 DEF RanOk
    <3> QED
      BY <3>2, <3>3
  <2>7. \A e \in DOMAIN queue' : e \in DOMAIN queue \/ e = n
    BY <1>1, <2>2
  <2>8. \A e \in DOMAIN queue' : (CommandOk(queue[e]) /\ RanOk(e))'
    BY <2>5, <2>6, <2>7
  <2> QED
    BY <2>3, <2>4, <2>8 DEF IInv
<1>4. CASE LaunchThrows
  <2>1. /\ UNCHANGED <<queue, complete, call, ran, mem>>
        /\ event' = event \cup {NoEvent} /\ Iterate
    BY <1>4 DEF LaunchThrows
  <2>2. TypeOK'
    BY <1>1, <1>2, <2>1, IterateOk DEF TypeOK
  <2>3. LoopInv' /\ MemInv'
    BY <2>1, IterateOk DEF IInv, LoopInv, MemInv, Cells
  <2> QED
    BY <2>1, <2>2, <2>3 DEF IInv, CommandOk, RanOk, BufferOf
<1>5. ASSUME NEW e \in DOMAIN queue, NEW g \in 0 .. queue[e].groups - 1,
             RunGroup(e, g)
      PROVE  IInv'
  <2> DEFINE c == queue[e]
  <2>1. /\ c \in Command /\ CommandOk(c) /\ RanOk(e)
        /\ c.groups \in Nat \ {0} /\ c.dst \in Vector
        /\ c.src = "rhs" \/ c.src \in Vector \ {"lhs"}
    <3>1. c \in Command
      BY <1>1
    <3>2. CommandOk(c) /\ RanOk(e)
      BY DEF IInv
    <3> QED
      BY <3>1, <3>2 DEF Command, CommandOk
  <2>2. /\ UNCHANGED <<queue, call, host, nWG, frst, even, event>>
        /\ mem' = [mem EXCEPT ![c.dst][g] = Reduce(c, g)]
        /\ ran' = [ran EXCEPT ![e] = @ \cup {g}]
        /\ g \notin ran[e] /\ Ready(e)
    BY <1>5 DEF RunGroup, Complete
  <2>3. Reduce(c, g) \in Partial
    <3>1. CASE c.src = "rhs"
      BY <3>1, PartialClosed DEF Reduce
    <3>2. CASE c.src \in Vector \ {"lhs"}
      <4>1. mem[c.src] \in [Cells(c.src) -> Partial]
        BY <3>2 DEF IInv, MemInv
      <4>2. Share(SrcSize(c), call.local, g, c.groups) \subseteq Cells(c.src)
        BY <3>2 DEF Share, SrcSize, Cells, Vector
      <4>3. EvalAll(mem[c.src], Share(SrcSize(c), call.local, g, c.groups)) \in Partial
        BY <4>1, <4>2, PartialClosed
      <4> QED
        BY <3>2, <4>3 DEF Reduce, Vector
    <3> QED
      BY <2>1, <3>1, <3>2
  <2>4. MemInv'
    BY <2>1, <2>2, <2>3 DEF IInv, MemInv, Cells
  <2>5. /\ ran' \in Seq(SUBSET Nat) /\ Len(ran') = Len(ran)
        /\ ran'[e] = ran[e] \cup {g}
        /\ \A d \in DOMAIN queue : d # e => ran'[d] = ran[d]
    <3>1. ran[e] \cup {g} \in SUBSET Nat /\ e \in 1 .. Len(ran)
      BY <1>1, <2>1
    <3> QED
      BY <1>1, <2>2, <3>1
  <2>6. \/ /\ Cardinality(ran[e]) + 1 = c.groups
           /\ complete' = complete \cup {e}
        \/ complete' = complete
    BY <1>5 DEF RunGroup, Complete
  <2>7. TypeOK'
    <3>1. complete' \subseteq {NoEvent} \cup DOMAIN queue
      BY <1>1, <2>6
    <3>2. \A v \in Vector : \A i \in DOMAIN mem'[v] : mem'[v][i] \in Partial
      BY <2>4 DEF MemInv
    <3> QED
      BY <1>1, <2>2, <2>5, <3>1, <3>2 DEF IInv, TypeOK
  <2>8. ASSUME NEW d \in DOMAIN queue, d # e PROVE RanOk(d)'
    <3>1. (d \in complete') = (d \in complete) /\ complete \subseteq complete'
      BY <2>6, <2>8
    <3> QED
      BY <2>2, <2>5, <2>8, <3>1 DEF IInv, RanOk
  <2>9. RanOk(e)'
    <3>1. ran'[e] \subseteq 0 .. c.groups - 1
      BY <2>1, <2>5 DEF RanOk
    <3>2. \A d \in 1 .. e - 1 : d \in complete' \/ ~Conflict(queue[d], queue[e])
      BY <2>2, <2>6 DEF Ready
    <3>3. ASSUME e \in complete' PROVE ran'[e] = 0 .. c.groups - 1
      <4>1. Cardinality(ran[e]) + 1 = c.groups
        BY <2>2, <2>6, <3>3 DEF Ready
      <4>2. /\ IsFiniteSet(0 .. c.groups - 1)
            /\ Cardinality(0 .. c.groups - 1) = c.groups
        <5>1. 0 \in Int /\ c.groups - 1 \in Int /\ ~(0 > c.groups - 1)
          BY <2>1
        <5>2. /\ IsFiniteSet(0 .. c.groups - 1)
              /\ Cardinality(0 .. c.groups - 1) = c.groups - 1 - 0 + 1
          BY <5>1, FS_Interval
        <5> QED
          BY <2>1, <5>2
      <4>3. IsFiniteSet(ran[e])
        BY <2>1, <4>2, FS_Subset DEF RanOk
      <4>4. Cardinality(ran'[e]) = c.groups
        BY <2>2, <2>5, <4>1, <4>3, FS_AddElement
      <4> QED
        BY <3>1, <4>2, <4>4, FS_Subset
    <3> QED
      BY <2>2, <3>1, <3>2, <3>3 DEF RanOk
  <2>10. LoopInv' /\ \A d \in DOMAIN queue : CommandOk(queue[d])'
    BY <2>2 DEF IInv, LoopInv, CommandOk, BufferOf
  <2> QED
    BY <2>2, <2>4, <2>7, <2>8, <2>9, <2>10 DEF IInv
<1>6. CASE UNCHANGED vars
  BY <1>6 DEF vars, IInv, TypeOK, LoopInv, MemInv, Cells, CommandOk, RanOk,
              BufferOf
<1> QED
  BY <1>3, <1>4, <1>5, <1>6 DEF Next, Device, Finished

\* Every reachable state satisfies the invariant, for every grid and every choice
\* of the submissions that fail.
THEOREM Invariance == Spec => []IInv
BY InitIInv, NextIInv, PTL DEF Spec

\* The host's variables, the queue and the vectors have their types in every
\* state of a call.
THEOREM TypeCorrect == Spec => []TypeOK
<1>1. IInv => TypeOK
  BY DEF IInv
<1> QED
  BY <1>1, Invariance, PTL

\* No work-group writes past the end of the vector it writes to: the two
\* temporaries, as large as the widest launch, have room for every launch of
\* every grid.
THEOREM InBounds == Spec => []WritesInBounds
<1>1. ASSUME IInv PROVE WritesInBounds
  <2> SUFFICES ASSUME NEW e \in DOMAIN queue
               PROVE  queue[e].groups - 1 \in DOMAIN mem[queue[e].dst]
    BY DEF WritesInBounds
  <2>1. queue[e] \in Command /\ CommandOk(queue[e])
    BY <1>1 DEF IInv, TypeOK
  <2>2. queue[e].dst \in Vector /\ queue[e].groups \in Nat \ {0}
    BY <2>1 DEF Command
  <2>3. DOMAIN mem[queue[e].dst] = Cells(queue[e].dst)
    BY <1>1, <2>2 DEF IInv, MemInv
  <2>4. SharedSize(call) \in Nat
    BY <1>1, Sizes DEF IInv, TypeOK
  <2> QED
    BY <2>1, <2>2, <2>3, <2>4 DEF Cells, CommandOk
<1> QED
  BY <1>1, Invariance, PTL

\* A launch that writes a vector that another one reads binds its buffer, so the
\* two are in conflict and run one after the other.
LEMMA OperandConflict ==
    ASSUME IInv, NEW e \in DOMAIN queue, NEW f \in DOMAIN queue,
           queue[f].dst = queue[e].src
    PROVE  Conflict(queue[e], queue[f]) /\ Conflict(queue[f], queue[e])
<1>1. CommandOk(queue[e]) /\ CommandOk(queue[f])
  BY DEF IInv
<1> QED
  BY <1>1 DEF CommandOk, Conflict

\* Nothing writes the operand of a launch while the launch is under way,
\* whatever the grid and whatever submissions fail: the two temporaries take
\* turns, and the accessors of the launches keep them in order.
THEOREM StableOperands == Spec => OperandsStable
<1> DEFINE Stable == \A e \in DOMAIN queue :
              ran[e] # {} /\ e \notin complete /\ queue[e].src # "rhs"
                  => mem'[queue[e].src] = mem[queue[e].src]
<1>1. ASSUME IInv, [Next]_vars PROVE [Stable]_vars
  <2> SUFFICES ASSUME NEW e \in DOMAIN queue, ran[e] # {}, e \notin complete,
                      queue[e].src # "rhs"
               PROVE  mem'[queue[e].src] = mem[queue[e].src]
    OBVIOUS
  <2>1. CASE UNCHANGED mem
    BY <2>1
  <2>2. ASSUME NEW f \in DOMAIN queue, NEW g \in 0 .. queue[f].groups - 1,
               RunGroup(f, g), queue[f].dst = queue[e].src
        PROVE  FALSE
    <3>1. /\ Ready(f) /\ RanOk(e) /\ CommandOk(queue[f])
          /\ DOMAIN queue = 1 .. Len(queue) /\ Len(queue) \in Nat
      BY <1>1, <2>2 DEF RunGroup, IInv, TypeOK
    <3>2. Conflict(queue[e], queue[f]) /\ Conflict(queue[f], queue[e])
      BY <1>1, <2>2, OperandConflict
    <3>3. CASE f = e
      BY <2>2, <3>1, <3>3 DEF CommandOk
    <3>4. CASE e < f
      BY <3>1, <3>2, <3>4 DEF Ready
    <3>5. CASE f < e
      BY <3>1, <3>2, <3>5 DEF Ready, RanOk
    <3> QED
      BY <3>1, <3>3, <3>4, <3>5
  <2>3. ASSUME NEW f \in DOMAIN queue, NEW g \in 0 .. queue[f].groups - 1,
               RunGroup(f, g)
        PROVE  mem'[queue[e].src] = mem[queue[e].src]
    <3>1. queue[f].dst # queue[e].src
      BY <2>2, <2>3
    <3>2. mem' = [mem EXCEPT ![queue[f].dst][g] = Reduce(queue[f], g)]
      BY <2>3 DEF RunGroup
    <3>3. mem = [v \in Vector |-> mem[v]]
      BY <1>1 DEF IInv, MemInv
    <3>4. queue[e].src \in Vector
      <4>1. queue[e] \in Command
        BY <1>1 DEF IInv, TypeOK
      <4> QED
        BY <4>1 DEF Command
    <3> QED
      BY <3>1, <3>2, <3>3, <3>4
  <2>4. UNCHANGED mem \/ Device
    BY <1>1 DEF Next, Launch, LaunchThrows, Finished, vars
  <2> QED
    BY <2>1, <2>3, <2>4 DEF Device
<1> QED
  BY <1>1, Invariance, PTL DEF OperandsStable, Spec

-------------------------------------------------------------------------------
\* The interface asks for as many groups as a group has work-items, and one
\* group is left after that.
LEMMA InterfaceGroups ==
    ASSUME NEW c \in Calls, c.grid = InterfaceGrid(c.local)
    PROVE  /\ FirstNumGroups(c) = c.local
           /\ SharedSize(c) = c.local
           /\ CeilDiv(c.local, 2 * c.local) = 1
<1> DEFINE l == c.local
           b == 2 * l
<1>1. l \in Nat \ {0} /\ b \in Nat \ {0}
  BY CallType
<1>2. c.grid = b * l
  BY <1>1 DEF InterfaceGrid
<1> HIDE DEF l
<1>3. FirstNumGroups(c) = l
  <2> DEFINE a == b * l + (b - 1)
  <2>1. a \in Nat /\ b - 1 \in 0 .. b - 1
    BY <1>1
  <2>2. a \div b = l
    <3> HIDE DEF b
    <3>1. a = b * l + (b - 1) /\ l \in Nat
      BY <1>1
    <3> HIDE DEF a
    <3> QED
      BY <1>1, <2>1, <3>1, DivModUnique
  <2>3. CeilDiv(b * l, b) = a \div b
    BY <1>1 DEF CeilDiv
  <2> QED
    BY <1>2, <2>2, <2>3 DEF FirstNumGroups, l
<1>4. SharedSize(c) = l
  BY <1>1, <1>3 DEF SharedSize, l
<1>5. CeilDiv(l, b) = 1
  <2> DEFINE a == l + b - 1
  <2>1. a \in Nat /\ a = b * 1 + (l - 1) /\ l - 1 \in 0 .. b - 1 /\ 1 \in Nat
    BY <1>1
  <2>2. a \div b = 1
    <3> DEFINE r == l - 1
    <3>1. a = b * 1 + r /\ r \in 0 .. b - 1
      BY <2>1
    <3> HIDE DEF a, b, r
    <3> QED
      BY <1>1, <2>1, <3>1, DivModUnique
  <2> QED
    BY <2>2 DEF CeilDiv
<1> QED
  BY <1>3, <1>4, <1>5 DEF l

\* One group has the whole input.
LEMMA OneGroup ==
    ASSUME NEW n \in Nat, NEW l \in Nat \ {0}
    PROVE  Share(n, l, 0, 1) = 0 .. n - 1
<1>1. ASSUME NEW i \in 0 .. n - 1 PROVE (i \div (2 * l)) % 1 = 0
  <2> DEFINE q == i \div (2 * l)
  <2>1. q \in Nat
    <3> DEFINE b == 2 * l
    <3>1. b \in Nat \ {0} /\ i \in Nat
      OBVIOUS
    <3> HIDE DEF b
    <3>2. i \div b \in Nat
      BY <3>1, DivMod
    <3> QED
      BY <3>2 DEF b
  <2> HIDE DEF q
  <2>2. q % 1 = 0
    BY <2>1
  <2> QED
    BY <2>2 DEF q
<1> QED
  BY <1>1 DEF Share

\* The partial results of all groups are the result of the input.
LEMMA AllGroups ==
    ASSUME NEW n \in Nat, NEW l \in Nat \ {0}, NEW c,
           \A g \in 0 .. l - 1 : c[g] = Exactly(Share(n, l, g, l))
    PROVE  EvalAll(c, 0 .. l - 1) = Exactly(0 .. n - 1)
<1>1. \A g \in 0 .. l - 1 : c[g].of = Share(n, l, g, l) /\ c[g].once = TRUE
  <2> TAKE g \in 0 .. l - 1
  <2>1. c[g] = [of |-> Share(n, l, g, l), once |-> TRUE]
    BY Zenon DEF Exactly
  <2> QED
    BY <2>1
<1>2. ASSUME NEW i \in 0 .. n - 1
      PROVE  (i \div (2 * l)) % l \in 0 .. l - 1
  <2> DEFINE b == 2 * l
  <2>1. b \in Nat \ {0} /\ i \in Nat
    OBVIOUS
  <2> HIDE DEF b
  <2>2. i \div b \in Nat
    BY <2>1, DivMod
  <2> DEFINE q == i \div b
  <2>3. q \in Nat
    BY <2>2
  <2> HIDE DEF q
  <2>4. q % l \in 0 .. l - 1
    BY <2>3, DivMod
  <2> QED
    BY <2>4 DEF b, q
<1>3. UNION {c[g].of : g \in 0 .. l - 1} = 0 .. n - 1
  <2>1. ASSUME NEW i \in UNION {c[g].of : g \in 0 .. l - 1} PROVE i \in 0 .. n - 1
    BY <1>1 DEF Share
  <2>2. ASSUME NEW i \in 0 .. n - 1
        PROVE  i \in UNION {c[g].of : g \in 0 .. l - 1}
    <3> DEFINE g == (i \div (2 * l)) % l
    <3>1. g \in 0 .. l - 1 /\ i \in Share(n, l, g, l)
      BY <1>2 DEF Share
    <3> HIDE DEF g
    <3> QED
      BY <1>1, <3>1
  <2> QED
    BY <2>1, <2>2
<1>4. \A g \in 0 .. l - 1 : c[g].once
  BY <1>1
<1>5. \A g, h \in 0 .. l - 1 : g # h => c[g].of \cap c[h].of = {}
  BY <1>1, Zenon DEF Share
<1> QED
  BY <1>3, <1>4, <1>5 DEF EvalAll, Exactly

LEMMA InitSupportedInv == Init => SupportedInv
<1> SUFFICES ASSUME Init, Supported
             PROVE  QueueShape /\ LoopShape /\ NoneFailed /\ PartialResults /\ Result
  BY DEF SupportedInv
<1>1. /\ queue = <<>> /\ Len(queue) = 0 /\ DOMAIN queue = {}
      /\ call \in Calls /\ host = "loop" /\ frst = TRUE /\ even = FALSE
      /\ event = {} /\ ran = <<>> /\ nWG = FirstNumGroups(call)
  BY DEF Init, QueueInit
<1>2. nWG = call.local /\ SharedSize(call) = call.local /\ call.local \in Nat \ {0}
  BY <1>1, InterfaceGroups, CallType DEF Supported
<1>3. QueueShape /\ LoopShape /\ NoneFailed
  BY <1>1, <1>2 DEF QueueShape, LoopShape, NoneFailed
<1>4. PartialResults
  BY <1>1, <1>2 DEF PartialResults, FirstRan, Init, Vector
<1>5. Result
  <2>1. result = Garbage
    BY DEF Init, result, Vector
  <2> QED
    BY <1>1, <2>1 DEF Result, Delivered, Garbage, Element
<1> QED
  BY <1>3, <1>4, <1>5

\* The groups of a supported call and what the loop does with them.
LEMMA SupportedCall ==
    ASSUME IInv, Supported
    PROVE  /\ call \in Calls /\ call.local \in Nat \ {0} /\ call.size \in Nat
           /\ SharedSize(call) = call.local
           /\ CeilDiv(call.local, 2 * call.local) = 1
           /\ CeilDiv(1, 2 * call.local) = 1
<1>1. call \in Calls
  BY DEF IInv, TypeOK
<1>2. CeilDiv(1, 2 * call.local) \in 1 .. 1
  BY <1>1, CallType, CeilDivBounds
<1> QED
  BY <1>1, <1>2, CallType, InterfaceGroups DEF Supported

\* An iteration of the loop, whether its submission works or not.
LEMMA IterateShape ==
    ASSUME IInv, Supported, LoopShape, host = "loop", Iterate,
           call' = call,
           \/ queue' = queue
           \/ queue' = Append(queue, NextLaunch)
    PROVE  /\ frst => IsFirst(NextLaunch)
           /\ ~frst => IsLast(NextLaunch)
           /\ LoopShape'
<1>1. /\ call.local \in Nat \ {0}
      /\ CeilDiv(call.local, 2 * call.local) = 1
  BY SupportedCall
<1>2. /\ queue \in Seq(Command) /\ Len(queue) \in Nat
      /\ frst \in BOOLEAN /\ even \in BOOLEAN
  BY DEF IInv, TypeOK
<1>3. CASE frst
  <2>1. Len(queue) = 0 /\ nWG = call.local /\ ~even
    BY <1>3 DEF LoopShape
  <2>2. IsFirst(NextLaunch)
    BY <1>3, <2>1 DEF NextLaunch, Source, Destination, IsFirst
  <2>3. /\ nWG' = 1 /\ frst' = FALSE /\ even' = TRUE
        /\ host' = IF call.local > 1 THEN "loop" ELSE "returned"
    BY <1>1, <1>3, <2>1 DEF Iterate
  <2>4. \/ Len(queue') = 0
        \/ Len(queue') = 1 /\ queue'[1] = NextLaunch
    BY <1>2, <2>1, LaunchOk
  <2>5. IsFirst(NextLaunch) => (Len(queue') = 1 => IsFirst(queue[1])')
    BY <2>4 DEF IsFirst
  <2> QED
    BY <1>1, <1>3, <2>2, <2>3, <2>4, <2>5 DEF LoopShape
<1>4. CASE ~frst
  <2>1. call.local > 1 /\ nWG = 1 /\ even /\ Len(queue) < 2
    BY <1>4 DEF LoopShape
  <2>2. IsLast(NextLaunch)
    BY <1>4, <2>1 DEF NextLaunch, Source, Destination, IsLast
  <2>3. host' = "returned" /\ frst' = FALSE
    BY <2>1 DEF Iterate
  <2> QED
    BY <1>4, <2>2, <2>3 DEF LoopShape
<1> QED
  BY <1>2, <1>3, <1>4

\* A submission changes the queue and nothing that was computed.
LEMMA LaunchSupportedInv ==
    ASSUME IInv, SupportedInv, Supported, Launch
    PROVE  (QueueShape /\ LoopShape /\ NoneFailed /\ PartialResults /\ Result)'
<1>1. QueueShape /\ LoopShape /\ NoneFailed /\ PartialResults /\ Result
  BY DEF SupportedInv
<1>2. /\ queue' = Append(queue, NextLaunch) /\ ran' = Append(ran, {})
      /\ event' = event \cup {Len(queue) + 1} /\ host = "loop" /\ Iterate
      /\ call' = call /\ mem' = mem
  BY DEF Launch, Submit, NextEvent
<1>3. /\ queue \in Seq(Command) /\ Len(queue) \in Nat
      /\ ran \in Seq(SUBSET Nat) /\ Len(ran) = Len(queue)
      /\ frst \in BOOLEAN
  BY DEF IInv, TypeOK
<1>4. LoopShape' /\ (frst => IsFirst(NextLaunch)) /\ (~frst => IsLast(NextLaunch))
  BY <1>1, <1>2, IterateShape
<1>5. /\ Len(queue') = Len(queue) + 1 /\ DOMAIN queue' = 1 .. Len(queue) + 1
      /\ queue'[Len(queue) + 1] = NextLaunch /\ ran'[Len(queue) + 1] = {}
      /\ Len(queue) = 1 => queue'[1] = queue[1] /\ ran'[1] = ran[1]
  BY <1>2, <1>3, LaunchOk
<1>6. call.local \in Nat \ {0} /\ CeilDiv(call.local, 2 * call.local) = 1
  BY SupportedCall
<1>7. \A c : IsFirst(c)' = IsFirst(c) /\ IsLast(c)' = IsLast(c)
             /\ ~(IsFirst(c) /\ IsLast(c))
  BY <1>2 DEF IsFirst, IsLast
<1>8. NoneFailed'
  <2> SUFFICES ASSUME NoEvent \notin event'
               PROVE  /\ event' = DOMAIN queue'
                      /\ Len(queue') = IF frst' THEN 0
                                       ELSE IF host' = "loop" \/ call.local = 1
                                            THEN 1 ELSE 2
    BY <1>2 DEF NoneFailed
  <2>1. event = 1 .. Len(queue)
    BY <1>1, <1>2, <1>3 DEF NoneFailed
  <2>2. Len(queue) = IF frst THEN 0 ELSE 1
    BY <1>1, <1>2 DEF NoneFailed
  <2>3. event' = DOMAIN queue'
    BY <1>2, <1>3, <1>5, <2>1
  <2>4. frst' = FALSE /\ host' = IF nWG > 1 THEN "loop" ELSE "returned"
    BY <1>2 DEF Iterate
  <2>5. IF frst THEN nWG = call.local ELSE nWG = 1 /\ call.local > 1
    BY <1>1, <1>2 DEF LoopShape
  <2>6. CASE frst
    BY <1>5, <1>6, <2>2, <2>3, <2>4, <2>5, <2>6
  <2>7. CASE ~frst
    <3>1. nWG = 1 /\ call.local # 1 /\ Len(queue) = 1
      BY <1>6, <2>2, <2>5, <2>7
    <3>2. host' = "returned" /\ Len(queue') = 2
      BY <1>5, <2>4, <3>1
    <3> QED
      BY <2>3, <2>4, <3>1, <3>2
  <2> QED
    BY <1>3, <2>6, <2>7
<1>9. CASE frst
  <2>1. Len(queue) = 0
    BY <1>1, <1>2, <1>9 DEF LoopShape
  <2>2. Len(queue') = 1 /\ IsFirst(queue'[1]) /\ ran'[1] = {}
    BY <1>4, <1>5, <1>9, <2>1
  <2>3. QueueShape'
    BY <1>7, <2>2 DEF QueueShape, IsFirst
  <2>4. FirstRan' = {} /\ FirstRan = {} /\ ~Delivered /\ ~Delivered'
    BY <1>7, <2>1, <2>2 DEF FirstRan, Delivered
  <2>5. PartialResults' /\ Result'
    BY <1>1, <1>2, <2>4 DEF PartialResults, Result, GroupPart, result
  <2> QED
    BY <1>4, <1>8, <2>3, <2>5
<1>10. CASE ~frst
  <2>1. call.local > 1 /\ IsLast(NextLaunch) /\ Len(queue) < 2
    BY <1>1, <1>2, <1>4, <1>10 DEF LoopShape
  <2>2. CASE Len(queue) = 0
    <3>1. Len(queue') = 1 /\ IsLast(queue'[1]) /\ ~IsFirst(queue'[1])
      BY <1>5, <1>7, <2>1, <2>2
    <3>2. QueueShape'
      BY <1>2, <3>1 DEF QueueShape, IsLast
    <3>3. FirstRan' = {} /\ FirstRan = {} /\ ~Delivered /\ ~Delivered'
      BY <1>2, <2>2, <3>1 DEF FirstRan, Delivered, IsFirst
    <3>4. PartialResults' /\ Result'
      BY <1>1, <1>2, <3>3 DEF PartialResults, Result, GroupPart, result
    <3> QED
      BY <1>4, <1>8, <3>2, <3>4
  <2>3. CASE Len(queue) = 1
    <3>1. /\ Len(queue') = 2 /\ queue'[1] = queue[1] /\ ran'[1] = ran[1]
          /\ queue'[2] = NextLaunch /\ ran'[2] = {}
      BY <1>5, <2>3
    <3>2. IsFirst(queue[1])
      BY <1>1, <1>2, <1>10, <2>3 DEF LoopShape
    <3>3. (IsFirst(queue[1]) /\ IsLast(queue[2]))'
      BY <1>2, <2>1, <3>1, <3>2 DEF IsFirst, IsLast
    <3>4. QueueShape'
      BY <3>1, <3>3 DEF QueueShape
    <3>5. FirstRan' = FirstRan
      BY <2>3, <3>1, <3>2, <3>3 DEF FirstRan
    <3>6. ~Delivered /\ ~Delivered'
      <4>1. call.local # 1 /\ call'.local # 1
        BY <1>2, <1>6, <2>1
      <4> QED
        BY <2>3, <3>1, <4>1 DEF Delivered
    <3>7. PartialResults' /\ Result'
      BY <1>1, <1>2, <3>5, <3>6 DEF PartialResults, Result, GroupPart, result
    <3> QED
      BY <1>4, <1>8, <3>4, <3>7
  <2> QED
    BY <1>3, <2>1, <2>2, <2>3
<1> QED
  BY <1>9, <1>10

\* A submission that throws changes the loop only.
LEMMA ThrowSupportedInv ==
    ASSUME IInv, SupportedInv, Supported, LaunchThrows
    PROVE  (QueueShape /\ LoopShape /\ NoneFailed /\ PartialResults /\ Result)'
<1>1. QueueShape /\ LoopShape /\ NoneFailed /\ PartialResults /\ Result
  BY DEF SupportedInv
<1>2. /\ UNCHANGED <<queue, complete, call, ran, mem>>
      /\ event' = event \cup {NoEvent} /\ host = "loop" /\ Iterate
  BY DEF LaunchThrows
<1>3. LoopShape'
  BY <1>1, <1>2, IterateShape
<1>4. NoneFailed'
  BY <1>2 DEF NoneFailed
<1>5. QueueShape'
  BY <1>1, <1>2 DEF QueueShape, IsFirst, IsLast
<1>6. FirstRan' = FirstRan /\ Delivered' = Delivered
  BY <1>2 DEF FirstRan, Delivered, IsFirst
<1>7. PartialResults'
  BY <1>1, <1>2, <1>6 DEF PartialResults, GroupPart
<1>8. Result'
  BY <1>1, <1>2, <1>6 DEF Result, result, WholeInput
<1> QED
  BY <1>3, <1>4, <1>5, <1>7, <1>8

\* A group of a launch over the input: it is the first command.
LEMMA FirstGroup ==
    ASSUME IInv, SupportedInv, Supported,
           NEW e \in DOMAIN queue, NEW g \in 0 .. queue[e].groups - 1,
           RunGroup(e, g), IsFirst(queue[e])
    PROVE  (PartialResults /\ Result)'
<1>1. QueueShape /\ PartialResults /\ Result
  BY DEF SupportedInv
<1>2. /\ call.local \in Nat \ {0} /\ call.size \in Nat /\ call \in Calls
  BY SupportedCall
<1>3. /\ queue' = queue /\ call' = call
      /\ mem' = [mem EXCEPT ![queue[e].dst][g] = Reduce(queue[e], g)]
      /\ ran' = [ran EXCEPT ![e] = @ \cup {g}]
  BY DEF RunGroup, Complete
<1>4. /\ DOMAIN queue = 1 .. Len(queue) /\ Len(queue) \in Nat
      /\ ran \in Seq(SUBSET Nat) /\ Len(ran) = Len(queue)
  BY DEF IInv, TypeOK
<1>5. e = 1 /\ Len(queue) > 0
  <2>1. Len(queue) = 1 \/ Len(queue) = 2
    BY <1>1, <1>4 DEF QueueShape
  <2>2. e # 2
    BY <1>1, <1>4 DEF QueueShape, IsFirst, IsLast
  <2> QED
    BY <1>4, <2>1, <2>2
<1>6. /\ ran'[1] = ran[1] \cup {g}
      /\ Len(queue) = 2 => ran'[2] = ran[2]
  BY <1>3, <1>4, <1>5
<1>7. Reduce(queue[e], g) = GroupPart(g)
  BY DEF Reduce, IsFirst, SrcSize, GroupPart
<1>8. /\ mem = [v \in Vector |-> mem[v]] /\ DOMAIN mem["lhs"] = 0 .. 0
      /\ DOMAIN mem["opShMem1"] = 0 .. call.local - 1
  BY SupportedCall DEF IInv, MemInv, Cells, Vector
<1>9. g \in 0 .. call.local - 1 /\ IsFirst(queue[1])
  BY <1>5 DEF IsFirst
<1>10. IsFirst(queue[1])'
  BY <1>3, <1>9 DEF IsFirst
<1>11. CASE call.local = 1
  <2>1. g = 0 /\ queue[e].dst = "lhs"
    BY <1>9, <1>11 DEF IsFirst
  <2>2. GroupPart(0) = WholeInput
    BY <1>2, <1>11, OneGroup DEF GroupPart, WholeInput
  <2>3. result' = WholeInput'
    BY <1>3, <1>7, <1>8, <2>1, <2>2 DEF result, WholeInput, Vector
  <2>4. Len(queue) = 1
    BY <1>1, <1>2, <1>4, <1>5, <1>11 DEF QueueShape, IsLast
  <2>5. Delivered'
    BY <1>3, <1>6, <1>10, <1>11, <2>4 DEF Delivered
  <2>6. PartialResults'
    BY <1>3, <1>11 DEF PartialResults
  <2> QED
    BY <2>3, <2>5, <2>6 DEF Result
<1>12. CASE call.local # 1
  <2>1. queue[e].dst = "opShMem1"
    BY <1>12 DEF IsFirst
  <2>2. /\ mem'["lhs"] = mem["lhs"]
        /\ mem'["opShMem1"] = [mem["opShMem1"] EXCEPT ![g] = GroupPart(g)]
    BY <1>3, <1>7, <1>8, <2>1 DEF Vector
  <2>3. FirstRan = ran[1] /\ FirstRan' = ran[1] \cup {g}
    BY <1>3, <1>5, <1>6, <1>9, <1>10 DEF FirstRan
  <2>4. PartialResults'
    <3> SUFFICES ASSUME NEW h \in 0 .. call.local - 1
                 PROVE  mem'["opShMem1"][h] = IF h \in ran[1] \cup {g}
                                              THEN GroupPart(h) ELSE Garbage
      BY <1>3, <2>3 DEF PartialResults, GroupPart
    <3>1. mem["opShMem1"][h] = IF h \in ran[1] THEN GroupPart(h) ELSE Garbage
      BY <1>1, <1>2, <1>12, <2>3 DEF PartialResults
    <3>2. CASE h = g
      BY <1>8, <2>2, <3>2
    <3>3. CASE h # g
      BY <1>8, <2>2, <3>1, <3>3
    <3> QED
      BY <3>2, <3>3
  <2>5. Delivered' = Delivered
    <3>1. call.local # 1 /\ call'.local # 1 /\ queue' = queue
      BY <1>3, <1>12
    <3>2. Delivered = (Len(queue) = 2 /\ ran[2] # {})
      BY <3>1 DEF Delivered
    <3>3. Delivered' = (Len(queue) = 2 /\ ran'[2] # {})
      BY <3>1 DEF Delivered
    <3> QED
      BY <1>6, <3>2, <3>3
  <2>6. Result'
    BY <1>1, <1>3, <2>2, <2>5 DEF Result, result, WholeInput
  <2> QED
    BY <2>4, <2>6
<1> QED
  BY <1>11, <1>12

\* The group of the last launch finds all partial results in the temporary, or
\* reads cells that nothing wrote when the first submission has failed.
LEMMA LastGroup ==
    ASSUME IInv, SupportedInv, Supported,
           NEW e \in DOMAIN queue, NEW g \in 0 .. queue[e].groups - 1,
           RunGroup(e, g), IsLast(queue[e])
    PROVE  (PartialResults /\ Result)'
<1>1. QueueShape /\ PartialResults /\ Result
  BY DEF SupportedInv
<1>2. /\ call.local \in Nat \ {0} /\ call.size \in Nat /\ call \in Calls
      /\ call.local > 1 /\ SharedSize(call) = call.local /\ call.local # 1
  BY SupportedCall DEF IsLast
<1>3. /\ queue' = queue /\ call' = call /\ Ready(e)
      /\ mem' = [mem EXCEPT ![queue[e].dst][g] = Reduce(queue[e], g)]
      /\ ran' = [ran EXCEPT ![e] = @ \cup {g}]
  BY DEF RunGroup, Complete
<1>4. /\ DOMAIN queue = 1 .. Len(queue) /\ Len(queue) \in Nat
      /\ ran \in Seq(SUBSET Nat) /\ Len(ran) = Len(queue)
  BY DEF IInv, TypeOK
<1>5. /\ mem = [v \in Vector |-> mem[v]] /\ DOMAIN mem["lhs"] = 0 .. 0
      /\ DOMAIN mem["opShMem1"] = 0 .. call.local - 1
  BY <1>2 DEF IInv, MemInv, Cells, Vector
<1>6. g = 0 /\ queue[e].dst = "lhs" /\ queue[e].src = "opShMem1"
  BY DEF IsLast
<1> DEFINE whole == EvalAll(mem["opShMem1"], 0 .. call.local - 1)
<1>7. Reduce(queue[e], g) = whole
  <2>1. Share(call.local, call.local, 0, 1) = 0 .. call.local - 1
    BY <1>2, OneGroup
  <2> QED
    BY <1>2, <1>6, <2>1 DEF Reduce, SrcSize, IsLast
<1> HIDE DEF whole
<1>8. /\ mem'["opShMem1"] = mem["opShMem1"]
      /\ mem'["lhs"][0] = whole
  BY <1>3, <1>5, <1>6, <1>7 DEF Vector
<1>9. ~IsFirst(queue[e]) /\ ran'[e] = ran[e] \cup {g}
      /\ \A d \in DOMAIN queue : d # e => ran'[d] = ran[d]
  BY <1>3, <1>4 DEF IsFirst, IsLast
<1>10. FirstRan' = FirstRan
  <2>1. IsFirst(queue[1])' = IsFirst(queue[1])
    BY <1>3 DEF IsFirst
  <2>2. IsFirst(queue[1]) => e # 1
    BY <1>9
  <2>3. Len(queue) > 0 => 1 \in DOMAIN queue
    BY <1>4
  <2> QED
    BY <1>3, <1>9, <2>1, <2>2, <2>3 DEF FirstRan
<1>11. PartialResults'
  BY <1>1, <1>3, <1>8, <1>10 DEF PartialResults, GroupPart
<1>12. CASE e = 1
  <2>1. Len(queue) = 1 /\ ~IsFirst(queue[1])
    <3>1. Len(queue) = 1 \/ Len(queue) = 2
      BY <1>1, <1>4 DEF QueueShape
    <3> QED
      BY <1>1, <1>9, <1>12, <3>1 DEF QueueShape
  <2>2. mem["opShMem1"][0] = Garbage /\ 0 \in 0 .. call.local - 1
    BY <1>1, <1>2, <2>1 DEF PartialResults, FirstRan
  <2>3. GarbageId \in whole.of
    <3>1. GarbageId \in mem["opShMem1"][0].of
      BY <2>2 DEF Garbage, Element
    <3> QED
      BY <2>2, <3>1 DEF whole, EvalAll
  <2>4. ~Delivered'
    <3>1. Len(queue') = 1 /\ call'.local # 1
      BY <1>2, <1>3, <2>1
    <3> QED
      BY <3>1 DEF Delivered
  <2> QED
    BY <1>8, <1>11, <2>3, <2>4 DEF Result, result
<1>13. CASE e # 1
  <2>1. e = 2 /\ Len(queue) = 2 /\ IsFirst(queue[1]) /\ 1 \in DOMAIN queue
    BY <1>1, <1>4, <1>13 DEF QueueShape
  <2>2. queue[1].dst = queue[2].src
    BY <1>2, <1>6, <2>1 DEF IsFirst
  <2>3. Conflict(queue[1], queue[2])
    BY <2>1, <2>2, OperandConflict
  <2>4. 1 \in complete
    BY <1>3, <2>1, <2>3 DEF Ready
  <2>5. ran[1] = 0 .. call.local - 1
    BY <2>1, <2>4 DEF IInv, RanOk, IsFirst
  <2>6. \A h \in 0 .. call.local - 1 : mem["opShMem1"][h] = GroupPart(h)
    BY <1>1, <1>2, <2>1, <2>5 DEF PartialResults, FirstRan
  <2>7. whole = WholeInput
    BY <1>2, <2>6, AllGroups DEF whole, GroupPart, WholeInput
  <2>8. Delivered'
    BY <1>3, <1>9, <2>1 DEF Delivered
  <2> QED
    BY <1>3, <1>8, <1>11, <2>7, <2>8 DEF Result, result, WholeInput
<1> QED
  BY <1>12, <1>13

LEMMA NextExactInv == ExactInv /\ [Next]_vars => ExactInv'
<1> SUFFICES ASSUME ExactInv, [Next]_vars, Supported'
             PROVE  (QueueShape /\ LoopShape /\ NoneFailed /\ PartialResults
                        /\ Result)'
  BY NextIInv DEF ExactInv, SupportedInv
<1>1. IInv /\ SupportedInv
  BY DEF ExactInv
<1>2. call' = call
  BY DEF Next, Launch, LaunchThrows, Device, RunGroup, Finished, vars
<1>3. /\ Supported
      /\ QueueShape /\ LoopShape /\ NoneFailed /\ PartialResults /\ Result
  BY <1>1, <1>2 DEF Supported, SupportedInv
<1>4. CASE Launch
  BY <1>1, <1>3, <1>4, LaunchSupportedInv
<1>5. CASE LaunchThrows
  BY <1>1, <1>3, <1>5, ThrowSupportedInv
<1>6. ASSUME NEW e \in DOMAIN queue, NEW g \in 0 .. queue[e].groups - 1,
             RunGroup(e, g)
      PROVE  (QueueShape /\ LoopShape /\ NoneFailed /\ PartialResults /\ Result)'
  <2>1. UNCHANGED <<queue, call, host, nWG, frst, even, event>>
    BY <1>6 DEF RunGroup, Complete
  <2>2. (QueueShape /\ LoopShape /\ NoneFailed)'
    BY <1>3, <2>1 DEF QueueShape, LoopShape, NoneFailed, IsFirst, IsLast
  <2>3. IsFirst(queue[e]) \/ IsLast(queue[e])
    <3>1. DOMAIN queue = 1 .. Len(queue) /\ Len(queue) \in Nat
      BY <1>1 DEF IInv, TypeOK
    <3>2. Len(queue) = 1 \/ Len(queue) = 2
      BY <1>3, <3>1 DEF QueueShape
    <3>3. e = 1 \/ (e = 2 /\ Len(queue) = 2)
      BY <3>1, <3>2
    <3> QED
      BY <1>3, <3>2, <3>3 DEF QueueShape
  <2> QED
    BY <1>1, <1>3, <1>6, <2>2, <2>3, FirstGroup, LastGroup
<1>7. CASE UNCHANGED vars
  BY <1>3, <1>7
     DEF vars, QueueShape, LoopShape, NoneFailed, PartialResults, Result,
         IsFirst, IsLast, FirstRan, GroupPart, Delivered, result, WholeInput
<1> QED
  BY <1>4, <1>5, <1>6, <1>7 DEF Next, Device, Finished

\* The partial results in the temporary, and the result, are what the launches
\* that have run make them.
THEOREM ExactInvariance == Spec => []ExactInv
<1>1. Init => ExactInv
  BY InitIInv, InitSupportedInv DEF ExactInv
<1> QED
  BY <1>1, NextExactInv, PTL DEF Spec

\* A caller that has waited for the events of execute, none of which is the
\* default event of a failed submission, finds the reduction of every element of
\* the input, each of them once: for every number of work-items and every size.
THEOREM WaitedExact == Spec => []WaitedResultExact
<1>1. ASSUME ExactInv PROVE WaitedResultExact
  <2> SUFFICES ASSUME Supported, host = "returned", Waited(event),
                      NoEvent \notin event
               PROVE  result = WholeInput
    BY DEF WaitedResultExact
  <2>1. IInv /\ QueueShape /\ LoopShape /\ NoneFailed /\ Result
    BY <1>1 DEF ExactInv, SupportedInv
  <2>2. /\ Len(queue) \in Nat /\ frst = FALSE /\ event = DOMAIN queue
        /\ DOMAIN queue = 1 .. Len(queue) /\ DOMAIN queue \subseteq complete
        /\ Len(queue) = IF call.local = 1 THEN 1 ELSE 2
        /\ queue \in Seq(Command)
    BY <2>1 DEF IInv, TypeOK, LoopShape, NoneFailed, Waited
  <2>3. \A e \in DOMAIN queue : ran[e] # {}
    <3> TAKE e \in DOMAIN queue
    <3>1. ran[e] = 0 .. queue[e].groups - 1 /\ queue[e] \in Command
      BY <2>1, <2>2 DEF IInv, RanOk
    <3>2. queue[e].groups \in Nat \ {0}
      BY <3>1 DEF Command
    <3>3. 0 \in ran[e]
      BY <3>1, <3>2
    <3> QED
      BY <3>3
  <2>4. Delivered
    <3>1. CASE call.local = 1
      BY <2>1, <2>2, <2>3, <3>1 DEF Delivered, QueueShape, IsLast
    <3>2. CASE call.local # 1
      BY <2>2, <2>3, <3>2 DEF Delivered
    <3> QED
      BY <3>1, <3>2
  <2> QED
    BY <2>1, <2>4 DEF Result
<1> QED
  BY <1>1, ExactInvariance, PTL

\* Whatever submissions fail, the result is never the reduction of some of the
\* elements only.
THEOREM NeverPart == Spec => []NeverPartOfTheInput
<1>1. ExactInv => NeverPartOfTheInput
  BY DEF ExactInv, SupportedInv, Result, NeverPartOfTheInput
<1> QED
  BY <1>1, ExactInvariance, PTL

-------------------------------------------------------------------------------
(***************************************************************************)
(* The chain of launches implements the one step that ReductionCall        *)
(* promises.                                                               *)
(***************************************************************************)

\* As long as no submission has failed, nothing is in the result before it is
\* the reduction of the input.
WholeOrNothing ==
    Supported /\ NoEvent \notin event /\ ~Delivered => result = Garbage

CallInv == ExactInv /\ WholeOrNothing

LEMMA InitCallInv == Init => CallInv
<1> SUFFICES ASSUME Init PROVE CallInv
  OBVIOUS
<1>1. result = Garbage
  BY DEF Init, result, Vector
<1> QED
  BY <1>1, InitIInv, InitSupportedInv DEF CallInv, ExactInv, WholeOrNothing

\* A step of a supported call none of whose submissions has failed.
LEMMA PromisedStep ==
    ASSUME CallInv, [Next]_vars, Supported, NoEvent \notin event'
    PROVE  /\ NoEvent \notin event /\ call' = call /\ Supported'
           /\ Delivered => Delivered'
           /\ ~Delivered' => result' = result
<1>1. IInv /\ QueueShape /\ LoopShape /\ NoneFailed
  BY DEF CallInv, ExactInv, SupportedInv
<1>2. /\ queue \in Seq(Command) /\ Len(queue) \in Nat
      /\ DOMAIN queue = 1 .. Len(queue)
      /\ ran \in Seq(SUBSET Nat) /\ Len(ran) = Len(queue)
      /\ call.local \in Nat \ {0}
  BY <1>1, SupportedCall DEF IInv, TypeOK
<1>3. call' = call /\ event \subseteq event' /\ Supported'
  BY DEF Next, Launch, LaunchThrows, Device, RunGroup, Complete, Finished, vars,
         Supported
<1>4. CASE Launch
  <2>1. call.local # 1 \/ Len(queue) # 1
    BY <1>1, <1>2, <1>4 DEF Launch, LoopShape, IInv, TypeOK
  <2>2. Len(queue) # 2
    BY <1>1, <1>2, <1>4 DEF Launch, LoopShape, IInv, TypeOK
  <2>3. ~Delivered
    BY <2>1, <2>2 DEF Delivered
  <2>4. result' = result
    BY <1>4 DEF Launch, result
  <2> QED
    BY <1>3, <2>3, <2>4
<1>5. CASE LaunchThrows
  BY <1>5 DEF LaunchThrows
<1>6. ASSUME NEW e \in DOMAIN queue, NEW g \in 0 .. queue[e].groups - 1,
             RunGroup(e, g)
      PROVE  /\ Delivered => Delivered'
             /\ ~Delivered' => result' = result
  <2>1. /\ UNCHANGED <<queue, call, host, nWG, frst, even, event>>
        /\ mem' = [mem EXCEPT ![queue[e].dst][g] = Reduce(queue[e], g)]
        /\ ran' = [ran EXCEPT ![e] = @ \cup {g}]
    BY <1>6 DEF RunGroup, Complete
  <2>2. /\ ran'[e] # {}
        /\ \A d \in DOMAIN queue : ran[d] # {} => ran'[d] # {}
    <3>1. /\ ran'[e] = ran[e] \cup {g}
          /\ \A d \in DOMAIN queue : d # e => ran'[d] = ran[d]
      BY <1>2, <2>1
    <3>2. g \in ran'[e]
      BY <3>1
    <3> QED
      BY <3>1, <3>2
  <2>3. IsFirst(queue[1])' = IsFirst(queue[1])
    BY <2>1 DEF IsFirst
  <2>4. Delivered => Delivered'
    BY <1>2, <2>1, <2>2, <2>3 DEF Delivered
  <2>5. ASSUME ~Delivered' PROVE result' = result
    <3>1. Len(queue) = 1 \/ Len(queue) = 2
      BY <1>1, <1>2 DEF QueueShape
    <3>2. e = 1
      <4>1. ASSUME e # 1 PROVE e = 2 /\ Len(queue) = 2
        BY <1>2, <3>1, <4>1
      <4> QED
        BY <2>1, <2>2, <2>5, <4>1 DEF Delivered
    <3>3. IsFirst(queue[1])
      <4>1. ASSUME IsLast(queue[1]), ~IsFirst(queue[1]) PROVE FALSE
        <5>1. Len(queue) = 1 /\ call.local # 1 /\ call.local > 1
          BY <1>1, <1>2, <3>1, <4>1 DEF QueueShape, IsLast
        <5>2. ~frst /\ host = "loop"
          BY <1>1, <1>3, <5>1 DEF NoneFailed
        <5> QED
          BY <1>1, <4>1, <5>1, <5>2 DEF LoopShape
      <4> QED
        BY <1>1, <3>1, <4>1 DEF QueueShape
    <3>4. call.local # 1
      <4>1. ASSUME call.local = 1 PROVE Len(queue) = 1
        BY <1>1, <3>1, <4>1 DEF QueueShape, IsLast
      <4> QED
        BY <2>1, <2>2, <2>3, <2>5, <3>2, <3>3, <4>1 DEF Delivered
    <3>5. queue[e].dst # "lhs"
      BY <3>2, <3>3, <3>4 DEF IsFirst
    <3>6. mem = [v \in Vector |-> mem[v]]
      BY <1>1 DEF IInv, MemInv
    <3> QED
      BY <2>1, <3>5, <3>6 DEF result, Vector
  <2> QED
    BY <2>4, <2>5
<1>7. CASE UNCHANGED vars
  BY <1>3, <1>7 DEF vars, Delivered, IsFirst, result
<1> QED
  BY <1>3, <1>4, <1>5, <1>6, <1>7 DEF Next, Device, Finished

LEMMA NextCallInv == CallInv /\ [Next]_vars => CallInv'
<1> SUFFICES ASSUME CallInv, [Next]_vars PROVE CallInv'
  OBVIOUS
<1>1. ExactInv'
  BY NextExactInv DEF CallInv
<1>2. Supported' => Supported
  BY DEF Next, Launch, LaunchThrows, Device, RunGroup, Finished, vars, Supported
<1>3. WholeOrNothing'
  BY <1>2, PromisedStep DEF CallInv, WholeOrNothing
<1> QED
  BY <1>1, <1>3 DEF CallInv

\* The promise speaks of the same values.
LEMMA SameValues ==
    /\ Promised!Garbage = Garbage
    /\ \A S : Promised!Exactly(S) = Exactly(S)
BY DEF Promised!Garbage, Promised!Element, Promised!GarbageId, Promised!Exactly,
       Garbage, Element, GarbageId, Exactly

\* Whatever the order of launches, groups and completions, a call of execute
\* looks to the BLAS 1 interface like one step that puts the reduction of the
\* whole input in the result.
THEOREM ImplementsCall == Spec => Promised!Safety
<1>1. Init => Promised!Init
  BY SameValues DEF Init, result, Vector, Promised!Init
<1>2. ASSUME CallInv, CallInv', [Next]_vars PROVE [Promised!Next]_(Promised!vars)
  <2> DEFINE ok == Supported' /\ NoEvent \notin event'
  <2>1. CASE ~ok
    BY <2>1 DEF Promised!Next, Promised!Otherwise
  <2>2. CASE ok
    <3>1. Supported
      BY <1>2, <2>2 DEF Next, Launch, LaunchThrows, Device, RunGroup, Finished,
                        vars, Supported
    <3>2. /\ NoEvent \notin event /\ call' = call /\ Supported'
          /\ Delivered => Delivered'
          /\ ~Delivered' => result' = result
      BY <1>2, <2>2, <3>1, PromisedStep
    <3>3. /\ Delivered => result = WholeInput
          /\ (Delivered => result = WholeInput)'
          /\ ~Delivered => result = Garbage
      BY <1>2, <2>2, <3>1, <3>2
         DEF CallInv, ExactInv, SupportedInv, Result, WholeOrNothing
    <3>4. CASE ~Delivered /\ Delivered'
      <4>1. result = Garbage /\ result' = Exactly(0 .. call.size - 1)
        BY <3>2, <3>3, <3>4 DEF WholeInput
      <4>2. (Supported /\ NoEvent \notin event)'
               = (Supported /\ NoEvent \notin event)
        BY <2>2, <3>1, <3>2
      <4> QED
        BY <3>2, <4>1, <4>2, SameValues DEF Promised!Next, Promised!Deliver
    <3>5. CASE Delivered \/ ~Delivered'
      <4>1. result' = result
        BY <3>2, <3>3, <3>5 DEF WholeInput
      <4>2. (Supported /\ NoEvent \notin event)'
               = (Supported /\ NoEvent \notin event)
        BY <2>2, <3>1, <3>2
      <4> QED
        BY <3>2, <4>1, <4>2 DEF Promised!vars
    <3> QED
      BY <3>4, <3>5
  <2> QED
    BY <2>1, <2>2
<1> QED
  BY <1>1, <1>2, InitCallInv, NextCallInv, PTL DEF Spec, Promised!Safety
================================================================================
