------------------------- MODULE AssignReductionProofs -------------------------
(***************************************************************************)
(* Proofs about AssignReduction, for every number of work-items and every  *)
(* launch.                                                                 *)
(***************************************************************************)
EXTENDS AssignReduction, GridArithmetic, TLAPS

(***************************************************************************)
(* The barrier.  A work-item inside a barrier has reached it but not left  *)
(* it.                                                                     *)
(***************************************************************************)
Left(t) == IF pc[t] = "wait" THEN barriers[t] - 1 ELSE barriers[t]

\* Where a work-item can be, given its loop variable and its barriers.
PcOk(t) ==
    /\ pc[t] = "grid" => barriers[t] = 0 /\ offset[t] = LocalSz
    /\ pc[t] \in {"tree", "store", "wait", "return", "done"} => barriers[t] > 0
    /\ pc[t] \in {"arrive", "store"} => t < offset[t]
    /\ pc[t] = "wait" => offset[t] > 0
    /\ pc[t] \in {"tree", "store"} => 2 * offset[t] <= LocalSz
    /\ pc[t] \in {"return", "done"} => offset[t] = 0

PcInv == \A t \in Thread : PcOk(t)

\* A work-item leaves a barrier after all have reached it; the ones that have
\* left equally many have the same offset, and one barrier halves it.
BarrierInv ==
    \A t, u \in Thread :
        /\ Left(t) <= barriers[u]
        /\ Left(t) = Left(u) => offset[t] = offset[u]
        /\ Left(t) = Left(u) + 1 => offset[t] = offset[u] \div 2

IInv == TypeOK /\ PcInv /\ BarrierInv

-------------------------------------------------------------------------------
\* The values a reduction computes with are closed under its operator.
LEMMA PartialClosed ==
    /\ Neutral \in Partial /\ Garbage \in Partial
    /\ \A i \in Nat : Element(i) \in Partial
    /\ \A l, r \in Partial : Eval(l, r) \in Partial
BY DEF Partial, Neutral, Garbage, Element, Eval, Position, GarbageId

\* The launch a behaviour is about has the fields the code gives it.
LEMMA LaunchType ==
    ASSUME launch \in Launches
    PROVE  /\ launch.groups \in Nat \ {0}
           /\ launch.group \in Nat
           /\ launch.size \in Nat
           /\ GlobalNum \in Nat \ {0}
           /\ \A t \in Thread : FirstIndex(t) \in Nat
<1>1. launch \in [groups : Nat \ {0}, group : Nat, size : Nat]
  BY LaunchesAssumption
<1>2. /\ launch.groups \in Nat \ {0}
      /\ launch.group \in Nat
      /\ launch.size \in Nat
  BY <1>1
<1>3. GlobalNum \in Nat \ {0}
  BY <1>2, LocalSzAssumption DEF GlobalNum
<1>4. \A t \in Thread : FirstIndex(t) \in Nat
  BY <1>2, LocalSzAssumption DEF FirstIndex, Thread
<1> QED
  BY <1>2, <1>3, <1>4

-------------------------------------------------------------------------------
LEMMA InitTypeOK == Init => TypeOK
<1> SUFFICES ASSUME Init PROVE TypeOK
  OBVIOUS
<1> USE LocalSzAssumption
<1>1. k \in [Thread -> Nat]
  BY LaunchType DEF Init
<1> QED
  BY <1>1, PartialClosed DEF Init, TypeOK, Location

LEMMA NextTypeOK == TypeOK /\ PcInv /\ [Next]_vars => TypeOK'
<1> SUFFICES ASSUME TypeOK, PcInv, [Next]_vars PROVE TypeOK'
  OBVIOUS
<1> USE LocalSzAssumption DEF TypeOK
<1>1. ASSUME NEW t \in Thread, GridStep(t) PROVE TypeOK'
  <2>1. k[t] + LocalSz \in Nat /\ k[t] + 2 * GlobalNum \in Nat
    BY LaunchType
  <2>2. val' \in [Thread -> Partial]
    <3>1. /\ Eval(val[t], Element(k[t])) \in Partial
          /\ Eval(Eval(val[t], Element(k[t])), Element(k[t] + LocalSz))
                 \in Partial
      BY <2>1, PartialClosed
    <3> QED
      BY <1>1, <3>1 DEF GridStep
  <2> QED
    BY <1>1, <2>1, <2>2 DEF GridStep
<1>2. ASSUME NEW t \in Thread, PutScratch(t) PROVE TypeOK'
  BY <1>2 DEF PutScratch, Goto, Location
<1>3. ASSUME NEW t \in Thread, Arrive(t) PROVE TypeOK'
  BY <1>3 DEF Arrive, Goto, Location
<1>4. ASSUME NEW t \in Thread, Leave(t) PROVE TypeOK'
  <2>1. offset[t] \in Nat /\ offset[t] <= LocalSz /\ LocalSz \in Nat
    OBVIOUS
  <2>2. offset[t] \div 2 \in 0 .. LocalSz
    BY <2>1
  <2> QED
    BY <1>4, <2>2 DEF Leave, Goto, Location
<1>5. ASSUME NEW t \in Thread, LoadPair(t) PROVE TypeOK'
  <2>1. t + offset[t] \in Thread
    <3>1. t < offset[t] /\ 2 * offset[t] <= LocalSz
      BY <1>5 DEF LoadPair, PcInv, PcOk
    <3>2. t \in Nat /\ offset[t] \in Nat /\ LocalSz \in Nat
      BY DEF Thread
    <3> QED
      BY ONLY <3>1, <3>2 DEF Thread
  <2>2. Eval(scratch[t], scratch[t + offset[t]]) \in Partial
    BY <2>1, PartialClosed
  <2> QED
    BY <1>5, <2>2 DEF LoadPair, Goto, Location
<1>6. ASSUME NEW t \in Thread, StoreSum(t) PROVE TypeOK'
  BY <1>6 DEF StoreSum, Goto, Location
<1>7. ASSUME NEW t \in Thread, WriteBack(t) PROVE TypeOK'
  BY <1>7 DEF WriteBack, Goto, Location
<1>8. ASSUME NEW t \in Thread, Return(t) PROVE TypeOK'
  BY <1>8 DEF Return, Goto, Location
<1>9. CASE UNCHANGED vars
  BY <1>9 DEF vars
<1> QED
  BY <1>1, <1>2, <1>3, <1>4, <1>5, <1>6, <1>7, <1>8, <1>9
     DEF Next, Step, Finished

-------------------------------------------------------------------------------
LEMMA InitPcBarrier == Init => PcInv /\ BarrierInv
BY LocalSzAssumption DEF Init, PcInv, PcOk, BarrierInv, Left, Thread

LEMMA NextPcInv == TypeOK /\ PcInv /\ [Next]_vars => PcInv'
<1> SUFFICES ASSUME TypeOK, PcInv, [Next]_vars, NEW u \in Thread
             PROVE  PcOk(u)'
  BY DEF PcInv
<1> USE LocalSzAssumption DEF TypeOK, PcInv, PcOk, Location
<1>1. ASSUME NEW t \in Thread, GridStep(t) PROVE PcOk(u)'
  BY <1>1 DEF GridStep
<1>2. ASSUME NEW t \in Thread, PutScratch(t) PROVE PcOk(u)'
  BY <1>2 DEF PutScratch, Goto, Thread
<1>3. ASSUME NEW t \in Thread, Arrive(t) PROVE PcOk(u)'
  <2>1. offset[t] > 0
    BY <1>3 DEF Arrive, Thread
  <2>2. CASE u = t
    BY <1>3, <2>1, <2>2 DEF Arrive, Goto
  <2>3. CASE u # t
    BY <1>3, <2>3 DEF Arrive, Goto
  <2> QED
    BY <2>2, <2>3
<1>4. ASSUME NEW t \in Thread, Leave(t) PROVE PcOk(u)'
  BY <1>4 DEF Leave, Goto
<1>5. ASSUME NEW t \in Thread, LoadPair(t) PROVE PcOk(u)'
  BY <1>5 DEF LoadPair, Goto
<1>6. ASSUME NEW t \in Thread, StoreSum(t) PROVE PcOk(u)'
  BY <1>6 DEF StoreSum, Goto
<1>7. ASSUME NEW t \in Thread, WriteBack(t) PROVE PcOk(u)'
  BY <1>7 DEF WriteBack, Goto
<1>8. ASSUME NEW t \in Thread, Return(t) PROVE PcOk(u)'
  BY <1>8 DEF Return, Goto
<1>9. CASE UNCHANGED vars
  BY <1>9 DEF vars
<1> QED
  BY <1>1, <1>2, <1>3, <1>4, <1>5, <1>6, <1>7, <1>8, <1>9
     DEF Next, Step, Finished

\* A step that leaves alone what the invariant of the barrier is about.
LEMMA BarrierInvFrame ==
    ASSUME BarrierInv, \A t \in Thread : Left(t)' = Left(t),
           \A t \in Thread : barriers'[t] >= barriers[t],
           barriers \in [Thread -> Nat], barriers' \in [Thread -> Nat],
           pc \in [Thread -> Location], UNCHANGED offset
    PROVE  BarrierInv'
<1> \A t \in Thread : Left(t) \in Int
  BY DEF Left
<1> QED
  BY DEF BarrierInv

LEMMA NextBarrierInv ==
    TypeOK /\ TypeOK' /\ PcInv /\ BarrierInv /\ [Next]_vars => BarrierInv'
<1> SUFFICES ASSUME TypeOK, TypeOK', PcInv, BarrierInv, [Next]_vars
             PROVE  BarrierInv'
  OBVIOUS
<1> USE LocalSzAssumption DEF TypeOK
<1>1. ASSUME NEW t \in Thread, GridStep(t) PROVE BarrierInv'
  BY <1>1, BarrierInvFrame DEF GridStep, Left
<1>2. ASSUME NEW t \in Thread, PutScratch(t) PROVE BarrierInv'
  BY <1>2, BarrierInvFrame DEF PutScratch, Goto, Left
<1>3. ASSUME NEW t \in Thread, Arrive(t) PROVE BarrierInv'
  BY <1>3, BarrierInvFrame DEF Arrive, Goto, Left
<1>4. ASSUME NEW t \in Thread, Leave(t) PROVE BarrierInv'
  <2> USE DEF Leave, Goto
  <2>1. /\ Left(t)' = Left(t) + 1 /\ barriers[t] = Left(t) + 1
        /\ offset'[t] = offset[t] \div 2
        /\ \A u \in Thread \ {t} : Left(u)' = Left(u) /\ offset'[u] = offset[u]
        /\ \A u \in Thread : Left(u) \in Int /\ offset[u] \in Nat
    BY <1>4 DEF Left
  <2>2. \A u \in Thread \ {t} : /\ Left(u) <= Left(t) + 1
                              /\ Left(t) <= Left(u)
                              /\ Left(t) + 1 <= barriers[u]
    <3> TAKE u \in Thread \ {t}
    <3>1. Left(u) <= barriers[t] /\ barriers[u] >= barriers[t]
      BY <1>4 DEF BarrierInv
    <3>2. Left(u) >= barriers[u] - 1
      BY DEF Left
    <3> QED
      BY <2>1, <3>1, <3>2
  <2>3. \A u, v \in Thread : Left(u)' <= barriers'[v]
    BY <1>4, <2>1, <2>2 DEF BarrierInv
  <2>4. ASSUME NEW u \in Thread, NEW v \in Thread, Left(u)' = Left(v)'
        PROVE  offset'[u] = offset'[v]
    BY <2>1, <2>2, <2>4 DEF BarrierInv
  <2>5. ASSUME NEW u \in Thread, NEW v \in Thread, Left(u)' = Left(v)' + 1
        PROVE  offset'[u] = offset'[v] \div 2
    BY <2>1, <2>2, <2>5 DEF BarrierInv
  <2> QED
    BY <2>3, <2>4, <2>5 DEF BarrierInv
<1>5. ASSUME NEW t \in Thread, LoadPair(t) PROVE BarrierInv'
  BY <1>5, BarrierInvFrame DEF LoadPair, Goto, Left
<1>6. ASSUME NEW t \in Thread, StoreSum(t) PROVE BarrierInv'
  BY <1>6, BarrierInvFrame DEF StoreSum, Goto, Left
<1>7. ASSUME NEW t \in Thread, WriteBack(t) PROVE BarrierInv'
  BY <1>7, BarrierInvFrame DEF WriteBack, Goto, Left
<1>8. ASSUME NEW t \in Thread, Return(t) PROVE BarrierInv'
  BY <1>8, BarrierInvFrame DEF Return, Goto, Left
<1>9. CASE UNCHANGED vars
  BY <1>9, BarrierInvFrame DEF vars, Left
<1> QED
  BY <1>1, <1>2, <1>3, <1>4, <1>5, <1>6, <1>7, <1>8, <1>9
     DEF Next, Step, Finished

-------------------------------------------------------------------------------
\* The inductive invariant holds of every launch: every variable keeps its
\* type, no work-item indexes local memory out of its range, and the barriers
\* keep the work-items within one level of the tree of each other.
THEOREM Invariance == Spec => []IInv
<1>1. Init => IInv
  BY InitTypeOK, InitPcBarrier DEF IInv
<1>2. IInv /\ [Next]_vars => IInv'
  BY NextTypeOK, NextPcInv, NextBarrierInv DEF IInv
<1> QED
  BY <1>1, <1>2, PTL DEF Spec

\* AssignReduction::eval: the variables of the kernel have their types.
THEOREM TypeCorrect == Spec => []TypeOK
<1>1. IInv => TypeOK
  BY DEF IInv
<1> QED
  BY <1>1, Invariance, PTL

\* Two work-items at the test of the tree loop, or past it, that have left the
\* same number of barriers as one another are at the same level.
LEMMA SameLevel ==
    ASSUME IInv, NEW t \in Thread, NEW u \in Thread,
           pc[t] \in {"tree", "store"}, pc[u] # "wait"
    PROVE  /\ barriers[t] = barriers[u]
           /\ offset[t] = offset[u]
           /\ pc[u] # "grid"
<1>1. Left(t) = barriers[t] /\ Left(u) = barriers[u]
  BY DEF IInv, Left
<1>2. barriers[t] <= barriers[u] /\ barriers[u] <= barriers[t]
  BY <1>1 DEF IInv, BarrierInv
<1>3. barriers[t] = barriers[u]
  BY <1>2 DEF IInv, TypeOK
<1>4. barriers[t] > 0
  BY DEF IInv, PcInv, PcOk
<1> QED
  BY <1>1, <1>3, <1>4 DEF IInv, TypeOK, BarrierInv, PcInv, PcOk

\* No data race on local memory: two work-items are never about to access the
\* same cell of scratch with one of them writing it.
THEOREM RaceFree == Spec => []NoScratchRace
<1>1. ASSUME IInv PROVE NoScratchRace
  <2> SUFFICES ASSUME NEW t \in Thread, NEW u \in Thread, t # u,
                      NEW c \in Writes(t), c \in Reads(u) \cup Writes(u)
               PROVE  FALSE
    BY DEF NoScratchRace
  <2>1. c = t /\ (pc[t] = "store" \/ pc[t] = "grid")
    BY DEF Writes
  <2>2. c \notin Writes(u)
    BY <2>1 DEF Writes
  <2>3. c \in Reads(u) /\ pc[u] = "tree"
    BY <2>2 DEF Reads
  <2>4. /\ pc[t] = "store"
        /\ offset[t] = offset[u]
    BY <1>1, <2>1, <2>3, SameLevel
  <2>5. t < offset[t]
    BY <1>1, <2>4 DEF IInv, PcInv, PcOk
  <2>6. t = u + offset[u]
    BY <2>1, <2>3 DEF Reads
  <2> QED
    BY <1>1, <2>4, <2>5, <2>6 DEF IInv, TypeOK, Thread
<1> QED
  BY <1>1, Invariance, PTL

\* A work-item that reads another's cell of scratch finds there what the level
\* before left: its owner has reached the same barrier and is not storing.
THEOREM LevelsInStep == Spec => []ReadsAreOfThisLevel
<1>1. ASSUME IInv PROVE ReadsAreOfThisLevel
  <2> SUFFICES ASSUME NEW t \in Thread, NEW c \in Reads(t) \ {t}
               PROVE  barriers[c] >= barriers[t] /\ pc[c] \notin {"store", "grid"}
    BY DEF ReadsAreOfThisLevel
  <2>1. /\ pc[t] = "tree" /\ c \in Thread
        /\ t < offset[t] /\ c = t + offset[t]
    BY DEF Reads
  <2>2. barriers[c] >= barriers[t]
    BY <1>1, <2>1 DEF IInv, TypeOK, BarrierInv, Left
  <2>3. pc[c] # "grid"
    BY <1>1, <2>1, SameLevel
  <2>4. pc[c] # "store"
    BY <1>1, <2>1, SameLevel DEF IInv, TypeOK, PcInv, PcOk, Thread
  <2> QED
    BY <2>2, <2>3, <2>4
<1> QED
  BY <1>1, Invariance, PTL

\* Every work-item of a group executes the same barriers: none returns while
\* another has gone, or goes, to a barrier more than it did.
THEOREM Converge == Spec => []BarriersConverge
<1>1. ASSUME IInv PROVE BarriersConverge
  <2> SUFFICES ASSUME NEW t \in Thread, NEW u \in Thread, pc[t] = "done"
               PROVE  barriers[u] <= barriers[t]
    BY DEF BarriersConverge
  <2>1. Left(t) = barriers[t] /\ offset[t] = 0
    BY <1>1 DEF IInv, PcInv, PcOk, Left
  <2>2. Left(u) <= barriers[t] /\ barriers[t] <= barriers[u]
    BY <1>1, <2>1 DEF IInv, BarrierInv
  <2>3. CASE pc[u] # "wait"
    BY <2>2, <2>3 DEF Left
  <2>4. CASE pc[u] = "wait"
    <3>1. Left(u) = barriers[u] - 1 /\ offset[u] # 0
      BY <1>1, <2>4 DEF IInv, TypeOK, PcInv, PcOk, Left
    <3>2. Left(u) # Left(t)
      BY <1>1, <2>1, <3>1 DEF IInv, BarrierInv
    <3> QED
      BY <1>1, <2>1, <2>2, <3>1, <3>2 DEF IInv, TypeOK
  <2> QED
    BY <2>3, <2>4
<1> QED
  BY <1>1, Invariance, PTL

-------------------------------------------------------------------------------
(***************************************************************************)
(* The kernel computes the reduction of exactly its group's share of the   *)
(* input, for every power of two of work-items, every number of groups and *)
(* every size of the input, and a group implements the one step of         *)
(* GroupReduction.                                                         *)
(***************************************************************************)

\* The part of the group's share that the tree has gathered in cell i when it
\* is o cells wide.
Node(o, i) == Congruent(GroupShare, o, i)

\* The width of the tree before the level a work-item is at.
Before(o) == IF o = 0 THEN 1 ELSE 2 * o

\* The widths of the tree: LocalSz halved without remainder, down to 1 and 0.
OffsetInv ==
    \A t \in Thread :
        offset[t] = 0 \/ \E q \in 1 .. LocalSz : LocalSz = offset[t] * q

\* The grid loop: val holds the work-item's part of the share below k.
GridInv ==
    \A t \in Thread :
        pc[t] = "grid" =>
            /\ k[t] % (2 * LocalSz) = t
            /\ (k[t] \div (2 * LocalSz)) % launch.groups = launch.group
            /\ val[t] = Exactly({x \in Node(LocalSz, t) : x < k[t]})

\* The level of the tree that the cell of work-item i holds.
Level(i) ==
    IF pc[i] \in {"arrive", "wait"} /\ i < offset[i]
    THEN offset[i] ELSE Before(offset[i])

\* The tree loop: every cell that is still in the tree holds its node.
TreeInv ==
    \A i \in Thread :
        /\ pc[i] # "grid" /\ i < Level(i)
               => scratch[i] = Exactly(Node(Level(i), i))
        /\ pc[i] = "store" => val[i] = Exactly(Node(offset[i], i))

\* Work-item 0 writes the result, and it does so once.
ResultInv ==
    /\ lhs \in {Garbage, Exactly(GroupShare)}
    /\ pc[0] \notin {"return", "done"} => lhs = Garbage

ExactInv == OffsetInv /\ GridInv /\ TreeInv /\ ResultInv

-------------------------------------------------------------------------------
\* Two cells that are half the tree apart make one cell of the next level, and
\* nothing is counted twice.
LEMMA EvalNodes ==
    ASSUME launch \in Launches, NEW h \in Nat \ {0}, NEW i \in 0 .. h - 1
    PROVE  Eval(Exactly(Node(2 * h, i)), Exactly(Node(2 * h, i + h)))
               = Exactly(Node(h, i))
<1>1. GroupShare \subseteq Nat
  BY LaunchType DEF GroupShare, Share
<1>2. Node(2 * h, i) \cup Node(2 * h, i + h) = Node(h, i)
  BY <1>1, CongruentHalves DEF Node
<1>3. Node(2 * h, i) \cap Node(2 * h, i + h) = {}
  BY DEF Node, Congruent
<1> QED
  BY <1>2, <1>3 DEF Eval, Exactly

\* One trip of the grid loop adds the one or two elements it reads.
LEMMA EvalTrip ==
    ASSUME launch \in Launches, NEW t \in Thread, NEW y \in Nat,
           y % (2 * LocalSz) = t,
           (y \div (2 * LocalSz)) % launch.groups = launch.group,
           y < launch.size
    PROVE  LET below(z) == {x \in Node(LocalSz, t) : x < z}
               one == Eval(Exactly(below(y)), Element(y))
           IN Exactly(below(y + 2 * GlobalNum)) =
                IF y + LocalSz < launch.size
                THEN Eval(one, Element(y + LocalSz)) ELSE one
<1> DEFINE l == LocalSz
           g == launch.groups
           n == launch.size
           S == Lane(n, l, g, launch.group, t)
           w == y + 2 * GlobalNum
           v == y + l
           below(z) == {x \in S : x < z}
<1>1. /\ l \in Nat \ {0} /\ g \in Nat \ {0} /\ n \in Nat
      /\ t \in 0 .. l - 1 /\ y \in 0 .. n - 1
      /\ y % (2 * l) = t /\ (y \div (2 * l)) % g = launch.group
      /\ w = y + 2 * (g * l)
  BY LaunchType, LocalSzAssumption DEF Thread, GlobalNum
<1>2. Node(LocalSz, t) = S
  BY DEF Lane, Node, Congruent, GroupShare, Share
<1>3. /\ y \in S
      /\ (v < n) => v \in S
      /\ \A x \in S :
            /\ x \in Nat /\ x < n
            /\ (x < w) <=> (x < y \/ x = y \/ x = v)
  <2> HIDE DEF l, g, n, w
  <2> QED
    BY <1>1, TripSet
<1>4. y \in Nat /\ v \in Nat /\ y < v
  BY <1>1
<1> HIDE DEF S, w, v, n, g, l
<1>5. y \notin below(y) /\ v \notin below(y) \cup {y}
  BY <1>4
<1>6. CASE v < n
  <2>1. below(w) = (below(y) \cup {y}) \cup {v}
    BY <1>3, <1>6
  <2> QED
    BY <1>2, <1>5, <1>6, <2>1 DEF Eval, Element, Exactly, w, v, n, l
<1>7. CASE ~(v < n)
  <2>1. below(w) = below(y) \cup {y}
    BY <1>3, <1>7
  <2> QED
    BY <1>2, <1>5, <1>7, <2>1 DEF Eval, Element, Exactly, w, v, n, l
<1> QED
  BY <1>6, <1>7

\* A work-item's part of the share is a lane of the input.
LEMMA NodeIsLane ==
    ASSUME NEW t \in Thread
    PROVE  Node(LocalSz, t) =
               Lane(launch.size, LocalSz, launch.groups, launch.group, t)
BY DEF Lane, Node, Congruent, GroupShare, Share

LEMMA InitExactInv == Init => ExactInv
<1> SUFFICES ASSUME Init PROVE ExactInv
  OBVIOUS
<1> USE LocalSzAssumption
<1>1. OffsetInv
  <2>1. 1 \in 1 .. LocalSz /\ LocalSz = LocalSz * 1
    OBVIOUS
  <2> QED
    BY <2>1 DEF Init, OffsetInv
<1>2. GridInv
  <2> SUFFICES ASSUME NEW t \in Thread
               PROVE  /\ k[t] % (2 * LocalSz) = t
                      /\ (k[t] \div (2 * LocalSz)) % launch.groups = launch.group
                      /\ val[t] = Exactly({x \in Node(LocalSz, t) : x < k[t]})
    BY DEF GridInv
  <2> DEFINE g == launch.groups
             c == launch.group
             n == launch.size
             y == k[t]
  <2>1. launch \in Launches
    BY DEF Init
  <2>2. /\ g \in Nat \ {0} /\ n \in Nat /\ c \in 0 .. g - 1
        /\ t \in 0 .. LocalSz - 1
    BY <2>1, LaunchType, LaunchesAssumption DEF Thread
  <2>3. y \in Nat /\ y = 2 * c * LocalSz + t
    BY <2>1, LaunchType DEF Init, FirstIndex
  <2>4. val[t] = Neutral
    BY DEF Init
  <2> HIDE DEF g, c, n, y
  <2>5. /\ y % (2 * LocalSz) = t
        /\ (y \div (2 * LocalSz)) % g = c
        /\ \A x \in Lane(n, LocalSz, g, c, t) : x >= y
    BY <2>2, <2>3, FirstTrip
  <2>6. {x \in Lane(n, LocalSz, g, c, t) : x < y} = {}
    <3>1. \A x \in Lane(n, LocalSz, g, c, t) : x \in Nat
      BY <2>2 DEF Lane
    <3> QED
      BY <2>3, <2>5, <3>1
  <2>7. {x \in Node(LocalSz, t) : x < y} = {}
    BY <2>6, NodeIsLane DEF g, c, n
  <2> QED
    BY <2>4, <2>5, <2>7 DEF Neutral, Exactly, g, c, y
<1>3. TreeInv
  BY DEF Init, TreeInv
<1>4. ResultInv
  BY DEF Init, ResultInv
<1> QED
  BY <1>1, <1>2, <1>3, <1>4 DEF ExactInv

-------------------------------------------------------------------------------
\* Halving an offset loses nothing as long as it is above one.
LEMMA HalvesExactly ==
    ASSUME LocalSzIsPowerOfTwo, NEW o \in 1 .. LocalSz,
           NEW q \in 1 .. LocalSz, LocalSz = o * q
    PROVE  /\ o > 1 => o = 2 * (o \div 2) /\ o \div 2 > 0
           /\ o = 1 => o \div 2 = 0
           /\ Before(o \div 2) = o
           /\ \/ o \div 2 = 0
              \/ \E p \in 1 .. LocalSz : LocalSz = (o \div 2) * p
<1> USE LocalSzAssumption
<1>1. CASE o = 1
  BY <1>1 DEF Before
<1>2. CASE o > 1
  <2> DEFINE h == o \div 2
  <2>1. o % 2 = 0
    <3>1. o \in 2 .. LocalSz
      BY <1>2
    <3> QED
      BY <3>1 DEF LocalSzIsPowerOfTwo
  <2>2. o = 2 * h /\ h \in Nat /\ h > 0
    BY <1>2, <2>1
  <2> HIDE DEF h
  <2>3. LocalSz = h * (2 * q)
    BY <2>2
  <2>4. 2 * q \in 1 .. LocalSz
    <3>1. (2 * q) * 1 <= (2 * q) * h
      BY <2>2, MulMonotone
    <3> QED
      BY <2>2, <2>3, <3>1
  <2>5. Before(h) = o
    BY <2>2 DEF Before
  <2>6. \E p \in 1 .. LocalSz : LocalSz = h * p
    BY <2>3, <2>4
  <2>7. o # 1
    BY <1>2
  <2> QED
    BY <2>2, <2>5, <2>6, <2>7 DEF h
<1> QED
  BY <1>1, <1>2

LEMMA NextOffsetInv ==
    ASSUME LocalSzIsPowerOfTwo, IInv, OffsetInv, [Next]_vars
    PROVE  OffsetInv'
<1> USE LocalSzAssumption
<1>1. ASSUME NEW t \in Thread, Leave(t) PROVE OffsetInv'
  <2>1. offset[t] \in 1 .. LocalSz
    BY <1>1 DEF Leave, IInv, TypeOK, PcInv, PcOk
  <2>2. PICK q \in 1 .. LocalSz : LocalSz = offset[t] * q
    BY <2>1 DEF OffsetInv
  <2> DEFINE o == offset[t]
  <2>3. o \div 2 = 0 \/ \E p \in 1 .. LocalSz : LocalSz = (o \div 2) * p
    <3> HIDE DEF o
    <3> QED
      BY <2>1, <2>2, HalvesExactly DEF o
  <2>4. offset' = [offset EXCEPT ![t] = o \div 2]
    BY <1>1 DEF Leave
  <2> HIDE DEF o
  <2> QED
    BY <2>3, <2>4 DEF OffsetInv, IInv, TypeOK
<1>2. ASSUME UNCHANGED offset PROVE OffsetInv'
  BY <1>2 DEF OffsetInv
<1>3. UNCHANGED offset \/ \E t \in Thread : Leave(t)
  BY DEF Next, Step, Finished, vars, GridStep, PutScratch, Arrive, LoadPair,
         StoreSum, WriteBack, Return
<1> QED
  BY <1>1, <1>2, <1>3

LEMMA NextGridInv ==
    ASSUME IInv, GridInv, [Next]_vars
    PROVE  GridInv'
<1> USE LocalSzAssumption
<1> SUFFICES ASSUME NEW u \in Thread, pc'[u] = "grid"
             PROVE  /\ k'[u] % (2 * LocalSz) = u
                    /\ (k'[u] \div (2 * LocalSz)) % launch'.groups = launch'.group
                    /\ val'[u] = Exactly({x \in Node(LocalSz, u)' : x < k'[u]})
  BY DEF GridInv
<1>1. pc[u] = "grid" /\ launch' = launch /\ launch \in Launches
  BY DEF Next, Step, Finished, vars, GridStep, PutScratch, Arrive, Leave,
         LoadPair, StoreSum, WriteBack, Return, Goto, IInv, TypeOK
<1>2. /\ k[u] % (2 * LocalSz) = u
      /\ (k[u] \div (2 * LocalSz)) % launch.groups = launch.group
      /\ val[u] = Exactly({x \in Node(LocalSz, u) : x < k[u]})
  BY <1>1 DEF GridInv
<1>3. Node(LocalSz, u)' = Node(LocalSz, u)
  BY <1>1 DEF Node, GroupShare
<1>4. CASE GridStep(u)
  <2> DEFINE y == k[u]
             L == LocalSz
             g == launch.groups
             c == launch.group
  <2>1. /\ y \in Nat /\ g \in Nat \ {0} /\ L \in Nat \ {0}
        /\ GlobalNum = g * L /\ y < launch.size
        /\ 2 * L \in Nat \ {0}
    BY <1>1, <1>4, LaunchType DEF GridStep, IInv, TypeOK, GlobalNum
  <2>2. k'[u] = y + 2 * GlobalNum
    BY <1>4 DEF GridStep, IInv, TypeOK
  <2>3. k'[u] = y + (2 * L) * g
    BY <2>1, <2>2
  <2>4. k'[u] % (2 * L) = u /\ k'[u] \div (2 * L) = (y \div (2 * L)) + g
    <3> HIDE DEF y, L
    <3> DEFINE b == 2 * L
    <3>1. y % b = u
      BY <1>2 DEF y, L
    <3>2. b \in Nat \ {0} /\ k'[u] = y + b * g /\ g \in Nat /\ y \in Nat
      BY <2>1, <2>3
    <3> HIDE DEF b, g
    <3>3. (y + b * g) % b = y % b /\ (y + b * g) \div b = (y \div b) + g
      BY <3>2, ModAdd
    <3>4. k'[u] % b = u /\ k'[u] \div b = (y \div b) + g
      BY <3>1, <3>2, <3>3
    <3> QED
      BY <3>4 DEF b
  <2>5. (k'[u] \div (2 * L)) % g = c
    <3> DEFINE m == y \div (2 * L)
    <3>1. m \in Nat
      BY <2>1, DivMod
    <3>2. m % g = c
      BY <1>2
    <3>3. k'[u] \div (2 * L) = m + g * 1
      BY <2>1, <2>4
    <3> HIDE DEF m
    <3>4. (m + g * 1) % g = m % g
      BY <2>1, <3>1, ModAdd
    <3> QED
      BY <3>2, <3>3, <3>4
  <2>6. val'[u] = Exactly({x \in Node(LocalSz, u) : x < k'[u]})
    <3> DEFINE S == {x \in Node(LocalSz, u) : x < y}
               one == Eval(Exactly(S), Element(y))
    <3>1. val'[u] = IF y + LocalSz < launch.size
                    THEN Eval(one, Element(y + LocalSz)) ELSE one
      BY <1>2, <1>4 DEF GridStep, IInv, TypeOK
    <3>2. Exactly({x \in Node(LocalSz, u) : x < y + 2 * GlobalNum}) =
              IF y + LocalSz < launch.size
              THEN Eval(one, Element(y + LocalSz)) ELSE one
      <4> HIDE DEF y
      <4>1. y % (2 * LocalSz) = u
            /\ (y \div (2 * LocalSz)) % launch.groups = launch.group
        BY <1>2 DEF y
      <4> QED
        BY <1>1, <2>1, <4>1, EvalTrip
    <3> QED
      BY <2>2, <3>1, <3>2
  <2> QED
    BY <1>1, <1>3, <2>4, <2>5, <2>6
<1>5. CASE ~GridStep(u)
  <2>1. k'[u] = k[u] /\ val'[u] = val[u]
    BY <1>1, <1>5
       DEF Next, Step, Finished, vars, GridStep, PutScratch, Arrive, Leave,
           LoadPair, StoreSum, WriteBack, Return, Goto, IInv, TypeOK
  <2> QED
    BY <1>1, <1>2, <1>3, <2>1
<1> QED
  BY <1>4, <1>5

-------------------------------------------------------------------------------
\* The steps leave the launch alone, so a node stays what it is.
LEMMA NodeFixed ==
    ASSUME [Next]_vars
    PROVE  /\ launch' = launch
           /\ GroupShare' = GroupShare
           /\ \A o, i : Node(o, i)' = Node(o, i)
BY DEF Next, Step, Finished, vars, GridStep, PutScratch, Arrive, Leave,
       LoadPair, StoreSum, WriteBack, Return, Node, GroupShare

\* What a work-item finds in the two cells of one level of the tree.
LEMMA OperandsInPlace ==
    ASSUME LocalSzIsPowerOfTwo, IInv, OffsetInv, TreeInv,
           NEW t \in Thread, LoadPair(t)
    PROVE  LET o == offset[t]
           IN /\ o \in Nat \ {0} /\ t \in 0 .. o - 1
              /\ scratch[t] = Exactly(Node(2 * o, t))
              /\ scratch[t + o] = Exactly(Node(2 * o, t + o))
<1> USE LocalSzAssumption
<1> DEFINE o == offset[t]
           c == t + o
<1>1. /\ pc[t] = "tree" /\ o \in Nat \ {0} /\ t \in 0 .. o - 1
      /\ 2 * o <= LocalSz /\ c \in Thread /\ c >= o /\ c < 2 * o
  <2>1. pc[t] = "tree" /\ t < o /\ t \in 0 .. LocalSz - 1
    BY DEF LoadPair, Thread
  <2>2. o \in 0 .. LocalSz /\ 2 * o <= LocalSz
    BY <2>1 DEF IInv, TypeOK, PcInv, PcOk
  <2> HIDE DEF o
  <2> QED
    BY <2>1, <2>2 DEF Thread
<1>2. scratch[t] = Exactly(Node(2 * o, t))
  <2>1. Level(t) = 2 * o /\ t < 2 * o
    BY <1>1 DEF Level, Before
  <2> QED
    BY <1>1, <2>1 DEF TreeInv
<1>3. Level(c) = 2 * o /\ pc[c] # "grid"
  <2>1. CASE pc[c] # "wait"
    <3>1. offset[c] = o /\ pc[c] # "grid"
      BY <1>1, <2>1, SameLevel
    <3>2. pc[c] # "arrive"
      BY <1>1, <3>1 DEF IInv, PcInv, PcOk
    <3> QED
      BY <1>1, <2>1, <3>1, <3>2 DEF Level, Before
  <2>2. CASE pc[c] = "wait"
    <3>1. /\ Left(t) = barriers[t] /\ Left(c) = barriers[c] - 1
          /\ barriers[t] <= barriers[c] /\ Left(c) <= barriers[t]
          /\ barriers[t] \in Nat /\ barriers[c] \in Nat
      BY <1>1, <2>2 DEF IInv, TypeOK, BarrierInv, Left
    <3>2. CASE Left(c) = Left(t)
      <4>1. offset[c] = o
        BY <1>1, <3>2 DEF IInv, BarrierInv
      <4> QED
        BY <1>1, <2>2, <4>1 DEF Level, Before
    <3>3. CASE Left(t) = Left(c) + 1
      <4>1. o = offset[c] \div 2 /\ offset[c] \in 1 .. LocalSz
        BY <1>1, <2>2, <3>3 DEF IInv, TypeOK, BarrierInv, PcInv, PcOk
      <4>2. offset[c] # 1
        BY <1>1, <4>1
      <4>3. PICK q \in 1 .. LocalSz : LocalSz = offset[c] * q
        BY <1>1, <4>1 DEF OffsetInv
      <4>4. offset[c] = 2 * o
        <5> DEFINE p == offset[c]
        <5>1. p \in 1 .. LocalSz /\ p > 1 /\ LocalSz = p * q /\ o = p \div 2
          BY <4>1, <4>2, <4>3
        <5> HIDE DEF p, o
        <5>2. p = 2 * (p \div 2)
          BY <5>1, HalvesExactly
        <5> QED
          BY <5>1, <5>2 DEF p
      <4> QED
        BY <1>1, <2>2, <4>4 DEF Level
    <3> QED
      BY <3>1, <3>2, <3>3
  <2> QED
    BY <2>1, <2>2
<1>4. scratch[c] = Exactly(Node(2 * o, c))
  BY <1>1, <1>3 DEF TreeInv
<1> QED
  BY <1>1, <1>2, <1>4

\* Being in the tree, for one cell.
CellOk(i) ==
    /\ pc[i] # "grid" /\ i < Level(i) => scratch[i] = Exactly(Node(Level(i), i))
    /\ pc[i] = "store" => val[i] = Exactly(Node(offset[i], i))

\* A step in which a work-item's own variables and its cell stay as they are.
LEMMA CellFrame ==
    ASSUME [Next]_vars, NEW i \in Thread, CellOk(i),
           pc'[i] = pc[i], offset'[i] = offset[i], scratch'[i] = scratch[i],
           val'[i] = val[i]
    PROVE  CellOk(i)'
<1>1. Level(i)' = Level(i)
  BY DEF Level
<1>2. \A o : Node(o, i)' = Node(o, i)
  BY NodeFixed
<1> QED
  BY <1>1, <1>2 DEF CellOk

LEMMA NextTreeInv ==
    ASSUME LocalSzIsPowerOfTwo, IInv, OffsetInv, GridInv, TreeInv, [Next]_vars
    PROVE  TreeInv'
<1> USE LocalSzAssumption
<1> SUFFICES ASSUME NEW i \in Thread PROVE CellOk(i)'
  BY DEF TreeInv, CellOk
<1>0. CellOk(i) /\ TypeOK /\ PcOk(i) /\ i \in 0 .. LocalSz - 1
  BY DEF TreeInv, CellOk, IInv, PcInv, Thread
<1>1. CASE GridStep(i)
  BY <1>0, <1>1 DEF GridStep, TypeOK, CellOk, Level
<1>2. CASE PutScratch(i)
  <2>1. val[i] = Exactly({x \in Node(LocalSz, i) : x < k[i]}) /\ k[i] >= launch.size
    BY <1>2 DEF PutScratch, GridInv
  <2>2. {x \in Node(LocalSz, i) : x < k[i]} = Node(LocalSz, i)
    <3>1. launch.size \in Nat /\ k[i] \in Nat
      BY <1>0, LaunchType DEF TypeOK
    <3>2. \A x \in Node(LocalSz, i) : x \in 0 .. launch.size - 1
      BY DEF Node, Congruent, GroupShare, Share
    <3> QED
      BY <2>1, <3>1, <3>2
  <2>3. /\ scratch'[i] = Exactly(Node(LocalSz, i)) /\ pc'[i] = "arrive"
        /\ offset'[i] = LocalSz
    BY <1>0, <1>2, <2>1, <2>2 DEF PutScratch, Goto, TypeOK, PcOk
  <2>4. Level(i)' = LocalSz
    BY <1>0, <2>3 DEF Level
  <2>5. Node(LocalSz, i)' = Node(LocalSz, i)
    BY NodeFixed
  <2> QED
    BY <2>3, <2>4, <2>5 DEF CellOk
<1>3. CASE Arrive(i)
  <2>1. /\ pc'[i] = "wait" /\ offset' = offset /\ scratch' = scratch
        /\ \/ pc[i] = "arrive" /\ i < offset[i]
           \/ pc[i] = "tree" /\ ~(i < offset[i])
    BY <1>0, <1>3 DEF Arrive, Goto, TypeOK, PcOk
  <2>2. Level(i)' = Level(i)
    BY <2>1 DEF Level
  <2>3. Node(Level(i), i)' = Node(Level(i), i)
    BY <2>2, NodeFixed
  <2> QED
    BY <1>0, <2>1, <2>2, <2>3 DEF CellOk
<1>4. CASE Leave(i)
  <2>0. PICK o \in 1 .. LocalSz : o = offset[i]
    BY <1>0, <1>4 DEF Leave, TypeOK, PcOk
  <2>1. /\ pc[i] = "wait"
        /\ pc'[i] = "tree" /\ offset'[i] = o \div 2 /\ scratch' = scratch
    BY <1>0, <1>4, <2>0 DEF Leave, Goto, TypeOK
  <2>2. PICK q \in 1 .. LocalSz : LocalSz = o * q
    BY <2>0 DEF OffsetInv
  <2>3. Before(o \div 2) = o
    BY <2>2, HalvesExactly
  <2>4. Level(i)' = o
    BY <2>1, <2>3 DEF Level, Before
  <2>5. i < o => scratch[i] = Exactly(Node(o, i))
    BY <1>0, <2>0, <2>1 DEF CellOk, Level
  <2>6. Node(o, i)' = Node(o, i)
    BY NodeFixed
  <2> QED
    BY <2>1, <2>4, <2>5, <2>6 DEF CellOk
<1>5. CASE LoadPair(i)
  <2> DEFINE o == offset[i]
  <2>1. /\ o \in Nat \ {0} /\ i \in 0 .. o - 1
        /\ scratch[i] = Exactly(Node(2 * o, i))
        /\ scratch[i + o] = Exactly(Node(2 * o, i + o))
    BY <1>5, OperandsInPlace
  <2>2. Eval(scratch[i], scratch[i + o]) = Exactly(Node(o, i))
    <3> HIDE DEF o
    <3> QED
      BY <1>0, <2>1, EvalNodes DEF TypeOK
  <2>3. /\ val'[i] = Exactly(Node(o, i)) /\ pc'[i] = "store" /\ pc[i] = "tree"
        /\ offset' = offset /\ scratch' = scratch
    BY <1>0, <1>5, <2>2 DEF LoadPair, Goto, TypeOK
  <2>4. Level(i)' = Level(i)
    BY <2>3 DEF Level
  <2>5. \A p : Node(p, i)' = Node(p, i)
    BY NodeFixed
  <2> QED
    BY <1>0, <2>3, <2>4, <2>5 DEF CellOk
<1>6. CASE StoreSum(i)
  <2>1. /\ scratch'[i] = Exactly(Node(offset[i], i)) /\ pc'[i] = "arrive"
        /\ offset' = offset /\ i < offset[i]
    BY <1>0, <1>6 DEF StoreSum, Goto, TypeOK, PcOk, CellOk
  <2>2. Level(i)' = offset[i]
    BY <2>1 DEF Level
  <2>3. Node(offset[i], i)' = Node(offset[i], i)
    BY <2>1, NodeFixed
  <2> QED
    BY <2>1, <2>2, <2>3 DEF CellOk
<1>7. CASE WriteBack(i) \/ Return(i)
  <2>1. /\ pc'[i] \in {"return", "done"} /\ pc[i] \in {"tree", "return"}
        /\ offset' = offset /\ scratch' = scratch
    BY <1>0, <1>7 DEF WriteBack, Return, Goto, TypeOK
  <2>2. Level(i)' = Level(i)
    BY <2>1 DEF Level
  <2>3. Node(Level(i), i)' = Node(Level(i), i)
    BY <2>2, NodeFixed
  <2> QED
    BY <1>0, <2>1, <2>2, <2>3 DEF CellOk
<1>8. ASSUME NEW t \in Thread, t # i, Step(t) PROVE CellOk(i)'
  <2>1. /\ pc'[i] = pc[i] /\ offset'[i] = offset[i]
        /\ scratch'[i] = scratch[i] /\ val'[i] = val[i]
    BY <1>0, <1>8 DEF Step, GridStep, PutScratch, Arrive, Leave, LoadPair,
                      StoreSum, WriteBack, Return, Goto, TypeOK
  <2> QED
    BY <1>0, <2>1, CellFrame
<1>9. CASE UNCHANGED vars
  BY <1>0, <1>9, CellFrame DEF vars
<1> QED
  BY <1>1, <1>2, <1>3, <1>4, <1>5, <1>6, <1>7, <1>8, <1>9
     DEF Next, Step, Finished

\* The root of the tree is the whole share.
LEMMA Root == launch \in Launches => Node(1, 0) = GroupShare
<1> SUFFICES ASSUME launch \in Launches PROVE Node(1, 0) = GroupShare
  OBVIOUS
<1>1. \A x \in GroupShare : x \in Nat
  BY LaunchType DEF GroupShare, Share
<1>2. \A x \in Nat : x % 1 = 0
  OBVIOUS
<1> QED
  BY <1>1, <1>2 DEF Node, Congruent

\* Work-item 0 writes the root of the tree, and only when nothing is written.
LEMMA WritesRoot ==
    ASSUME IInv, TreeInv, ResultInv, NEW t \in Thread, WriteBack(t)
    PROVE  lhs = Garbage /\ lhs' = Exactly(GroupShare)
<1>1. t = 0 /\ 0 \in Thread /\ pc[0] = "tree" /\ offset[0] = 0
  BY DEF WriteBack
<1>2. Level(0) = 1
  BY <1>1 DEF Level, Before
<1>3. scratch[0] = Exactly(Node(1, 0))
  BY <1>1, <1>2 DEF TreeInv
<1>4. scratch[0] = Exactly(GroupShare)
  BY <1>3, Root DEF IInv, TypeOK
<1> QED
  BY <1>1, <1>4 DEF WriteBack, ResultInv

\* Every other step leaves the result alone.
LEMMA KeepsResult ==
    ASSUME [Next]_vars, \A t \in Thread : ~WriteBack(t)
    PROVE  lhs' = lhs
BY DEF Next, Step, Finished, vars, GridStep, PutScratch, Arrive, Leave,
       LoadPair, StoreSum, Return

LEMMA NextResultInv ==
    ASSUME IInv, TreeInv, ResultInv, [Next]_vars
    PROVE  ResultInv'
<1> USE LocalSzAssumption
<1>0. 0 \in Thread /\ GroupShare' = GroupShare /\ pc \in [Thread -> Location]
  BY NodeFixed DEF Thread, IInv, TypeOK
<1>1. ASSUME NEW t \in Thread, WriteBack(t) PROVE ResultInv'
  <2>1. lhs' = Exactly(GroupShare) /\ pc'[0] = "return"
    BY <1>0, <1>1, WritesRoot DEF WriteBack, Goto
  <2> QED
    BY <1>0, <2>1 DEF ResultInv
<1>2. ASSUME \A t \in Thread : ~WriteBack(t) PROVE ResultInv'
  <2>1. lhs' = lhs
    BY <1>2, KeepsResult
  <2>2. pc'[0] \notin {"return", "done"} => pc[0] \notin {"return", "done"}
    BY <1>0 DEF Next, Step, Finished, vars, GridStep, PutScratch, Arrive,
                Leave, LoadPair, StoreSum, WriteBack, Return, Goto
  <2> QED
    BY <1>0, <2>1, <2>2 DEF ResultInv
<1> QED
  BY <1>1, <1>2

-------------------------------------------------------------------------------
\* The kernel on a power of two of work-items: the invariants of the grid loop,
\* of the tree and of the result hold of every launch.
THEOREM ExactInvariance == LocalSzIsPowerOfTwo => (Spec => []ExactInv)
<1> SUFFICES ASSUME LocalSzIsPowerOfTwo PROVE Spec => []ExactInv
  OBVIOUS
<1>1. Init => ExactInv
  BY InitExactInv
<1>2. ASSUME IInv, ExactInv, [Next]_vars PROVE ExactInv'
  BY <1>2, NextOffsetInv, NextGridInv, NextTreeInv, NextResultInv DEF ExactInv
<1> QED
  BY <1>1, <1>2, Invariance, PTL DEF Spec

\* AssignReduction::eval: on a power of two of work-items, whatever the number
\* of groups and the size of the input, a group's result is the reduction of
\* its share with every element counted once.
THEOREM ResultExact == LocalSzIsPowerOfTwo => (Spec => []GroupResultExact)
<1> SUFFICES ASSUME LocalSzIsPowerOfTwo PROVE Spec => []GroupResultExact
  OBVIOUS
<1>1. ExactInv => GroupResultExact
  BY DEF ExactInv, ResultInv, GroupResultExact
<1> QED
  BY <1>1, ExactInvariance, PTL

\* The abstract group speaks of the same values.
LEMMA SameGarbage == Group!Garbage = Garbage
BY DEF Group!Garbage, Group!Element, Group!GarbageId, Garbage, Element, GarbageId

LEMMA SameShare ==
    \A n, l, c, g :
        Group!Exactly(Group!Share(n, l, c, g)) = Exactly(Share(n, l, c, g))
BY DEF Group!Exactly, Group!Share, Exactly, Share

\* A group with all its interleavings of work-items implements the one step
\* that the executor's model takes for it: it writes its element of the output
\* once, whole, and with the right value.
THEOREM ImplementsGroup == LocalSzIsPowerOfTwo => (Spec => Group!Safety)
<1> SUFFICES ASSUME LocalSzIsPowerOfTwo PROVE Spec => Group!Safety
  OBVIOUS
<1> DEFINE abstract == [local |-> LocalSz, groups |-> launch.groups,
                        group |-> launch.group, size |-> launch.size]
<1>1. Init => Group!Init
  <2>1. Group!Garbage = Garbage
    BY SameGarbage
  <2> QED
    BY <2>1 DEF Init, Group!Init
<1>2. ASSUME IInv, ExactInv, [Next]_vars
      PROVE  [Group!Deliver]_<<abstract, lhs>>
  <2>1. launch' = launch
    BY <1>2, NodeFixed
  <2>2. ASSUME NEW t \in Thread, WriteBack(t) PROVE Group!Deliver
    <3>1. lhs = Garbage /\ lhs' = Exactly(GroupShare)
      BY <1>2, <2>2, WritesRoot DEF ExactInv
    <3> QED
      BY <2>1, <3>1, SameGarbage, SameShare DEF Group!Deliver, GroupShare
  <2>3. ASSUME \A t \in Thread : ~WriteBack(t) PROVE lhs' = lhs
    BY <1>2, <2>3, KeepsResult
  <2> QED
    BY <2>1, <2>2, <2>3
<1> QED
  BY <1>1, <1>2, Invariance, ExactInvariance, PTL DEF Spec, Group!Safety
================================================================================
