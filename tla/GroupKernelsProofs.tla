--------------------------- MODULE GroupKernelsProofs ---------------------------
(***************************************************************************)
(* Proofs about the kernels of GroupKernels, for every launch and every    *)
(* size of a work-group.                                                   *)
(*                                                                         *)
(* The kernels differ in what lies between two barriers, which is called a *)
(* phase here, and in the order of their phases.  That a barrier keeps the *)
(* items of a group together is the same argument for all of them:         *)
(* GridArithmetic gives it for any phases, and each kernel says here what  *)
(* its phases are and that no two items get into each other's way within   *)
(* one.                                                                    *)
(***************************************************************************)
EXTENDS GroupKernels, GridArithmetic, FiniteSetTheorems

-------------------------------------------------------------------------------
(***************************************************************************)
(* Gemv                                                                    *)
(***************************************************************************)

LEMMA GemvSizes ==
    ASSUME NEW l \in GemvLaunches
    PROVE  /\ l.kernel = "gemv" /\ l.localSz \in Nat \ {0} /\ l.clElems \in Nat \ {0}
           /\ l.lda \in Nat /\ l.group \in Nat
           /\ l.localSz % l.clElems = 0 \/ l.localSz < l.clElems
BY GroupKernelsAssumption
   DEF GroupKernelsAssumption, KernelsAssumption, Blas2Assumption, GroupSizes

\* The phases of a group with a transposed matrix are the load of x, then the
\* copy and the use of each tile; the last one has no barrier behind it.
GemvPhase ==
    [i \in G!Item |->
        IF ~launch.local THEN <<"row", 0>>
        ELSE IF pc[i] = "load" THEN <<"load", 0>>
        ELSE IF ~launch.trans THEN <<"dot", 0>>
        ELSE IF pc[i] = "mad" THEN <<"mad", pos[i]>>
        ELSE <<"tile", pos[i]>>]

GemvNext ==
    [p \in {"load", "tile", "mad"} \X Nat |->
        CASE p[1] = "load" -> IF launch.trans THEN <<"tile", 0>> ELSE <<"dot", 0>>
          [] p[1] = "tile" -> <<"mad", p[2]>>
          [] OTHER -> <<"tile", p[2] + 1>>]

GemvPlaces ==
    IF ~launch.local THEN {"row", "done"}
    ELSE IF ~launch.trans THEN {"load", "dot", "done"}
    ELSE {"load", "tile", "mad", "done"}

GemvInv ==
    /\ launch \in GemvLaunches
    /\ pc \in [G!Item -> GemvPlaces]
    /\ launch.local => pos \in [G!Item -> Nat]
    /\ \A i \in G!Item : pc[i] = "load" => pos[i] = 0
    /\ DOMAIN scratch = 0 .. G!KernelScratchSize - 1
    /\ InStep(G!Item, barriers, waiting, GemvPhase, GemvNext)

LEMMA GemvStart == G!Init => GemvInv
<1> SUFFICES ASSUME G!Init PROVE GemvInv
  OBVIOUS
<1>1. /\ launch \in GemvLaunches
      /\ pc = [i \in G!Item |-> IF launch.local THEN "load" ELSE "row"]
      /\ pos = [i \in G!Item |-> 0]
      /\ barriers = [i \in G!Item |-> 0] /\ waiting = [i \in G!Item |-> FALSE]
      /\ DOMAIN scratch = 0 .. G!KernelScratchSize - 1
  BY DEF G!Init, G!Start
<1>2. \A i, u \in G!Item : GemvPhase[i] = GemvPhase[u]
  BY <1>1 DEF GemvPhase
<1>3. InStep(G!Item, barriers, waiting, GemvPhase, GemvNext)
  BY <1>1, <1>2, StartsInStep
<1> QED
  BY <1>1, <1>3 DEF GemvInv, GemvPlaces

\* extract_input_block: where an item copies an element to, within the tile.
LEMMA TilePlace ==
    ASSUME NEW l \in Nat \ {0}, NEW c \in Nat \ {0}, l % c = 0,
           NEW i \in 0 .. l - 1, NEW t \in 0 .. c - 1
    PROVE  /\ i % c \in 0 .. c - 1
           /\ i \div c \in 0 .. (l \div c) - 1
           /\ (i \div c) + t * (l \div c) \in 0 .. l - 1
<1> DEFINE q == i \div c
           r == i % c
           d == l \div c
<1>1. q \in Nat /\ r \in 0 .. c - 1 /\ i = c * q + r
  <2>1. i \in Nat
    OBVIOUS
  <2> QED
    BY <2>1, DivMod
<1>2. d \in Nat \ {0} /\ l = c * d
  BY Divides
<1> HIDE DEF q, r, d
<1>3. q <= d - 1
  <2> SUFFICES ASSUME d <= q PROVE FALSE
    BY <1>1, <1>2
  <2>1. c * d <= c * q
    BY <1>1, <1>2, MulMonotone
  <2>2. c * d \in Nat /\ c * q \in Nat
    BY <1>1, <1>2
  <2> QED
    BY <1>1, <1>2, <2>1, <2>2
<1>4. t * d \in Nat /\ t * d + d <= l
  <2>1. d * (t + 1) <= d * c
    BY <1>2, MulMonotone
  <2>2. d * (t + 1) = t * d + d /\ d * c = c * d /\ t * d \in Nat
    BY <1>2
  <2> QED
    BY <1>2, <2>1, <2>2
<1>5. q + t * d \in 0 .. l - 1
  BY <1>1, <1>2, <1>3, <1>4
<1> QED
  BY <1>1, <1>2, <1>3, <1>5 DEF q, r, d

TileCell(l, c, i, t) == l + (l + 1) * (i % c) + ((i \div c) + t * (l \div c))

\* No item copies to a cell behind a tile with a word of padding to a column.
LEMMA TileInside ==
    ASSUME NEW l \in Nat \ {0}, NEW c \in Nat \ {0}, l % c = 0,
           NEW i \in 0 .. l - 1, NEW t \in 0 .. c - 1
    PROVE  TileCell(l, c, i, t) \in 0 .. (l + (c + 1) * l) - 1
<1> DEFINE r == i % c
           n == (i \div c) + t * (l \div c)
<1>1. r \in 0 .. c - 1 /\ n \in 0 .. l - 1
  BY TilePlace
<1>2. l + (l + 1) * r + n \in 0 .. (l + (c + 1) * l) - 1
  <2> HIDE DEF r, n
  <2>1. (l + 1) * r <= (l + 1) * (c - 1)
    BY <1>1, MulMonotone
  <2>2. (l + 1) * (c - 1) = (c + 1) * l - 2 * l + c - 1 /\ (c + 1) * l \in Nat
        /\ (l + 1) * r \in Nat
    BY <1>1
  <2>3. c <= l
    <3>1. l = c * (l \div c) /\ l \div c \in Nat \ {0}
      BY Divides
    <3>2. c * 1 <= c * (l \div c)
      BY <3>1, MulMonotone
    <3> QED
      BY <3>1, <3>2
  <2> QED
    BY <1>1, <2>1, <2>2, <2>3
<1> QED
  BY <1>2 DEF TileCell

\* No two items copy to the same cell.
LEMMA TileCells ==
    ASSUME NEW l \in Nat \ {0}, NEW c \in Nat \ {0}, l % c = 0,
           NEW i \in 0 .. l - 1, NEW t \in 0 .. c - 1,
           NEW u \in 0 .. l - 1, NEW v \in 0 .. c - 1,
           TileCell(l, c, i, t) = TileCell(l, c, u, v)
    PROVE  i = u
<1> DEFINE r(x) == x % c
           n(x, y) == (x \div c) + y * (l \div c)
<1>1. r(i) \in 0 .. c - 1 /\ n(i, t) \in 0 .. l - 1
  BY TilePlace
<1>2. r(u) \in 0 .. c - 1 /\ n(u, v) \in 0 .. l - 1
  BY TilePlace
<1>3. r(i) = r(u) /\ n(i, t) = n(u, v)
  <2>1. l + (l + 1) * r(i) + n(i, t) = l + (l + 1) * r(u) + n(u, v)
    BY DEF TileCell
  <2> DEFINE b == l + 1
             x == r(i)
             y == r(u)
             p == n(i, t)
             q == n(u, v)
  <2>2. /\ b \in Nat \ {0} /\ x \in Nat /\ y \in Nat
        /\ p \in 0 .. b - 1 /\ q \in 0 .. b - 1
    BY <1>1, <1>2
  <2>3. l + b * x + p = l + b * y + q
    BY <2>1
  <2> HIDE DEF b, x, y, p, q
  <2>4. b * x + p = b * y + q
    BY <2>2, <2>3
  <2>5. x = y /\ p = q
    BY <2>2, <2>4, OnePlace
  <2> QED
    BY <2>5 DEF x, y, p, q
<1>4. i \div c = u \div c
  <2> DEFINE d == l \div c
             p == i \div c
             q == u \div c
  <2>1. d \in Nat \ {0}
    BY Divides
  <2>2. p \in 0 .. d - 1 /\ q \in 0 .. d - 1
    BY TilePlace
  <2>3. p + t * d = q + v * d
    BY <1>3
  <2> HIDE DEF d, p, q
  <2>4. d * t + p = d * v + q
    <3>1. t * d = d * t /\ v * d = d * v /\ d * t \in Nat /\ d * v \in Nat
      BY <2>1
    <3> QED
      BY <2>2, <2>3, <3>1
  <2>5. p = q
    BY <2>1, <2>2, <2>4, OnePlace
  <2> QED
    BY <2>5 DEF p, q
<1>5. i = c * (i \div c) + (i % c) /\ u = c * (u \div c) + (u % c)
  <2>1. i \in Nat /\ u \in Nat
    OBVIOUS
  <2> QED
    BY <2>1, DivMod
<1> QED
  BY <1>3, <1>4, <1>5, Zenon

\* Local memory keeps its cells when some of them are written.
LEMMA SameCells ==
    ASSUME NEW f, NEW g, DOMAIN f \subseteq DOMAIN g
    PROVE  DOMAIN G!Over(f, g) = DOMAIN g
BY DEF G!Over

LEMMA ExtractedCells ==
    ASSUME GemvInv, NEW i \in G!Item, launch.local, launch.trans,
           0 < G!TileLoops
    PROVE  /\ DOMAIN G!Extracted(i) \subseteq DOMAIN scratch
           /\ \A u \in G!Item :
                 u # i => DOMAIN G!Extracted(i) \cap DOMAIN G!Extracted(u) = {}
<1> DEFINE l == launch.localSz
           c == launch.clElems
<1>1. l \in Nat \ {0} /\ c \in Nat \ {0} /\ (l % c = 0 \/ l < c)
  BY GemvSizes DEF GemvInv
<1>2. l % c = 0
  <2>1. l < c => l \div c = 0
    <3> HIDE DEF l, c
    <3> SUFFICES ASSUME l < c PROVE l \div c = 0
      OBVIOUS
    <3>1. l = c * 0 + l /\ l \in 0 .. c - 1
      BY <1>1
    <3> QED
      BY <1>1, <3>1, DivModUnique
  <2> QED
    BY <1>1, <2>1 DEF G!TileLoops
<1>3. ASSUME NEW x \in G!Item
      PROVE  DOMAIN G!Extracted(x) = {TileCell(l, c, x, t) : t \in 0 .. c - 1}
  BY DEF G!Extracted, G!MatrixScratch, G!Padded, G!TileC, G!TileNc, G!TileDimNc,
           TileCell
<1>4. DOMAIN scratch = 0 .. (l + (c + 1) * l) - 1
  BY DEF GemvInv, G!KernelScratchSize
<1>5. G!Item = 0 .. l - 1
  BY DEF G!Item
<1>6. ASSUME NEW x \in 0 .. l - 1, NEW t \in 0 .. c - 1
      PROVE  TileCell(l, c, x, t) \in 0 .. (l + (c + 1) * l) - 1
  <2> HIDE DEF l, c
  <2> QED
    BY <1>1, <1>2, TileInside
<1> HIDE DEF l, c
<1>7. DOMAIN G!Extracted(i) \subseteq DOMAIN scratch
  <2> SUFFICES ASSUME NEW a \in DOMAIN G!Extracted(i) PROVE a \in DOMAIN scratch
    OBVIOUS
  <2>1. PICK t \in 0 .. c - 1 : a = TileCell(l, c, i, t)
    BY <1>3
  <2> QED
    BY <1>4, <1>5, <1>6, <2>1
<1>8. ASSUME NEW u \in G!Item, u # i
      PROVE  DOMAIN G!Extracted(i) \cap DOMAIN G!Extracted(u) = {}
  <2> SUFFICES ASSUME NEW a \in DOMAIN G!Extracted(i), a \in DOMAIN G!Extracted(u)
               PROVE  FALSE
    OBVIOUS
  <2>1. PICK t \in 0 .. c - 1 : a = TileCell(l, c, i, t)
    BY <1>3
  <2>2. PICK v \in 0 .. c - 1 : a = TileCell(l, c, u, v)
    BY <1>3
  <2>3. i \in 0 .. l - 1 /\ u \in 0 .. l - 1
        /\ TileCell(l, c, i, t) = TileCell(l, c, u, v)
    BY <1>5, <2>1, <2>2
  <2>4. i = u
    BY <1>1, <1>2, <2>3, TileCells
  <2> QED
    BY <1>8, <2>4
<1> QED
  BY <1>7, <1>8

\* A work-item is free when the kernel lets it run.
LEMMA GemvFree ==
    ASSUME NEW i \in G!Item, G!Runs(i) PROVE Free(G!Item, barriers, waiting, i)
BY DEF G!Runs, Free

\* Gemv: no item fills a tile that another reads or fills.
LEMMA GemvRaceFree == GemvInv => G!NoLocalRace
<1> SUFFICES ASSUME GemvInv PROVE G!NoLocalRace
  OBVIOUS
<1>1. ASSUME NEW i \in G!Item, NEW u \in G!Item, i # u,
             NEW a \in G!Writes(i), a \in G!Reads(u) \cup G!Writes(u)
      PROVE  FALSE
  <2>1. G!Runs(i) /\ (\/ pc[i] = "load" /\ a = i
                      \/ /\ pc[i] = "tile" /\ pos[i] < G!TileLoops
                         /\ a \in DOMAIN G!Extracted(i))
    BY DEF G!Writes, G!At
  <2>2. G!Runs(u) /\ (\/ pc[u] = "load" /\ a = u
                      \/ /\ pc[u] = "tile" /\ pos[u] < G!TileLoops
                         /\ a \in DOMAIN G!Extracted(u)
                      \/ pc[u] \in {"dot", "mad"})
    BY <1>1 DEF G!Writes, G!Reads, G!At
  <2>3. GemvPhase[i] = GemvPhase[u]
    BY <2>1, <2>2, GemvFree, SamePhase DEF GemvInv
  <2>4. pc[i] \in GemvPlaces /\ pc[u] \in GemvPlaces
    BY DEF GemvInv
  <2>5. CASE pc[i] = "load"
    <3>1. pc[u] = "load"
      BY <2>1, <2>2, <2>3, <2>4, <2>5 DEF GemvPhase, GemvPlaces
    <3> QED
      BY <1>1, <2>1, <2>2, <2>5, <3>1
  <2>6. CASE pc[i] = "tile"
    <3>1. launch.local /\ launch.trans
      BY <2>4, <2>6 DEF GemvPlaces
    <3>2. pc[u] = "tile" /\ pos[u] = pos[i]
      BY <2>2, <2>3, <2>4, <2>6, <3>1 DEF GemvPhase, GemvPlaces
    <3>3. 0 < G!TileLoops
      <4>1. pos[i] \in Nat /\ pos[i] < G!TileLoops /\ G!TileLoops \in Int
        BY <2>1, <2>6, <3>1, GemvSizes DEF GemvInv, G!TileLoops
      <4> QED
        BY <4>1
    <3>4. a \in DOMAIN G!Extracted(i) /\ a \in DOMAIN G!Extracted(u)
      BY <2>1, <2>2, <2>6, <3>2
    <3> QED
      BY <1>1, <3>1, <3>3, <3>4, ExtractedCells
  <2> QED
    BY <2>1, <2>5, <2>6
<1> QED
  BY <1>1 DEF G!NoLocalRace, GemvInv

LEMMA GemvSame ==
    ASSUME launch' = launch
    PROVE  /\ G!Item' = G!Item /\ GemvPlaces' = GemvPlaces
           /\ GemvNext' = GemvNext
           /\ G!KernelScratchSize' = G!KernelScratchSize
BY DEF G!Item, GemvPlaces, GemvNext, G!KernelScratchSize

\* An item that reaches the barrier behind its phase, and will do l after it.
GemvArrival(i, l, p) ==
    /\ i \in G!Item /\ G!Runs(i) /\ launch' = launch /\ launch.local
    /\ pc[i] \in {"load", "tile", "mad"}
    /\ l \in GemvPlaces \ {"load", "row"} /\ pc' = [pc EXCEPT ![i] = l]
    /\ p \in Nat /\ pos' = [pos EXCEPT ![i] = p]
    /\ waiting' = [waiting EXCEPT ![i] = TRUE]
    /\ barriers' = [barriers EXCEPT ![i] = barriers[i] + 1]
    /\ DOMAIN scratch' = DOMAIN scratch
    /\ GemvNext[GemvPhase[i]] = IF launch.trans THEN <<l, p>> ELSE <<"dot", 0>>
    /\ launch.trans => l \in {"tile", "mad"}

LEMMA GemvArrives ==
    ASSUME GemvInv, NEW i, NEW l, NEW p, GemvArrival(i, l, p)
    PROVE  GemvInv'
<1> USE DEF GemvArrival
<1>1. /\ pc \in [G!Item -> GemvPlaces] /\ pos \in [G!Item -> Nat]
      /\ pc' \in [G!Item -> GemvPlaces] /\ pos' \in [G!Item -> Nat]
      /\ pc'[i] = l /\ pos'[i] = p
      /\ \A u \in G!Item \ {i} : pc'[u] = pc[u] /\ pos'[u] = pos[u]
  BY DEF GemvInv
<1>2. \A u \in G!Item : pc'[u] = "load" => pos'[u] = 0
  BY <1>1 DEF GemvInv
<1>3. GemvPhase[i] \in DOMAIN GemvNext
  <2>1. launch.trans \/ pc[i] = "load"
    BY <1>1 DEF GemvPlaces
  <2>2. GemvPhase[i] = <<"load", 0>> \/ GemvPhase[i] = <<"mad", pos[i]>>
        \/ GemvPhase[i] = <<"tile", pos[i]>>
    BY <2>1 DEF GemvPhase
  <2>3. pos[i] \in Nat
    BY <1>1
  <2> QED
    BY <2>2, <2>3 DEF GemvNext
<1>4. GemvPhase'[i] = GemvNext[GemvPhase[i]]
  BY <1>1, GemvSame DEF GemvPhase, GemvPlaces
<1>5. \A u \in G!Item \ {i} : GemvPhase'[u] = GemvPhase[u]
  BY <1>1, GemvSame DEF GemvPhase
<1>6. InStep(G!Item, barriers', waiting', GemvPhase', GemvNext)
  <2>1. InStep(G!Item, barriers, waiting, GemvPhase, GemvNext)
    BY DEF GemvInv
  <2>2. Arrival(G!Item, barriers, waiting, GemvPhase, GemvNext, i,
                barriers', waiting', GemvPhase')
    BY <1>3, <1>4, <1>5, <2>1, GemvFree DEF Arrival
  <2> QED
    BY <2>2, Arrives
<1> QED
  BY <1>1, <1>2, <1>6, GemvSame DEF GemvInv

\* An item that goes on within its phase.
LEMMA GemvGoesOn ==
    ASSUME GemvInv, NEW i \in G!Item, G!Runs(i), launch' = launch,
           pc' \in [G!Item -> GemvPlaces], DOMAIN scratch' = DOMAIN scratch,
           launch.local => pos' = pos,
           \A u \in G!Item : pc'[u] = "load" => pc[u] = "load" /\ pos'[u] = 0,
           waiting' = [waiting EXCEPT ![i] = FALSE], barriers' = barriers,
           \A u \in G!Item : GemvPhase'[u] = GemvPhase[u]
    PROVE  GemvInv'
<1>1. GemvPhase' = GemvPhase
  BY GemvSame DEF GemvPhase
<1>2. InStep(G!Item, barriers, waiting', GemvPhase, GemvNext)
  <2>1. InStep(G!Item, barriers, waiting, GemvPhase, GemvNext)
    BY DEF GemvInv
  <2> QED
    BY <2>1, GemvFree, GoesOn
<1> QED
  BY <1>1, <1>2, GemvSame DEF GemvInv

LEMMA GemvStep == ASSUME GemvInv, NEW i \in G!Item, G!Step(i) PROVE GemvInv'
<1>1. /\ pc \in [G!Item -> GemvPlaces] /\ pc[i] \in GemvPlaces
      /\ launch.local => pos \in [G!Item -> Nat] /\ pos[i] \in Nat
      /\ DOMAIN scratch = 0 .. G!KernelScratchSize - 1
      /\ launch.localSz \in Nat \ {0} /\ launch.clElems \in Nat \ {0}
  BY GemvSizes DEF GemvInv
<1>2. CASE G!LoadX(i)
  <2> DEFINE l == IF launch.trans THEN "tile" ELSE "dot"
             x == IF i + G!FirstC(launch.group) < G!CDim
                  THEN G!FromB(i + G!FirstC(launch.group)) ELSE G!Zero
  <2>1. /\ G!Runs(i) /\ pc[i] = "load" /\ launch' = launch
        /\ pc' = [pc EXCEPT ![i] = l] /\ pos' = pos
        /\ waiting' = [waiting EXCEPT ![i] = TRUE]
        /\ barriers' = [barriers EXCEPT ![i] = barriers[i] + 1]
        /\ scratch' = [scratch EXCEPT ![i] = x]
    BY <1>2 DEF G!LoadX, G!At, G!BarrierThen
  <2>2. launch.local
    BY <1>1, <2>1 DEF GemvPlaces
  <2>3. pos[i] = 0 /\ pos' = [pos EXCEPT ![i] = 0]
    BY <1>1, <2>1, <2>2 DEF GemvInv
  <2>4. DOMAIN scratch' = DOMAIN scratch
    BY <2>1
  <2>5. l \in GemvPlaces \ {"load", "row"}
    BY <2>2 DEF GemvPlaces
  <2>6. GemvNext[GemvPhase[i]] = IF launch.trans THEN <<l, 0>> ELSE <<"dot", 0>>
    BY <2>1, <2>2 DEF GemvNext, GemvPhase
  <2>7. launch.trans => l \in {"tile", "mad"}
    OBVIOUS
  <2> HIDE DEF l
  <2>8. GemvArrival(i, l, 0)
    BY <2>1, <2>2, <2>3, <2>4, <2>5, <2>6, <2>7 DEF GemvArrival
  <2> QED
    BY <2>8, GemvArrives
<1>3. CASE G!Dot(i)
  <2>1. /\ G!Runs(i) /\ pc[i] = "dot" /\ pc' = [pc EXCEPT ![i] = "done"]
        /\ waiting' = [waiting EXCEPT ![i] = FALSE]
        /\ launch' = launch /\ pos' = pos /\ barriers' = barriers /\ scratch' = scratch
    BY <1>3 DEF G!Dot, G!At, G!Goto
  <2>2. launch.local /\ ~launch.trans
    BY <1>1, <2>1 DEF GemvPlaces
  <2>3. pc' \in [G!Item -> GemvPlaces] /\ \A u \in G!Item : pc'[u] = pc[u] \/ u = i
    BY <1>1, <2>1, <2>2 DEF GemvPlaces
  <2>4. pc'[i] = "done"
    BY <1>1, <2>1
  <2>5. \A u \in G!Item : GemvPhase'[u] = GemvPhase[u]
    BY <2>1, <2>2, <2>3, <2>4, GemvSame DEF GemvPhase
  <2>6. \A u \in G!Item : pc'[u] = "load" => pc[u] = "load" /\ pos'[u] = 0
    BY <2>1, <2>3, <2>4 DEF GemvInv
  <2> QED
    BY <2>1, <2>3, <2>5, <2>6, GemvGoesOn
<1>4. CASE G!LoadTile(i)
  <2>1. /\ G!Runs(i) /\ pc[i] = "tile" /\ pc' = [pc EXCEPT ![i] = "mad"]
        /\ pos[i] < G!TileLoops
        /\ waiting' = [waiting EXCEPT ![i] = TRUE]
        /\ barriers' = [barriers EXCEPT ![i] = barriers[i] + 1]
        /\ launch' = launch /\ pos' = pos /\ scratch' = G!Over(G!Extracted(i), scratch)
    BY <1>4 DEF G!LoadTile, G!At, G!BarrierThen
  <2>2. launch.local /\ launch.trans
    BY <1>1, <2>1 DEF GemvPlaces
  <2>3. 0 < G!TileLoops
    <3>1. G!TileLoops \in Int
      BY <1>1 DEF G!TileLoops
    <3> QED
      BY <1>1, <2>1, <2>2, <3>1
  <2>4. DOMAIN scratch' = DOMAIN scratch
    BY <2>1, <2>2, <2>3, ExtractedCells, SameCells
  <2>5. pos' = [pos EXCEPT ![i] = pos[i]]
    BY <1>1, <2>1, <2>2
  <2>6. "mad" \in GemvPlaces \ {"load", "row"}
    BY <2>2 DEF GemvPlaces
  <2>7. GemvNext[GemvPhase[i]]
          = IF launch.trans THEN <<"mad", pos[i]>> ELSE <<"dot", 0>>
    BY <1>1, <2>1, <2>2 DEF GemvNext, GemvPhase
  <2>8. GemvArrival(i, "mad", pos[i])
    BY <1>1, <2>1, <2>2, <2>4, <2>5, <2>6, <2>7 DEF GemvArrival
  <2> QED
    BY <2>8, GemvArrives
<1>5. CASE G!MultiplyTile(i)
  <2> DEFINE p == pos[i] + 1
  <2>1. /\ G!Runs(i) /\ pc[i] = "mad" /\ pc' = [pc EXCEPT ![i] = "tile"]
        /\ waiting' = [waiting EXCEPT ![i] = TRUE]
        /\ barriers' = [barriers EXCEPT ![i] = barriers[i] + 1]
        /\ launch' = launch /\ pos' = [pos EXCEPT ![i] = p] /\ scratch' = scratch
    BY <1>5 DEF G!MultiplyTile, G!At, G!BarrierThen
  <2>2. launch.local /\ launch.trans
    BY <1>1, <2>1 DEF GemvPlaces
  <2>3. p \in Nat
    BY <1>1, <2>2
  <2>4. "tile" \in GemvPlaces \ {"load", "row"}
    BY <2>2 DEF GemvPlaces
  <2>5. GemvNext[GemvPhase[i]]
          = IF launch.trans THEN <<"tile", p>> ELSE <<"dot", 0>>
    BY <1>1, <2>1, <2>2 DEF GemvNext, GemvPhase
  <2> HIDE DEF p
  <2>6. GemvArrival(i, "tile", p)
    BY <2>1, <2>2, <2>3, <2>4, <2>5 DEF GemvArrival
  <2> QED
    BY <2>6, GemvArrives
<1>6. CASE G!StoreSum(i)
  <2>1. /\ G!Runs(i) /\ pc[i] = "tile" /\ pc' = [pc EXCEPT ![i] = "done"]
        /\ waiting' = [waiting EXCEPT ![i] = FALSE]
        /\ launch' = launch /\ pos' = pos /\ barriers' = barriers /\ scratch' = scratch
    BY <1>6 DEF G!StoreSum, G!At, G!Goto
  <2>2. launch.local /\ launch.trans
    BY <1>1, <2>1 DEF GemvPlaces
  <2>3. pc' \in [G!Item -> GemvPlaces] /\ \A u \in G!Item : pc'[u] = pc[u] \/ u = i
    BY <1>1, <2>1, <2>2 DEF GemvPlaces
  <2>4. pc'[i] = "done"
    BY <1>1, <2>1
  <2>5. \A u \in G!Item : GemvPhase'[u] = GemvPhase[u]
    BY <2>1, <2>2, <2>3, <2>4, GemvSame DEF GemvPhase
  <2>6. \A u \in G!Item : pc'[u] = "load" => pc[u] = "load" /\ pos'[u] = 0
    BY <2>1, <2>3, <2>4 DEF GemvInv
  <2> QED
    BY <2>1, <2>3, <2>5, <2>6, GemvGoesOn
<1>7. CASE G!Row(i)
  <2>1. /\ G!Runs(i) /\ pc[i] = "row"
        /\ \/ pc' = [pc EXCEPT ![i] = "done"]
           \/ pc' = [pc EXCEPT ![i] = "row"]
        /\ waiting' = [waiting EXCEPT ![i] = FALSE]
        /\ launch' = launch /\ barriers' = barriers /\ scratch' = scratch
    BY <1>7 DEF G!Row, G!At, G!Goto
  <2>2. ~launch.local
    BY <1>1, <2>1 DEF GemvPlaces
  <2>3. pc' \in [G!Item -> GemvPlaces] /\ \A u \in G!Item : pc'[u] # "load"
    BY <1>1, <2>1, <2>2 DEF GemvPlaces
  <2>4. \A u \in G!Item : GemvPhase'[u] = GemvPhase[u]
    BY <2>1, <2>2, GemvSame DEF GemvPhase
  <2> QED
    BY <2>1, <2>2, <2>3, <2>4, GemvGoesOn
<1> QED
  BY <1>2, <1>3, <1>4, <1>5, <1>6, <1>7 DEF G!Step

-------------------------------------------------------------------------------
(***************************************************************************)
(* GemvCol                                                                 *)
(***************************************************************************)

LEMMA ColSizes ==
    ASSUME NEW l \in ColLaunches
    PROVE  /\ l.kernel = "gemvCol" /\ l.localSz \in Nat \ {0} /\ l.group \in Nat
           /\ l.dimR \in Nat \ {0} /\ l.dimC \in Nat \ {0}
           /\ l.nWGRow \in Nat \ {0} /\ l.nWGCol \in Nat \ {0}
           /\ l.localMemory \in Nat
BY GroupKernelsAssumption DEF GroupKernelsAssumption, KernelsAssumption,
   Blas2Assumption, TriangleSizes, GroupSizes

\* The columns of the group that come after those it is at.
ColLast == C!LstCol(launch.group)

\* The phases are the copy of a block and its use; the use of the last block has
\* no barrier behind it.
ColPhase ==
    [i \in C!Item |->
        IF pc[i] = "block" /\ pos[i] < ColLast THEN <<"block", pos[i]>>
        ELSE IF pc[i] = "product" /\ pos[i] + launch.localMemory < ColLast
        THEN <<"product", pos[i]>>
        ELSE <<"last", 0>>]

ColNext ==
    [p \in {"block", "product"} \X Int |->
        IF p[1] = "product" THEN <<"block", p[2] + launch.localMemory>>
        ELSE IF p[2] + launch.localMemory < ColLast THEN <<"product", p[2]>>
        ELSE <<"last", 0>>]

ColPlaces == {"zero", "block", "product", "done"}

ColInv ==
    /\ launch \in ColLaunches
    /\ pc \in [C!Item -> ColPlaces]
    /\ pos \in [C!Item -> Int]
    /\ DOMAIN scratch = 0 .. launch.localMemory - 1
    /\ InStep(C!Item, barriers, waiting, ColPhase, ColNext)

LEMMA ColMin ==
    ASSUME NEW a \in Int, NEW b \in Int
    PROVE  C!Min({a, b}) = IF a <= b THEN a ELSE b
BY DEF C!Min

LEMMA ColLastInt ==
    ASSUME launch \in ColLaunches
    PROVE  ColLast \in Int /\ C!FrsCol(launch.group) \in Int
<1> DEFINE n == C!IdWFC(launch.group)
           s == C!ColSz
<1>1. n \in Int /\ s \in Int
  BY ColSizes DEF C!IdWFC, C!ColSz
<1>2. C!FrsCol(launch.group) = n * s
  BY DEF C!FrsCol
<1> HIDE DEF n, s
<1>3. n * s \in Int /\ n * s + s \in Int
  BY <1>1
<1>4. ColLast = C!Min({launch.dimC, n * s + s})
  BY <1>2 DEF ColLast, C!LstCol, s
<1>5. launch.dimC \in Int
  BY ColSizes
<1> QED
  BY <1>2, <1>3, <1>4, <1>5, ColMin

\* What an item copies of a block fits local memory.
LEMMA ColCopied ==
    ASSUME ColInv, NEW i \in C!Item
    PROVE  C!Copied(i) \subseteq DOMAIN scratch
<1>1. C!BlqSz(i) \in Int /\ C!BlqSz(i) <= launch.localMemory
  <2> DEFINE d == ColLast - pos[i]
  <2>1. launch.localMemory \in Int /\ d \in Int
    BY ColSizes, ColLastInt DEF ColInv
  <2>2. C!BlqSz(i) = C!Min({launch.localMemory, d})
    BY DEF C!BlqSz, ColLast
  <2> HIDE DEF d
  <2> QED
    BY <2>1, <2>2, ColMin
<1> QED
  BY <1>1, ColSizes DEF ColInv, C!Copied

LEMMA ColFree ==
    ASSUME NEW i \in C!Item, C!Runs(i) PROVE Free(C!Item, barriers, waiting, i)
BY DEF C!Runs, Free

\* GemvCol: no item overwrites a block of x that another still reads.
LEMMA ColRaceFree == ColInv => C!NoLocalRace
<1> SUFFICES ASSUME ColInv PROVE C!NoLocalRace
  OBVIOUS
<1>1. ASSUME NEW i \in C!Item, NEW u \in C!Item, i # u,
             NEW a \in C!Writes(i), a \in C!Reads(u) \cup C!Writes(u)
      PROVE  FALSE
  <2>1. /\ C!Runs(i) /\ pc[i] = "block" /\ pos[i] < ColLast
        /\ a \in C!Copied(i)
    BY DEF C!Writes, C!At, ColLast
  <2>2. C!Runs(u) /\ (\/ pc[u] = "block" /\ pos[u] < ColLast /\ a \in C!Copied(u)
                      \/ pc[u] = "product")
    BY <1>1 DEF C!Writes, C!Reads, C!At, ColLast
  <2>3. ColPhase[i] = ColPhase[u]
    BY <2>1, <2>2, ColFree, SamePhase DEF ColInv
  <2>4. pc[u] # "product"
    BY <2>1, <2>3 DEF ColPhase
  <2>5. a % launch.localSz = i /\ a % launch.localSz = u
    BY <2>1, <2>2, <2>4 DEF C!Copied
  <2> QED
    BY <1>1, <2>5
<1> QED
  BY <1>1 DEF C!NoLocalRace, ColInv

LEMMA ColStart == C!Init => ColInv
<1> SUFFICES ASSUME C!Init PROVE ColInv
  OBVIOUS
<1> DEFINE l == IF C!Skipped(launch.group) THEN "zero" ELSE "block"
           p == C!FrsCol(launch.group)
<1>1. /\ launch \in ColLaunches
      /\ pc = [i \in C!Item |-> l] /\ pos = [i \in C!Item |-> p]
      /\ barriers = [i \in C!Item |-> 0] /\ waiting = [i \in C!Item |-> FALSE]
      /\ DOMAIN scratch = 0 .. launch.localMemory - 1
  BY DEF C!Init, C!Start
<1>2. l \in ColPlaces /\ p \in Int
  BY <1>1, ColLastInt DEF ColPlaces
<1> HIDE DEF l, p
<1>3. \A i, u \in C!Item : ColPhase[i] = ColPhase[u]
  BY <1>1 DEF ColPhase
<1>4. InStep(C!Item, barriers, waiting, ColPhase, ColNext)
  BY <1>1, <1>3, StartsInStep
<1> QED
  BY <1>1, <1>2, <1>4 DEF ColInv

LEMMA ColSame ==
    ASSUME launch' = launch
    PROVE  /\ C!Item' = C!Item /\ ColNext' = ColNext /\ ColLast' = ColLast
           /\ launch'.localMemory = launch.localMemory
<1>1. C!Item' = C!Item
  BY DEF C!Item
<1>2. ColLast' = ColLast
  BY DEF ColLast, C!LstCol, C!FrsCol, C!IdWFC, C!ColSz
<1> QED
  BY <1>1, <1>2 DEF ColNext

\* An item that reaches the barrier behind its phase, and will do l after it.
ColArrival(i, l, p) ==
    /\ i \in C!Item /\ C!Runs(i) /\ launch' = launch
    /\ l \in ColPlaces /\ pc' = [pc EXCEPT ![i] = l]
    /\ p \in Int /\ pos' = [pos EXCEPT ![i] = p]
    /\ waiting' = [waiting EXCEPT ![i] = TRUE]
    /\ barriers' = [barriers EXCEPT ![i] = barriers[i] + 1]
    /\ DOMAIN scratch' = DOMAIN scratch
    /\ ColPhase[i] \in DOMAIN ColNext
    /\ ColNext[ColPhase[i]]
         = IF l = "block" /\ p < ColLast THEN <<"block", p>>
           ELSE IF l = "product" /\ p + launch.localMemory < ColLast
           THEN <<"product", p>>
           ELSE <<"last", 0>>

LEMMA ColArrives ==
    ASSUME ColInv, NEW i, NEW l, NEW p, ColArrival(i, l, p)
    PROVE  ColInv'
<1> USE DEF ColArrival
<1>1. /\ pc' \in [C!Item -> ColPlaces] /\ pos' \in [C!Item -> Int]
      /\ pc'[i] = l /\ pos'[i] = p
      /\ \A u \in C!Item \ {i} : pc'[u] = pc[u] /\ pos'[u] = pos[u]
  BY DEF ColInv
<1>2. ColPhase'[i] = ColNext[ColPhase[i]]
  BY <1>1, ColSame DEF ColPhase
<1>3. \A u \in C!Item \ {i} : ColPhase'[u] = ColPhase[u]
  BY <1>1, ColSame DEF ColPhase
<1>4. Arrival(C!Item, barriers, waiting, ColPhase, ColNext, i,
              barriers', waiting', ColPhase')
  BY <1>2, <1>3, ColFree DEF Arrival, ColInv
<1>5. InStep(C!Item, barriers', waiting', ColPhase', ColNext)
  BY <1>4, Arrives
<1> QED
  BY <1>1, <1>5, ColSame DEF ColInv

\* An item that goes on within its phase.
LEMMA ColGoesOn ==
    ASSUME ColInv, NEW i \in C!Item, C!Runs(i), launch' = launch,
           NEW l \in ColPlaces, pc' = [pc EXCEPT ![i] = l],
           NEW p \in Int, pos' = [pos EXCEPT ![i] = p],
           waiting' = [waiting EXCEPT ![i] = FALSE], barriers' = barriers,
           scratch' = scratch,
           ColPhase'[i] = ColPhase[i]
    PROVE  ColInv'
<1>1. /\ pc' \in [C!Item -> ColPlaces] /\ pos' \in [C!Item -> Int]
      /\ \A u \in C!Item \ {i} : pc'[u] = pc[u] /\ pos'[u] = pos[u]
  BY DEF ColInv
<1>2. \A u \in C!Item \ {i} : ColPhase'[u] = ColPhase[u]
  BY <1>1, ColSame DEF ColPhase
<1>3. ColPhase' = ColPhase
  BY <1>2, ColSame DEF ColPhase
<1>4. InStep(C!Item, barriers, waiting', ColPhase, ColNext)
  <2>1. InStep(C!Item, barriers, waiting, ColPhase, ColNext)
    BY DEF ColInv
  <2> QED
    BY <2>1, ColFree, GoesOn
<1> QED
  BY <1>1, <1>3, <1>4, ColSame DEF ColInv

LEMMA ColStep == ASSUME ColInv, NEW i \in C!Item, C!Step(i) PROVE ColInv'
<1>1. /\ pc \in [C!Item -> ColPlaces] /\ pos \in [C!Item -> Int] /\ pos[i] \in Int
      /\ launch.localMemory \in Nat /\ ColLast \in Int
      /\ pos[i] + launch.localMemory \in Int
  BY ColSizes, ColLastInt DEF ColInv
<1>2. {"zero", "block", "product", "done"} = ColPlaces
  BY DEF ColPlaces
<1>3. ASSUME C!WriteZeros(i) \/ C!Return(i) PROVE ColInv'
  <2>1. /\ pc[i] = "zero" \/ (pc[i] = "block" /\ ~(pos[i] < ColLast))
        /\ pc' = [pc EXCEPT ![i] = "done"]
        /\ waiting' = [waiting EXCEPT ![i] = FALSE]
        /\ launch' = launch /\ pos' = pos /\ barriers' = barriers /\ scratch' = scratch
    BY <1>1, <1>3 DEF C!WriteZeros, C!Return, C!At, C!Goto, ColLast
  <2>2. C!Runs(i)
    BY <1>3 DEF C!WriteZeros, C!Return, C!At
  <2>3. pos' = [pos EXCEPT ![i] = pos[i]]
    BY <1>1, <2>1
  <2>4. ColPhase'[i] = ColPhase[i]
    BY <1>1, <2>1, ColSame DEF ColPhase
  <2> QED
    BY <1>1, <1>2, <2>1, <2>2, <2>3, <2>4, ColGoesOn
<1>4. CASE C!CopyBlock(i)
  <2>1. /\ C!Runs(i) /\ pc[i] = "block" /\ pos[i] < ColLast
        /\ pc' = [pc EXCEPT ![i] = "product"]
        /\ waiting' = [waiting EXCEPT ![i] = TRUE]
        /\ barriers' = [barriers EXCEPT ![i] = barriers[i] + 1]
        /\ launch' = launch /\ pos' = pos
    BY <1>4 DEF C!CopyBlock, C!At, C!BarrierThen, ColLast
  <2>2. DOMAIN scratch' = DOMAIN scratch
    <3>1. PICK f : DOMAIN f = C!Copied(i) /\ scratch' = C!Over(f, scratch)
      BY <1>4 DEF C!CopyBlock
    <3> QED
      BY <3>1, ColCopied DEF C!Over
  <2>3. pos' = [pos EXCEPT ![i] = pos[i]]
    BY <1>1, <2>1
  <2>4. /\ ColPhase[i] \in DOMAIN ColNext
        /\ ColNext[ColPhase[i]]
             = IF pos[i] + launch.localMemory < ColLast THEN <<"product", pos[i]>>
               ELSE <<"last", 0>>
    BY <1>1, <2>1 DEF ColPhase, ColNext
  <2>5. ColArrival(i, "product", pos[i])
    BY <1>1, <1>2, <2>1, <2>2, <2>3, <2>4 DEF ColArrival
  <2> QED
    BY <2>5, ColArrives
<1>5. CASE C!MultiplyBlock(i)
  <2> DEFINE p == pos[i] + launch.localMemory
  <2>1. /\ C!Runs(i) /\ pc[i] = "product"
        /\ pc' = [pc EXCEPT ![i] = "block"] /\ pos' = [pos EXCEPT ![i] = p]
        /\ launch' = launch /\ scratch' = scratch
        /\ p < ColLast => /\ waiting' = [waiting EXCEPT ![i] = TRUE]
                          /\ barriers' = [barriers EXCEPT ![i] = barriers[i] + 1]
        /\ ~(p < ColLast) => /\ waiting' = [waiting EXCEPT ![i] = FALSE]
                             /\ barriers' = barriers
    BY <1>5 DEF C!MultiplyBlock, C!At, C!BarrierThen, C!Goto, ColLast
  <2>2. p \in Int
    BY <1>1
  <2>3. CASE p < ColLast
    <3>1. /\ ColPhase[i] \in DOMAIN ColNext
          /\ ColNext[ColPhase[i]] = <<"block", p>>
      BY <1>1, <2>1, <2>3 DEF ColPhase, ColNext
    <3> HIDE DEF p
    <3>2. ColArrival(i, "block", p)
      BY <1>2, <2>1, <2>2, <2>3, <3>1 DEF ColArrival
    <3> QED
      BY <3>2, ColArrives
  <2>4. CASE ~(p < ColLast)
    <3>1. ColPhase[i] = <<"last", 0>>
      BY <2>1, <2>4 DEF ColPhase
    <3> HIDE DEF p
    <3>2. ColPhase'[i] = <<"last", 0>>
      BY <1>1, <2>1, <2>4, ColSame DEF ColPhase
    <3> QED
      BY <1>2, <2>1, <2>2, <2>4, <3>1, <3>2, ColGoesOn
  <2> QED
    BY <2>3, <2>4
<1> QED
  BY <1>3, <1>4, <1>5 DEF C!Step

-------------------------------------------------------------------------------
(***************************************************************************)
(* GerCol                                                                  *)
(***************************************************************************)

LEMMA GerSizes ==
    ASSUME NEW l \in GerLaunches
    PROVE  /\ l.kernel = "gerCol" /\ l.localSz \in Nat \ {0} /\ l.group \in Nat
           /\ l.dimR \in Nat \ {0} /\ l.dimC \in Nat \ {0}
           /\ l.nWGRow \in Nat \ {0} /\ l.nWGCol \in Nat \ {0}
           /\ l.localMemory \in Nat
BY GroupKernelsAssumption DEF GroupKernelsAssumption, KernelsAssumption,
   Blas2Assumption, TriangleSizes, GroupSizes

\* The columns of the group that come after those it is at.
GerLast == E!LstCol(launch.group)

\* The phases are the copy of a block and its use, as in GemvCol; but an item
\* returns from the use of the last block.
GerPhase ==
    [i \in E!Item |->
        IF pc[i] = "block" /\ pos[i] < GerLast THEN <<"block", pos[i]>>
        ELSE IF pc[i] = "update" /\ pos[i] + E!BlockSz < GerLast
        THEN <<"update", pos[i]>>
        ELSE <<"last", 0>>]

GerNext ==
    [p \in {"block", "update"} \X Int |->
        IF p[1] = "update" THEN <<"block", p[2] + E!BlockSz>>
        ELSE IF p[2] + E!BlockSz < GerLast THEN <<"update", p[2]>>
        ELSE <<"last", 0>>]

GerPlaces == {"block", "update", "done"}

GerInv ==
    /\ launch \in GerLaunches
    /\ pc \in [E!Item -> GerPlaces]
    /\ pos \in [E!Item -> Int]
    /\ DOMAIN scratch = 0 .. launch.localMemory - 1
    /\ InStep(E!Item, barriers, waiting, GerPhase, GerNext)

LEMMA GerMin ==
    ASSUME NEW a \in Int, NEW b \in Int
    PROVE  E!Min({a, b}) = IF a <= b THEN a ELSE b
BY DEF E!Min

LEMMA GerLastInt ==
    ASSUME launch \in GerLaunches
    PROVE  GerLast \in Int /\ E!FrsCol(launch.group) \in Int
<1> DEFINE n == launch.group \div launch.nWGRow
           s == E!ColSz
<1>1. n \in Int /\ s \in Int
  BY GerSizes DEF E!ColSz
<1>2. E!FrsCol(launch.group) = n * s
  BY DEF E!FrsCol
<1> HIDE DEF n, s
<1>3. n * s \in Int /\ n * s + s \in Int
  BY <1>1
<1>4. GerLast = E!Min({launch.dimC, n * s + s})
  BY <1>2 DEF GerLast, E!LstCol, s
<1>5. launch.dimC \in Int
  BY GerSizes
<1> QED
  BY <1>2, <1>3, <1>4, <1>5, GerMin

\* The blocks of the two vectors of a rank 2 update fit the halves of local
\* memory.
LEMMA GerBlocks ==
    ASSUME GerInv, NEW i \in E!Item
    PROVE  /\ E!BlockSz \in Nat
           /\ ~launch.single => 2 * E!BlockSz <= launch.localMemory
           /\ launch.single => E!BlockSz = launch.localMemory
           /\ E!Copied(i) \subseteq 0 .. E!BlockSz - 1
           /\ launch.single => DOMAIN E!Copies(i) = E!Copied(i)
           /\ ~launch.single =>
                 DOMAIN E!Copies(i)
                    = E!Copied(i) \cup {E!BlockSz + col : col \in E!Copied(i)}
           /\ DOMAIN E!Copies(i) \subseteq DOMAIN scratch
<1>1. launch.localMemory \in Nat
  BY GerSizes DEF GerInv
<1>2. /\ E!BlockSz \in Nat
      /\ ~launch.single => 2 * E!BlockSz <= launch.localMemory
      /\ launch.single => E!BlockSz = launch.localMemory
  BY <1>1 DEF E!BlockSz
<1>3. E!BlqSz(i) \in Int /\ E!BlqSz(i) <= E!BlockSz
  <2> DEFINE d == GerLast - pos[i]
  <2>1. d \in Int
    BY GerLastInt DEF GerInv
  <2>2. E!BlqSz(i) = E!Min({E!BlockSz, d})
    BY DEF E!BlqSz, GerLast
  <2> HIDE DEF d
  <2> QED
    BY <1>2, <2>1, <2>2, GerMin
<1>4. E!Copied(i) \subseteq 0 .. E!BlockSz - 1
  BY <1>2, <1>3 DEF E!Copied
<1>5. launch.single => DOMAIN E!Copies(i) = E!Copied(i)
  BY DEF E!Copies
<1>6. ~launch.single =>
         DOMAIN E!Copies(i) = E!Copied(i) \cup {E!BlockSz + col : col \in E!Copied(i)}
  BY DEF E!Copies, E!Over
<1>7. DOMAIN scratch = 0 .. launch.localMemory - 1
  BY DEF GerInv
<1>8. DOMAIN E!Copies(i) \subseteq DOMAIN scratch
  <2>1. CASE launch.single
    BY <1>2, <1>4, <1>5, <1>7, <2>1
  <2>2. CASE ~launch.single
    <3>1. \A col \in E!Copied(i) :
             /\ col \in 0 .. launch.localMemory - 1
             /\ E!BlockSz + col \in 0 .. launch.localMemory - 1
      BY <1>1, <1>2, <1>4, <2>2
    <3> QED
      BY <1>6, <1>7, <2>2, <3>1
  <2> QED
    BY <2>1, <2>2
<1> QED
  BY <1>2, <1>4, <1>5, <1>6, <1>8

LEMMA GerFree ==
    ASSUME NEW i \in E!Item, E!Runs(i) PROVE Free(E!Item, barriers, waiting, i)
BY DEF E!Runs, Free

\* A cell that an item copies is in one of the halves.
LEMMA GerCell ==
    ASSUME GerInv, NEW i \in E!Item, NEW a \in DOMAIN E!Copies(i)
    PROVE  \/ a \in E!Copied(i)
           \/ \E x \in E!Copied(i) : ~launch.single /\ a = E!BlockSz + x
<1>1. CASE launch.single
  <2>1. DOMAIN E!Copies(i) = E!Copied(i)
    BY <1>1, GerBlocks
  <2> QED
    BY <2>1
<1>2. CASE ~launch.single
  <2>1. DOMAIN E!Copies(i) = E!Copied(i) \cup {E!BlockSz + x : x \in E!Copied(i)}
    BY <1>2, GerBlocks
  <2> QED
    BY <1>2, <2>1
<1> QED
  BY <1>1, <1>2

\* GerCol: the two halves do not meet, and no item overwrites a block that
\* another still reads.
LEMMA GerRaceFree == GerInv => E!NoLocalRace
<1> SUFFICES ASSUME GerInv PROVE E!NoLocalRace
  OBVIOUS
<1>1. ASSUME NEW i \in E!Item, NEW u \in E!Item, i # u,
             NEW a \in E!Writes(i), a \in E!Reads(u) \cup E!Writes(u)
      PROVE  FALSE
  <2>1. /\ E!Runs(i) /\ pc[i] = "block" /\ pos[i] < GerLast
        /\ a \in DOMAIN E!Copies(i)
    BY DEF E!Writes, E!At, GerLast
  <2>2. E!Runs(u) /\ (\/ pc[u] = "block" /\ pos[u] < GerLast
                         /\ a \in DOMAIN E!Copies(u)
                      \/ pc[u] = "update")
    BY <1>1 DEF E!Writes, E!Reads, E!At, GerLast
  <2>3. GerPhase[i] = GerPhase[u]
    BY <2>1, <2>2, GerFree, SamePhase DEF GerInv
  <2>4. pc[u] # "update"
    BY <2>1, <2>3 DEF GerPhase
  <2>5. a \in DOMAIN E!Copies(u)
    BY <2>2, <2>4
  <2>6. \A x, y : x \in E!Copied(i) /\ y \in E!Copied(u) => x # y
    BY <1>1 DEF E!Copied
  <2>7. /\ E!BlockSz \in Nat
        /\ E!Copied(i) \subseteq 0 .. E!BlockSz - 1
        /\ E!Copied(u) \subseteq 0 .. E!BlockSz - 1
    BY GerBlocks
  <2>8. \/ a \in E!Copied(i)
        \/ \E x \in E!Copied(i) : ~launch.single /\ a = E!BlockSz + x
    BY <2>1, GerCell
  <2>9. \/ a \in E!Copied(u)
        \/ \E y \in E!Copied(u) : ~launch.single /\ a = E!BlockSz + y
    BY <2>5, GerCell
  <2> QED
    BY <2>6, <2>7, <2>8, <2>9
<1> QED
  BY <1>1 DEF E!NoLocalRace, GerInv

LEMMA GerStart == E!Init => GerInv
<1> SUFFICES ASSUME E!Init PROVE GerInv
  OBVIOUS
<1> DEFINE l == IF E!Skipped(launch.group) THEN "done" ELSE "block"
           p == E!FrsCol(launch.group)
<1>1. /\ launch \in GerLaunches
      /\ pc = [i \in E!Item |-> l] /\ pos = [i \in E!Item |-> p]
      /\ barriers = [i \in E!Item |-> 0] /\ waiting = [i \in E!Item |-> FALSE]
      /\ DOMAIN scratch = 0 .. launch.localMemory - 1
  BY DEF E!Init, E!Start
<1>2. l \in GerPlaces /\ p \in Int
  BY <1>1, GerLastInt DEF GerPlaces
<1> HIDE DEF l, p
<1>3. \A i, u \in E!Item : GerPhase[i] = GerPhase[u]
  BY <1>1 DEF GerPhase
<1>4. InStep(E!Item, barriers, waiting, GerPhase, GerNext)
  BY <1>1, <1>3, StartsInStep
<1> QED
  BY <1>1, <1>2, <1>4 DEF GerInv

LEMMA GerSame ==
    ASSUME launch' = launch
    PROVE  /\ E!Item' = E!Item /\ GerNext' = GerNext /\ GerLast' = GerLast
           /\ E!BlockSz' = E!BlockSz
<1>1. E!Item' = E!Item
  BY DEF E!Item
<1>2. GerLast' = GerLast
  BY DEF GerLast, E!LstCol, E!FrsCol, E!ColSz
<1>3. E!BlockSz' = E!BlockSz
  BY DEF E!BlockSz
<1> QED
  BY <1>1, <1>2, <1>3 DEF GerNext

\* An item that reaches the barrier behind its phase, and will do l after it.
GerArrival(i, l, p) ==
    /\ i \in E!Item /\ E!Runs(i) /\ launch' = launch
    /\ l \in GerPlaces /\ pc' = [pc EXCEPT ![i] = l]
    /\ p \in Int /\ pos' = [pos EXCEPT ![i] = p]
    /\ waiting' = [waiting EXCEPT ![i] = TRUE]
    /\ barriers' = [barriers EXCEPT ![i] = barriers[i] + 1]
    /\ DOMAIN scratch' = DOMAIN scratch
    /\ GerPhase[i] \in DOMAIN GerNext
    /\ GerNext[GerPhase[i]]
         = IF l = "block" /\ p < GerLast THEN <<"block", p>>
           ELSE IF l = "update" /\ p + E!BlockSz < GerLast
           THEN <<"update", p>>
           ELSE <<"last", 0>>

LEMMA GerArrives ==
    ASSUME GerInv, NEW i, NEW l, NEW p, GerArrival(i, l, p)
    PROVE  GerInv'
<1> USE DEF GerArrival
<1>1. /\ pc' \in [E!Item -> GerPlaces] /\ pos' \in [E!Item -> Int]
      /\ pc'[i] = l /\ pos'[i] = p
      /\ \A u \in E!Item \ {i} : pc'[u] = pc[u] /\ pos'[u] = pos[u]
  BY DEF GerInv
<1>2. GerPhase'[i] = GerNext[GerPhase[i]]
  BY <1>1, GerSame DEF GerPhase
<1>3. \A u \in E!Item \ {i} : GerPhase'[u] = GerPhase[u]
  BY <1>1, GerSame DEF GerPhase
<1>4. Arrival(E!Item, barriers, waiting, GerPhase, GerNext, i,
              barriers', waiting', GerPhase')
  BY <1>2, <1>3, GerFree DEF Arrival, GerInv
<1>5. InStep(E!Item, barriers', waiting', GerPhase', GerNext)
  BY <1>4, Arrives
<1> QED
  BY <1>1, <1>5, GerSame DEF GerInv

\* An item that goes on within its phase.
LEMMA GerGoesOn ==
    ASSUME GerInv, NEW i \in E!Item, E!Runs(i), launch' = launch,
           NEW l \in GerPlaces, pc' = [pc EXCEPT ![i] = l],
           NEW p \in Int, pos' = [pos EXCEPT ![i] = p],
           waiting' = [waiting EXCEPT ![i] = FALSE], barriers' = barriers,
           scratch' = scratch,
           GerPhase'[i] = GerPhase[i]
    PROVE  GerInv'
<1>1. /\ pc' \in [E!Item -> GerPlaces] /\ pos' \in [E!Item -> Int]
      /\ \A u \in E!Item \ {i} : pc'[u] = pc[u] /\ pos'[u] = pos[u]
  BY DEF GerInv
<1>2. \A u \in E!Item \ {i} : GerPhase'[u] = GerPhase[u]
  BY <1>1, GerSame DEF GerPhase
<1>3. GerPhase' = GerPhase
  BY <1>2, GerSame DEF GerPhase
<1>4. InStep(E!Item, barriers, waiting', GerPhase, GerNext)
  <2>1. InStep(E!Item, barriers, waiting, GerPhase, GerNext)
    BY DEF GerInv
  <2> QED
    BY <2>1, GerFree, GoesOn
<1> QED
  BY <1>1, <1>3, <1>4, GerSame DEF GerInv


LEMMA GerStep == ASSUME GerInv, NEW i \in E!Item, E!Step(i) PROVE GerInv'
<1>1. /\ pc \in [E!Item -> GerPlaces] /\ pos \in [E!Item -> Int] /\ pos[i] \in Int
      /\ E!BlockSz \in Nat /\ GerLast \in Int
      /\ pos[i] + E!BlockSz \in Int
  <2>1. pc \in [E!Item -> GerPlaces] /\ pos \in [E!Item -> Int] /\ pos[i] \in Int
    BY DEF GerInv
  <2>2. E!BlockSz \in Nat
    BY GerBlocks
  <2>3. GerLast \in Int
    BY GerLastInt DEF GerInv
  <2> QED
    BY ONLY <2>1, <2>2, <2>3
<1>2. {"block", "update", "done"} = GerPlaces
  BY DEF GerPlaces
<1>3. CASE E!Return(i)
  <2>1. /\ E!Runs(i) /\ pc[i] = "block" /\ ~(pos[i] < GerLast)
        /\ pc' = [pc EXCEPT ![i] = "done"]
        /\ waiting' = [waiting EXCEPT ![i] = FALSE]
        /\ launch' = launch /\ pos' = pos /\ barriers' = barriers /\ scratch' = scratch
    BY <1>1, <1>3 DEF E!Return, E!At, E!Goto, GerLast
  <2>2. pos' = [pos EXCEPT ![i] = pos[i]]
    BY <1>1, <2>1
  <2>3. GerPhase'[i] = GerPhase[i]
    BY <1>1, <2>1, GerSame DEF GerPhase
  <2> QED
    BY <1>1, <1>2, <2>1, <2>2, <2>3, GerGoesOn
<1>4. CASE E!CopyBlock(i)
  <2>1. /\ E!Runs(i) /\ pc[i] = "block" /\ pos[i] < GerLast
        /\ pc' = [pc EXCEPT ![i] = "update"]
        /\ waiting' = [waiting EXCEPT ![i] = TRUE]
        /\ barriers' = [barriers EXCEPT ![i] = barriers[i] + 1]
        /\ launch' = launch /\ pos' = pos
    BY <1>4 DEF E!CopyBlock, E!At, E!BarrierThen, GerLast
  <2>2. DOMAIN scratch' = DOMAIN scratch
    BY <1>4, GerBlocks DEF E!CopyBlock, E!Over
  <2>3. pos' = [pos EXCEPT ![i] = pos[i]]
    BY <1>1, <2>1
  <2>4. /\ GerPhase[i] \in DOMAIN GerNext
        /\ GerNext[GerPhase[i]]
             = IF pos[i] + E!BlockSz < GerLast THEN <<"update", pos[i]>>
               ELSE <<"last", 0>>
    BY <1>1, <2>1 DEF GerPhase, GerNext
  <2>5. GerArrival(i, "update", pos[i])
    BY <1>1, <1>2, <2>1, <2>2, <2>3, <2>4 DEF GerArrival
  <2> QED
    BY <2>5, GerArrives
<1>5. CASE E!Update(i)
  <2> DEFINE p == pos[i] + E!BlockSz
  <2>1. /\ E!Runs(i) /\ pc[i] = "update" /\ pos' = [pos EXCEPT ![i] = p]
        /\ launch' = launch /\ scratch' = scratch
    BY <1>5 DEF E!Update, E!At
  <2>2. p \in Int /\ pos'[i] = p
    BY <1>1, <2>1
  <2>3. GerLast' = GerLast
    BY <2>1, GerSame
  <2>4. /\ p < GerLast => /\ pc' = [pc EXCEPT ![i] = "block"]
                          /\ waiting' = [waiting EXCEPT ![i] = TRUE]
                          /\ barriers' = [barriers EXCEPT ![i] = barriers[i] + 1]
        /\ ~(p < GerLast) => /\ pc' = [pc EXCEPT ![i] = "done"]
                             /\ waiting' = [waiting EXCEPT ![i] = FALSE]
                             /\ barriers' = barriers
    BY <1>5, <2>2 DEF E!Update, E!BarrierThen, E!Goto, GerLast
  <2>5. CASE p < GerLast
    <3>1. /\ GerPhase[i] \in DOMAIN GerNext
          /\ GerNext[GerPhase[i]] = <<"block", p>>
      BY <1>1, <2>1, <2>5 DEF GerPhase, GerNext
    <3> HIDE DEF p
    <3>2. GerArrival(i, "block", p)
      BY <1>2, <2>1, <2>2, <2>4, <2>5, <3>1 DEF GerArrival
    <3> QED
      BY <3>2, GerArrives
  <2>6. CASE ~(p < GerLast)
    <3>1. GerPhase[i] = <<"last", 0>>
      BY <2>1, <2>6 DEF GerPhase
    <3> HIDE DEF p
    <3>2. GerPhase'[i] = <<"last", 0>>
      BY <1>1, <2>1, <2>4, <2>6, GerSame DEF GerPhase
    <3> QED
      BY <1>2, <2>1, <2>2, <2>4, <2>6, <3>1, <3>2, GerGoesOn
  <2> QED
    BY <2>5, <2>6
<1> QED
  BY <1>3, <1>4, <1>5 DEF E!Step

-------------------------------------------------------------------------------
(***************************************************************************)
(* GemvRow                                                                 *)
(***************************************************************************)

LEMMA RowSizes ==
    ASSUME NEW l \in RowLaunches
    PROVE  /\ l.kernel = "gemvRow" /\ l.localSz \in Nat \ {0} /\ l.group \in Nat
           /\ l.dimR \in Nat \ {0} /\ l.dimC \in Nat \ {0}
           /\ l.nWGRow \in Nat \ {0} /\ l.nWGCol \in Nat \ {0}
           /\ l.localMemory \in Nat
BY GroupKernelsAssumption DEF GroupKernelsAssumption, KernelsAssumption,
   Blas2Assumption, TriangleSizes, GroupSizes

\* The rows of the group that come after those it is at.
RowLast == W!LstRow(launch.group)

\* The phases are the fill of a block and each level of its tree; there is no
\* barrier between the store of a block and the fill of the next.
RowPhase ==
    [i \in W!Item |->
        IF pc[i] = "tree" /\ offset[i] > 0 THEN <<"tree", pos[i], offset[i]>>
        ELSE IF pc[i] = "tree" THEN <<"block", pos[i] + W!ShrSz, 0>>
        ELSE <<"block", pos[i], 0>>]

\* The phase behind a barrier at which the tree's variable is o.
RowThen(p, o) ==
    IF o > 0 THEN <<"tree", p, o>> ELSE <<"block", p + W!ShrSz, 0>>

RowNext ==
    [p \in {"block", "tree"} \X Int \X Nat |->
        RowThen(p[2], IF p[1] = "tree" THEN p[3] \div 2 ELSE launch.localSz \div 2)]

RowPlaces == {"zero", "block", "tree", "done"}

RowInv ==
    /\ launch \in RowLaunches
    /\ pc \in [W!Item -> RowPlaces]
    /\ pos \in [W!Item -> Int]
    /\ offset \in [W!Item -> Nat]
    /\ \A i \in W!Item : 2 * offset[i] <= launch.localSz
    /\ DOMAIN scratch = 0 .. launch.localMemory - 1
    /\ InStep(W!Item, barriers, waiting, RowPhase, RowNext)

LEMMA RowMin ==
    ASSUME NEW a \in Int, NEW b \in Int
    PROVE  W!Min({a, b}) = IF a <= b THEN a ELSE b
BY DEF W!Min

LEMMA RowLastInt ==
    ASSUME launch \in RowLaunches
    PROVE  RowLast \in Int /\ W!FrsRow(launch.group) \in Int
<1> DEFINE n == W!IdWFR(launch.group)
           s == W!RowSz
<1>1. n \in Int /\ s \in Int
  BY RowSizes DEF W!IdWFR, W!RowSz
<1>2. W!FrsRow(launch.group) = n * s
  BY DEF W!FrsRow
<1> HIDE DEF n, s
<1>3. n * s \in Int /\ n * s + s \in Int
  BY <1>1
<1>4. RowLast = W!Min({launch.dimR, n * s + s})
  BY <1>2 DEF RowLast, W!LstRow, s
<1>5. launch.dimR \in Int
  BY RowSizes
<1> QED
  BY <1>2, <1>3, <1>4, <1>5, RowMin

\* The rows of a block fit local memory.
LEMMA RowShare ==
    ASSUME launch \in RowLaunches
    PROVE  /\ W!ShrSz \in Nat
           /\ launch.localSz * W!ShrSz <= launch.localMemory
<1>1. launch.localMemory \in Nat /\ launch.localSz \in Nat \ {0}
  BY RowSizes
<1> DEFINE q == launch.localMemory \div launch.localSz
           r == launch.localMemory % launch.localSz
           b == launch.localSz * q
<1>2. q \in Nat /\ r \in 0 .. launch.localSz - 1 /\ launch.localMemory = b + r
  BY <1>1, DivMod
<1>3. r \in Nat /\ b \in Int
  BY <1>1, <1>2
<1>4. W!ShrSz = q
  BY DEF W!ShrSz
<1> HIDE DEF r
<1>5. b <= launch.localMemory
  <2> HIDE DEF b
  <2> QED
    BY <1>1, <1>2, <1>3
<1> QED
  BY <1>2, <1>4, <1>5

LEMMA RowOwn ==
    ASSUME RowInv, NEW i \in W!Item, NEW a \in W!OwnCells(i)
    PROVE  /\ \E x \in Nat : a = launch.localSz * x + i
           /\ a \in DOMAIN scratch
<1>1. /\ launch.localMemory \in Nat /\ launch.localSz \in Nat \ {0}
      /\ i \in 0 .. launch.localSz - 1
  BY RowSizes DEF RowInv, W!Item
<1>2. W!ShrSz \in Nat /\ launch.localSz * W!ShrSz <= launch.localMemory
  BY RowShare DEF RowInv
<1>3. W!BlqSz(i) \in Int /\ W!BlqSz(i) <= W!ShrSz
  <2> DEFINE d == RowLast - pos[i]
  <2>1. d \in Int
    BY RowLastInt DEF RowInv
  <2>2. W!BlqSz(i) = W!Min({W!ShrSz, d})
    BY DEF W!BlqSz, RowLast
  <2> HIDE DEF d
  <2> QED
    BY <1>2, <2>1, <2>2, RowMin
<1>4. PICK x \in 0 .. W!BlqSz(i) - 1 : a = x * launch.localSz + i
  BY DEF W!OwnCells, W!Rows
<1>5. x \in Nat /\ x + 1 <= W!ShrSz
  BY <1>2, <1>3, <1>4
<1>6. a = launch.localSz * x + i
  BY <1>1, <1>4, <1>5
<1>7. launch.localSz * (x + 1) <= launch.localSz * W!ShrSz
  BY <1>1, <1>2, <1>5, MulMonotone
<1>8. launch.localSz * (x + 1) = launch.localSz * x + launch.localSz
  BY <1>1, <1>5
<1> DEFINE n == launch.localSz * x
           m == launch.localSz * W!ShrSz
<1>9. n \in Nat /\ m \in Nat
  BY <1>1, <1>2, <1>5
<1>10. n + launch.localSz <= m /\ m <= launch.localMemory /\ a = n + i
  BY <1>2, <1>6, <1>7, <1>8
<1> HIDE DEF n, m
<1>11. a \in 0 .. launch.localMemory - 1
  BY <1>1, <1>9, <1>10
<1> QED
  BY <1>5, <1>6, <1>11 DEF RowInv

LEMMA RowFree ==
    ASSUME NEW i \in W!Item, W!Runs(i) PROVE Free(W!Item, barriers, waiting, i)
BY DEF W!Runs, Free

\* The cells of two columns of local memory are different ones.
LEMMA Apart ==
    ASSUME NEW size \in Nat \ {0}, NEW i \in 0 .. size - 1, NEW j \in 0 .. size - 1,
           NEW a, \E x \in Nat : a = size * x + i, \E y \in Nat : a = size * y + j
    PROVE  i = j
<1>1. PICK x \in Nat : a = size * x + i
  OBVIOUS
<1>2. PICK y \in Nat : a = size * y + j
  OBVIOUS
<1>3. size * x + i = size * y + j
  BY <1>1, <1>2
<1> QED
  BY <1>3, OnePlace

LEMMA RowApart ==
    ASSUME RowInv, NEW i \in 0 .. launch.localSz - 1,
           NEW j \in 0 .. launch.localSz - 1, NEW a,
           \E x \in Nat : a = launch.localSz * x + i,
           \E y \in Nat : a = launch.localSz * y + j
    PROVE  i = j
<1> DEFINE size == launch.localSz
<1>1. /\ size \in Nat \ {0} /\ i \in 0 .. size - 1 /\ j \in 0 .. size - 1
      /\ \E x \in Nat : a = size * x + i
      /\ \E y \in Nat : a = size * y + j
  BY RowSizes DEF RowInv
<1> HIDE DEF size
<1> QED
  BY <1>1, Apart

\* GemvRow: the levels of the tree do not meet, nor does the store of a block
\* with the fill of the next.
LEMMA RowRaceFree == RowInv => W!NoLocalRace
<1> SUFFICES ASSUME RowInv PROVE W!NoLocalRace
  OBVIOUS
<1>0. \A t \in W!Item : /\ t \in 0 .. launch.localSz - 1 /\ offset[t] \in Nat
                        /\ 2 * offset[t] <= launch.localSz
  BY DEF RowInv, W!Item
<1>00. launch.localSz \in Nat \ {0} /\ W!Item = 0 .. launch.localSz - 1
  BY RowSizes DEF RowInv, W!Item
<1>1. ASSUME NEW i \in W!Item, NEW u \in W!Item, i # u,
             NEW a \in W!Writes(i), a \in W!Reads(u) \cup W!Writes(u)
      PROVE  FALSE
  <2>1. /\ W!Runs(i) /\ a \in W!OwnCells(i)
        /\ pc[i] = "block" \/ (pc[i] = "tree" /\ i < offset[i])
    BY DEF W!Writes, W!At
  <2>2. a \notin W!OwnCells(u)
    <3> SUFFICES ASSUME a \in W!OwnCells(u) PROVE FALSE
      OBVIOUS
    <3>1. /\ \E x \in Nat : a = launch.localSz * x + i
          /\ \E y \in Nat : a = launch.localSz * y + u
      BY <2>1, RowOwn
    <3>2. i = u
      BY <1>00, <3>1, RowApart
    <3> QED
      BY <1>1, <3>2
  <2>3. a \in W!Reads(u) /\ a \notin W!OwnCells(u)
    BY <1>1, <2>2 DEF W!Writes
  <2>4. /\ W!Runs(u) /\ pc[u] = "tree" /\ u < offset[u]
        /\ a \in {e + offset[u] : e \in W!OwnCells(u)}
    BY <2>3 DEF W!Reads, W!At
  <2>5. RowPhase[i] = RowPhase[u]
    BY <2>1, <2>4, RowFree, SamePhase DEF RowInv
  <2>6. RowPhase[u] = <<"tree", pos[u], offset[u]>>
    BY <1>0, <1>00, <2>4 DEF RowPhase
  <2>7. pc[i] # "block"
    BY <2>5, <2>6 DEF RowPhase
  <2>8. pc[i] = "tree" /\ i < offset[i]
    BY <2>1, <2>7
  <2>9. RowPhase[i] = <<"tree", pos[i], offset[i]>>
    BY <1>0, <1>00, <2>8 DEF RowPhase
  <2>10. offset[i] = offset[u]
    BY <2>5, <2>6, <2>9
  <2>11. PICK e \in W!OwnCells(u) : a = e + offset[u]
    BY <2>4
  <2>12. PICK x \in Nat : e = launch.localSz * x + u
    BY RowOwn
  <2> DEFINE j == u + offset[u]
  <2>13. j \in 0 .. launch.localSz - 1 /\ i < j
    BY <1>0, <1>00, <2>4, <2>8, <2>10
  <2>14. a = launch.localSz * x + j
    <3> DEFINE n == launch.localSz * x
    <3>1. n \in Int /\ a = (n + u) + offset[u] /\ u \in Int /\ offset[u] \in Int
      BY <1>0, <1>00, <2>11, <2>12
    <3> HIDE DEF n
    <3>2. a = n + j
      BY <3>1
    <3> QED
      BY <3>2 DEF n
  <2> HIDE DEF j
  <2>15. i = j
    <3>1. \E y \in Nat : a = launch.localSz * y + i
      BY <2>1, RowOwn
    <3> QED
      BY <1>00, <2>13, <2>14, <3>1, RowApart
  <2> QED
    BY <1>00, <2>13, <2>15
<1> QED
  BY <1>1 DEF W!NoLocalRace, RowInv

LEMMA RowStart == W!Init => RowInv
<1> SUFFICES ASSUME W!Init PROVE RowInv
  OBVIOUS
<1> DEFINE l == IF W!Skipped(launch.group) THEN "zero" ELSE "block"
           p == W!FrsRow(launch.group)
<1>1. /\ launch \in RowLaunches
      /\ pc = [i \in W!Item |-> l] /\ pos = [i \in W!Item |-> p]
      /\ offset = [i \in W!Item |-> 0]
      /\ barriers = [i \in W!Item |-> 0] /\ waiting = [i \in W!Item |-> FALSE]
      /\ DOMAIN scratch = 0 .. launch.localMemory - 1
  BY DEF W!Init, W!Start
<1>2. l \in RowPlaces /\ p \in Int /\ launch.localSz \in Nat
  BY <1>1, RowLastInt, RowSizes DEF RowPlaces
<1>3. l # "tree"
  OBVIOUS
<1> HIDE DEF l, p
<1>4. \A i, u \in W!Item : RowPhase[i] = RowPhase[u]
  BY <1>1, <1>3 DEF RowPhase
<1>5. InStep(W!Item, barriers, waiting, RowPhase, RowNext)
  BY <1>1, <1>4, StartsInStep
<1>6. \A i \in W!Item : 2 * offset[i] <= launch.localSz
  BY <1>1, <1>2
<1> QED
  BY <1>1, <1>2, <1>5, <1>6 DEF RowInv

LEMMA RowSame ==
    ASSUME launch' = launch
    PROVE  /\ W!Item' = W!Item /\ RowNext' = RowNext /\ RowLast' = RowLast
           /\ W!ShrSz' = W!ShrSz
<1>1. W!Item' = W!Item /\ W!ShrSz' = W!ShrSz
  BY DEF W!Item, W!ShrSz
<1>2. RowLast' = RowLast
  BY DEF RowLast, W!LstRow, W!FrsRow, W!IdWFR, W!RowSz
<1> QED
  BY <1>1, <1>2 DEF RowNext, RowThen

\* An item that reaches the barrier behind its phase, with o in the tree's
\* variable.
RowArrival(i, o) ==
    /\ i \in W!Item /\ W!Runs(i) /\ launch' = launch
    /\ pc' = [pc EXCEPT ![i] = "tree"] /\ pos' = pos
    /\ o \in Nat /\ 2 * o <= launch.localSz
    /\ offset' = [offset EXCEPT ![i] = o]
    /\ waiting' = [waiting EXCEPT ![i] = TRUE]
    /\ barriers' = [barriers EXCEPT ![i] = barriers[i] + 1]
    /\ DOMAIN scratch' = DOMAIN scratch
    /\ RowPhase[i] \in DOMAIN RowNext
    /\ RowNext[RowPhase[i]] = RowThen(pos[i], o)

LEMMA RowArrives ==
    ASSUME RowInv, NEW i, NEW o, RowArrival(i, o)
    PROVE  RowInv'
<1> USE DEF RowArrival
<1>1. /\ pc' \in [W!Item -> RowPlaces] /\ pos' \in [W!Item -> Int]
      /\ offset' \in [W!Item -> Nat]
      /\ pc'[i] = "tree" /\ offset'[i] = o
      /\ \A u \in W!Item \ {i} : pc'[u] = pc[u] /\ offset'[u] = offset[u]
  BY DEF RowInv, RowPlaces
<1>2. RowPhase'[i] = RowNext[RowPhase[i]]
  BY <1>1, RowSame DEF RowPhase, RowThen
<1>3. \A u \in W!Item \ {i} : RowPhase'[u] = RowPhase[u]
  BY <1>1, RowSame DEF RowPhase
<1>4. Arrival(W!Item, barriers, waiting, RowPhase, RowNext, i,
              barriers', waiting', RowPhase')
  BY <1>2, <1>3, RowFree DEF Arrival, RowInv
<1>5. InStep(W!Item, barriers', waiting', RowPhase', RowNext)
  BY <1>4, Arrives
<1>6. \A u \in W!Item : 2 * offset'[u] <= launch.localSz
  BY <1>1 DEF RowInv
<1> QED
  BY <1>1, <1>5, <1>6, RowSame DEF RowInv

\* An item that goes on within its phase.
LEMMA RowGoesOn ==
    ASSUME RowInv, NEW i \in W!Item, W!Runs(i), launch' = launch,
           NEW l \in RowPlaces, pc' = [pc EXCEPT ![i] = l],
           NEW p \in Int, pos' = [pos EXCEPT ![i] = p],
           waiting' = [waiting EXCEPT ![i] = FALSE], barriers' = barriers,
           offset' = offset, scratch' = scratch,
           RowPhase'[i] = RowPhase[i]
    PROVE  RowInv'
<1>1. /\ pc' \in [W!Item -> RowPlaces] /\ pos' \in [W!Item -> Int]
      /\ \A u \in W!Item \ {i} : pc'[u] = pc[u] /\ pos'[u] = pos[u]
  BY DEF RowInv
<1>2. \A u \in W!Item \ {i} : RowPhase'[u] = RowPhase[u]
  BY <1>1, RowSame DEF RowPhase
<1>3. RowPhase' = RowPhase
  BY <1>2, RowSame DEF RowPhase
<1>4. InStep(W!Item, barriers, waiting', RowPhase, RowNext)
  <2>1. InStep(W!Item, barriers, waiting, RowPhase, RowNext)
    BY DEF RowInv
  <2> QED
    BY <2>1, RowFree, GoesOn
<1> QED
  BY <1>1, <1>3, <1>4, RowSame DEF RowInv

\* Writes to the cells of an item's column leave local memory as large as it is.
LEMMA RowOver ==
    ASSUME RowInv, NEW i \in W!Item, NEW f, DOMAIN f = W!OwnCells(i)
    PROVE  DOMAIN W!Over(f, scratch) = DOMAIN scratch
BY RowOwn DEF W!Over

LEMMA Halves ==
    ASSUME NEW n \in Nat
    PROVE  n \div 2 \in Nat /\ 2 * (n \div 2) <= n
OBVIOUS

LEMMA RowStep == ASSUME RowInv, NEW i \in W!Item, W!Step(i) PROVE RowInv'
<1>1. /\ pc \in [W!Item -> RowPlaces] /\ pos \in [W!Item -> Int] /\ pos[i] \in Int
      /\ offset \in [W!Item -> Nat] /\ offset[i] \in Nat
      /\ 2 * offset[i] <= launch.localSz
      /\ launch.localSz \in Nat
  BY RowSizes DEF RowInv
<1>2. {"zero", "block", "tree", "done"} = RowPlaces
  BY DEF RowPlaces
<1>3. W!ShrSz \in Nat /\ pos[i] + W!ShrSz \in Int
  <2>1. W!ShrSz \in Nat
    BY RowShare DEF RowInv
  <2> QED
    BY <1>1, <2>1
<1>4. ASSUME W!WriteZeros(i) \/ W!Return(i) PROVE RowInv'
  <2>1. /\ pc[i] = "zero" \/ pc[i] = "block"
        /\ pc' = [pc EXCEPT ![i] = "done"]
        /\ waiting' = [waiting EXCEPT ![i] = FALSE]
        /\ launch' = launch /\ pos' = pos /\ barriers' = barriers
        /\ offset' = offset /\ scratch' = scratch
    BY <1>4 DEF W!WriteZeros, W!Return, W!At, W!Goto
  <2>2. W!Runs(i)
    BY <1>4 DEF W!WriteZeros, W!Return, W!At
  <2>3. pos' = [pos EXCEPT ![i] = pos[i]]
    BY <1>1, <2>1
  <2>4. RowPhase'[i] = RowPhase[i]
    BY <1>1, <2>1, RowSame DEF RowPhase
  <2> QED
    BY <1>1, <1>2, <2>1, <2>2, <2>3, <2>4, RowGoesOn
<1>5. CASE W!Fill(i)
  <2> DEFINE o == launch.localSz \div 2
  <2>1. /\ W!Runs(i) /\ pc[i] = "block"
        /\ pc' = [pc EXCEPT ![i] = "tree"]
        /\ waiting' = [waiting EXCEPT ![i] = TRUE]
        /\ barriers' = [barriers EXCEPT ![i] = barriers[i] + 1]
        /\ launch' = launch /\ pos' = pos
        /\ offset' = [offset EXCEPT ![i] = o]
    BY <1>5 DEF W!Fill, W!At, W!BarrierThen
  <2>2. DOMAIN scratch' = DOMAIN scratch
    <3>1. PICK f : DOMAIN f = W!OwnCells(i) /\ scratch' = W!Over(f, scratch)
      BY <1>5 DEF W!Fill, W!OwnCells
    <3> QED
      BY <3>1, RowOver
  <2>3. /\ RowPhase[i] \in DOMAIN RowNext
        /\ RowNext[RowPhase[i]] = RowThen(pos[i], o)
    BY <1>1, <2>1 DEF RowPhase, RowNext
  <2>4. o \in Nat /\ 2 * o <= launch.localSz
    BY <1>1, Halves
  <2> HIDE DEF o
  <2>5. RowArrival(i, o)
    BY <2>1, <2>2, <2>3, <2>4 DEF RowArrival
  <2> QED
    BY <2>5, RowArrives
<1>6. CASE W!Level(i)
  <2> DEFINE o == offset[i] \div 2
  <2>1. /\ W!Runs(i) /\ pc[i] = "tree" /\ offset[i] > 0
        /\ pc' = pc
        /\ waiting' = [waiting EXCEPT ![i] = TRUE]
        /\ barriers' = [barriers EXCEPT ![i] = barriers[i] + 1]
        /\ launch' = launch /\ pos' = pos
        /\ offset' = [offset EXCEPT ![i] = o]
    BY <1>1, <1>6 DEF W!Level, W!At, W!BarrierThen
  <2>2. DOMAIN scratch' = DOMAIN scratch
    <3>1. CASE i >= offset[i]
      BY <1>6, <3>1 DEF W!Level
    <3>2. CASE ~(i >= offset[i])
      <4>1. PICK f : DOMAIN f = W!OwnCells(i) /\ scratch' = W!Over(f, scratch)
        BY <1>6, <3>2 DEF W!Level, W!OwnCells
      <4> QED
        BY <4>1, RowOver
    <3> QED
      BY <3>1, <3>2
  <2>3. /\ RowPhase[i] \in DOMAIN RowNext
        /\ RowNext[RowPhase[i]] = RowThen(pos[i], o)
    BY <1>1, <2>1 DEF RowPhase, RowNext
  <2>4. o \in Nat /\ 2 * o <= launch.localSz
    <3>1. o \in Nat /\ 2 * o <= offset[i]
      BY <1>1, Halves
    <3> HIDE DEF o
    <3> QED
      BY <1>1, <3>1
  <2> HIDE DEF o
  <2>5. RowArrival(i, o)
    BY <1>1, <2>1, <2>2, <2>3, <2>4 DEF RowArrival
  <2> QED
    BY <2>5, RowArrives
<1>7. CASE W!StoreRows(i)
  <2> DEFINE p == pos[i] + W!ShrSz
  <2>1. /\ W!Runs(i) /\ pc[i] = "tree" /\ offset[i] = 0
        /\ pc' = [pc EXCEPT ![i] = "block"]
        /\ waiting' = [waiting EXCEPT ![i] = FALSE]
        /\ launch' = launch /\ pos' = [pos EXCEPT ![i] = p]
        /\ barriers' = barriers /\ offset' = offset /\ scratch' = scratch
    BY <1>7 DEF W!StoreRows, W!At, W!Goto
  <2>2. RowPhase[i] = <<"block", p, 0>>
    BY <2>1 DEF RowPhase
  <2>3. p \in Int
    BY <1>3
  <2> HIDE DEF p
  <2>4. RowPhase'[i] = <<"block", p, 0>>
    BY <1>1, <2>1, RowSame DEF RowPhase
  <2> QED
    BY <1>2, <2>1, <2>2, <2>3, <2>4, RowGoesOn
<1> QED
  BY <1>4, <1>5, <1>6, <1>7 DEF W!Step

-------------------------------------------------------------------------------
(***************************************************************************)
(* PartialRows                                                             *)
(***************************************************************************)

LEMMA PartSizes ==
    ASSUME NEW l \in PartialRowsLaunches
    PROVE  /\ l.kernel = "partialRows"
           /\ l.wgRows \in Nat \ {0} /\ l.wgCols \in Nat \ {0}
           /\ l.rows \in Nat \ {0} /\ l.count \in Nat \ {0}
           /\ l.cols \in Nat /\ l.group \in Nat
BY GroupKernelsAssumption DEF GroupKernelsAssumption, KernelsAssumption,
   R!PartialRowsAssumption

\* The work-items that work; the others return before the first barrier.
Active == {t \in R!Item : R!GlobalRow(t) < launch.rows}

Reached == [t \in Active |-> barriers[t]]
Inside == [t \in Active |-> pc[t] = "wait"]

\* A phase is a level of the tree and holds the tree's variable, at the barrier
\* before the level and at the one behind it.
LevelNext == [p \in Nat \X (Nat \ {0}) |-> <<p[2], p[2] \div 2>>]

\* The phase of an item: inside a level its variable is the first of the two,
\* and behind it the second.
InLevel(t) == pc[t] \in {"wait", "level", "store"}
Fits(t, p) ==
    IF InLevel(t) THEN p = <<offset[t], offset[t] \div 2>> ELSE p[2] = offset[t]

\* The phases are those of some history; which of them an item that is behind
\* its level was in, its variable does not say.
Together ==
    \E ph \in [Active -> Nat \X Nat] :
        /\ InStep(Active, Reached, Inside, ph, LevelNext)
        /\ \A t \in Active : Fits(t, ph[t])

\* What an active item's place says about it.
ItemOk(t) ==
    /\ pc[t] \in {"start", "load"} => barriers[t] = 0
    /\ InLevel(t) => barriers[t] > 0
    /\ pc[t] = "done" => offset[t] = 0
    /\ pc[t] = "store" => R!LocalCol(t) < offset[t]
    /\ R!LocalCol(t) < offset[t]
         => rhs[t] >= (R!LocalCol(t) + offset[t]) * R!WgRows + R!LocalRow(t)

PartInv ==
    /\ launch \in PartialRowsLaunches
    /\ pc \in [R!Item -> R!Location]
    /\ offset \in [R!Item -> Nat]
    /\ rhs \in [R!Item -> Int]
    /\ barriers \in [R!Item -> Nat]
    /\ \A t \in R!Item \ Active : pc[t] \in {"start", "done"}
    /\ \A t \in Active : ItemOk(t)
    /\ Together

\* The place of a group among the blocks of rows and the block columns.
LEMMA PartGroup ==
    ASSUME launch \in PartialRowsLaunches
    PROVE  /\ R!GroupCountRows \in Nat \ {0} /\ R!GroupCol \in Nat
           /\ R!GroupRow \in Nat
           /\ R!GroupCountRows * R!GroupCol <= launch.group
<1> DEFINE n == R!GroupCountRows
           g == launch.group
           q == g \div n
           r == g % n
<1>1. n \in Nat \ {0} /\ g \in Nat
  BY PartSizes DEF R!GroupCountRows, R!WgRows
<1> HIDE DEF n, g
<1>2. q \in Nat /\ r \in 0 .. n - 1 /\ g = n * q + r
  BY <1>1, DivMod
<1> DEFINE m == n * q
<1>3. m \in Int /\ q * n = m
  BY <1>1, <1>2
<1>4. R!GroupCol = q
  BY DEF R!GroupCol, n, g
<1>5. R!GroupRow = g - m
  BY <1>3, <1>4 DEF R!GroupRow, n, g
<1>6. g = m + r /\ r \in Nat
  BY <1>1, <1>2
<1> HIDE DEF r
<1>7. m <= g /\ g - m \in Nat
  <2> HIDE DEF m
  <2> QED
    BY <1>1, <1>3, <1>6
<1> QED
  BY <1>1, <1>2, <1>4, <1>5, <1>7 DEF n, g

\* The place of a work-item in the work-group's block.
LEMMA PartPlace ==
    ASSUME launch \in PartialRowsLaunches, NEW t \in R!Item
    PROVE  /\ R!WgRows \in Nat \ {0} /\ R!WgCols \in Nat \ {0} /\ t \in Nat
           /\ R!LocalCol(t) \in 0 .. R!WgCols - 1
           /\ R!LocalRow(t) \in 0 .. R!WgRows - 1
           /\ t = R!LocalCol(t) * R!WgRows + R!LocalRow(t)
           /\ R!GlobalRow(t) \in Nat
<1>1. R!WgRows \in Nat \ {0} /\ R!WgCols \in Nat \ {0}
  BY PartSizes DEF R!WgRows, R!WgCols
<1> DEFINE w == R!WgRows
           n == R!WgCols
           q == t \div w
           r == t % w
<1>2. t \in Nat /\ t < w * n
  <2>1. w * n \in Int
    BY <1>1
  <2> QED
    BY <2>1 DEF R!Item
<1>3. q \in Nat /\ r \in 0 .. w - 1 /\ t = w * q + r
  BY <1>1, <1>2, DivMod
<1>4. R!LocalCol(t) = q
  BY DEF R!LocalCol
<1>5. w * q = q * w
  BY <1>1, <1>3
<1>6. R!LocalRow(t) = r
  <2> DEFINE m == q * w
  <2>1. m \in Int /\ R!LocalRow(t) = t - m /\ t = m + r /\ r \in Int
    BY <1>1, <1>3, <1>4, <1>5 DEF R!LocalRow
  <2> HIDE DEF m, r
  <2> QED
    BY <2>1
<1> HIDE DEF q, r
<1>7. q < n
  <2> SUFFICES ASSUME n <= q PROVE FALSE
    BY <1>1, <1>3
  <2>1. w * n <= w * q
    BY <1>1, <1>3, MulMonotone
  <2> DEFINE a == w * n
             b == w * q
  <2>2. a \in Int /\ b \in Int
    BY <1>1, <1>3
  <2> HIDE DEF a, b
  <2> QED
    BY <1>2, <1>3, <2>1, <2>2 DEF a, b
<1>8. R!GlobalRow(t) \in Nat
  <2> DEFINE g == R!GroupRow
  <2>1. g \in Nat
    BY PartGroup
  <2> HIDE DEF g
  <2>2. g * w \in Nat
    BY <1>1, <2>1
  <2> QED
    BY <1>3, <1>6, <2>2 DEF R!GlobalRow, g
<1> QED
  BY <1>1, <1>2, <1>3, <1>4, <1>5, <1>6, <1>7, <1>8

\* The second operand of an item in a level is behind all items of the level.
LEMMA PartApart ==
    ASSUME PartInv, NEW t \in Active, NEW u \in Active, offset[t] = offset[u],
           R!LocalCol(t) < offset[t], R!LocalCol(u) < offset[u]
    PROVE  rhs[u] > t
<1> DEFINE w == R!WgRows
           s == offset[u]
           c == R!LocalCol(t)
           d == R!LocalCol(u)
<1>1. /\ w \in Nat \ {0} /\ t = c * w + R!LocalRow(t)
      /\ R!LocalRow(t) \in 0 .. w - 1 /\ R!LocalRow(u) \in Nat
      /\ c \in Nat /\ d \in Nat /\ s \in Nat /\ c + 1 <= s /\ s <= d + s
      /\ rhs[u] \in Int
  BY PartPlace DEF PartInv, Active
<1>2. rhs[u] >= (d + s) * w + R!LocalRow(u)
  BY DEF PartInv, ItemOk, InLevel
<1> HIDE DEF w, s, c, d
<1>3. w * (c + 1) <= w * s
  BY <1>1, MulMonotone
<1>4. w * s <= w * (d + s)
  BY <1>1, MulMonotone
<1>5. w * (c + 1) = c * w + w /\ w * (d + s) = (d + s) * w
  BY <1>1
<1> DEFINE x == c * w
           y == w * s
           z == (d + s) * w
<1>6. x \in Int /\ y \in Int /\ z \in Int
  BY <1>1
<1>7. x + w <= y /\ y <= z /\ t = x + R!LocalRow(t)
      /\ rhs[u] >= z + R!LocalRow(u)
  BY <1>1, <1>2, <1>3, <1>4, <1>5
<1> HIDE DEF x, y, z
<1> QED
  BY <1>1, <1>6, <1>7

\* PartialRows: one barrier for each level is enough.
LEMMA PartRaceFree == PartInv => R!NoScratchRace
<1> SUFFICES ASSUME PartInv PROVE R!NoScratchRace
  OBVIOUS
<1>1. ASSUME NEW t \in R!Item, NEW u \in R!Item, t # u,
             NEW a \in R!Writes(t), a \in R!Reads(u) \cup R!Writes(u)
      PROVE  FALSE
  <2>1. a = t /\ (pc[t] = "store" \/ pc[t] = "load")
    BY DEF R!Writes
  <2>2. a \in R!Reads(u)
    BY <1>1, <2>1 DEF R!Writes
  <2>3. pc[u] = "level" /\ R!LocalCol(u) < offset[u] /\ a = rhs[u]
    <3>1. ~(pc[u] = "tree" /\ offset[u] = 0 /\ R!LocalCol(u) = 0)
      <4> SUFFICES ASSUME pc[u] = "tree", offset[u] = 0, R!LocalCol(u) = 0 PROVE FALSE
        OBVIOUS
      <4>1. a = R!LocalRow(u)
        BY <2>2 DEF R!Reads
      <4>2. R!LocalRow(u) = u
        BY PartPlace DEF PartInv
      <4> QED
        BY <1>1, <2>1, <4>1, <4>2
    <3> QED
      BY <1>1, <2>1, <2>2, <3>1 DEF R!Reads
  <2>4. t \in Active /\ u \in Active
    BY <2>1, <2>3 DEF PartInv
  <2>5. PICK ph \in [Active -> Nat \X Nat] :
           /\ InStep(Active, Reached, Inside, ph, LevelNext)
           /\ \A v \in Active : Fits(v, ph[v])
    BY DEF PartInv, Together
  <2>6. /\ Free(Active, Reached, Inside, t) /\ Free(Active, Reached, Inside, u)
    BY <2>1, <2>3, <2>4 DEF Free, Inside
  <2>7. ph[t] = ph[u] /\ barriers[t] = barriers[u]
    <3>1. ph[t] = ph[u] /\ Reached[t] = Reached[u]
      BY <2>4, <2>5, <2>6, SamePhase
    <3> QED
      BY <2>4, <3>1 DEF Reached
  <2>8. pc[t] = "store" /\ R!LocalCol(t) < offset[t]
    BY <2>1, <2>3, <2>4, <2>7 DEF PartInv, ItemOk, InLevel
  <2>9. offset[t] = offset[u]
    <3>1. ph[t][1] = offset[t]
      BY <2>4, <2>5, <2>8 DEF Fits, InLevel
    <3>2. ph[u][1] = offset[u]
      BY <2>3, <2>4, <2>5 DEF Fits, InLevel
    <3> QED
      BY <2>7, <3>1, <3>2
  <2>10. rhs[u] > t
    BY <2>3, <2>4, <2>8, <2>9, PartApart
  <2>11. t \in Int
    BY PartPlace DEF PartInv
  <2> QED
    BY <2>1, <2>3, <2>10, <2>11
<1> QED
  BY <1>1 DEF R!NoScratchRace

LEMMA PartStart == R!Init => PartInv
<1> SUFFICES ASSUME R!Init PROVE PartInv
  OBVIOUS
<1> DEFINE s == R!WgCols \div 2
<1>1. /\ launch \in PartialRowsLaunches
      /\ pc = [t \in R!Item |-> "start"]
      /\ offset = [t \in R!Item |-> s]
      /\ rhs = [t \in R!Item |-> (R!LocalCol(t) + s) * R!WgRows + R!LocalRow(t)]
      /\ barriers = [t \in R!Item |-> 0]
  BY DEF R!Init
<1>2. s \in Nat
  BY <1>1, PartSizes DEF R!WgCols
<1> HIDE DEF s
<1>3. \A t \in R!Item : (R!LocalCol(t) + s) * R!WgRows + R!LocalRow(t) \in Int
  <2> TAKE t \in R!Item
  <2>1. /\ R!WgRows \in Int /\ R!LocalRow(t) \in Int /\ R!LocalCol(t) + s \in Int
    BY <1>1, <1>2, PartPlace
  <2>2. (R!LocalCol(t) + s) * R!WgRows \in Int
    BY <2>1
  <2> QED
    BY <2>1, <2>2
<1>4. rhs \in [R!Item -> Int]
  BY <1>1, <1>3
<1>5. \A t \in Active : ItemOk(t)
  <2> TAKE t \in Active
  <2>1. t \in R!Item
    BY DEF Active
  <2>2. /\ pc[t] = "start" /\ barriers[t] = 0 /\ offset[t] = s
        /\ rhs[t] = (R!LocalCol(t) + s) * R!WgRows + R!LocalRow(t)
    BY <1>1, <2>1
  <2>3. rhs[t] \in Int
    BY <1>4, <2>1
  <2>4. rhs[t] >= (R!LocalCol(t) + offset[t]) * R!WgRows + R!LocalRow(t)
    BY <2>2, <2>3
  <2> QED
    BY <2>2, <2>4 DEF ItemOk, InLevel
<1>6. Together
  <2> DEFINE ph == [t \in Active |-> <<0, s>>]
  <2>1. ph \in [Active -> Nat \X Nat]
    BY <1>2
  <2>2. /\ Reached = [t \in Active |-> 0] /\ Inside = [t \in Active |-> FALSE]
        /\ \A t, u \in Active : ph[t] = ph[u]
    BY <1>1 DEF Reached, Inside, Active
  <2>3. \A t \in Active : Fits(t, ph[t])
    BY <1>1 DEF Fits, InLevel, Active
  <2> HIDE DEF ph
  <2>4. InStep(Active, Reached, Inside, ph, LevelNext)
    BY <2>2, StartsInStep
  <2> QED
    BY <2>1, <2>3, <2>4 DEF Together
<1> QED
  BY <1>1, <1>2, <1>4, <1>5, <1>6 DEF PartInv, R!Location, Active

LEMMA PartSame ==
    ASSUME launch' = launch
    PROVE  /\ R!Item' = R!Item /\ Active' = Active
           /\ R!WgRows' = R!WgRows
           /\ \A t : R!LocalCol(t)' = R!LocalCol(t) /\ R!LocalRow(t)' = R!LocalRow(t)
<1>1. R!Item' = R!Item
  BY DEF R!Item, R!WgRows, R!WgCols
<1>2. Active' = Active
  BY <1>1 DEF Active, R!GlobalRow, R!GroupRow, R!GroupCol, R!GroupCountRows,
     R!LocalRow, R!LocalCol, R!WgRows
<1> QED
  BY <1>1, <1>2 DEF R!WgRows, R!LocalCol, R!LocalRow

LEMMA PartHistory ==
    ASSUME launch' = launch, NEW ph \in [Active -> Nat \X Nat],
           InStep(Active, Reached', Inside', ph, LevelNext),
           \A u \in Active : Fits(u, ph[u])'
    PROVE  Together'
<1>1. LevelNext' = LevelNext /\ Active' = Active
  BY PartSame DEF LevelNext
<1> SUFFICES \E p \in [Active -> Nat \X Nat] :
                /\ InStep(Active, Reached', Inside', p, LevelNext)
                /\ \A u \in Active : Fits(u, p[u])'
  BY <1>1 DEF Together
<1> QED
  OBVIOUS

\* The steps of the other items leave an item as it is.
LEMMA PartOthers ==
    ASSUME PartInv, NEW t \in R!Item, launch' = launch,
           NEW l \in R!Location, pc' = [pc EXCEPT ![t] = l],
           \A u \in R!Item \ {t} :
              /\ barriers'[u] = barriers[u]
              /\ offset'[u] = offset[u] /\ rhs'[u] = rhs[u],
           NEW u \in Active \ {t}
    PROVE  ItemOk(u)' /\ \A p : Fits(u, p) => Fits(u, p)'
<1>1. u \in R!Item \ {t} /\ ItemOk(u)
  BY DEF PartInv, Active
<1>2. /\ pc'[u] = pc[u] /\ barriers'[u] = barriers[u]
      /\ offset'[u] = offset[u] /\ rhs'[u] = rhs[u]
  BY <1>1 DEF PartInv
<1>3. ItemOk(u)'
  BY <1>1, <1>2, PartSame DEF ItemOk, InLevel
<1> QED
  BY <1>2, <1>3 DEF Fits, InLevel

\* An item that goes on within its phase.
PartWalk(t, l) ==
    /\ t \in Active /\ launch' = launch
    /\ Free(Active, Reached, Inside, t)
    /\ l \in R!Location \ {"wait"} /\ pc' = [pc EXCEPT ![t] = l]
    /\ barriers' = barriers
    /\ offset' \in [R!Item -> Nat] /\ rhs' \in [R!Item -> Int]
    /\ \A u \in R!Item \ {t} : offset'[u] = offset[u] /\ rhs'[u] = rhs[u]
    /\ ItemOk(t)'
    /\ \A p \in Nat \X Nat : Fits(t, p) => Fits(t, p)'

LEMMA PartGoesOn ==
    ASSUME PartInv, NEW t, NEW l, PartWalk(t, l)
    PROVE  PartInv'
<1> USE DEF PartWalk
<1>1. pc' \in [R!Item -> R!Location] /\ t \in R!Item
  BY DEF PartInv, Active
<1>2. \A u \in Active \ {t} : ItemOk(u)' /\ \A p : Fits(u, p) => Fits(u, p)'
  BY <1>1, PartOthers
<1>3. \A u \in R!Item \ Active : pc'[u] \in {"start", "done"}
  BY DEF PartInv
<1>4. Together'
  <2>1. PICK ph \in [Active -> Nat \X Nat] :
           /\ InStep(Active, Reached, Inside, ph, LevelNext)
           /\ \A u \in Active : Fits(u, ph[u])
    BY DEF PartInv, Together
  <2>2. Reached' = Reached /\ Inside' = [Inside EXCEPT ![t] = FALSE]
    BY <1>1, PartSame DEF Reached, Inside, PartInv, Active
  <2>3. InStep(Active, Reached', Inside', ph, LevelNext)
    BY <2>1, <2>2, GoesOn
  <2>4. \A u \in Active : Fits(u, ph[u])'
    <3> TAKE u \in Active
    <3>1. ph[u] \in Nat \X Nat /\ Fits(u, ph[u])
      BY <2>1
    <3>2. CASE u = t
      BY <3>1, <3>2
    <3>3. CASE u # t
      BY <1>2, <3>1, <3>3
    <3> QED
      BY <3>2, <3>3
  <2> QED
    BY <2>1, <2>3, <2>4, PartHistory
<1>5. \A u \in Active : ItemOk(u)'
  BY <1>2
<1> QED
  BY <1>1, <1>3, <1>4, <1>5, PartSame DEF PartInv

LEMMA PartArrives ==
    ASSUME PartInv, NEW t \in Active, R!Arrive(t)
    PROVE  PartInv'
<1>1. /\ launch' = launch /\ t \in R!Item
      /\ pc[t] = "tree" /\ offset[t] > 0
      /\ pc' = [pc EXCEPT ![t] = "wait"]
      /\ barriers' = [barriers EXCEPT ![t] = barriers[t] + 1]
      /\ offset' = offset /\ rhs' = rhs
      /\ barriers[t] \in Nat /\ offset[t] \in Nat
  BY DEF R!Arrive, R!Goto, PartInv, Active
<1>2. /\ pc' \in [R!Item -> R!Location] /\ pc'[t] = "wait"
      /\ barriers' \in [R!Item -> Nat] /\ barriers'[t] = barriers[t] + 1
      /\ \A u \in R!Item \ {t} : pc'[u] = pc[u] /\ barriers'[u] = barriers[u]
  BY <1>1 DEF PartInv, R!Location
<1>3. \A u \in Active \ {t} : ItemOk(u)' /\ \A p : Fits(u, p) => Fits(u, p)'
  BY <1>1, <1>2, PartOthers DEF R!Location
<1>4. ItemOk(t)'
  <2>1. ItemOk(t)
    BY DEF PartInv
  <2> QED
    BY <1>1, <1>2, <2>1, PartSame DEF ItemOk, InLevel
<1>5. Together'
  <2>1. PICK ph \in [Active -> Nat \X Nat] :
           /\ InStep(Active, Reached, Inside, ph, LevelNext)
           /\ \A u \in Active : Fits(u, ph[u])
    BY DEF PartInv, Together
  <2>2. /\ Reached' = [Reached EXCEPT ![t] = Reached[t] + 1]
        /\ Inside' = [Inside EXCEPT ![t] = TRUE]
    BY <1>1, <1>2, PartSame DEF Reached, Inside, Active
  <2>3. Free(Active, Reached, Inside, t)
    BY <1>1 DEF Free, Inside
  <2>4. ph[t] \in Nat \X Nat /\ ph[t][2] = offset[t]
    BY <1>1, <2>1 DEF Fits, InLevel
  <2>5. /\ ph[t] \in DOMAIN LevelNext
        /\ LevelNext[ph[t]] = <<offset[t], offset[t] \div 2>>
    BY <1>1, <2>4 DEF LevelNext
  <2>6. LevelNext[ph[t]] \in Nat \X Nat
    BY <1>1, <2>5
  <2>7. PICK ph2 \in [Active -> Nat \X Nat] :
           /\ ph2[t] = LevelNext[ph[t]]
           /\ \A u \in Active \ {t} : ph2[u] = ph[u]
    <3> DEFINE f == [ph EXCEPT ![t] = LevelNext[ph[t]]]
    <3>1. /\ f \in [Active -> Nat \X Nat] /\ f[t] = LevelNext[ph[t]]
          /\ \A u \in Active \ {t} : f[u] = ph[u]
      BY <2>6
    <3> HIDE DEF f
    <3> QED
      BY <3>1
  <2>8. Arrival(Active, Reached, Inside, ph, LevelNext, t, Reached', Inside', ph2)
    BY <2>1, <2>2, <2>3, <2>5, <2>7 DEF Arrival
  <2>9. InStep(Active, Reached', Inside', ph2, LevelNext)
    BY <2>8, Arrives
  <2>10. \A u \in Active : Fits(u, ph2[u])'
    <3> TAKE u \in Active
    <3>1. CASE u = t
      BY <1>1, <1>2, <2>5, <2>7, <3>1 DEF Fits, InLevel
    <3>2. CASE u # t
      BY <1>3, <2>1, <2>7, <3>2
    <3> QED
      BY <3>1, <3>2
  <2> QED
    BY <1>1, <2>9, <2>10, PartHistory
<1>6. \A u \in Active : ItemOk(u)'
  BY <1>3, <1>4
<1>7. \A u \in R!Item \ Active : pc'[u] \in {"start", "done"}
  BY <1>1 DEF PartInv
<1> QED
  BY <1>1, <1>2, <1>5, <1>6, <1>7, PartSame DEF PartInv

LEMMA PartStep == ASSUME PartInv, NEW t \in R!Item, R!Step(t) PROVE PartInv'
<1>1. /\ pc \in [R!Item -> R!Location] /\ offset \in [R!Item -> Nat]
      /\ rhs \in [R!Item -> Int] /\ offset[t] \in Nat /\ rhs[t] \in Int
      /\ barriers[t] \in Nat
  BY DEF PartInv
<1>2. pc[t] # "start" /\ pc[t] # "done" => t \in Active
  BY DEF PartInv
<1>3. ASSUME t \in Active PROVE ItemOk(t)
  BY <1>3 DEF PartInv
<1>4. CASE R!Enter(t)
  <2>1. /\ pc[t] = "start" /\ launch' = launch /\ barriers' = barriers
        /\ offset' = offset /\ rhs' = rhs
        /\ pc' = [pc EXCEPT ![t] = IF R!GlobalRow(t) >= launch.rows THEN "done"
                                   ELSE "load"]
    BY <1>4 DEF R!Enter, R!Goto
  <2>2. CASE t \in Active
    <3>1. pc' = [pc EXCEPT ![t] = "load"]
      <4>1. R!GlobalRow(t) \in Int /\ launch.rows \in Int
        BY PartPlace, PartSizes DEF PartInv
      <4>2. ~(R!GlobalRow(t) >= launch.rows)
        BY <2>2, <4>1 DEF Active
      <4> QED
        BY <2>1, <4>2
    <3>2. /\ Free(Active, Reached, Inside, t)
          /\ \A p : Fits(t, p) => Fits(t, p)'
      BY <1>1, <2>1, <2>2, <3>1 DEF Free, Inside, Fits, InLevel
    <3>3. ItemOk(t)'
      BY <1>1, <1>3, <2>1, <2>2, <3>1, PartSame DEF ItemOk, InLevel
    <3> HIDE DEF PartInv
    <3>4. PartWalk(t, "load")
      BY <1>1, <2>1, <2>2, <3>1, <3>2, <3>3 DEF PartWalk, R!Location
    <3> QED
      BY <3>4, PartGoesOn
  <2>3. CASE t \notin Active
    <3>1. pc' = [pc EXCEPT ![t] = "done"]
      <4>1. R!GlobalRow(t) \in Int /\ launch.rows \in Int
        BY PartPlace, PartSizes DEF PartInv
      <4>2. (R!GlobalRow(t) >= launch.rows)
        BY <2>3, <4>1 DEF Active
      <4> QED
        BY <2>1, <4>2
    <3>2. pc' \in [R!Item -> R!Location] /\ \A u \in R!Item \ {t} : pc'[u] = pc[u]
      BY <1>1, <3>1 DEF R!Location
    <3>3. \A u \in R!Item \ Active : pc'[u] \in {"start", "done"}
      BY <1>1, <3>1 DEF PartInv
    <3>4. \A u \in Active : ItemOk(u)' /\ \A p : Fits(u, p) => Fits(u, p)'
      BY <2>1, <2>3, <3>1, PartOthers DEF R!Location
    <3>5. Reached' = Reached /\ Inside' = Inside
      BY <2>1, <2>3, <3>2, PartSame DEF Reached, Inside, Active
    <3>6. Together'
      <4>1. PICK ph \in [Active -> Nat \X Nat] :
            /\ InStep(Active, Reached, Inside, ph, LevelNext)
            /\ \A u \in Active : Fits(u, ph[u])
        BY DEF PartInv, Together
      <4>2. InStep(Active, Reached', Inside', ph, LevelNext)
        BY <3>5, <4>1
      <4>3. \A u \in Active : Fits(u, ph[u])'
        BY <3>4, <4>1
      <4> QED
        BY <2>1, <4>2, <4>3, PartHistory
    <3> QED
      BY <2>1, <3>2, <3>3, <3>4, <3>6, PartSame DEF PartInv
  <2> QED
    BY <2>2, <2>3
<1>5. CASE R!LoadElement(t)
  <2>1. /\ launch' = launch /\ pc' = pc /\ barriers' = barriers
        /\ offset' = offset /\ rhs' = rhs
    BY <1>5 DEF R!LoadElement
  <2>2. \A u \in Active : ItemOk(u)' = ItemOk(u) /\ \A p : Fits(u, p)' = Fits(u, p)
    BY <2>1, PartSame DEF ItemOk, Fits, InLevel
  <2>3. Reached' = Reached /\ Inside' = Inside
    BY <2>1, PartSame DEF Reached, Inside
  <2>4. Together'
    <3>1. PICK ph \in [Active -> Nat \X Nat] :
          /\ InStep(Active, Reached, Inside, ph, LevelNext)
          /\ \A u \in Active : Fits(u, ph[u])
      BY DEF PartInv, Together
    <3>2. InStep(Active, Reached', Inside', ph, LevelNext)
      BY <2>3, <3>1
    <3>3. \A u \in Active : Fits(u, ph[u])'
      BY <2>2, <3>1
    <3> QED
      BY <2>1, <3>2, <3>3, PartHistory
  <2> QED
    BY <2>1, <2>2, <2>4, PartSame DEF PartInv
<1>6. CASE R!PutScratch(t)
  <2>1. /\ pc[t] = "load" /\ pc' = [pc EXCEPT ![t] = "tree"] /\ launch' = launch
        /\ barriers' = barriers /\ offset' = offset /\ rhs' = rhs
    BY <1>6 DEF R!PutScratch, R!Goto
  <2>2. t \in Active
    BY <1>2, <2>1
  <2>3. /\ Free(Active, Reached, Inside, t)
        /\ \A p : Fits(t, p) => Fits(t, p)'
    BY <1>1, <2>1, <2>2 DEF Free, Inside, Fits, InLevel
  <2>4. ItemOk(t)'
    BY <1>1, <1>3, <2>1, <2>2, PartSame DEF ItemOk, InLevel
  <2> HIDE DEF PartInv
  <2>5. PartWalk(t, "tree")
    BY <1>1, <2>1, <2>2, <2>3, <2>4 DEF PartWalk, R!Location
  <2> QED
    BY <2>5, PartGoesOn
<1>7. CASE R!Arrive(t)
  <2>1. t \in Active
    BY <1>2, <1>7 DEF R!Arrive
  <2> QED
    BY <1>7, <2>1, PartArrives
<1>8. CASE R!Leave(t)
  <2>1. /\ pc[t] = "wait" /\ pc' = [pc EXCEPT ![t] = "level"] /\ launch' = launch
        /\ barriers' = barriers /\ offset' = offset /\ rhs' = rhs
        /\ \A u \in R!Item : \/ barriers[u] >= barriers[t] \/ pc[u] = "done"
    BY <1>8 DEF R!Leave, R!Goto
  <2>2. t \in Active
    BY <1>2, <2>1
  <2>3. PICK ph \in [Active -> Nat \X Nat] :
           /\ InStep(Active, Reached, Inside, ph, LevelNext)
           /\ \A u \in Active : Fits(u, ph[u])
    BY DEF PartInv, Together
  <2>4. ASSUME NEW u \in Active PROVE Reached[u] >= Reached[t]
    <3>1. /\ Reached[u] = barriers[u] /\ Reached[t] = barriers[t]
          /\ barriers[u] \in Nat /\ Inside[t] = TRUE /\ u \in R!Item
      BY <2>1, <2>2 DEF Reached, Inside, PartInv, Active
    <3>2. barriers[t] - 1 <= barriers[u]
      BY <2>2, <2>3, <3>1 DEF InStep, Passed
    <3>3. CASE pc[u] = "done" /\ barriers[t] = barriers[u] + 1
      <4>1. ph[u] \in DOMAIN LevelNext
        BY <2>2, <2>3, <3>1, <3>3 DEF InStep
      <4>2. ph[u][2] # 0
        BY <4>1 DEF LevelNext
      <4>3. ph[u][2] = offset[u] /\ offset[u] = 0
        BY <2>3, <3>3 DEF Fits, InLevel, PartInv, ItemOk
      <4> QED
        BY <4>2, <4>3
    <3> QED
      BY <1>1, <2>1, <3>1, <3>2, <3>3
  <2>5. /\ Free(Active, Reached, Inside, t)
        /\ \A p : Fits(t, p) => Fits(t, p)'
    BY <1>1, <2>1, <2>2, <2>4 DEF Free, Fits, InLevel
  <2>7. ItemOk(t)'
    BY <1>1, <1>3, <2>1, <2>2, PartSame DEF ItemOk, InLevel
  <2> HIDE DEF PartInv
  <2>8. PartWalk(t, "level")
    BY <1>1, <2>1, <2>2, <2>5, <2>7 DEF PartWalk, R!Location
  <2> QED
    BY <2>8, PartGoesOn
<1>9. CASE R!Skip(t)
  <2> DEFINE s == offset[t] \div 2
  <2>1. /\ pc[t] = "level" /\ pc' = [pc EXCEPT ![t] = "tree"] /\ launch' = launch
        /\ barriers' = barriers /\ rhs' = rhs
        /\ R!LocalCol(t) >= offset[t]
        /\ offset' = [offset EXCEPT ![t] = s]
    BY <1>9 DEF R!Skip, R!Goto
  <2>2. t \in Active
    BY <1>2, <2>1
  <2>3. s \in Nat /\ s <= offset[t] /\ offset'[t] = s
    BY <1>1, <2>1, Halves
  <2>4. /\ Free(Active, Reached, Inside, t)
        /\ \A p \in Nat \X Nat : Fits(t, p) => Fits(t, p)'
    <3>1. \A p \in Nat \X Nat : Fits(t, p) => p[2] = s
      BY <2>1 DEF Fits, InLevel
    <3> HIDE DEF s
    <3> QED
      BY <1>1, <2>1, <2>2, <2>3, <3>1 DEF Free, Inside, Fits, InLevel
  <2> HIDE DEF s
  <2>5. ItemOk(t)'
    <3>1. R!LocalCol(t) \in Nat
      BY PartPlace DEF PartInv
    <3> QED
      BY <1>1, <1>3, <2>1, <2>2, <2>3, <3>1, PartSame DEF ItemOk, InLevel
  <2>6. /\ offset' \in [R!Item -> Nat]
        /\ \A u \in R!Item \ {t} : offset'[u] = offset[u]
    BY <1>1, <2>1, <2>3
  <2> HIDE DEF PartInv
  <2>7. PartWalk(t, "tree")
    BY <1>1, <2>1, <2>2, <2>4, <2>5, <2>6 DEF PartWalk, R!Location
  <2> QED
    BY <2>7, PartGoesOn
<1>10. CASE R!LoadPair(t)
  <2>1. /\ pc[t] = "level" /\ pc' = [pc EXCEPT ![t] = "store"] /\ launch' = launch
        /\ barriers' = barriers /\ rhs' = rhs /\ offset' = offset
        /\ R!LocalCol(t) < offset[t]
    BY <1>10 DEF R!LoadPair, R!Goto
  <2>2. t \in Active
    BY <1>2, <2>1
  <2>3. /\ Free(Active, Reached, Inside, t)
        /\ \A p : Fits(t, p) => Fits(t, p)'
    BY <1>1, <2>1, <2>2 DEF Free, Inside, Fits, InLevel
  <2>4. ItemOk(t)'
    BY <1>1, <1>3, <2>1, <2>2, PartSame DEF ItemOk, InLevel
  <2> HIDE DEF PartInv
  <2>5. PartWalk(t, "store")
    BY <1>1, <2>1, <2>2, <2>3, <2>4 DEF PartWalk, R!Location
  <2> QED
    BY <2>5, PartGoesOn
<1>11. CASE R!StoreSum(t)
  <2> DEFINE s == offset[t] \div 2
             r == rhs[t] - s * R!WgRows
  <2>1. /\ pc[t] = "store" /\ pc' = [pc EXCEPT ![t] = "tree"] /\ launch' = launch
        /\ barriers' = barriers /\ rhs' = [rhs EXCEPT ![t] = r]
        /\ offset' = [offset EXCEPT ![t] = s]
    BY <1>11 DEF R!StoreSum, R!Goto
  <2>2. t \in Active
    BY <1>2, <2>1
  <2>3. s \in Nat /\ 2 * s <= offset[t] /\ offset'[t] = s
    BY <1>1, <2>1, Halves
  <2>4. /\ Free(Active, Reached, Inside, t)
        /\ \A p \in Nat \X Nat : Fits(t, p) => Fits(t, p)'
    <3>1. \A p \in Nat \X Nat : Fits(t, p) => p[2] = s
      BY <2>1 DEF Fits, InLevel
    <3> HIDE DEF s, r
    <3> QED
      BY <1>1, <2>1, <2>2, <2>3, <3>1 DEF Free, Inside, Fits, InLevel
  <2>5. /\ R!LocalCol(t) \in Nat /\ R!LocalRow(t) \in Nat /\ R!WgRows \in Nat \ {0}
    BY PartPlace DEF PartInv
  <2>6. r \in Int /\ rhs'[t] = r
    <3>1. s * R!WgRows \in Int
      BY <2>3, <2>5
    <3> QED
      BY <1>1, <2>1, <3>1
  <2>7. rhs[t] >= (R!LocalCol(t) + offset[t]) * R!WgRows + R!LocalRow(t)
    BY <1>3, <2>1, <2>2 DEF ItemOk
  <2>8. r >= (R!LocalCol(t) + s) * R!WgRows + R!LocalRow(t)
    <3> DEFINE w == R!WgRows
               x == w * (R!LocalCol(t) + 2 * s)
               y == w * (R!LocalCol(t) + offset[t])
               z == w * (R!LocalCol(t) + s)
    <3>0. w \in Nat
      BY <2>5
    <3> HIDE DEF s, w
    <3>1. x <= y
      BY <1>1, <2>3, <2>5, <3>0, MulMonotone
    <3>2. /\ (R!LocalCol(t) + offset[t]) * w = y
          /\ (R!LocalCol(t) + s) * w = z
          /\ x = z + s * w
      BY <1>1, <2>3, <2>5, <3>0
    <3>3. x \in Int /\ y \in Int /\ z \in Int /\ s * w \in Int
      BY <1>1, <2>3, <2>5, <3>0
    <3>4. rhs[t] >= y + R!LocalRow(t) /\ r = rhs[t] - s * w
      BY <2>7, <3>2 DEF w
    <3>5. r >= z + R!LocalRow(t)
      <4> DEFINE v == s * w
      <4>1. v \in Int /\ x = z + v /\ r = rhs[t] - v
        BY <3>2, <3>3, <3>4
      <4> HIDE DEF v, x, y, z, r
      <4> QED
        BY <1>1, <2>5, <3>1, <3>3, <3>4, <4>1
    <3> QED
      BY <3>2, <3>5 DEF w
  <2> HIDE DEF s, r
  <2>9. ItemOk(t)'
    BY <1>1, <1>3, <2>1, <2>2, <2>3, <2>6, <2>8, PartSame DEF ItemOk, InLevel
  <2>10. /\ offset' \in [R!Item -> Nat] /\ rhs' \in [R!Item -> Int]
         /\ \A u \in R!Item \ {t} : offset'[u] = offset[u] /\ rhs'[u] = rhs[u]
    BY <1>1, <2>1, <2>3, <2>6
  <2> HIDE DEF PartInv
  <2>11. PartWalk(t, "tree")
    BY <1>1, <2>1, <2>2, <2>4, <2>9, <2>10 DEF PartWalk, R!Location
  <2> QED
    BY <2>11, PartGoesOn
<1>12. ASSUME R!WriteBack(t) \/ R!Return(t) PROVE PartInv'
  <2>1. /\ pc[t] = "tree" /\ pc' = [pc EXCEPT ![t] = "done"] /\ launch' = launch
        /\ barriers' = barriers /\ rhs' = rhs /\ offset' = offset /\ offset[t] = 0
    BY <1>12 DEF R!WriteBack, R!Return, R!Goto
  <2>2. t \in Active
    BY <1>2, <2>1
  <2>3. /\ Free(Active, Reached, Inside, t)
        /\ \A p : Fits(t, p) => Fits(t, p)'
    BY <1>1, <2>1, <2>2 DEF Free, Inside, Fits, InLevel
  <2>4. ItemOk(t)'
    BY <1>1, <1>3, <2>1, <2>2, PartSame DEF ItemOk, InLevel
  <2> HIDE DEF PartInv
  <2>5. PartWalk(t, "done")
    BY <1>1, <2>1, <2>2, <2>3, <2>4 DEF PartWalk, R!Location
  <2> QED
    BY <2>5, PartGoesOn
<1> QED
  BY <1>4, <1>5, <1>6, <1>7, <1>8, <1>9, <1>10, <1>11, <1>12 DEF R!Step

\* The cells that a group has written are those of rows of the matrix.
PartOut == DOMAIN out \subseteq {R!Cell(row) : row \in 0 .. launch.rows - 1}

LEMMA PartOutStep ==
    ASSUME PartInv, PartOut, NEW t \in R!Item, R!Step(t)
    PROVE  PartOut'
<1>1. launch' = launch
  BY DEF R!Step, R!Enter, R!LoadElement, R!PutScratch, R!Arrive, R!Leave, R!Skip,
     R!LoadPair, R!StoreSum, R!WriteBack, R!Return
<1>2. \A row : R!Cell(row)' = R!Cell(row)
  BY <1>1 DEF R!Cell, R!GroupCol, R!GroupCountRows, R!WgRows
<1>3. CASE R!WriteBack(t)
  <2>1. /\ pc[t] = "tree"
        /\ DOMAIN out' = DOMAIN out \cup {R!Cell(R!GlobalRow(t))}
    BY <1>3 DEF R!WriteBack
  <2>2. t \in Active
    BY <2>1 DEF PartInv
  <2>3. R!GlobalRow(t) \in 0 .. launch.rows - 1
    BY <2>2, PartPlace, PartSizes DEF PartInv, Active
  <2> QED
    BY <1>1, <1>2, <2>1, <2>3 DEF PartOut
<1>4. ASSUME ~R!WriteBack(t) PROVE PartOut'
  <2>1. out' = out
    BY <1>4 DEF R!Step, R!Enter, R!LoadElement, R!PutScratch, R!Arrive, R!Leave,
       R!Skip, R!LoadPair, R!StoreSum, R!Return
  <2> QED
    BY <1>1, <1>2, <2>1 DEF PartOut
<1> QED
  BY <1>3, <1>4

\* The groups that a launch needs: one for each block of rows in each of the
\* block columns.
UsefulGroups ==
    \A l \in PartialRowsLaunches :
        l.group < ((l.rows - 1) \div l.wgRows + 1) * l.count

LEMMA PartOutFits ==
    ASSUME UsefulGroups, PartInv, PartOut
    PROVE  R!OutputFits
<1> DEFINE n == R!GroupCountRows
           q == R!GroupCol
           k == launch.count
           h == launch.rows
<1>1. launch \in PartialRowsLaunches /\ launch.group < n * k
  BY DEF PartInv, UsefulGroups, R!GroupCountRows, R!WgRows
<1>2. /\ n \in Nat \ {0} /\ q \in Nat /\ n * q <= launch.group
      /\ launch.group \in Nat /\ k \in Nat \ {0} /\ h \in Nat \ {0}
  BY <1>1, PartGroup, PartSizes
<1> HIDE DEF n, q, k, h
<1>3. q < k
  <2> SUFFICES ASSUME k <= q PROVE FALSE
    BY <1>2
  <2>1. n * k <= n * q
    BY <1>2, MulMonotone
  <2> DEFINE a == n * k
             b == n * q
  <2>2. a \in Int /\ b \in Int
    BY <1>2
  <2>3. a <= b /\ b <= launch.group /\ launch.group < a
    BY <1>1, <1>2, <2>1
  <2> HIDE DEF a, b
  <2> QED
    BY <1>2, <2>2, <2>3
<1>4. ASSUME NEW row \in 0 .. h - 1 PROVE R!Cell(row) \in 0 .. h * k - 1
  <2> DEFINE a == h * q
             b == h * (q + 1)
             c == h * k
  <2>1. a \in Nat /\ b \in Nat /\ c \in Nat /\ b = a + h /\ q * h = a
    BY <1>2
  <2>2. b <= c
    BY <1>2, <1>3, MulMonotone
  <2>3. R!Cell(row) = a + row
    BY <2>1 DEF R!Cell, q, h
  <2> HIDE DEF a, b, c
  <2>4. a + row \in 0 .. c - 1
    BY <1>2, <2>1, <2>2
  <2> QED
    BY <2>3, <2>4 DEF c
<1> QED
  BY <1>4 DEF PartOut, R!OutputFits, h, k

-------------------------------------------------------------------------------
(***************************************************************************)
(* DiagonalBlocksInverter                                                  *)
(***************************************************************************)

LEMMA InvSizes ==
    /\ BlockSize \in Nat \ {0}
    /\ \A l \in InverterLaunches : l.kernel = "inverter"
BY GroupKernelsAssumption DEF GroupKernelsAssumption, KernelsAssumption,
   D!InverterAssumption

\* The phases are what an item does next, and in which column; one that has
\* returned has nothing to do in the loop any more.
InvPhase ==
    [i \in D!Index |-> <<IF pc[i] = "done" THEN "sum" ELSE pc[i], pos[i]>>]

InvNext ==
    [p \in {q \in {"load", "diagonal", "sum", "store"} \X Int :
               q[1] = "sum" => D!MoreColumns(q[2])} |->
        IF p[1] = "load" THEN <<IF launch.unit THEN "sum" ELSE "diagonal", p[2]>>
        ELSE IF p[1] = "diagonal" THEN <<"sum", p[2]>>
        ELSE IF p[1] = "sum" THEN <<"store", p[2]>>
        ELSE <<"sum", D!NextColumn(p[2])>>]

InvInv ==
    /\ launch \in InverterLaunches
    /\ pc \in [D!Index -> D!Location]
    /\ pos \in [D!Index -> Int]
    /\ InStep(D!Index, barriers, waiting, InvPhase, InvNext)

LEMMA InvColumns == D!FirstColumn \in Int /\ \A j \in Int : D!NextColumn(j) \in Int
BY InvSizes DEF D!FirstColumn, D!NextColumn

LEMMA InvFree ==
    ASSUME NEW i \in D!Index, ~waiting[i]
    PROVE  Free(D!Index, barriers, waiting, i)
BY DEF Free

\* DiagonalBlocksInverter: an item works in its own row, and reads only the row
\* of the column's diagonal besides, which is not written in that column.
LEMMA InvRaceFree == InvInv => D!NoLocalRace
<1> SUFFICES ASSUME InvInv,
                    NEW i \in D!Index, NEW u \in D!Index, i # u,
                    NEW c \in D!Writes(i), c \in D!Reads(u) \cup D!Writes(u)
             PROVE  FALSE
  BY DEF D!NoLocalRace
<1>1. /\ ~waiting[i] /\ pc[i] \in {"load", "diagonal", "store"}
      /\ ~waiting[u] /\ pc[u] # "done"
  BY DEF D!Writes, D!Reads, D!At
<1>2. InvPhase[i] = InvPhase[u]
  BY <1>1, InvFree, SamePhase DEF InvInv
<1>3. pc[i] = pc[u] /\ pos[i] = pos[u]
  BY <1>1, <1>2 DEF InvPhase
<1>4. CASE pc[i] = "load"
  BY <1>3, <1>4 DEF D!Writes, D!Reads, D!At
<1>5. CASE pc[i] = "diagonal"
  BY <1>3, <1>5 DEF D!Writes, D!Reads, D!At
<1>6. CASE pc[i] = "store"
  <2>1. /\ c = <<i, pos[i]>> /\ D!Active(i, pos[i])
        /\ c = <<pos[i], pos[i]>> \/ c = <<u, pos[i]>>
    BY <1>3, <1>6 DEF D!Writes, D!Reads, D!At
  <2>2. i # pos[i]
    <3>1. i \in Int /\ pos[i] \in Int
      BY InvSizes DEF D!Index, InvInv
    <3> QED
      BY <2>1, <3>1 DEF D!Active
  <2> QED
    BY <2>1, <2>2
<1> QED
  BY <1>1, <1>4, <1>5, <1>6

LEMMA InvStart == D!Init => InvInv
<1> SUFFICES ASSUME D!Init PROVE InvInv
  OBVIOUS
<1>1. /\ launch \in InverterLaunches
      /\ pc = [i \in D!Index |-> "load"]
      /\ pos = [i \in D!Index |-> D!FirstColumn]
      /\ barriers = [i \in D!Index |-> 0] /\ waiting = [i \in D!Index |-> FALSE]
  BY DEF D!Init
<1>2. \A i, u \in D!Index : InvPhase[i] = InvPhase[u]
  BY <1>1 DEF InvPhase
<1>3. InStep(D!Index, barriers, waiting, InvPhase, InvNext)
  BY <1>1, <1>2, StartsInStep
<1> QED
  BY <1>1, <1>3, InvColumns DEF InvInv, D!Location

LEMMA InvSame ==
    ASSUME launch' = launch
    PROVE  InvNext' = InvNext
BY DEF InvNext, D!MoreColumns, D!NextColumn

\* An item that reaches the barrier behind its phase, and will do l after it.
InvArrival(i, l, j) ==
    /\ i \in D!Index /\ ~waiting[i] /\ launch' = launch
    /\ l \in D!Location \ {"done"} /\ pc' = [pc EXCEPT ![i] = l]
    /\ j \in Int /\ pos' = [pos EXCEPT ![i] = j]
    /\ waiting' = [waiting EXCEPT ![i] = TRUE]
    /\ barriers' = [barriers EXCEPT ![i] = barriers[i] + 1]
    /\ InvPhase[i] \in DOMAIN InvNext
    /\ InvNext[InvPhase[i]] = <<l, j>>

LEMMA InvArrives ==
    ASSUME InvInv, NEW i, NEW l, NEW j, InvArrival(i, l, j)
    PROVE  InvInv'
<1> USE DEF InvArrival
<1>1. /\ pc' \in [D!Index -> D!Location] /\ pos' \in [D!Index -> Int]
      /\ pc'[i] = l /\ pos'[i] = j
      /\ \A u \in D!Index \ {i} : pc'[u] = pc[u] /\ pos'[u] = pos[u]
  BY DEF InvInv
<1>2. InvPhase'[i] = InvNext[InvPhase[i]]
  BY <1>1 DEF InvPhase
<1>3. \A u \in D!Index \ {i} : InvPhase'[u] = InvPhase[u]
  BY <1>1 DEF InvPhase
<1>4. Arrival(D!Index, barriers, waiting, InvPhase, InvNext, i,
              barriers', waiting', InvPhase')
  BY <1>2, <1>3, InvFree DEF Arrival, InvInv
<1>5. InStep(D!Index, barriers', waiting', InvPhase', InvNext)
  BY <1>4, Arrives
<1> QED
  BY <1>1, <1>5, InvSame DEF InvInv

LEMMA InvStep == ASSUME InvInv, NEW i \in D!Index, D!Step(i) PROVE InvInv'
<1>1. /\ pc \in [D!Index -> D!Location] /\ pos \in [D!Index -> Int]
      /\ pos[i] \in Int
  BY DEF InvInv
<1>2. {"load", "diagonal", "sum", "store", "done"} = D!Location
  BY DEF D!Location
<1>3. CASE D!Load(i)
  <2> DEFINE l == IF launch.unit THEN "sum" ELSE "diagonal"
  <2>1. /\ ~waiting[i] /\ pc[i] = "load" /\ launch' = launch
        /\ waiting' = [waiting EXCEPT ![i] = TRUE]
        /\ barriers' = [barriers EXCEPT ![i] = barriers[i] + 1]
        /\ pc' = [pc EXCEPT ![i] = l] /\ pos' = pos
    BY <1>3 DEF D!Load, D!At, D!BarrierThen, D!Goto
  <2>2. pos' = [pos EXCEPT ![i] = pos[i]] /\ l \in D!Location \ {"done"}
    BY <1>1, <1>2, <2>1
  <2>3. /\ InvPhase[i] \in DOMAIN InvNext
        /\ InvNext[InvPhase[i]] = <<l, pos[i]>>
    BY <1>1, <2>1 DEF InvPhase, InvNext
  <2> HIDE DEF l
  <2>4. InvArrival(i, l, pos[i])
    BY <1>1, <2>1, <2>2, <2>3 DEF InvArrival
  <2> QED
    BY <2>4, InvArrives
<1>4. CASE D!InvertDiagonal(i)
  <2>1. /\ ~waiting[i] /\ pc[i] = "diagonal" /\ launch' = launch
        /\ waiting' = [waiting EXCEPT ![i] = TRUE]
        /\ barriers' = [barriers EXCEPT ![i] = barriers[i] + 1]
        /\ pc' = [pc EXCEPT ![i] = "sum"] /\ pos' = pos
    BY <1>4 DEF D!InvertDiagonal, D!At, D!BarrierThen, D!Goto
  <2>2. pos' = [pos EXCEPT ![i] = pos[i]]
    BY <1>1, <2>1
  <2>3. /\ InvPhase[i] \in DOMAIN InvNext
        /\ InvNext[InvPhase[i]] = <<"sum", pos[i]>>
    BY <1>1, <2>1 DEF InvPhase, InvNext
  <2>4. InvArrival(i, "sum", pos[i])
    BY <1>1, <1>2, <2>1, <2>2, <2>3 DEF InvArrival
  <2> QED
    BY <2>4, InvArrives
<1>5. CASE D!Accumulate(i)
  <2>1. /\ ~waiting[i] /\ pc[i] = "sum" /\ D!MoreColumns(pos[i]) /\ launch' = launch
        /\ waiting' = [waiting EXCEPT ![i] = TRUE]
        /\ barriers' = [barriers EXCEPT ![i] = barriers[i] + 1]
        /\ pc' = [pc EXCEPT ![i] = "store"] /\ pos' = pos
    BY <1>5 DEF D!Accumulate, D!At, D!BarrierThen, D!Goto
  <2>2. pos' = [pos EXCEPT ![i] = pos[i]]
    BY <1>1, <2>1
  <2>3. /\ InvPhase[i] \in DOMAIN InvNext
        /\ InvNext[InvPhase[i]] = <<"store", pos[i]>>
    BY <1>1, <2>1 DEF InvPhase, InvNext
  <2>4. InvArrival(i, "store", pos[i])
    BY <1>1, <1>2, <2>1, <2>2, <2>3 DEF InvArrival
  <2> QED
    BY <2>4, InvArrives
<1>6. CASE D!Store(i)
  <2> DEFINE j == D!NextColumn(pos[i])
  <2>1. /\ ~waiting[i] /\ pc[i] = "store" /\ launch' = launch
        /\ waiting' = [waiting EXCEPT ![i] = TRUE]
        /\ barriers' = [barriers EXCEPT ![i] = barriers[i] + 1]
        /\ pc' = [pc EXCEPT ![i] = "sum"] /\ pos' = [pos EXCEPT ![i] = j]
    BY <1>6 DEF D!Store, D!At, D!BarrierThen, D!Goto
  <2>2. j \in Int
    BY <1>1, InvColumns
  <2>3. /\ InvPhase[i] \in DOMAIN InvNext
        /\ InvNext[InvPhase[i]] = <<"sum", j>>
    BY <1>1, <2>1 DEF InvPhase, InvNext
  <2> HIDE DEF j
  <2>4. InvArrival(i, "sum", j)
    BY <1>1, <1>2, <2>1, <2>2, <2>3 DEF InvArrival
  <2> QED
    BY <2>4, InvArrives
<1>7. CASE D!WriteRow(i)
  <2>1. /\ ~waiting[i] /\ pc[i] = "sum" /\ pc' = [pc EXCEPT ![i] = "done"]
        /\ launch' = launch /\ waiting' = waiting /\ barriers' = barriers
        /\ pos' = pos
    BY <1>7 DEF D!WriteRow, D!At, D!Goto
  <2>2. InvPhase' = InvPhase
    BY <1>1, <2>1 DEF InvPhase
  <2> QED
    BY <1>1, <1>2, <2>1, <2>2, InvSame DEF InvInv
<1>8. CASE D!Leave(i)
  <2>1. /\ \A u \in D!Index : barriers[u] >= barriers[i]
        /\ waiting' = [waiting EXCEPT ![i] = FALSE]
        /\ launch' = launch /\ pc' = pc /\ barriers' = barriers /\ pos' = pos
    BY <1>8 DEF D!Leave
  <2>2. InvPhase' = InvPhase
    BY <2>1 DEF InvPhase
  <2>3. Free(D!Index, barriers, waiting, i)
    BY <2>1 DEF Free
  <2>4. InStep(D!Index, barriers, waiting', InvPhase, InvNext)
    <3>1. InStep(D!Index, barriers, waiting, InvPhase, InvNext)
      BY DEF InvInv
    <3> QED
      BY <2>1, <2>3, <3>1, GoesOn
  <2> QED
    BY <2>1, <2>2, <2>4, InvSame DEF InvInv
<1> QED
  BY <1>3, <1>4, <1>5, <1>6, <1>7, <1>8 DEF D!Step

-------------------------------------------------------------------------------
(***************************************************************************)
(* The group of any kernel                                                 *)
(***************************************************************************)

KernelName ==
    {"gemv", "gemvRow", "gemvCol", "gerCol", "partialRows", "inverter"}

KernelInv ==
    /\ launch.kernel \in KernelName
    /\ Runs("gemv") => GemvInv
    /\ Runs("gemvRow") => RowInv
    /\ Runs("gemvCol") => ColInv
    /\ Runs("gerCol") => GerInv
    /\ Runs("partialRows") => PartInv /\ PartOut
    /\ Runs("inverter") => InvInv

LEMMA KernelStart == Init => KernelInv
<1> SUFFICES ASSUME Init PROVE KernelInv
  OBVIOUS
<1>1. CASE G!Init
  <2>1. launch.kernel = "gemv"
    BY <1>1, GemvSizes DEF G!Init
  <2> QED
    BY <1>1, <2>1, GemvStart DEF KernelInv, KernelName, Runs
<1>2. CASE W!Init
  <2>1. launch.kernel = "gemvRow"
    BY <1>2, RowSizes DEF W!Init
  <2> QED
    BY <1>2, <2>1, RowStart DEF KernelInv, KernelName, Runs
<1>3. CASE C!Init
  <2>1. launch.kernel = "gemvCol"
    BY <1>3, ColSizes DEF C!Init
  <2> QED
    BY <1>3, <2>1, ColStart DEF KernelInv, KernelName, Runs
<1>4. CASE E!Init
  <2>1. launch.kernel = "gerCol"
    BY <1>4, GerSizes DEF E!Init
  <2> QED
    BY <1>4, <2>1, GerStart DEF KernelInv, KernelName, Runs
<1>5. CASE R!Init
  <2>1. launch.kernel = "partialRows"
    BY <1>5, PartSizes DEF R!Init
  <2>2. PartOut
    BY <1>5 DEF R!Init, PartOut
  <2> QED
    BY <1>5, <2>1, <2>2, PartStart DEF KernelInv, KernelName, Runs
<1>6. CASE D!Init
  <2>1. launch.kernel = "inverter"
    BY <1>6, InvSizes DEF D!Init
  <2> QED
    BY <1>6, <2>1, InvStart DEF KernelInv, KernelName, Runs
<1> QED
  BY <1>1, <1>2, <1>3, <1>4, <1>5, <1>6 DEF Init

LEMMA KernelStep == ASSUME KernelInv, NEW i \in DOMAIN pc, Step(i) PROVE KernelInv'
<1>1. ASSUME Runs("gemv"), G!Step(i) PROVE KernelInv'
  <2>1. GemvInv /\ i \in G!Item
    BY <1>1 DEF KernelInv, GemvInv
  <2>2. launch' = launch
    BY <1>1 DEF G!Step, G!LoadX, G!Dot, G!LoadTile, G!MultiplyTile, G!StoreSum, G!Row
  <2>3. GemvInv'
    BY <1>1, <2>1, GemvStep
  <2> QED
    BY <1>1, <2>2, <2>3 DEF KernelInv, KernelName, Runs
<1>2. ASSUME Runs("gemvRow"), W!Step(i) PROVE KernelInv'
  <2>1. RowInv /\ i \in W!Item
    BY <1>2 DEF KernelInv, RowInv
  <2>2. launch' = launch
    BY <1>2 DEF W!Step, W!WriteZeros, W!Fill, W!Level, W!StoreRows, W!Return
  <2>3. RowInv'
    BY <1>2, <2>1, RowStep
  <2> QED
    BY <1>2, <2>2, <2>3 DEF KernelInv, KernelName, Runs
<1>3. ASSUME Runs("gemvCol"), C!Step(i) PROVE KernelInv'
  <2>1. ColInv /\ i \in C!Item
    BY <1>3 DEF KernelInv, ColInv
  <2>2. launch' = launch
    BY <1>3 DEF C!Step, C!WriteZeros, C!CopyBlock, C!MultiplyBlock, C!Return
  <2>3. ColInv'
    BY <1>3, <2>1, ColStep
  <2> QED
    BY <1>3, <2>2, <2>3 DEF KernelInv, KernelName, Runs
<1>4. ASSUME Runs("gerCol"), E!Step(i) PROVE KernelInv'
  <2>1. GerInv /\ i \in E!Item
    BY <1>4 DEF KernelInv, GerInv
  <2>2. launch' = launch
    BY <1>4 DEF E!Step, E!CopyBlock, E!Update, E!Return
  <2>3. GerInv'
    BY <1>4, <2>1, GerStep
  <2> QED
    BY <1>4, <2>2, <2>3 DEF KernelInv, KernelName, Runs
<1>5. ASSUME Runs("partialRows"), R!Step(i) PROVE KernelInv'
  <2>1. PartInv /\ PartOut /\ i \in R!Item
    BY <1>5 DEF KernelInv, PartInv
  <2>2. launch' = launch
    BY <1>5 DEF R!Step, R!Enter, R!LoadElement, R!PutScratch, R!Arrive, R!Leave,
       R!Skip, R!LoadPair, R!StoreSum, R!WriteBack, R!Return
  <2>3. PartInv' /\ PartOut'
    BY <1>5, <2>1, PartStep, PartOutStep
  <2> QED
    BY <1>5, <2>2, <2>3 DEF KernelInv, KernelName, Runs
<1>6. ASSUME Runs("inverter"), D!Step(i) PROVE KernelInv'
  <2>1. InvInv /\ i \in D!Index
    BY <1>6 DEF KernelInv, InvInv
  <2>2. launch' = launch
    BY <1>6 DEF D!Step, D!Load, D!InvertDiagonal, D!Accumulate, D!Store, D!WriteRow,
       D!Leave
  <2>3. InvInv'
    BY <1>6, <2>1, InvStep
  <2> QED
    BY <1>6, <2>2, <2>3 DEF KernelInv, KernelName, Runs
<1> QED
  BY <1>1, <1>2, <1>3, <1>4, <1>5, <1>6 DEF Step

\* A step that changes nothing.
LEMMA KernelStutter == ASSUME KernelInv, UNCHANGED vars PROVE KernelInv'
<1>1. /\ launch' = launch /\ pc' = pc /\ waiting' = waiting /\ barriers' = barriers
      /\ pos' = pos /\ offset' = offset /\ rhs' = rhs /\ scratch' = scratch
      /\ out' = out
  BY DEF vars
<1>2. ASSUME GemvInv PROVE GemvInv'
  <2>1. GemvPhase' = GemvPhase
    BY <1>1, GemvSame DEF GemvPhase
  <2> QED
    BY <1>1, <1>2, <2>1, GemvSame DEF GemvInv
<1>3. ASSUME RowInv PROVE RowInv'
  <2>1. RowPhase' = RowPhase
    BY <1>1, RowSame DEF RowPhase
  <2> QED
    BY <1>1, <1>3, <2>1, RowSame DEF RowInv
<1>4. ASSUME ColInv PROVE ColInv'
  <2>1. ColPhase' = ColPhase
    BY <1>1, ColSame DEF ColPhase
  <2> QED
    BY <1>1, <1>4, <2>1, ColSame DEF ColInv
<1>5. ASSUME GerInv PROVE GerInv'
  <2>1. GerPhase' = GerPhase
    BY <1>1, GerSame DEF GerPhase
  <2> QED
    BY <1>1, <1>5, <2>1, GerSame DEF GerInv
<1>6. ASSUME PartInv PROVE PartInv'
  <2>1. \A u \in Active : ItemOk(u)' = ItemOk(u) /\ \A p : Fits(u, p)' = Fits(u, p)
    BY <1>1, PartSame DEF ItemOk, Fits, InLevel
  <2>2. Reached' = Reached /\ Inside' = Inside
    BY <1>1, PartSame DEF Reached, Inside
  <2>3. Together'
    <3>1. PICK ph \in [Active -> Nat \X Nat] :
             /\ InStep(Active, Reached, Inside, ph, LevelNext)
             /\ \A u \in Active : Fits(u, ph[u])
      BY <1>6 DEF PartInv, Together
    <3>2. InStep(Active, Reached', Inside', ph, LevelNext)
      BY <2>2, <3>1
    <3>3. \A u \in Active : Fits(u, ph[u])'
      BY <2>1, <3>1
    <3> QED
      BY <1>1, <3>2, <3>3, PartHistory
  <2> QED
    BY <1>1, <1>6, <2>1, <2>3, PartSame DEF PartInv
<1>7. ASSUME PartOut PROVE PartOut'
  BY <1>1, <1>7 DEF PartOut, R!Cell, R!GroupCol, R!GroupCountRows, R!WgRows
<1>8. ASSUME InvInv PROVE InvInv'
  <2>1. InvPhase' = InvPhase
    BY <1>1 DEF InvPhase
  <2> QED
    BY <1>1, <1>8, <2>1, InvSame DEF InvInv
<1> QED
  BY <1>1, <1>2, <1>3, <1>4, <1>5, <1>6, <1>7, <1>8 DEF KernelInv, Runs

\* The items of a group stay together at the barriers of its kernel.
THEOREM KernelInvariant == Spec => []KernelInv
<1>1. KernelInv /\ [Next]_vars => KernelInv'
  BY KernelStep, KernelStutter DEF Next, Finished
<1> QED
  BY <1>1, KernelStart, PTL DEF Spec

\* The kernels of GroupKernels: no work-item writes a cell of local memory that
\* another may be reading or writing.
THEOREM RaceFree == Spec => []NoLocalRace
<1>1. KernelInv => NoLocalRace
  BY GemvRaceFree, RowRaceFree, ColRaceFree, GerRaceFree, PartRaceFree, InvRaceFree
     DEF KernelInv, NoLocalRace
<1> QED
  BY <1>1, KernelInvariant, PTL

\* ReductionPartialRows: what a group of a launch with no more groups than it
\* needs writes is in the temporary.
THEOREM CellsFit == UsefulGroups => (Spec => []OutputFits)
<1> SUFFICES ASSUME UsefulGroups PROVE Spec => []OutputFits
  OBVIOUS
<1>1. KernelInv => OutputFits
  BY PartOutFits DEF KernelInv, OutputFits
<1> QED
  BY <1>1, KernelInvariant, PTL

-------------------------------------------------------------------------------
(***************************************************************************)
(* What a group of PartialRows writes                                      *)
(***************************************************************************)

\* The tree halves the columns of the group until one is left, which takes in
\* every cell only when no halving loses the last of an odd number: when every
\* divisor of their number above one is even.
\* They are WgSize / cl_elems (extension_trees.h:69-70), both powers of two in
\* every back-end.
PowersOfTwo ==
    \A l \in PartialRowsLaunches : \A d \in 2 .. l.wgCols :
        (\E q \in 1 .. l.wgCols : l.wgCols = d * q) => d % 2 = 0

Base == R!GroupCol * R!WgCols

\* The columns of the group, and where in a block each one is.
ShareCols ==
    {x \in 0 .. launch.cols - 1 :
        x >= Base /\ (x - Base) % R!TotalItemCols < R!WgCols}
InBlock(x) == (x - Base) % R!TotalItemCols

\* What is in the cell of a column of local memory when m columns are left.
ColumnLane(m, c) == {x \in ShareCols : InBlock(x) % m = c}
Node(row, S) == {R!At(row, x) : x \in S}

LEMMA PartBase ==
    ASSUME launch \in PartialRowsLaunches
    PROVE  /\ Base \in Nat /\ R!WgCols \in Nat \ {0} /\ R!WgRows \in Nat \ {0}
           /\ launch.rows \in Nat \ {0} /\ launch.cols \in Nat
           /\ R!TotalItemCols \in Nat \ {0} /\ R!WgCols <= R!TotalItemCols
<1>1. /\ R!WgCols \in Nat \ {0} /\ R!WgRows \in Nat \ {0} /\ launch.count \in Nat \ {0}
      /\ launch.rows \in Nat \ {0} /\ launch.cols \in Nat /\ R!GroupCol \in Nat
  BY PartSizes, PartGroup DEF R!WgCols, R!WgRows
<1>2. Base \in Nat
  <2> DEFINE a == R!GroupCol
             b == R!WgCols
  <2>1. a \in Nat /\ b \in Nat
    BY <1>1
  <2> HIDE DEF a, b
  <2> QED
    BY <2>1 DEF Base, a, b
<1> DEFINE w == R!WgCols
           k == launch.count
<1>3. R!TotalItemCols = w * k
  BY DEF R!TotalItemCols
<1> HIDE DEF w, k
<1>4. w \in Nat \ {0} /\ k \in Nat \ {0}
  BY <1>1 DEF w, k
<1>5. w * 1 <= w * k /\ w * k \in Nat /\ w * 1 = w
  BY <1>4, MulMonotone
<1> DEFINE m == w * k
<1>6. m \in Nat /\ w <= m
  BY <1>4, <1>5
<1> HIDE DEF m
<1>7. m \in Nat \ {0}
  BY <1>4, <1>6
<1> QED
  BY <1>1, <1>2, <1>3, <1>6, <1>7 DEF w, m

\* An element of the group's columns, and of a lane of them.
LEMMA ShareCol ==
    ASSUME launch \in PartialRowsLaunches, NEW x \in ShareCols
    PROVE  x \in Nat /\ x - Base \in Nat /\ InBlock(x) \in 0 .. R!WgCols - 1
<1>1. /\ x \in Nat /\ x - Base \in Nat
  BY PartBase DEF ShareCols
<1>2. (x - Base) % R!TotalItemCols \in Nat
  <2> DEFINE a == x - Base
             b == R!TotalItemCols
  <2>1. a \in Nat /\ b \in Nat \ {0}
    BY <1>1, PartBase
  <2> HIDE DEF a, b
  <2>2. a % b \in Nat
    BY <2>1, DivMod
  <2> QED
    BY <2>2 DEF a, b
<1>3. InBlock(x) \in Nat /\ InBlock(x) < R!WgCols
  BY <1>2 DEF InBlock, ShareCols
<1>4. R!WgCols \in Nat
  BY PartBase
<1> QED
  BY <1>1, <1>3, <1>4

\* Two lanes that are half the columns apart make one of the next level.
LEMMA LaneHalves ==
    ASSUME launch \in PartialRowsLaunches, NEW h \in Nat \ {0}, NEW c \in 0 .. h - 1
    PROVE  /\ ColumnLane(2 * h, c) \cup ColumnLane(2 * h, c + h) = ColumnLane(h, c)
           /\ ColumnLane(2 * h, c) \cap ColumnLane(2 * h, c + h) = {}
<1>1. ASSUME NEW x \in ShareCols
      PROVE  InBlock(x) % h = c
               <=> (InBlock(x) % (2 * h) = c \/ InBlock(x) % (2 * h) = c + h)
  <2>1. PICK z \in Nat : z = InBlock(x)
    BY <1>1, ShareCol
  <2>2. z % h = c <=> (z % (2 * h) = c \/ z % (2 * h) = c + h)
    <3>1. ASSUME z % h = c PROVE z % (2 * h) = c \/ z % (2 * h) = c + h
      BY <3>1, ModHalf, ZenonT(40)
    <3>2. ASSUME z % (2 * h) = c PROVE z % h = c
      BY <3>2, ModHalf, ZenonT(40)
    <3>3. ASSUME z % (2 * h) = c + h PROVE z % h = c
      BY <3>3, ModHalf, ZenonT(40)
    <3> QED
      BY <3>1, <3>2, <3>3
  <2> QED
    BY <2>1, <2>2
<1>2. c # c + h
  OBVIOUS
<1> QED
  BY <1>1, <1>2 DEF ColumnLane

\* The last lane is all of the group's columns.
LEMMA LaneAll == ASSUME launch \in PartialRowsLaunches PROVE ColumnLane(1, 0) = ShareCols
<1>1. ASSUME NEW x \in ShareCols PROVE InBlock(x) % 1 = 0
  <2>1. InBlock(x) \in Nat
    BY ShareCol
  <2> QED
    BY <2>1
<1> QED
  BY <1>1 DEF ColumnLane

\* The elements of a row are at different places.
LEMMA RowPlacesDiffer ==
    ASSUME launch \in PartialRowsLaunches, NEW row \in Nat,
           NEW x \in Nat, NEW y \in Nat, R!At(row, x) = R!At(row, y)
    PROVE  x = y
<1> DEFINE n == launch.rows
<1>1. n \in Nat \ {0}
  BY PartBase
<1> HIDE DEF n
<1> DEFINE a == n * x
           b == n * y
<1>2. a + row = b + row
  BY DEF R!At, n
<1>3. a \in Int /\ b \in Int
  BY <1>1
<1>4. a = b
  <2> HIDE DEF a, b
  <2> QED
    BY <1>2, <1>3
<1>5. n * x + 0 = n * y + 0 /\ 0 \in 0 .. n - 1
  BY <1>1, <1>3, <1>4
<1> QED
  BY <1>1, <1>5, OnePlace

\* Sums over two sets of columns that do not meet.
LEMMA NodesAdd ==
    ASSUME launch \in PartialRowsLaunches, NEW row \in Nat,
           NEW S \in SUBSET Nat, NEW Q \in SUBSET Nat, S \cap Q = {}
    PROVE  R!Eval(R!Exactly(Node(row, S)), R!Exactly(Node(row, Q)))
             = R!Exactly(Node(row, S \cup Q))
<1>1. Node(row, S) \cap Node(row, Q) = {}
  <2> SUFFICES ASSUME NEW a \in Node(row, S), a \in Node(row, Q) PROVE FALSE
    OBVIOUS
  <2>1. PICK x \in S : a = R!At(row, x)
    BY DEF Node
  <2>2. PICK y \in Q : a = R!At(row, y)
    BY DEF Node
  <2> QED
    BY <2>1, <2>2, RowPlacesDiffer
<1>2. Node(row, S) \cup Node(row, Q) = Node(row, S \cup Q)
  BY DEF Node
<1> QED
  BY <1>1, <1>2 DEF R!Eval, R!Exactly

\* The columns of one item: those of its place in each block.
LEMMA LaneOfItem ==
    ASSUME launch \in PartialRowsLaunches, NEW c \in 0 .. R!WgCols - 1
    PROVE  \A x : x \in ColumnLane(R!WgCols, c)
                    <=> x \in 0 .. launch.cols - 1 /\ x >= Base /\ InBlock(x) = c
<1>1. R!WgCols \in Nat \ {0}
  BY PartBase
<1>2. ASSUME NEW z \in 0 .. R!WgCols - 1 PROVE z % R!WgCols = z
  <2> DEFINE w == R!WgCols
  <2>1. w \in Nat \ {0} /\ z \in Nat /\ z = w * 0 + z /\ z \in 0 .. w - 1
    BY <1>1
  <2> HIDE DEF w
  <2> QED
    BY <2>1, DivModUnique DEF w
<1> SUFFICES ASSUME NEW x
             PROVE  x \in ColumnLane(R!WgCols, c)
                    <=> x \in 0 .. launch.cols - 1 /\ x >= Base /\ InBlock(x) = c
  OBVIOUS
<1>3. ASSUME x \in ColumnLane(R!WgCols, c)
      PROVE  x \in 0 .. launch.cols - 1 /\ x >= Base /\ InBlock(x) = c
  <2>1. x \in ShareCols /\ InBlock(x) % R!WgCols = c
    BY <1>3 DEF ColumnLane
  <2>2. InBlock(x) \in 0 .. R!WgCols - 1
    BY <2>1, ShareCol
  <2> QED
    BY <1>2, <2>1, <2>2 DEF ShareCols
<1>4. ASSUME x \in 0 .. launch.cols - 1, x >= Base, InBlock(x) = c
      PROVE  x \in ColumnLane(R!WgCols, c)
  <2>1. x \in ShareCols
    BY <1>1, <1>4 DEF ShareCols, InBlock
  <2> QED
    BY <1>2, <1>4, <2>1 DEF ColumnLane
<1> QED
  BY <1>3, <1>4

\* An item's columns are a whole number of blocks apart: the sequential loop
\* takes each of them.
LEMMA NextColumn ==
    ASSUME launch \in PartialRowsLaunches, NEW c \in 0 .. R!WgCols - 1,
           NEW y \in Nat, y >= Base, InBlock(y) = c
    PROVE  /\ InBlock(y + R!TotalItemCols) = c
           /\ \A x \in ColumnLane(R!WgCols, c) :
                 x < y + R!TotalItemCols <=> (x < y \/ x = y)
<1>1. PICK n \in Nat \ {0} : n = R!TotalItemCols
  BY PartBase
<1>2. PICK b \in Nat : b = y - Base
  BY PartBase
<1>3. b % n = c /\ Base \in Nat
  BY <1>1, <1>2, PartBase DEF InBlock
<1>4. (b + n * 1) % n = b % n
  BY ModAdd
<1>5. n * 1 = n /\ (y + n) - Base = b + n
  BY <1>2, <1>3
<1>6. InBlock(y + R!TotalItemCols) = c
  BY <1>1, <1>3, <1>4, <1>5 DEF InBlock
<1>7. ASSUME NEW x \in ColumnLane(R!WgCols, c)
      PROVE  x < y + n <=> (x < y \/ x = y)
  <2>1. x \in Nat /\ x >= Base /\ InBlock(x) = c
    BY LaneOfItem, PartBase
  <2>2. PICK a \in Nat : a = x - Base
    BY <1>3, <2>1
  <2>3. a % n = b % n
    BY <1>1, <1>3, <2>1, <2>2 DEF InBlock
  <2>4. a < b + n <=> (a < b \/ a = b)
    BY <2>3, SameClass
  <2> QED
    BY <1>2, <1>3, <2>1, <2>2, <2>4
<1> QED
  BY <1>1, <1>6, <1>7

\* The first column of an item.
LEMMA FirstColumn ==
    ASSUME launch \in PartialRowsLaunches, NEW c \in 0 .. R!WgCols - 1
    PROVE  /\ InBlock(Base + c) = c
           /\ \A x \in ColumnLane(R!WgCols, c) : ~(x < Base + c)
<1>1. PICK n \in Nat \ {0} : n = R!TotalItemCols
  BY PartBase
<1>2. Base \in Nat /\ c \in Nat /\ c < n /\ R!WgCols \in Nat /\ R!WgCols <= n
  BY <1>1, PartBase
<1>3. ASSUME NEW z \in 0 .. n - 1 PROVE z % n = z
  <2>1. z \in Nat /\ z = n * 0 + z /\ 0 \in Nat
    BY <1>3
  <2> QED
    BY <2>1, DivModUnique
<1>4. InBlock(Base + c) = c
  <2>1. (Base + c) - Base = c /\ c \in 0 .. n - 1
    BY <1>2
  <2> QED
    BY <1>1, <1>3, <2>1 DEF InBlock
<1>5. ASSUME NEW x \in ColumnLane(R!WgCols, c), x < Base + c PROVE FALSE
  <2>1. x \in Nat /\ x >= Base /\ InBlock(x) = c
    BY LaneOfItem, PartBase
  <2>2. x - Base \in 0 .. n - 1 /\ x - Base < c
    BY <1>2, <1>5, <2>1
  <2>3. (x - Base) % n = x - Base
    BY <1>3, <2>2
  <2> QED
    BY <1>1, <1>2, <2>1, <2>2, <2>3 DEF InBlock
<1> QED
  BY <1>4, <1>5

\* What is in an item's cell, m columns being left, and what it has loaded when
\* its loop is at column y.
LaneSum(t, m) == R!Exactly(Node(R!GlobalRow(t), ColumnLane(m, R!LocalCol(t))))
LaneSumTo(t, y) ==
    R!Exactly(Node(R!GlobalRow(t),
                   {x \in ColumnLane(R!WgCols, R!LocalCol(t)) : x < y}))

\* The columns of local memory that have sums at the level of an item.
Width(t) == IF offset[t] = 0 THEN 1 ELSE 2 * offset[t]

Splits(s) == s = 0 \/ \E q \in 1 .. R!WgCols : R!WgCols = s * q

\* The sums that an active item has, where it is: its cell keeps the last one
\* that it has stored.
ItemSums(t) ==
    /\ Splits(offset[t]) /\ 2 * offset[t] <= R!WgCols
    /\ InLevel(t) => offset[t] > 0
    /\ pc[t] \in {"start", "load"} => offset[t] = R!WgCols \div 2
    /\ R!LocalCol(t) < offset[t]
         => rhs[t] = (R!LocalCol(t) + offset[t]) * R!WgRows + R!LocalRow(t)
    /\ pc[t] = "start" => pos[t] = R!GlobalCol(t) /\ acc[t] = R!Neutral
    /\ pc[t] = "load" =>
          /\ pos[t] \in Nat /\ pos[t] >= Base
          /\ InBlock(pos[t]) = R!LocalCol(t)
          /\ acc[t] = LaneSumTo(t, pos[t])
    /\ pc[t] \notin {"start", "load"} =>
          /\ R!LocalCol(t) < Width(t) => scratch[t] = LaneSum(t, Width(t))
          /\ R!LocalCol(t) \in Width(t) .. 2 * Width(t) - 1
               => scratch[t] = LaneSum(t, 2 * Width(t))
    /\ pc[t] = "store" => acc[t] = LaneSum(t, offset[t])

PartSums ==
    /\ DOMAIN pos = R!Item /\ DOMAIN acc = R!Item /\ DOMAIN scratch = R!Item
    /\ \A t \in Active : ItemSums(t)
    /\ R!CellsExact

\* What depends on the launch only.
LEMMA PartShape ==
    ASSUME launch' = launch
    PROVE  /\ R!Item' = R!Item /\ Active' = Active /\ Base' = Base
           /\ R!WgRows' = R!WgRows /\ R!WgCols' = R!WgCols
           /\ \A x : InBlock(x)' = InBlock(x) /\ Splits(x)' = Splits(x)
           /\ \A t : /\ R!LocalCol(t)' = R!LocalCol(t)
                     /\ R!LocalRow(t)' = R!LocalRow(t)
                     /\ R!GlobalRow(t)' = R!GlobalRow(t)
                     /\ R!GlobalCol(t)' = R!GlobalCol(t)
           /\ \A t, m : LaneSum(t, m)' = LaneSum(t, m) /\ LaneSumTo(t, m)' = LaneSumTo(t, m)
           /\ \A row : /\ R!Cell(row)' = R!Cell(row)
                       /\ R!ColumnShare(row)' = R!ColumnShare(row)
<1> USE DEF R!WgRows, R!WgCols, R!LocalCol, R!LocalRow, R!GroupCountRows,
        R!GroupCol, R!GroupRow
<1>1. /\ R!Item' = R!Item /\ Active' = Active
      /\ R!WgRows' = R!WgRows /\ R!WgCols' = R!WgCols
  BY PartSame DEF R!Item
<1>2. Base' = Base /\ R!TotalItemCols' = R!TotalItemCols
  BY DEF Base, R!TotalItemCols
<1>3. \A x : InBlock(x)' = InBlock(x) /\ Splits(x)' = Splits(x)
  BY <1>2 DEF InBlock, Splits
<1>4. \A t : /\ R!LocalCol(t)' = R!LocalCol(t) /\ R!LocalRow(t)' = R!LocalRow(t)
             /\ R!GlobalRow(t)' = R!GlobalRow(t)
             /\ R!GlobalCol(t)' = R!GlobalCol(t)
  BY DEF R!GlobalRow, R!GlobalCol
<1>5. ShareCols' = ShareCols
  BY <1>2 DEF ShareCols
<1>6. \A m, c : ColumnLane(m, c)' = ColumnLane(m, c)
  BY <1>3, <1>5 DEF ColumnLane
<1>7. \A row, S : Node(row, S)' = Node(row, S)
  BY DEF Node, R!At
<1>8. \A t, m : LaneSum(t, m)' = LaneSum(t, m) /\ LaneSumTo(t, m)' = LaneSumTo(t, m)
  BY <1>4, <1>6, <1>7 DEF LaneSum, LaneSumTo, R!Exactly, R!WgCols
<1>9. \A row : R!Cell(row)' = R!Cell(row) /\ R!ColumnShare(row)' = R!ColumnShare(row)
  BY <1>2 DEF R!Cell, R!ColumnShare, R!At
<1> QED
  BY <1>1, <1>2, <1>3, <1>4, <1>8, <1>9

\* The columns of the group are those of the row's share.
LEMMA ShareIsAll == \A row : Node(row, ShareCols) = R!ColumnShare(row)
BY DEF Node, ShareCols, R!ColumnShare, Base

\* A divisor of the group's columns is even or one, and its half is a divisor.
LEMMA HalfSplits ==
    ASSUME PowersOfTwo, launch \in PartialRowsLaunches,
           NEW s \in Nat \ {0}, Splits(s)
    PROVE  s = 1 \/ (s = 2 * (s \div 2) /\ s \div 2 \in Nat \ {0} /\ Splits(s \div 2))
<1>1. PICK w \in Nat \ {0} : w = R!WgCols
  BY PartBase
<1>2. PICK q \in 1 .. w : w = s * q
  BY <1>1 DEF Splits
<1>3. s <= w
  <2>1. s * 1 <= s * q /\ s * 1 = s
    BY <1>2, MulMonotone
  <2> DEFINE m == s * q
  <2>2. m = w
    BY <1>2
  <2> HIDE DEF m
  <2> QED
    BY <2>1, <2>2 DEF m
<1>4. ASSUME s # 1 PROVE s % 2 = 0
  <2>1. s \in 2 .. launch.wgCols /\ launch.wgCols = s * q /\ q \in 1 .. launch.wgCols
    BY <1>1, <1>2, <1>3, <1>4 DEF R!WgCols
  <2> QED
    BY <2>1 DEF PowersOfTwo
<1>5. ASSUME s # 1
      PROVE  s = 2 * (s \div 2) /\ s \div 2 \in Nat \ {0} /\ Splits(s \div 2)
  <2>1. PICK h \in Nat : h = s \div 2 /\ s = 2 * h
    BY <1>4, <1>5, DivMod
  <2>2. h # 0
    BY <2>1
  <2>3. w = h * (2 * q) /\ 2 * q \in Nat
    BY <1>2, <2>1
  <2>4. 2 * q \in 1 .. w
    <3> DEFINE z == 2 * q
    <3>1. 1 * z <= h * z /\ h \in Nat \ {0} /\ z \in Nat \ {0}
      <4>1. z \in Nat \ {0} /\ 1 <= h
        BY <1>2, <2>1, <2>2
      <4> HIDE DEF z
      <4>2. z * 1 <= z * h
        BY <4>1, <2>1, MulMonotone
      <4> QED
        BY <2>1, <2>2, <4>1, <4>2
    <3> DEFINE m == h * z
    <3>2. m = w
      BY <2>3
    <3> HIDE DEF z
    <3>3. 1 * z = z
      BY <3>1
    <3> HIDE DEF m
    <3> QED
      BY <1>1, <3>1, <3>2, <3>3 DEF m, z
  <2> QED
    BY <1>1, <2>1, <2>2, <2>3, <2>4 DEF Splits
<1> QED
  BY <1>5

\* The stride before the first level.
LEMMA FirstSplit ==
    ASSUME PowersOfTwo, launch \in PartialRowsLaunches
    PROVE  /\ R!WgCols \div 2 \in Nat /\ Splits(R!WgCols \div 2)
           /\ R!WgCols = (IF R!WgCols \div 2 = 0 THEN 1 ELSE 2 * (R!WgCols \div 2))
<1>1. PICK w \in Nat \ {0} : w = R!WgCols
  BY PartBase
<1>2. Splits(w)
  BY <1>1 DEF Splits
<1>3. CASE w = 1
  <2>1. 1 \div 2 = 0
    OBVIOUS
  <2> QED
    BY <1>1, <1>3, <2>1 DEF Splits
<1>4. CASE w # 1
  BY <1>1, <1>2, <1>4, HalfSplits
<1> QED
  BY <1>3, <1>4


Keeps(u) ==
    /\ pc'[u] = pc[u] /\ pos'[u] = pos[u] /\ offset'[u] = offset[u]
    /\ rhs'[u] = rhs[u] /\ acc'[u] = acc[u] /\ scratch'[u] = scratch[u]

LEMMA Kept ==
    ASSUME launch' = launch, NEW u, ItemSums(u), Keeps(u)
    PROVE  ItemSums(u)'
BY PartShape DEF ItemSums, InLevel, Width, Keeps

\* A step of an item that writes no cell of the output.
SumsWalk(t) ==
    /\ launch' = launch /\ out' = out
    /\ DOMAIN pos' = R!Item /\ DOMAIN acc' = R!Item /\ DOMAIN scratch' = R!Item
    /\ \A u \in R!Item \ {t} : Keeps(u)
    /\ t \in Active => ItemSums(t)'

LEMMA SumsGoOn ==
    ASSUME PartSums, NEW t, SumsWalk(t)
    PROVE  PartSums'
<1> USE DEF SumsWalk
<1>1. \A u \in Active \ {t} : ItemSums(u)'
  BY Kept DEF PartSums, Active
<1>2. \A u \in Active : ItemSums(u)'
  BY <1>1
<1>3. R!CellsExact'
  BY PartShape DEF PartSums, R!CellsExact, R!Exactly
<1> QED
  BY <1>2, <1>3, PartShape DEF PartSums

\* The state of an item and what is known of it.
LEMMA PartItem ==
    ASSUME PartInv, PartSums, NEW t \in Active
    PROVE  /\ t \in R!Item /\ t \in DOMAIN pc /\ ItemSums(t) /\ ItemOk(t)
           /\ launch \in PartialRowsLaunches
           /\ offset[t] \in Nat /\ rhs[t] \in Int
           /\ R!LocalCol(t) \in 0 .. R!WgCols - 1 /\ R!LocalCol(t) \in Nat
           /\ R!WgCols \in Nat \ {0} /\ R!WgRows \in Nat \ {0}
           /\ R!LocalRow(t) \in Nat
           /\ t = R!LocalCol(t) * R!WgRows + R!LocalRow(t)
           /\ t = R!WgRows * R!LocalCol(t) + R!LocalRow(t)
           /\ R!GlobalRow(t) \in 0 .. launch.rows - 1
<1>1. t \in R!Item /\ ItemSums(t) /\ ItemOk(t) /\ launch \in PartialRowsLaunches
      /\ t \in DOMAIN pc /\ offset[t] \in Nat /\ rhs[t] \in Int
  BY DEF PartInv, PartSums, Active
<1>2. /\ R!LocalCol(t) \in 0 .. R!WgCols - 1
      /\ R!WgCols \in Nat \ {0} /\ R!WgRows \in Nat \ {0}
      /\ R!LocalRow(t) \in Nat /\ R!GlobalRow(t) \in Nat
      /\ t = R!LocalCol(t) * R!WgRows + R!LocalRow(t)
  BY <1>1, PartPlace
<1>3. R!LocalCol(t) * R!WgRows = R!WgRows * R!LocalCol(t)
  BY <1>2
<1>4. R!GlobalRow(t) \in 0 .. launch.rows - 1
  BY <1>1, <1>2, PartSizes DEF Active
<1> QED
  BY <1>1, <1>2, <1>3, <1>4

LEMMA SumsEnter ==
    ASSUME PartInv, PartSums, NEW t \in R!Item, R!Enter(t)
    PROVE  PartSums'
<1>1. /\ pc[t] = "start" /\ launch' = launch /\ out' = out /\ pos' = pos
      /\ offset' = offset /\ rhs' = rhs /\ acc' = acc /\ scratch' = scratch
      /\ pc' = [pc EXCEPT ![t] = IF R!GlobalRow(t) >= launch.rows THEN "done"
                                 ELSE "load"]
      /\ t \in DOMAIN pc
  BY DEF R!Enter, R!Goto, PartInv
<1>2. \A u \in R!Item \ {t} : Keeps(u)
  BY <1>1 DEF Keeps, PartInv
<1>3. ASSUME t \in Active PROVE ItemSums(t)'
  <2>1. R!GlobalRow(t) \in Int /\ launch.rows \in Int
    BY <1>3, PartItem, PartSizes
  <2>2. pc'[t] = "load"
    BY <1>1, <1>3, <2>1 DEF Active
  <2>3. /\ pos[t] = R!GlobalCol(t) /\ acc[t] = R!Neutral
        /\ offset[t] = R!WgCols \div 2 /\ Splits(offset[t])
        /\ 2 * offset[t] <= R!WgCols
        /\ R!LocalCol(t) < offset[t]
             => rhs[t] = (R!LocalCol(t) + offset[t]) * R!WgRows + R!LocalRow(t)
    BY <1>1, <1>3, PartItem DEF ItemSums
  <2>4. PICK c \in 0 .. R!WgCols - 1 : c = R!LocalCol(t)
    BY <1>3, PartItem
  <2>5. pos[t] = Base + c
    BY <2>3, <2>4 DEF R!GlobalCol, Base
  <2>6. Base \in Nat /\ c \in Nat /\ launch \in PartialRowsLaunches
    BY <1>3, <2>4, PartItem, PartBase
  <2>7. InBlock(Base + c) = c
    BY <2>6, FirstColumn
  <2>8. {x \in ColumnLane(R!WgCols, c) : x < Base + c} = {}
    BY <2>6, FirstColumn
  <2>9. LaneSumTo(t, Base + c) = R!Neutral
    BY <2>4, <2>8 DEF LaneSumTo, Node, R!Exactly, R!Neutral
  <2>10. PICK y \in Nat : y = pos[t]
    BY <2>5, <2>6
  <2>11. InBlock(y) = R!LocalCol(t) /\ LaneSumTo(t, y) = acc[t] /\ y >= Base
    BY <2>3, <2>4, <2>5, <2>6, <2>7, <2>9, <2>10
  <2> QED
    BY <1>1, <2>2, <2>3, <2>10, <2>11, PartShape DEF ItemSums, InLevel
<1> QED
  BY <1>1, <1>2, <1>3, SumsGoOn DEF SumsWalk, PartSums

LEMMA SumsLoad ==
    ASSUME PartInv, PartSums, NEW t \in R!Item, R!LoadElement(t)
    PROVE  PartSums'
<1>1. /\ pc[t] = "load" /\ launch' = launch /\ out' = out /\ pc' = pc
      /\ offset' = offset /\ rhs' = rhs /\ scratch' = scratch
      /\ pos[t] < launch.cols
      /\ acc' = [acc EXCEPT ![t] =
                   R!Eval(acc[t], R!Element(R!At(R!GlobalRow(t), pos[t])))]
      /\ pos' = [pos EXCEPT ![t] = pos[t] + R!TotalItemCols]
      /\ DOMAIN pos = R!Item /\ DOMAIN acc = R!Item
  BY DEF R!LoadElement, PartSums
<1>2. \A u \in R!Item \ {t} : Keeps(u)
  BY <1>1 DEF Keeps
<1>3. t \in Active
  BY <1>1 DEF PartInv
<1>4. PICK c \in 0 .. R!WgCols - 1 : c = R!LocalCol(t)
  BY <1>3, PartItem
<1>5. PICK y \in Nat : y = pos[t] /\ y >= Base /\ InBlock(y) = c /\ acc[t] = LaneSumTo(t, y)
  BY <1>1, <1>3, <1>4, PartItem DEF ItemSums
<1>6. PICK n \in Nat \ {0} : n = R!TotalItemCols
  BY PartBase DEF PartInv
<1>7. PICK row \in Nat : row = R!GlobalRow(t)
  BY <1>3, PartItem
<1> DEFINE L == ColumnLane(R!WgCols, c)
<1>8. launch \in PartialRowsLaunches /\ launch.cols \in Nat /\ Base \in Nat
  BY PartBase DEF PartInv
<1>9. /\ InBlock(y + n) = c
      /\ \A x \in L : x < y + n <=> (x < y \/ x = y)
  BY <1>5, <1>6, <1>8, NextColumn
<1>10. y \in L
  BY <1>1, <1>5, <1>8, LaneOfItem
<1>11. L \subseteq Nat
  BY <1>8, LaneOfItem
<1> HIDE DEF L
<1> DEFINE S == {x \in L : x < y}
           Q == {x \in L : x < y + n}
<1>12. Q = S \cup {y} /\ S \cap {y} = {} /\ S \subseteq Nat /\ {y} \subseteq Nat
  <2>1. \A x : x \in Q <=> x \in S \/ x = y
    BY <1>9, <1>10
  <2>2. y \notin S
    BY <1>5
  <2> QED
    BY <1>11, <2>1, <2>2
<1>13. /\ LaneSumTo(t, y) = R!Exactly(Node(row, S))
       /\ LaneSumTo(t, y + n) = R!Exactly(Node(row, Q))
  BY <1>4, <1>7 DEF LaneSumTo, L
<1> HIDE DEF S, Q
<1>14. R!Eval(R!Exactly(Node(row, S)), R!Exactly(Node(row, {y})))
         = R!Exactly(Node(row, S \cup {y}))
  BY <1>8, <1>12, NodesAdd
<1>15. R!Element(R!At(R!GlobalRow(t), pos[t])) = R!Exactly(Node(row, {y}))
  BY <1>5, <1>7 DEF R!Element, R!Exactly, Node
<1>16. acc'[t] = LaneSumTo(t, y + n) /\ pos'[t] = y + n
  BY <1>1, <1>5, <1>6, <1>12, <1>13, <1>14, <1>15
<1>17. PICK z \in Nat : z = y + n /\ z >= Base
  BY <1>5, <1>6, <1>8
<1>18. ItemSums(t)'
  <2>1. ItemSums(t)
    BY <1>3, PartItem
  <2> QED
    BY <1>1, <1>4, <1>9, <1>16, <1>17, <2>1, PartShape DEF ItemSums, InLevel
<1> QED
  BY <1>1, <1>2, <1>18, SumsGoOn DEF SumsWalk, PartSums

LEMMA SumsPut ==
    ASSUME PowersOfTwo, PartInv, PartSums, NEW t \in R!Item, R!PutScratch(t)
    PROVE  PartSums'
<1>1. t \in Active
  BY DEF R!PutScratch, PartInv
<1>2. t \in R!Item /\ t = R!WgRows * R!LocalCol(t) + R!LocalRow(t)
  BY <1>1, PartItem
<1>3. /\ pc[t] = "load" /\ launch' = launch /\ out' = out /\ pos' = pos
      /\ pc' = [pc EXCEPT ![t] = "tree"] /\ t \in DOMAIN pc
      /\ offset' = offset /\ rhs' = rhs /\ acc' = acc
      /\ pos[t] >= launch.cols
      /\ scratch' = [scratch EXCEPT ![t] = acc[t]]
      /\ DOMAIN scratch = R!Item
  BY <1>2 DEF R!PutScratch, R!Goto, PartSums, PartInv
<1>4. \A u \in R!Item \ {t} : Keeps(u)
  BY <1>3 DEF Keeps
<1>5. pc'[t] = "tree" /\ scratch'[t] = acc[t]
  BY <1>3
<1>6. ItemSums(t) /\ launch \in PartialRowsLaunches
  BY <1>1, PartItem
<1>7. PICK c \in 0 .. R!WgCols - 1 : c = R!LocalCol(t)
  BY <1>1, PartItem
<1>8. PICK y \in Nat : y = pos[t] /\ acc[t] = LaneSumTo(t, y)
  BY <1>3, <1>6 DEF ItemSums
<1>9. LaneSumTo(t, y) = LaneSum(t, R!WgCols)
  <2>1. {x \in ColumnLane(R!WgCols, c) : x < y} = ColumnLane(R!WgCols, c)
    <3>1. \A x \in ColumnLane(R!WgCols, c) : x \in 0 .. launch.cols - 1
      BY <1>6, LaneOfItem
    <3>2. launch.cols \in Nat /\ y >= launch.cols
      BY <1>3, <1>6, <1>8, PartBase
    <3> QED
      BY <3>1, <3>2
  <2> QED
    BY <1>7, <2>1 DEF LaneSumTo, LaneSum
<1>10. PICK m \in Nat : m = Width(t)
  BY <1>1, PartItem DEF Width
<1>11. R!WgCols = m
  BY <1>3, <1>6, <1>10, FirstSplit DEF ItemSums, Width
<1>12. Width(t)' = m
  BY <1>3, <1>10 DEF Width
<1>13. scratch'[t] = LaneSum(t, m) /\ ~(c \in m .. 2 * m - 1)
  BY <1>5, <1>7, <1>8, <1>9, <1>10, <1>11
<1>14. ItemSums(t)'
  BY <1>3, <1>5, <1>6, <1>7, <1>10, <1>12, <1>13, PartShape DEF ItemSums, InLevel
<1> QED
  BY <1>3, <1>4, <1>14, SumsGoOn DEF SumsWalk, PartSums

LEMMA SumsBarrier ==
    ASSUME PartInv, PartSums, NEW t \in R!Item, R!Arrive(t) \/ R!Leave(t)
    PROVE  PartSums'
<1>1. PICK l \in {"wait", "level"} : pc' = [pc EXCEPT ![t] = l]
  BY DEF R!Arrive, R!Leave, R!Goto
<1>2. /\ launch' = launch /\ out' = out /\ pos' = pos
      /\ offset' = offset /\ rhs' = rhs /\ acc' = acc /\ scratch' = scratch
      /\ pc[t] \in {"tree", "wait"} /\ pc'[t] = l
      /\ \A u \in R!Item \ {t} : pc'[u] = pc[u]
  BY <1>1 DEF R!Arrive, R!Leave, PartInv
<1>3. t \in Active
  BY <1>2 DEF PartInv
<1>4. ItemSums(t) /\ offset[t] \in Nat
  BY <1>3, PartItem
<1>5. offset[t] > 0
  BY <1>2, <1>4 DEF R!Arrive, R!Leave, ItemSums, InLevel
<1>6. \A u \in R!Item \ {t} : Keeps(u)
  BY <1>2 DEF Keeps
<1>7. ItemSums(t)'
  BY <1>1, <1>2, <1>4, <1>5, PartShape DEF ItemSums, InLevel, Width
<1> QED
  BY <1>2, <1>6, <1>7, SumsGoOn DEF SumsWalk, PartSums

LEMMA SumsSkip ==
    ASSUME PowersOfTwo, PartInv, PartSums, NEW t \in R!Item, R!Skip(t)
    PROVE  PartSums'
<1>1. /\ pc[t] = "level" /\ launch' = launch /\ out' = out /\ pos' = pos
      /\ rhs' = rhs /\ acc' = acc /\ scratch' = scratch
      /\ pc' = [pc EXCEPT ![t] = "tree"] /\ t \in DOMAIN pc
      /\ offset' = [offset EXCEPT ![t] = offset[t] \div 2] /\ t \in DOMAIN offset
      /\ R!LocalCol(t) >= offset[t]
  BY DEF R!Skip, R!Goto, PartInv
<1>2. t \in Active
  BY <1>1 DEF PartInv
<1>3. \A u \in R!Item \ {t} : Keeps(u)
  BY <1>1 DEF Keeps, PartInv
<1>4. ItemSums(t) /\ launch \in PartialRowsLaunches
  BY <1>2, PartItem
<1>5. PICK c \in 0 .. R!WgCols - 1 : c = R!LocalCol(t)
  BY <1>2, PartItem
<1>6. PICK s \in Nat \ {0} : s = offset[t]
  BY <1>1, <1>2, <1>4, PartItem DEF ItemSums, InLevel
<1>7. c \in Nat /\ c >= s /\ Splits(s) /\ 2 * s <= R!WgCols
  BY <1>1, <1>4, <1>5, <1>6, PartItem DEF ItemSums
<1>8. PICK h \in Nat : h = s \div 2 /\ Splits(h) /\ s = (IF h = 0 THEN 1 ELSE 2 * h)
  <2>1. CASE s = 1
    <3>1. 1 \div 2 = 0
      OBVIOUS
    <3> QED
      BY <2>1, <3>1 DEF Splits
  <2>2. CASE s # 1
    BY <1>4, <1>7, <2>2, HalfSplits
  <2> QED
    BY <2>1, <2>2
<1>9. pc'[t] = "tree" /\ offset'[t] = h
  BY <1>1, <1>6, <1>8
<1>10. Width(t) = 2 * s /\ Width(t)' = s
  BY <1>6, <1>8, <1>9 DEF Width
<1>11. c \in s .. 2 * s - 1 => scratch[t] = LaneSum(t, 2 * s)
  <2> DEFINE m == 2 * s
  <2>1. c \in s .. m - 1 => c < m
    BY <1>5
  <2>2. c < m => scratch[t] = LaneSum(t, m)
    BY <1>1, <1>4, <1>5, <1>10 DEF ItemSums
  <2> QED
    BY <2>1, <2>2
<1>12. ~(c < s) /\ ~(c < h) /\ 2 * h <= R!WgCols
  BY <1>7, <1>8, PartBase DEF PartInv
<1>13. PICK m \in Nat : m = 2 * s
  OBVIOUS
<1>14. ItemSums(t)'
  BY <1>1, <1>5, <1>8, <1>9, <1>10, <1>11, <1>12, <1>13, PartShape DEF ItemSums, InLevel
<1> QED
  BY <1>1, <1>3, <1>14, SumsGoOn DEF SumsWalk, PartSums

\* The item at a place of the block.
LEMMA PlaceOf ==
    ASSUME launch \in PartialRowsLaunches,
           NEW c \in 0 .. R!WgCols - 1, NEW r \in 0 .. R!WgRows - 1
    PROVE  /\ c * R!WgRows + r \in R!Item
           /\ R!LocalCol(c * R!WgRows + r) = c /\ R!LocalRow(c * R!WgRows + r) = r
<1>1. PICK w \in Nat \ {0} : w = R!WgRows
  BY PartBase
<1>2. PICK n \in Nat \ {0} : n = R!WgCols
  BY PartBase
<1>3. c \in Nat /\ c + 1 <= n /\ r \in 0 .. w - 1
  BY <1>1, <1>2
<1>4. PICK v \in Nat : v = w * c + r
  BY <1>3
<1>5. v \div w = c
  BY <1>3, <1>4, DivModUnique
<1>6. w * (c + 1) <= w * n
  BY <1>2, <1>3, MulMonotone
<1>7. w * (c + 1) = w * c + w /\ w * c = c * w
  BY <1>3
<1> DEFINE a == w * c
           b == w * n
<1>8. a \in Int /\ b \in Int /\ v = a + r /\ a + w <= b
  BY <1>3, <1>4, <1>6, <1>7
<1>9. v \in 0 .. b - 1 /\ v - a = r
  <2> HIDE DEF a, b
  <2> QED
    BY <1>3, <1>8
<1>10. v = c * R!WgRows + r
  BY <1>1, <1>4, <1>7
<1>11. R!LocalCol(v) = c /\ v \in R!Item
  BY <1>1, <1>2, <1>5, <1>9 DEF R!LocalCol, R!Item
<1>12. R!LocalRow(v) = r
  BY <1>1, <1>7, <1>9, <1>11 DEF R!LocalRow
<1> QED
  BY <1>10, <1>11, <1>12

\* An item that is adding two cells is in no barrier, so the items of its row
\* have all stored the sums of the level before, and those behind the columns
\* that are left have not stored since.
LEMMA OtherLevel ==
    ASSUME PowersOfTwo, PartInv, PartSums, NEW t \in Active, pc[t] = "level",
           NEW v \in Active
    PROVE  /\ pc[v] \notin {"start", "load"}
           /\ offset[v] \in {offset[t], offset[t] \div 2}
<1>1. PICK ph \in [Active -> Nat \X Nat] :
         /\ InStep(Active, Reached, Inside, ph, LevelNext)
         /\ \A u \in Active : Fits(u, ph[u])
  BY DEF PartInv, Together
<1>2. /\ ItemOk(t) /\ ItemOk(v) /\ InLevel(t)
      /\ Reached[t] = barriers[t] /\ Reached[v] = barriers[v]
      /\ barriers[t] \in Nat /\ barriers[v] \in Nat
      /\ Inside[t] = FALSE /\ Inside[v] = (pc[v] = "wait")
  BY DEF PartInv, Reached, Inside, InLevel, Active
<1>3. ph[t] = <<offset[t], offset[t] \div 2>> /\ barriers[t] > 0
  BY <1>1, <1>2 DEF Fits, ItemOk
<1>4. /\ barriers[t] <= barriers[v]
      /\ (IF pc[v] = "wait" THEN barriers[v] - 1 ELSE barriers[v]) <= barriers[t]
      /\ barriers[v] = barriers[t] => ph[v] = ph[t]
      /\ barriers[v] = barriers[t] + 1
           => ph[t] \in DOMAIN LevelNext /\ ph[v] = LevelNext[ph[t]]
  BY <1>1, <1>2 DEF InStep, Passed
<1>5. pc[v] \notin {"start", "load"}
  BY <1>2, <1>3, <1>4 DEF ItemOk
<1>6. CASE barriers[v] = barriers[t]
  <2>1. ph[v] = <<offset[t], offset[t] \div 2>>
    BY <1>3, <1>4, <1>6
  <2>2. Fits(v, ph[v])
    BY <1>1
  <2> QED
    BY <1>5, <2>1, <2>2 DEF Fits
<1>7. CASE barriers[v] = barriers[t] + 1 /\ pc[v] = "wait"
  <2>1. ph[t] \in DOMAIN LevelNext /\ ph[v] = LevelNext[ph[t]]
    BY <1>4, <1>7
  <2>2. ph[v][1] = ph[t][2]
    BY <2>1 DEF LevelNext
  <2>3. ph[v] = <<offset[v], offset[v] \div 2>>
    BY <1>1, <1>7 DEF Fits, InLevel
  <2> QED
    BY <1>3, <1>5, <2>2, <2>3
<1> QED
  BY <1>2, <1>4, <1>5, <1>6, <1>7

LEMMA SecondOperand ==
    ASSUME PowersOfTwo, PartInv, PartSums, NEW t \in Active, pc[t] = "level",
           R!LocalCol(t) < offset[t]
    PROVE  scratch[rhs[t]]
             = R!Exactly(Node(R!GlobalRow(t),
                              ColumnLane(2 * offset[t], R!LocalCol(t) + offset[t])))
<1>1. PICK c \in Nat : c = R!LocalCol(t)
  BY PartItem
<1>2. PICK s \in Nat \ {0} : s = offset[t]
  BY <1>1, PartItem
<1>3. ItemSums(t) /\ launch \in PartialRowsLaunches /\ t \in R!Item
  BY PartItem
<1>4. c < s /\ 2 * s <= R!WgCols /\ Splits(s) /\ R!WgCols \in Nat
  BY <1>1, <1>2, <1>3, PartItem DEF ItemSums
<1>5. PICK k \in 0 .. R!WgCols - 1 : k = c + s
  BY <1>4
<1>6. PICK r \in 0 .. R!WgRows - 1 : r = R!LocalRow(t)
  BY <1>3, PartPlace
<1>7. PICK v : v = k * R!WgRows + r
  OBVIOUS
<1>8. rhs[t] = v
  BY <1>1, <1>2, <1>3, <1>4, <1>5, <1>6, <1>7 DEF ItemSums
<1>9. v \in R!Item /\ R!LocalCol(v) = k /\ R!LocalRow(v) = r
  BY <1>3, <1>7, PlaceOf
<1>10. R!GlobalRow(v) = R!GlobalRow(t)
  BY <1>6, <1>9 DEF R!GlobalRow
<1>11. v \in Active
  BY <1>9, <1>10 DEF Active
<1>12. ItemSums(v) /\ pc[v] \notin {"start", "load"} /\ offset[v] \in {s, s \div 2}
  BY <1>2, <1>11, PartItem, OtherLevel
<1>13. Width(v) \in {s, 2 * s}
  <2>1. s = 1 => s \div 2 = 0
    OBVIOUS
  <2>2. s # 1 => s = 2 * (s \div 2) /\ s \div 2 # 0
    BY <1>3, <1>4, HalfSplits
  <2>3. CASE s = 1
    BY <1>12, <2>1, <2>3 DEF Width
  <2>4. CASE s # 1
    <3>1. PICK h \in Nat : h = s \div 2 /\ s = 2 * h /\ h # 0
      BY <1>3, <1>4, <2>4, HalfSplits
    <3> QED
      BY <1>12, <3>1 DEF Width
  <2> QED
    BY <2>3, <2>4
<1>14. scratch[v] = LaneSum(v, 2 * s)
  <2>1. k \in s .. 2 * s - 1 /\ k < 2 * s
    BY <1>4, <1>5
  <2>2. CASE Width(v) = s
    BY <1>9, <1>12, <2>1, <2>2 DEF ItemSums
  <2>3. CASE Width(v) = 2 * s
    BY <1>9, <1>12, <2>1, <2>3 DEF ItemSums
  <2> QED
    BY <1>13, <2>2, <2>3
<1> QED
  BY <1>1, <1>2, <1>5, <1>8, <1>9, <1>10, <1>14 DEF LaneSum

LEMMA SumsPair ==
    ASSUME PowersOfTwo, PartInv, PartSums, NEW t \in R!Item, R!LoadPair(t)
    PROVE  PartSums'
<1>1. t \in Active
  BY DEF R!LoadPair, PartInv
<1>2. t = R!LocalCol(t) * R!WgRows + R!LocalRow(t)
  BY <1>1, PartItem
<1>3. /\ pc[t] = "level" /\ launch' = launch /\ out' = out /\ pos' = pos
      /\ rhs' = rhs /\ offset' = offset /\ scratch' = scratch
      /\ pc' = [pc EXCEPT ![t] = "store"] /\ t \in DOMAIN pc
      /\ acc' = [acc EXCEPT ![t] = R!Eval(scratch[t], scratch[rhs[t]])]
      /\ DOMAIN acc = R!Item
      /\ R!LocalCol(t) < offset[t]
  BY <1>2 DEF R!LoadPair, R!Goto, PartInv, PartSums
<1>4. \A u \in R!Item \ {t} : Keeps(u)
  BY <1>3 DEF Keeps
<1>5. ItemSums(t) /\ launch \in PartialRowsLaunches
  BY <1>1, PartItem
<1>6. PICK s \in Nat \ {0} : s = offset[t]
  BY <1>1, <1>3, <1>5, PartItem DEF ItemSums, InLevel
<1>7. PICK c \in 0 .. s - 1 : c = R!LocalCol(t)
  BY <1>1, <1>3, <1>6, PartItem
<1>8. PICK row \in Nat : row = R!GlobalRow(t)
  BY <1>1, PartItem
<1>9. scratch[t] = R!Exactly(Node(row, ColumnLane(2 * s, c)))
  <2>1. Width(t) = 2 * s /\ c < 2 * s
    BY <1>6 DEF Width
  <2> QED
    BY <1>3, <1>5, <1>7, <1>8, <2>1 DEF ItemSums, LaneSum
<1>10. scratch[rhs[t]] = R!Exactly(Node(row, ColumnLane(2 * s, c + s)))
  BY <1>1, <1>3, <1>6, <1>7, <1>8, SecondOperand
<1>11. PICK S \in SUBSET Nat : S = ColumnLane(2 * s, c)
  BY <1>5, ShareCol DEF ColumnLane
<1>12. PICK Q \in SUBSET Nat : Q = ColumnLane(2 * s, c + s)
  BY <1>5, ShareCol DEF ColumnLane
<1>13. S \cap Q = {} /\ S \cup Q = ColumnLane(s, c)
  BY <1>5, <1>11, <1>12, LaneHalves
<1>14. R!Eval(R!Exactly(Node(row, S)), R!Exactly(Node(row, Q)))
         = R!Exactly(Node(row, S \cup Q))
  BY <1>5, <1>13, NodesAdd
<1>15. acc'[t] = LaneSum(t, s)
  BY <1>3, <1>7, <1>8, <1>9, <1>10, <1>11, <1>12, <1>13, <1>14 DEF LaneSum
<1>16. pc'[t] = "store"
  BY <1>3
<1>17. ItemSums(t)'
  BY <1>3, <1>5, <1>6, <1>15, <1>16, PartShape DEF ItemSums, InLevel, Width
<1> QED
  BY <1>3, <1>4, <1>17, SumsGoOn DEF SumsWalk, PartSums

LEMMA SumsStore ==
    ASSUME PowersOfTwo, PartInv, PartSums, NEW t \in R!Item, R!StoreSum(t)
    PROVE  PartSums'
<1>1. t \in Active
  BY DEF R!StoreSum, PartInv
<1>2. t = R!LocalCol(t) * R!WgRows + R!LocalRow(t)
  BY <1>1, PartItem
<1>3. PICK r \in Int : r = rhs[t] - (offset[t] \div 2) * R!WgRows
  BY <1>1, PartItem, Halves
<1>4. /\ pc[t] = "store" /\ launch' = launch /\ out' = out /\ pos' = pos /\ acc' = acc
      /\ pc' = [pc EXCEPT ![t] = "tree"] /\ t \in DOMAIN pc
      /\ offset' = [offset EXCEPT ![t] = offset[t] \div 2] /\ t \in DOMAIN offset
      /\ rhs' = [rhs EXCEPT ![t] = r] /\ t \in DOMAIN rhs
      /\ scratch' = [scratch EXCEPT ![t] = acc[t]] /\ DOMAIN scratch = R!Item
  BY <1>2, <1>3 DEF R!StoreSum, R!Goto, PartInv, PartSums
<1>5. \A u \in R!Item \ {t} : Keeps(u)
  BY <1>4 DEF Keeps
<1>6. ItemSums(t) /\ ItemOk(t) /\ launch \in PartialRowsLaunches
  BY <1>1, PartItem
<1>7. PICK s \in Nat \ {0} : s = offset[t]
  BY <1>1, <1>4, <1>6, PartItem DEF ItemSums, InLevel
<1>8. PICK c \in 0 .. s - 1 : c = R!LocalCol(t)
  BY <1>1, <1>4, <1>6, <1>7, PartItem DEF ItemOk
<1>9. Splits(s) /\ 2 * s <= R!WgCols /\ R!WgCols \in Nat
  BY <1>1, <1>6, <1>7, PartItem DEF ItemSums
<1>10. PICK h \in Nat : /\ h = s \div 2 /\ Splits(h)
                        /\ s = (IF h = 0 THEN 1 ELSE 2 * h)
  <2>1. CASE s = 1
    <3>1. 1 \div 2 = 0
      OBVIOUS
    <3> QED
      BY <2>1, <3>1 DEF Splits
  <2>2. CASE s # 1
    BY <1>6, <1>9, <2>2, HalfSplits
  <2> QED
    BY <2>1, <2>2
<1>11. /\ pc'[t] = "tree" /\ offset'[t] = h /\ rhs'[t] = r /\ scratch'[t] = acc[t]
  BY <1>4, <1>7, <1>10
<1>12. Width(t)' = s /\ 2 * h <= R!WgCols
  BY <1>9, <1>10, <1>11 DEF Width
<1>13. scratch'[t] = LaneSum(t, s)
  BY <1>4, <1>6, <1>7, <1>11 DEF ItemSums
<1>14. c < h => r = (c + h) * R!WgRows + R!LocalRow(t)
  <2> SUFFICES ASSUME c < h PROVE r = (c + h) * R!WgRows + R!LocalRow(t)
    OBVIOUS
  <2>1. PICK w \in Nat \ {0} : w = R!WgRows
    BY <1>6, PartBase
  <2>2. rhs[t] = (c + s) * w + R!LocalRow(t) /\ r = rhs[t] - h * w
    BY <1>3, <1>6, <1>7, <1>8, <1>10, <2>1 DEF ItemSums
  <2>3. s = 2 * h
    BY <1>10
  <2> DEFINE a == c * w
             b == h * w
  <2>4. (c + s) * w = a + b + b /\ (c + h) * w = a + b /\ a \in Int /\ b \in Int
    BY <1>8, <2>1, <2>3
  <2> HIDE DEF a, b
  <2>5. rhs[t] = a + b + b + R!LocalRow(t) /\ r = rhs[t] - b
    BY <2>2, <2>4 DEF b
  <2>6. R!LocalRow(t) \in Nat
    BY <1>1, PartItem
  <2> QED
    BY <2>1, <2>4, <2>5, <2>6
<1>15. ~(c \in s .. 2 * s - 1)
  OBVIOUS
<1>16. ItemSums(t)'
  BY <1>4, <1>8, <1>10, <1>11, <1>12, <1>13, <1>14, <1>15, PartShape
     DEF ItemSums, InLevel
<1> QED
  BY <1>4, <1>5, <1>16, SumsGoOn DEF SumsWalk, PartSums

\* The last sum in a row's first cell is that of all the row's columns.
LEMMA LastSum ==
    ASSUME PartInv, PartSums, NEW t \in Active, pc[t] = "tree",
           offset[t] = 0, R!LocalCol(t) = 0
    PROVE  scratch[R!LocalRow(t)] = R!Exactly(R!ColumnShare(R!GlobalRow(t)))
<1>1. ItemSums(t) /\ launch \in PartialRowsLaunches
  BY PartItem
<1>2. R!LocalRow(t) = t
  BY PartItem
<1>3. scratch[t] = LaneSum(t, 1)
  BY <1>1 DEF ItemSums, Width
<1>4. ColumnLane(1, R!LocalCol(t)) = ShareCols
  BY <1>1, LaneAll
<1> QED
  BY <1>2, <1>3, <1>4, ShareIsAll DEF LaneSum

LEMMA SumsReturn ==
    ASSUME PartInv, PartSums, NEW t \in R!Item, R!WriteBack(t) \/ R!Return(t)
    PROVE  PartSums'
<1>1. /\ pc[t] = "tree" /\ launch' = launch /\ pos' = pos /\ offset[t] = 0
      /\ offset' = offset /\ rhs' = rhs /\ acc' = acc /\ scratch' = scratch
      /\ pc' = [pc EXCEPT ![t] = "done"] /\ t \in DOMAIN pc
  BY DEF R!WriteBack, R!Return, R!Goto, PartInv
<1>2. t \in Active
  BY <1>1 DEF PartInv
<1>3. \A u \in R!Item \ {t} : Keeps(u)
  BY <1>1 DEF Keeps
<1>4. \A u \in Active \ {t} : ItemSums(u)'
  BY <1>1, <1>3, Kept DEF PartSums, Active
<1>5. ItemSums(t)'
  <2>1. ItemSums(t)
    BY <1>2, PartItem
  <2> QED
    BY <1>1, <2>1, PartShape DEF ItemSums, InLevel, Width
<1>6. R!CellsExact'
  <2>1. CASE R!Return(t)
    <3>1. out' = out
      BY <2>1 DEF R!Return
    <3> QED
      BY <1>1, <3>1, PartShape DEF PartSums, R!CellsExact, R!Exactly
  <2>2. CASE R!WriteBack(t)
    <3>1. PICK g \in 0 .. launch.rows - 1 : g = R!GlobalRow(t)
      BY <1>2, PartItem
    <3>2. R!LocalCol(t) = 0
      BY <2>2 DEF R!WriteBack
    <3>3. out' = [i \in DOMAIN out \cup {R!Cell(g)} |->
                    IF i = R!Cell(g) THEN R!Exactly(R!ColumnShare(g)) ELSE out[i]]
      BY <1>1, <1>2, <2>2, <3>1, <3>2, LastSum DEF R!WriteBack
    <3> SUFFICES ASSUME NEW row \in 0 .. launch.rows - 1,
                        R!Cell(row) \in DOMAIN out'
                 PROVE  out'[R!Cell(row)] = R!Exactly(R!ColumnShare(row))
      BY <1>1, PartShape DEF R!CellsExact, R!Exactly
    <3>4. R!Cell(row) = R!Cell(g) => row = g
      <4>1. PICK b \in Int : b = R!GroupCol * launch.rows
        BY PartSizes, PartGroup DEF PartInv
      <4>2. launch.rows \in Nat
        BY PartSizes DEF PartInv
      <4> QED
        BY <4>1, <4>2 DEF R!Cell
    <3>5. CASE row = g
      BY <3>3, <3>5
    <3>6. CASE row # g
      <4>1. R!Cell(row) \in DOMAIN out /\ out'[R!Cell(row)] = out[R!Cell(row)]
        BY <3>3, <3>4, <3>6
      <4> QED
        BY <4>1 DEF PartSums, R!CellsExact
    <3> QED
      BY <3>5, <3>6
  <2> QED
    BY <2>1, <2>2
<1>7. \A u \in Active : ItemSums(u)'
  BY <1>4, <1>5
<1> QED
  BY <1>1, <1>6, <1>7, PartShape DEF PartSums

LEMMA SumsStep ==
    ASSUME PowersOfTwo, PartInv, PartSums, NEW t \in R!Item, R!Step(t)
    PROVE  PartSums'
BY SumsEnter, SumsLoad, SumsPut, SumsBarrier, SumsSkip, SumsPair, SumsStore,
   SumsReturn DEF R!Step

LEMMA SumsStart == ASSUME PowersOfTwo, R!Init PROVE PartSums
<1>1. /\ launch \in PartialRowsLaunches /\ out = <<>>
      /\ DOMAIN pos = R!Item /\ DOMAIN acc = R!Item /\ DOMAIN scratch = R!Item
  BY DEF R!Init
<1>2. ASSUME NEW t \in Active PROVE ItemSums(t)
  <2>1. /\ t \in R!Item /\ pc[t] = "start" /\ pos[t] = R!GlobalCol(t)
        /\ acc[t] = R!Neutral /\ offset[t] = R!WgCols \div 2
        /\ rhs[t] = (R!LocalCol(t) + R!WgCols \div 2) * R!WgRows + R!LocalRow(t)
    BY <1>2 DEF R!Init, Active
  <2>2. PICK h \in Nat : h = R!WgCols \div 2 /\ Splits(h) /\ 2 * h <= R!WgCols
    <3>1. PICK w \in Nat \ {0} : w = R!WgCols
      BY <1>1, PartBase
    <3>2. 2 * (w \div 2) <= w
      BY <3>1, Halves
    <3> QED
      BY <1>1, <3>1, <3>2, FirstSplit
  <2> QED
    BY <2>1, <2>2 DEF ItemSums, InLevel
<1>3. R!CellsExact
  BY <1>1 DEF R!CellsExact
<1> QED
  BY <1>1, <1>2, <1>3 DEF PartSums

LEMMA SumsStutter ==
    ASSUME PartSums, UNCHANGED vars
    PROVE  PartSums'
<1>1. launch' = launch /\ out' = out /\ \A u \in R!Item : Keeps(u)
  BY DEF vars, Keeps
<1>2. DOMAIN pos' = R!Item /\ DOMAIN acc' = R!Item /\ DOMAIN scratch' = R!Item
  BY DEF vars, PartSums
<1>3. \A u \in Active : ItemSums(u)'
  BY <1>1, Kept DEF PartSums, Active
<1>4. R!CellsExact'
  BY <1>1, PartShape DEF PartSums, R!CellsExact, R!Exactly
<1> QED
  BY <1>1, <1>2, <1>3, <1>4, PartShape DEF PartSums

\* ReductionPartialRows: each cell that a group writes holds the reduction of
\* exactly its row's columns, also when items have returned before the first
\* barrier.
THEOREM CellsAreExact == PowersOfTwo => (Spec => []CellsExact)
<1> SUFFICES ASSUME PowersOfTwo PROVE Spec => []CellsExact
  OBVIOUS
<1> DEFINE Hold == Runs("partialRows") => PartSums
<1>1. Init => Hold
  <2> SUFFICES ASSUME Init, Runs("partialRows") PROVE PartSums
    OBVIOUS
  <2>1. R!Init
    BY GemvSizes, RowSizes, ColSizes, GerSizes, InvSizes
       DEF Init, Runs, G!Init, W!Init, C!Init, E!Init, D!Init
  <2> QED
    BY <2>1, SumsStart
<1>2. KernelInv /\ KernelInv' /\ Hold /\ [Next]_vars => Hold'
  <2> SUFFICES ASSUME KernelInv, KernelInv', Hold, [Next]_vars, Runs("partialRows")'
               PROVE  PartSums'
    OBVIOUS
  <2>1. ASSUME NEW i \in DOMAIN pc, Step(i) PROVE PartSums'
    <3>1. launch' = launch
      BY <2>1 DEF Step, G!Step, G!LoadX, G!Dot, G!LoadTile, G!MultiplyTile,
         G!StoreSum, G!Row, W!Step, W!WriteZeros, W!Fill, W!Level, W!StoreRows,
         W!Return, C!Step, C!WriteZeros, C!CopyBlock, C!MultiplyBlock, C!Return,
         E!Step, E!CopyBlock, E!Update, E!Return, R!Step, R!Enter, R!LoadElement,
         R!PutScratch, R!Arrive, R!Leave, R!Skip, R!LoadPair, R!StoreSum,
         R!WriteBack, R!Return, D!Step, D!Load, D!InvertDiagonal, D!Accumulate,
         D!Store, D!WriteRow, D!Leave
    <3>2. Runs("partialRows")
      BY <3>1 DEF Runs
    <3>3. R!Step(i) /\ PartInv /\ i \in R!Item
      BY <2>1, <3>2 DEF Step, Runs, KernelInv, PartInv
    <3> QED
      BY <3>2, <3>3, SumsStep
  <2>2. ASSUME UNCHANGED vars PROVE PartSums'
    <3>1. Runs("partialRows")
      BY <2>2 DEF Runs, vars
    <3> QED
      BY <2>2, <3>1, SumsStutter
  <2> QED
    BY <2>1, <2>2 DEF Next, Finished
<1>3. Hold => CellsExact
  BY DEF CellsExact, PartSums
<1> HIDE DEF Hold
<1> QED
  BY <1>1, <1>2, <1>3, KernelInvariant, PTL DEF Spec

-------------------------------------------------------------------------------
(***************************************************************************)
(* The BLAS 2 kernels: what is whose                                       *)
(***************************************************************************)

LEMMA GemvCard == \A x : G!Cardinality({x}) = 1
BY FS_Singleton DEF G!Cardinality, Cardinality

\* The sizes of the matrix and of the grid of groups over it.
LEMMA GemvGrids ==
    ASSUME launch \in GemvLaunches
    PROVE  /\ GemvGrid(launch) /\ launch.localSz \in Nat \ {0}
           /\ G!NcDim \in Nat \ {0} /\ G!CDim \in Nat \ {0}
           /\ launch.columns = launch.wgsPerC
           /\ launch.wgsPerC = IF launch.local THEN G!DivUp(G!CDim, launch.localSz) ELSE 1
           /\ launch.groupRange = launch.wgsPerC * G!DivUp(G!NcDim, launch.localSz)
<1>1. GemvGrid(launch) /\ launch.localSz \in Nat \ {0}
  BY Blas2Grids, GroupKernelsAssumption
     DEF Blas2Grids, GroupKernelsAssumption, Blas2Assumption, GroupSizes
<1> QED
  BY <1>1 DEF GemvGrid, G!NcDim, G!CDim

LEMMA GemvShares == launch \in GemvLaunches => G!SharesPartitionOutput
<1> SUFFICES ASSUME launch \in GemvLaunches, NEW r \in 0 .. G!NcDim - 1
             PROVE  /\ \A col \in G!Columns :
                          G!Cardinality({g \in G!Groups : /\ r \in G!Share(g).rows
                                                          /\ G!Share(g).col = col}) = 1
                    /\ \A l \in 0 .. G!CDim - 1 :
                          G!Cardinality({g \in G!Groups : /\ r \in G!Share(g).rows
                                                          /\ l \in G!Share(g).terms}) = 1
  BY DEF G!SharesPartitionOutput
<1>1. PICK s \in Nat \ {0}, w \in Nat \ {0}, h \in Nat \ {0} :
          /\ s = launch.localSz /\ w = launch.wgsPerC
          /\ h = G!DivUp(G!NcDim, s) /\ G!NcDim <= s * h
          /\ launch.columns = w /\ launch.groupRange = h * w
          /\ launch.local => G!CDim <= s * w
          /\ ~launch.local => w = 1
  <2>1. /\ G!DivUp(G!NcDim, launch.localSz) \in Nat \ {0}
        /\ G!NcDim <= launch.localSz * G!DivUp(G!NcDim, launch.localSz)
        /\ G!DivUp(G!CDim, launch.localSz) \in Nat \ {0}
        /\ G!CDim <= launch.localSz * G!DivUp(G!CDim, launch.localSz)
    BY GemvGrids, RoundedUp DEF G!DivUp
  <2> QED
    BY <2>1, GemvGrids
<1>2. r \div s \in 0 .. h - 1
  BY <1>1, GemvGrids, SomeBlock
<1>3. CASE launch.local
  <2>1. \A g \in G!Groups : G!NcGroup(g) = g \div w /\ G!CGroup(g) = g % w
    <3> SUFFICES ASSUME NEW g \in 0 .. h * w - 1
                 PROVE  g - (g \div w) * w = g % w
      BY <1>1 DEF G!Groups, G!NcGroup, G!CGroup
    <3>1. g \in Nat
      BY <1>1
    <3> QED
      BY <1>1, <3>1, Remainder
  <2>2. \A g \in G!Groups : /\ r \in G!Share(g).rows <=> g \div w = r \div s
                            /\ G!Share(g).col = g % w
                            /\ G!Share(g).terms = {l \in 0 .. G!CDim - 1 : l \div s = g % w}
    BY <1>1, <1>3, <2>1 DEF G!Share
  <2>3. ASSUME NEW q \in 0 .. w - 1
        PROVE  G!Cardinality({g \in G!Groups : g \div w = r \div s /\ g % w = q}) = 1
    <3>1. PICK p \in 0 .. h - 1 : p = r \div s
      BY <1>2
    <3>2. GroupsAt(h, w, p, q) = {w * p + q}
      BY OneGroupAt
    <3>3. G!Groups = 0 .. h * w - 1
      BY <1>1 DEF G!Groups
    <3> QED
      BY <3>1, <3>2, <3>3, GemvCard DEF GroupsAt
  <2>4. ASSUME NEW col \in G!Columns
        PROVE  G!Cardinality({g \in G!Groups : /\ r \in G!Share(g).rows
                                               /\ G!Share(g).col = col}) = 1
    <3>1. col \in 0 .. w - 1
      BY <1>1 DEF G!Columns
    <3>2. {g \in G!Groups : r \in G!Share(g).rows /\ G!Share(g).col = col}
             = {g \in G!Groups : g \div w = r \div s /\ g % w = col}
      BY <2>2
    <3> QED
      BY <2>3, <3>1, <3>2
  <2>5. ASSUME NEW l \in 0 .. G!CDim - 1
        PROVE  G!Cardinality({g \in G!Groups : /\ r \in G!Share(g).rows
                                               /\ l \in G!Share(g).terms}) = 1
    <3>1. l \div s \in 0 .. w - 1
      BY <1>1, <1>3, GemvGrids, SomeBlock
    <3>2. {g \in G!Groups : r \in G!Share(g).rows /\ l \in G!Share(g).terms}
             = {g \in G!Groups : g \div w = r \div s /\ g % w = l \div s}
      BY <2>2
    <3> QED
      BY <2>3, <3>1, <3>2
  <2> QED
    BY <2>4, <2>5
<1>4. CASE ~launch.local
  <2>1. w = 1 /\ launch.groupRange = h
    BY <1>1, <1>4
  <2>2. PICK t \in Nat : t = h * s /\ G!GroupStride = t /\ t # 0
    BY <1>1, <2>1 DEF G!GroupStride
  <2>3. (r % t) \div s \in 0 .. h - 1
    <3>1. r \in Nat
      OBVIOUS
    <3>2. r % t \in 0 .. t - 1
      BY <2>2, <3>1, DivMod
    <3>3. t <= s * h
      BY <1>1, <2>2
    <3> QED
      BY <1>1, <2>2, <3>2, <3>3, SomeBlock
  <2>4. \A g \in G!Groups : /\ r \in G!Share(g).rows <=> (r % t) \div s = g
                            /\ G!Share(g).col = 0
                            /\ G!Share(g).terms = 0 .. G!CDim - 1
    BY <1>1, <1>4, <2>2 DEF G!Share
  <2>5. {g \in G!Groups : r \in G!Share(g).rows} = {(r % t) \div s}
    BY <2>1, <2>3, <2>4 DEF G!Groups
  <2>6. ASSUME NEW col \in G!Columns
        PROVE  {g \in G!Groups : r \in G!Share(g).rows /\ G!Share(g).col = col}
                  = {(r % t) \div s}
    <3>1. col = 0
      BY <1>1, <2>1 DEF G!Columns
    <3> QED
      BY <2>4, <2>5, <3>1
  <2>7. ASSUME NEW l \in 0 .. G!CDim - 1
        PROVE  {g \in G!Groups : r \in G!Share(g).rows /\ l \in G!Share(g).terms}
                  = {(r % t) \div s}
    BY <2>4, <2>5
  <2> QED
    BY <2>6, <2>7, GemvCard
<1> QED
  BY <1>3, <1>4

LEMMA RowCard == \A x : W!Cardinality({x}) = 1
BY FS_Singleton DEF W!Cardinality, Cardinality

LEMMA RowShares == launch \in RowLaunches => W!SharesPartitionOutput
<1> SUFFICES ASSUME launch \in RowLaunches, NEW r \in 0 .. launch.dimR - 1
             PROVE  /\ \A col \in 0 .. launch.columns - 1 :
                          W!Cardinality({g \in W!Groups : /\ r \in W!Share(g).rows
                                                          /\ W!Share(g).out = col}) = 1
                    /\ \A l \in 0 .. launch.dimC - 1 :
                          W!Cardinality({g \in W!Groups : /\ r \in W!Share(g).rows
                                                          /\ l \in W!Share(g).cols}) = 1
  BY DEF W!SharesPartitionOutput
<1>1. /\ {launch.dimR, launch.dimC, launch.nWGRow, launch.nWGCol, launch.localSz}
            \subseteq Nat \ {0}
      /\ launch.columns = launch.nWGCol
  BY Blas2Grids, GroupKernelsAssumption
     DEF Blas2Grids, GroupKernelsAssumption, Blas2Assumption, TriangleSizes, GroupSizes
<1>2. PICK a \in Nat \ {0}, b \in Nat \ {0}, s \in Nat \ {0}, t \in Nat \ {0} :
          /\ a = launch.nWGRow /\ b = launch.nWGCol /\ s = W!RowSz /\ t = W!DimWFC
          /\ launch.dimR <= s * a /\ launch.dimC <= t * b
  <2>1. PICK s \in Nat \ {0} : s = W!RowSz /\ launch.dimR <= launch.nWGRow * s
    BY <1>1, RoundedUp DEF W!RowSz
  <2>2. W!DimWFC \in Nat \ {0} /\ launch.dimC <= W!DimWFC * launch.nWGCol
    BY <1>1, RoundsOfItems DEF W!DimWFC, W!DivUp
  <2>3. launch.nWGRow * s = s * launch.nWGRow
    BY <1>1
  <2> QED
    BY <1>1, <2>1, <2>2, <2>3
<1>3. W!Groups = 0 .. a * b - 1
  BY <1>2 DEF W!Groups
<1>4. \A g \in W!Groups : g \in Nat /\ g \div b \in Nat /\ g % b \in Nat
  <2> SUFFICES ASSUME NEW g \in 0 .. a * b - 1
               PROVE  g \in Nat /\ g \div b \in Nat /\ g % b \in Nat
    BY <1>3
  <2>1. g \in Nat
    OBVIOUS
  <2>2. g \div b \in Nat /\ g % b \in 0 .. b - 1
    BY <2>1, DivMod
  <2> QED
    BY <2>1, <2>2
<1>5. \A g \in W!Groups : r \in W!Share(g).rows <=> g \div b = r \div s
  <2> TAKE g \in W!Groups
  <2>1. PICK q \in Nat : q = g \div b
    BY <1>4
  <2>2. PICK f \in Nat : f = q * s
    OBVIOUS
  <2>3. W!Share(g).rows = CutOff(launch.dimR, s, q)
    <3>1. W!FrsRow(g) = f
      BY <1>2, <2>1, <2>2 DEF W!FrsRow, W!IdWFR
    <3>2. W!LstRow(g) = IF launch.dimR <= f + s THEN launch.dimR ELSE f + s
      BY <1>1, <1>2, <3>1, RowMin DEF W!LstRow
    <3> QED
      BY <2>2, <3>1, <3>2 DEF CutOff, W!Share
  <2>4. r \in CutOff(launch.dimR, s, q) <=> r \div s = q
    BY <1>1, CutBlock
  <2> QED
    BY <2>1, <2>3, <2>4
<1>6. ASSUME NEW l \in 0 .. launch.dimC - 1, NEW g \in W!Groups
      PROVE  l \in W!Share(g).cols <=> g % b = l \div t
  <2>1. PICK q \in Nat : q = g % b
    BY <1>4
  <2>2. PICK f \in Nat : f = q * t
    OBVIOUS
  <2>3. W!Share(g).cols = CutOff(launch.dimC, t, q)
    <3>1. W!FirstCol(g) = f
      BY <1>2, <2>1, <2>2 DEF W!FirstCol, W!IdWFC
    <3>2. W!Min({launch.dimC, W!FirstCol(g) + W!DimWFC})
             = IF launch.dimC <= f + t THEN launch.dimC ELSE f + t
      BY <1>1, <1>2, <3>1, RowMin
    <3> QED
      BY <2>2, <3>1, <3>2 DEF CutOff, W!Share
  <2>4. l \in CutOff(launch.dimC, t, q) <=> l \div t = q
    BY <1>1, CutBlock
  <2> QED
    BY <2>1, <2>3, <2>4
<1>7. ASSUME NEW q \in 0 .. b - 1
      PROVE  W!Cardinality({g \in W!Groups : g \div b = r \div s /\ g % b = q}) = 1
  <2>1. PICK p \in 0 .. a - 1 : p = r \div s
    BY <1>1, <1>2, SomeBlock
  <2>2. GroupsAt(a, b, p, q) = {b * p + q}
    BY OneGroupAt
  <2> QED
    BY <1>3, <2>1, <2>2, RowCard DEF GroupsAt
<1>8. ASSUME NEW col \in 0 .. launch.columns - 1
      PROVE  W!Cardinality({g \in W!Groups : /\ r \in W!Share(g).rows
                                             /\ W!Share(g).out = col}) = 1
  <2>1. col \in 0 .. b - 1
    BY <1>1, <1>2
  <2>2. {g \in W!Groups : r \in W!Share(g).rows /\ W!Share(g).out = col}
           = {g \in W!Groups : g \div b = r \div s /\ g % b = col}
    BY <1>2, <1>5 DEF W!Share, W!IdWFC
  <2> QED
    BY <1>7, <2>1, <2>2
<1>9. ASSUME NEW l \in 0 .. launch.dimC - 1
      PROVE  W!Cardinality({g \in W!Groups : /\ r \in W!Share(g).rows
                                             /\ l \in W!Share(g).cols}) = 1
  <2>1. l \div t \in 0 .. b - 1
    BY <1>1, <1>2, SomeBlock
  <2>2. {g \in W!Groups : r \in W!Share(g).rows /\ l \in W!Share(g).cols}
           = {g \in W!Groups : g \div b = r \div s /\ g % b = l \div t}
    BY <1>5, <1>6
  <2> QED
    BY <1>7, <2>1, <2>2
<1> QED
  BY <1>8, <1>9

LEMMA ColCard == \A x : C!Cardinality({x}) = 1
BY FS_Singleton DEF C!Cardinality, Cardinality

LEMMA ColShares == launch \in ColLaunches => C!SharesPartitionOutput
<1> SUFFICES ASSUME launch \in ColLaunches, NEW r \in 0 .. launch.dimR - 1
             PROVE  /\ \A col \in 0 .. launch.columns - 1 :
                          C!Cardinality({g \in C!Groups : /\ r \in C!Share(g).rows
                                                          /\ C!Share(g).out = col}) = 1
                    /\ \A l \in 0 .. launch.dimC - 1 :
                          C!Cardinality({g \in C!Groups : /\ r \in C!Share(g).rows
                                                          /\ l \in C!Share(g).cols}) = 1
  BY DEF C!SharesPartitionOutput
<1>1. /\ {launch.dimR, launch.dimC, launch.nWGRow, launch.nWGCol, launch.localSz}
            \subseteq Nat \ {0}
      /\ launch.columns = launch.nWGCol
  BY Blas2Grids, GroupKernelsAssumption
     DEF Blas2Grids, GroupKernelsAssumption, Blas2Assumption, TriangleSizes, GroupSizes
<1>2. PICK a \in Nat \ {0}, b \in Nat \ {0}, s \in Nat \ {0}, t \in Nat \ {0} :
          /\ a = launch.nWGCol /\ b = launch.nWGRow /\ s = C!ColSz /\ t = C!DimWFR
          /\ launch.dimC <= s * a /\ launch.dimR <= t * b
  <2>1. PICK s \in Nat \ {0} : s = C!ColSz /\ launch.dimC <= launch.nWGCol * s
    BY <1>1, RoundedUp DEF C!ColSz
  <2>2. C!DimWFR \in Nat \ {0} /\ launch.dimR <= C!DimWFR * launch.nWGRow
    BY <1>1, RoundsOfItems DEF C!DimWFR, C!DivUp
  <2>3. launch.nWGCol * s = s * launch.nWGCol
    BY <1>1
  <2> QED
    BY <1>1, <2>1, <2>2, <2>3
<1>3. C!Groups = 0 .. a * b - 1
  BY <1>2 DEF C!Groups
<1>4. \A g \in C!Groups : g \in Nat /\ g \div b \in Nat /\ g % b \in Nat
  <2> SUFFICES ASSUME NEW g \in 0 .. a * b - 1
               PROVE  g \in Nat /\ g \div b \in Nat /\ g % b \in Nat
    BY <1>3
  <2>1. g \in Nat
    OBVIOUS
  <2>2. g \div b \in Nat /\ g % b \in 0 .. b - 1
    BY <2>1, DivMod
  <2> QED
    BY <2>1, <2>2
<1>5. \A g \in C!Groups : r \in C!Share(g).rows <=> g % b = r \div t
  <2> TAKE g \in C!Groups
  <2>1. PICK q \in Nat : q = g % b
    BY <1>4
  <2>2. PICK f \in Nat : f = q * t
    OBVIOUS
  <2>3. C!Share(g).rows = CutOff(launch.dimR, t, q)
    <3>1. C!FirstRow(g) = f
      BY <1>2, <2>1, <2>2 DEF C!FirstRow, C!IdWFR
    <3>2. C!Min({launch.dimR, C!FirstRow(g) + C!DimWFR})
             = IF launch.dimR <= f + t THEN launch.dimR ELSE f + t
      BY <1>1, <1>2, <3>1, ColMin
    <3> QED
      BY <2>2, <3>1, <3>2 DEF CutOff, C!Share
  <2>4. r \in CutOff(launch.dimR, t, q) <=> r \div t = q
    BY <1>1, CutBlock
  <2> QED
    BY <2>1, <2>3, <2>4
<1>6. ASSUME NEW l \in 0 .. launch.dimC - 1, NEW g \in C!Groups
      PROVE  l \in C!Share(g).cols <=> g \div b = l \div s
  <2>1. PICK q \in Nat : q = g \div b
    BY <1>4
  <2>2. PICK f \in Nat : f = q * s
    OBVIOUS
  <2>3. C!Share(g).cols = CutOff(launch.dimC, s, q)
    <3>1. C!FrsCol(g) = f
      BY <1>2, <2>1, <2>2 DEF C!FrsCol, C!IdWFC
    <3>2. C!LstCol(g) = IF launch.dimC <= f + s THEN launch.dimC ELSE f + s
      BY <1>1, <1>2, <3>1, ColMin DEF C!LstCol
    <3> QED
      BY <2>2, <3>1, <3>2 DEF CutOff, C!Share
  <2>4. l \in CutOff(launch.dimC, s, q) <=> l \div s = q
    BY <1>1, CutBlock
  <2> QED
    BY <2>1, <2>3, <2>4
<1>7. ASSUME NEW p \in 0 .. a - 1
      PROVE  C!Cardinality({g \in C!Groups : g \div b = p /\ g % b = r \div t}) = 1
  <2>1. PICK q \in 0 .. b - 1 : q = r \div t
    BY <1>1, <1>2, SomeBlock
  <2>2. GroupsAt(a, b, p, q) = {b * p + q}
    BY OneGroupAt
  <2> QED
    BY <1>3, <2>1, <2>2, ColCard DEF GroupsAt
<1>8. ASSUME NEW col \in 0 .. launch.columns - 1
      PROVE  C!Cardinality({g \in C!Groups : /\ r \in C!Share(g).rows
                                             /\ C!Share(g).out = col}) = 1
  <2>1. col \in 0 .. a - 1
    BY <1>1, <1>2
  <2>2. {g \in C!Groups : r \in C!Share(g).rows /\ C!Share(g).out = col}
           = {g \in C!Groups : g \div b = col /\ g % b = r \div t}
    BY <1>2, <1>5 DEF C!Share, C!IdWFC
  <2> QED
    BY <1>7, <2>1, <2>2
<1>9. ASSUME NEW l \in 0 .. launch.dimC - 1
      PROVE  C!Cardinality({g \in C!Groups : /\ r \in C!Share(g).rows
                                             /\ l \in C!Share(g).cols}) = 1
  <2>1. l \div s \in 0 .. a - 1
    BY <1>1, <1>2, SomeBlock
  <2>2. {g \in C!Groups : r \in C!Share(g).rows /\ l \in C!Share(g).cols}
           = {g \in C!Groups : g \div b = l \div s /\ g % b = r \div t}
    BY <1>5, <1>6
  <2> QED
    BY <1>7, <2>1, <2>2
<1> QED
  BY <1>8, <1>9

LEMMA GerCard == E!Cardinality({}) = 0 /\ \A x : E!Cardinality({x}) = 1
BY FS_Singleton, FS_EmptySet DEF E!Cardinality, Cardinality

LEMMA GerShares == launch \in GerLaunches => E!SharesPartitionOutput
<1> SUFFICES ASSUME launch \in GerLaunches,
                    NEW e \in (0 .. launch.dimR - 1) \X (0 .. launch.dimC - 1)
             PROVE  E!Cardinality({g \in E!Groups : e \in E!Share(g)})
                       = IF E!InTriangle(e[1], e[2]) THEN 1 ELSE 0
  BY DEF E!SharesPartitionOutput
<1>1. /\ {launch.dimR, launch.dimC, launch.nWGRow, launch.nWGCol, launch.localSz}
            \subseteq Nat \ {0}
      /\ launch.dimR < launch.localSz => launch.dimC <= launch.localSz * launch.nWGCol
  BY Blas2Grids, GroupKernelsAssumption
     DEF Blas2Grids, GroupKernelsAssumption, Blas2Assumption, TriangleSizes, GroupSizes
<1>2. PICK a \in Nat \ {0}, b \in Nat \ {0}, s \in Nat \ {0}, t \in Nat \ {0} :
          /\ a = launch.nWGCol /\ b = launch.nWGRow /\ s = E!ColSz /\ t = E!DimWFR
          /\ launch.dimC <= s * a /\ launch.dimR <= t * b
  <2>1. PICK s \in Nat \ {0} : s = E!ColSz /\ launch.dimC <= s * launch.nWGCol
    <3>1. CASE launch.dimR < launch.localSz
      BY <1>1, <3>1 DEF E!ColSz
    <3>2. CASE ~(launch.dimR < launch.localSz)
      <4>1. PICK s \in Nat \ {0} : s = E!ColSz /\ launch.dimC <= launch.nWGCol * s
        BY <1>1, <3>2, RoundedUp DEF E!ColSz
      <4>2. launch.nWGCol * s = s * launch.nWGCol
        BY <1>1
      <4> QED
        BY <4>1, <4>2
    <3> QED
      BY <3>1, <3>2
  <2>2. E!DimWFR \in Nat \ {0} /\ launch.dimR <= E!DimWFR * launch.nWGRow
    BY <1>1, RoundsOfItems DEF E!DimWFR, E!DivUp
  <2> QED
    BY <1>1, <2>1, <2>2
<1>3. E!Groups = 0 .. a * b - 1
  BY <1>2 DEF E!Groups
<1>4. PICK r \in 0 .. launch.dimR - 1, l \in 0 .. launch.dimC - 1 : e = <<r, l>>
  OBVIOUS
<1>5. ASSUME NEW g \in E!Groups
      PROVE  e \in E!Share(g) <=> /\ E!InTriangle(r, l)
                                  /\ g \div b = l \div s /\ g % b = r \div t
  <2>1. g \in Nat /\ g \div b \in Nat /\ g % b \in Nat
    <3>1. g \in Nat
      BY <1>3
    <3>2. g \div b \in Nat /\ g % b \in 0 .. b - 1
      BY <3>1, DivMod
    <3> QED
      BY <3>1, <3>2
  <2>2. PICK p \in Nat, q \in Nat : p = g \div b /\ q = g % b
    BY <2>1
  <2>3. PICK fr \in Nat, fc \in Nat : fr = q * t /\ fc = p * s
    OBVIOUS
  <2>4. /\ E!FirstRow(g) = fr /\ E!FrsCol(g) = fc
    BY <1>2, <2>2, <2>3 DEF E!FirstRow, E!IdWFR, E!FrsCol
  <2>5. /\ E!Min({launch.dimR, E!FirstRow(g) + E!DimWFR})
              = IF launch.dimR <= fr + t THEN launch.dimR ELSE fr + t
        /\ E!LstCol(g) = IF launch.dimC <= fc + s THEN launch.dimC ELSE fc + s
    BY <1>1, <1>2, <2>4, GerMin DEF E!LstCol
  <2>6. E!Share(g) = {x \in CutOff(launch.dimR, t, q) \X CutOff(launch.dimC, s, p) :
                        E!InTriangle(x[1], x[2])}
    BY <2>3, <2>4, <2>5 DEF CutOff, E!Share
  <2>7. /\ r \in CutOff(launch.dimR, t, q) <=> r \div t = q
        /\ l \in CutOff(launch.dimC, s, p) <=> l \div s = p
    BY <1>1, CutBlock
  <2> QED
    BY <1>4, <2>2, <2>6, <2>7
<1>6. CASE E!InTriangle(r, l)
  <2>1. PICK p \in 0 .. a - 1, q \in 0 .. b - 1 : p = l \div s /\ q = r \div t
    BY <1>1, <1>2, SomeBlock
  <2>2. GroupsAt(a, b, p, q) = {b * p + q}
    BY OneGroupAt
  <2>3. {g \in E!Groups : e \in E!Share(g)} = GroupsAt(a, b, p, q)
    BY <1>3, <1>5, <1>6, <2>1 DEF GroupsAt
  <2> QED
    BY <1>4, <1>6, <2>2, <2>3, GerCard
<1>7. CASE ~E!InTriangle(r, l)
  <2>1. {g \in E!Groups : e \in E!Share(g)} = {}
    BY <1>5, <1>7
  <2> QED
    BY <1>4, <1>7, <2>1, GerCard
<1> QED
  BY <1>6, <1>7

\* The groups of a BLAS 2 launch share out the matrix and the columns of the
\* temporary, without a gap and without overlap: the ranges of rows and columns
\* that the kernels work out from the numbers of groups (gemv.hpp, ger.hpp) go
\* with the numbers that the calls work out from the sizes (blas2_interface.hpp).
THEOREM OutputPartitioned == Spec => []SharesPartitionOutput
<1>1. KernelInv => SharesPartitionOutput
  BY GemvShares, RowShares, ColShares, GerShares
     DEF KernelInv, GemvInv, RowInv, ColInv, GerInv, SharesPartitionOutput
<1> QED
  BY <1>1, KernelInvariant, PTL

-------------------------------------------------------------------------------
(***************************************************************************)
(* Of groups of work-items                                                 *)
(***************************************************************************)

LEMMA NegativeQuotient ==
    ASSUME NEW x \in Int, x < 0, NEW s \in Nat \ {0}
    PROVE  x \div s < 0
OBVIOUS

\* An item that may go on: none of the others has reached more than one barrier
\* more.
LEMMA AtBarrier ==
    ASSUME NEW I, NEW b, NEW w, NEW ph, NEW nx, InStep(I, b, w, ph, nx),
           NEW i \in I, NEW u \in I, Free(I, b, w, i)
    PROVE  \/ b[u] = b[i] /\ ph[u] = ph[i]
           \/ b[u] = b[i] + 1 /\ ph[i] \in DOMAIN nx /\ ph[u] = nx[ph[i]]
<1>1. b[i] \in Nat /\ b[u] \in Nat /\ w[u] \in BOOLEAN /\ w[i] \in BOOLEAN
  BY DEF InStep
<1>2. b[u] >= b[i]
  <2>1. CASE w[i]
    BY <2>1 DEF Free
  <2>2. CASE ~w[i]
    <3>1. Passed(b, w, i) <= b[u]
      BY DEF InStep
    <3> QED
      BY <1>1, <2>2, <3>1 DEF Passed
  <2> QED
    BY <2>1, <2>2
<1>3. Passed(b, w, u) <= b[i]
  BY DEF InStep
<1>4. b[u] - 1 <= b[i]
  BY <1>1, <1>3 DEF Passed
<1>5. b[u] = b[i] \/ b[u] = b[i] + 1
  BY <1>1, <1>2, <1>4
<1> QED
  BY <1>5 DEF InStep

-------------------------------------------------------------------------------
(***************************************************************************)
(* GemvCol: what a group writes                                            *)
(***************************************************************************)

LEMMA TimesQuotient ==
    ASSUME NEW a \in Nat, NEW g \in Nat \ {0}
    PROVE  g * (a \div g) <= a
<1>1. a % g \in Nat /\ a \div g \in Nat /\ a = g * (a \div g) + (a % g)
  BY DivMod
<1>2. PICK y \in Nat, z \in Nat : y = g * (a \div g) /\ z = a % g /\ a = y + z
  <2>1. g * (a \div g) \in Nat
    BY <1>1
  <2> QED
    BY <1>1, <2>1
<1> QED
  BY <1>2

\* n elements in as many blocks as blocks of x make: none of them is empty.
LEMMA NoEmptyBlock ==
    ASSUME NEW n \in Nat \ {0}, NEW x \in 1 .. n, NEW g, g = (n - 1) \div x + 1,
           NEW c, c = (n + g - 1) \div g
    PROVE  g \in Nat \ {0} /\ c \in Nat \ {0} /\ (g - 1) * c < n
<1>1. PICK h \in Nat : h = (n - 1) \div x /\ x * h <= n - 1
  <2>1. n - 1 \in Nat /\ x \in Nat \ {0}
    OBVIOUS
  <2>2. (n - 1) \div x \in Nat /\ (n - 1) % x \in Nat
        /\ n - 1 = x * ((n - 1) \div x) + ((n - 1) % x)
    BY <2>1, DivMod
  <2>3. x * ((n - 1) \div x) \in Nat
    BY <2>1, <2>2
  <2> QED
    BY <2>2, <2>3
<1>2. g \in Nat \ {0} /\ g - 1 = h
  BY <1>1
<1>3. n <= x * g
  BY RoundedUp
<1>4. c \in Nat \ {0}
  BY <1>2, RoundedUp
<1>5. g * c <= n + g - 1
  <2>1. PICK a \in Nat : a = n + g - 1
    BY <1>2
  <2>2. g \in Nat \ {0}
    BY <1>2
  <2>3. g * (a \div g) <= a
    BY <2>1, <2>2, TimesQuotient
  <2>4. c = a \div g
    BY <2>1
  <2> QED
    BY <2>1, <2>3, <2>4
<1>6. c <= x
  <2> SUFFICES ASSUME x + 1 <= c PROVE FALSE
    BY <1>4
  <2>1. g * (x + 1) <= g * c /\ g * (x + 1) = x * g + g
    BY <1>2, <1>4, MulMonotone
  <2>2. x * g \in Nat /\ g * c \in Nat
    BY <1>2, <1>4
  <2> QED
    BY <1>2, <1>3, <1>5, <2>1, <2>2
<1>7. h * c <= h * x /\ h * x = x * h /\ h * c \in Nat /\ x * h \in Nat
  BY <1>1, <1>4, <1>6, MulMonotone
<1>8. h * c < n
  BY <1>1, <1>7
<1> QED
  BY <1>2, <1>4, <1>8

ColFirst == C!FrsCol(launch.group)
ColRows ==
    C!FirstRow(launch.group)
      .. C!Min({launch.dimR, C!FirstRow(launch.group) + C!DimWFR}) - 1
ColOut == C!IdWFC(launch.group)

\* Every group has some of the columns.
LEMMA ColGroup ==
    ASSUME launch \in ColLaunches
    PROVE  ColFirst \in Nat /\ ColLast \in Nat /\ ColFirst < ColLast
<1>1. /\ launch.dimC \in Nat \ {0} /\ launch.nWGRow \in Nat \ {0}
      /\ launch.nWGCol \in Nat \ {0} /\ launch.group \in Nat
      /\ launch.group < launch.nWGRow * launch.nWGCol
      /\ \E cols \in 1 .. launch.dimC : launch.nWGCol = C!DivUp(launch.dimC, cols)
  BY ColSizes, Blas2Grids DEF Blas2Grids
<1>2. PICK n \in Nat \ {0}, x \in Nat, g \in Nat \ {0}, w \in Nat \ {0} :
          /\ n = launch.dimC /\ g = launch.nWGCol /\ w = launch.nWGRow
          /\ x \in 1 .. n /\ g = (n - 1) \div x + 1
  <2>1. PICK x \in 1 .. launch.dimC : launch.nWGCol = C!DivUp(launch.dimC, x)
    BY <1>1
  <2>2. x \in Nat
    BY <1>1
  <2> QED
    BY <1>1, <2>1, <2>2 DEF C!DivUp
<1>3. PICK c \in Nat \ {0} : c = (n + g - 1) \div g /\ (g - 1) * c < n
  BY <1>2, NoEmptyBlock
<1>4. C!ColSz = c
  BY <1>2, <1>3 DEF C!ColSz
<1>5. PICK y \in 0 .. g - 1 : y = C!IdWFC(launch.group)
  <2>1. PICK z \in Nat : z = w * g
    OBVIOUS
  <2>2. launch.group \in 0 .. z - 1
    BY <1>1, <1>2, <2>1
  <2>3. launch.group \div w \in 0 .. g - 1
    BY <2>1, <2>2, SomeBlock
  <2> QED
    BY <1>2, <2>3 DEF C!IdWFC
<1>6. PICK f \in Nat : f = y * c
  OBVIOUS
<1>7. f < n
  <2>1. c * y <= c * (g - 1)
    BY MulMonotone
  <2>2. c * y = y * c /\ c * (g - 1) = (g - 1) * c /\ c * (g - 1) \in Nat
    OBVIOUS
  <2> QED
    BY <1>3, <1>6, <2>1, <2>2
<1>8. ColFirst = f
  BY <1>4, <1>5, <1>6 DEF ColFirst, C!FrsCol
<1>9. ColLast = IF n <= f + c THEN n ELSE f + c
  BY <1>2, <1>4, <1>8, ColMin DEF ColLast, C!LstCol, ColFirst
<1> QED
  BY <1>7, <1>8, <1>9

\* The rows that an item goes through, every s-th from its own on, are those of
\* the group's blocks of rows with its remainder.
RowPlan(s, q, d, m, b, n, i, f, last) ==
    /\ s \in Nat \ {0} /\ q \in Nat \ {0} /\ m \in Nat /\ n \in Nat \ {0}
    /\ i \in 0 .. s - 1
    /\ d = q * s /\ b = m * d /\ f = b + i
    /\ last = (IF n <= f + d THEN n ELSE f + d)

RowsFrom(f, last, s) == {f + t * s : t \in 0 .. (last - 1 - f) \div s}

LEMMA RowsOfItem ==
    ASSUME NEW s, NEW q, NEW d, NEW m, NEW b, NEW n, NEW i, NEW f, NEW last,
           RowPlan(s, q, d, m, b, n, i, f, last)
    PROVE  RowsFrom(f, last, s)
             = {r \in b .. (IF n <= b + d THEN n ELSE b + d) - 1 : r % s = i}
<1> SUFFICES ASSUME NEW r
    PROVE  (\E t \in 0 .. (last - 1 - f) \div s : r = f + t * s)
              <=> r \in b .. (IF n <= b + d THEN n ELSE b + d) - 1 /\ r % s = i
  BY DEF RowsFrom
<1> USE DEF RowPlan
<1>1. d \in Nat \ {0} /\ d = s * q /\ b \in Nat /\ f \in Nat /\ last \in Int
  <2>1. d \in Nat \ {0} /\ d = s * q
    OBVIOUS
  <2>2. b \in Nat
    BY <2>1
  <2> QED
    BY <2>1, <2>2
<1>2. PICK z \in Nat : z = m * q
  OBVIOUS
<1>3. b = s * z
  <2>1. m * (q * s) = s * (m * q)
    OBVIOUS
  <2> QED
    BY <1>2, <2>1
<1>4. PICK x \in Int : x = last - 1 - f
  BY <1>1
<1>5. ASSUME NEW t \in 0 .. x \div s, r = f + t * s
      PROVE  r \in b .. (IF n <= b + d THEN n ELSE b + d) - 1 /\ r % s = i
  <2>1. x >= 0
    BY NegativeQuotient
  <2>2. x \div s \in Nat /\ x % s \in Nat /\ x = s * (x \div s) + (x % s)
    BY <2>1, DivMod
  <2>3. PICK y \in Nat : y = s * t
    OBVIOUS
  <2>4. y <= x
    <3>1. s * t <= s * (x \div s)
      BY <2>2, MulMonotone
    <3>2. s * (x \div s) \in Nat
      BY <2>2
    <3> QED
      BY <2>2, <2>3, <3>1, <3>2
  <2>5. r = f + y
    <3>1. t * s = s * t
      OBVIOUS
    <3> QED
      BY <1>5, <2>3, <3>1
  <2>6. t < q
    <3> SUFFICES ASSUME q <= t PROVE FALSE
      OBVIOUS
    <3>1. s * q <= s * t
      BY MulMonotone
    <3> QED
      BY <1>1, <1>4, <2>3, <2>4, <3>1
  <2>7. y <= d - s
    <3>1. s * t <= s * (q - 1) /\ s * (q - 1) = s * q - s
      BY <2>6, MulMonotone
    <3> QED
      BY <1>1, <2>3, <3>1
  <2>8. r \in Nat /\ r = s * (z + t) + i
    <3>1. s * (z + t) = s * z + s * t
      OBVIOUS
    <3> QED
      BY <1>1, <1>3, <2>3, <2>5, <3>1
  <2>9. r % s = i
    <3>1. z + t \in Nat
      OBVIOUS
    <3> QED
      BY <2>8, <3>1, DivModUnique
  <2> QED
    BY <1>1, <1>4, <2>4, <2>5, <2>7, <2>9
<1>6. ASSUME r \in b .. (IF n <= b + d THEN n ELSE b + d) - 1, r % s = i
      PROVE  \E t \in 0 .. x \div s : r = f + t * s
  <2>1. r \in Nat /\ r >= b /\ r < n /\ r < b + d
    BY <1>1, <1>6
  <2>2. r \div s \in Nat /\ r = s * (r \div s) + i
    BY <1>6, <2>1, DivMod
  <2>3. PICK y \in Nat : y = r \div s /\ r = s * y + i
    BY <2>2
  <2>4. z <= y
    <3> SUFFICES ASSUME y + 1 <= z PROVE FALSE
      BY <2>3
    <3>1. s * (y + 1) <= s * z /\ s * (y + 1) = s * y + s
      BY MulMonotone
    <3>2. s * y \in Nat /\ s * z \in Nat
      OBVIOUS
    <3> QED
      BY <1>3, <2>1, <2>3, <3>1, <3>2
  <2>5. PICK t \in Nat : t = y - z
    BY <2>4
  <2>6. f + t * s = r
    <3>1. (y - z) * s = s * y - s * z
      OBVIOUS
    <3>2. s * y \in Nat /\ s * z \in Nat
      OBVIOUS
    <3> QED
      BY <1>1, <1>3, <2>3, <2>5, <3>1, <3>2
  <2>7. t * s <= x /\ t * s \in Nat /\ t * s = s * t /\ x >= 0
    <3>1. t * s \in Nat /\ t * s = s * t
      OBVIOUS
    <3> QED
      BY <1>1, <1>4, <2>1, <2>6, <3>1
  <2>8. x \div s \in Nat /\ x % s \in 0 .. s - 1 /\ x = s * (x \div s) + (x % s)
    <3>1. x \in Nat
      BY <2>7
    <3> QED
      BY <3>1, DivMod
  <2>9. t <= x \div s
    <3> SUFFICES ASSUME x \div s + 1 <= t PROVE FALSE
      BY <2>8
    <3>1. s * (x \div s + 1) <= s * t /\ s * (x \div s + 1) = s * (x \div s) + s
      BY <2>8, MulMonotone
    <3>2. s * (x \div s) \in Nat
      BY <2>8
    <3> QED
      BY <2>7, <2>8, <3>1, <3>2
  <2>10. t \in 0 .. x \div s
    BY <2>8, <2>9
  <2> QED
    BY <2>6, <2>10
<1> QED
  BY <1>4, <1>5, <1>6

\* The rows of an item.
LEMMA ColRowsOf ==
    ASSUME launch \in ColLaunches, NEW i \in C!Item
    PROVE  C!RowsOf(i) = {r \in ColRows : r % launch.localSz = i}
<1>1. PICK n \in Nat \ {0}, s \in Nat \ {0}, w \in Nat \ {0}, g \in Nat :
          n = launch.dimR /\ s = launch.localSz /\ w = launch.nWGRow /\ g = launch.group
  BY ColSizes
<1>2. i \in 0 .. s - 1
  BY <1>1 DEF C!Item
<1>3. PICK q \in Nat \ {0} : q = C!DivUp(launch.dimR, launch.localSz * launch.nWGRow)
  <2>1. PICK z \in Nat \ {0} : z = s * w
    OBVIOUS
  <2>2. (n - 1) \div z + 1 \in Nat \ {0}
    BY RoundedUp
  <2> QED
    BY <1>1, <2>1, <2>2 DEF C!DivUp
<1>4. PICK d \in Nat : d = q * s /\ d = C!DimWFR
  <2>1. q * s \in Nat
    OBVIOUS
  <2> QED
    BY <1>1, <1>3, <2>1 DEF C!DimWFR
<1>5. PICK m \in Nat : m = C!IdWFR(launch.group)
  <2>1. g % w \in 0 .. w - 1
    BY DivMod
  <2> QED
    BY <1>1, <2>1 DEF C!IdWFR
<1>6. PICK b \in Nat : b = m * d /\ b = C!FirstRow(launch.group)
  <2>1. m * d \in Nat
    OBVIOUS
  <2> QED
    BY <1>4, <1>5, <2>1 DEF C!FirstRow
<1>7. PICK f \in Nat : f = b + i /\ f = C!FrsRow(i)
  BY <1>2, <1>6 DEF C!FrsRow
<1>8. PICK last : last = (IF n <= f + d THEN n ELSE f + d) /\ last = C!LstRow(i)
  BY <1>1, <1>4, <1>7, ColMin DEF C!LstRow
<1>9. ColRows = b .. (IF n <= b + d THEN n ELSE b + d) - 1
  <2>1. C!Min({n, b + d}) = IF n <= b + d THEN n ELSE b + d
    BY <1>1, <1>4, <1>6, ColMin
  <2> QED
    BY <1>1, <1>4, <1>6, <2>1 DEF ColRows
<1>10. RowsFrom(f, last, s)
         = {r \in b .. (IF n <= b + d THEN n ELSE b + d) - 1 : r % s = i}
  <2>1. RowPlan(s, q, d, m, b, n, i, f, last)
    BY <1>2, <1>4, <1>6, <1>7, <1>8 DEF RowPlan
  <2> QED
    BY <2>1, RowsOfItem
<1>11. C!RowsOf(i) = RowsFrom(f, last, s)
  BY <1>1, <1>7, <1>8 DEF C!RowsOf, RowsFrom
<1> QED
  BY <1>1, <1>9, <1>10, <1>11

\* The products of a row over two sets of columns that do not meet.
LEMMA ColProducts ==
    ASSUME NEW row, NEW S, NEW Q, S \cap Q = {}
    PROVE  /\ C!RowProducts(row, S) \cap C!RowProducts(row, Q) = {}
           /\ C!RowProducts(row, S \cup Q) = C!RowProducts(row, S) \cup C!RowProducts(row, Q)
<1>1. ASSUME NEW x \in C!RowProducts(row, S), x \in C!RowProducts(row, Q)
      PROVE  FALSE
  <2>1. \/ \E col \in S : x = <<C!Elem(row, col), C!FromB(col)>>
        \/ row \in S /\ x = C!UnitTerm(row)
    BY DEF C!RowProducts
  <2>2. \/ \E col \in Q : x = <<C!Elem(row, col), C!FromB(col)>>
        \/ row \in Q /\ x = C!UnitTerm(row)
    BY <1>1 DEF C!RowProducts
  <2>3. \A col : <<C!Elem(row, col), C!FromB(col)>> # C!UnitTerm(row)
    BY DEF C!Elem, C!FromA, C!FromB, C!UnitTerm, C!One
  <2>4. \A p, q : <<C!Elem(row, p), C!FromB(p)>> = <<C!Elem(row, q), C!FromB(q)>> => p = q
    BY DEF C!FromB
  <2> QED
    BY <2>1, <2>2, <2>3, <2>4
<1>2. C!RowProducts(row, S \cup Q) = C!RowProducts(row, S) \cup C!RowProducts(row, Q)
  BY DEF C!RowProducts
<1> QED
  BY <1>1, <1>2

LEMMA ColAdded ==
    ASSUME NEW S, NEW Q, S \cap Q = {}
    PROVE  C!Added(C!Exactly(S), C!Exactly(Q)) = C!Exactly(S \cup Q)
<1>1. /\ C!Exactly(S) = [c |-> {}, of |-> S, once |-> TRUE]
      /\ C!Exactly(Q) = [c |-> {}, of |-> Q, once |-> TRUE]
      /\ C!Exactly(S \cup Q) = [c |-> {}, of |-> S \cup Q, once |-> TRUE]
  BY DEF C!Exactly, C!Nothing
<1> QED
  <2>1. C!Added(C!Exactly(S), C!Exactly(Q))
          = [c |-> C!Exactly(S).c \cup C!Exactly(Q).c,
             of |-> C!Exactly(S).of \cup C!Exactly(Q).of,
             once |-> C!Exactly(S).once /\ C!Exactly(Q).once
                      /\ C!Exactly(S).of \cap C!Exactly(Q).of = {}]
    BY DEF C!Added
  <2>2. /\ C!Exactly(S).c \cup C!Exactly(Q).c = {}
        /\ C!Exactly(S).of \cup C!Exactly(Q).of = S \cup Q
        /\ C!Exactly(S).once /\ C!Exactly(Q).once
           /\ C!Exactly(S).of \cap C!Exactly(Q).of = {}
    BY <1>1
  <2>3. (C!Exactly(S).once /\ C!Exactly(Q).once
         /\ C!Exactly(S).of \cap C!Exactly(Q).of = {}) = TRUE
    BY <2>2, <1>1
  <2> QED
    BY <1>1, <2>1, <2>2, <2>3

\* Two blocks of L cells that both hold the end of a row of blocks are the same.
LEMMA LastBlock ==
    ASSUME NEW f \in Nat, NEW L \in Nat, NEW last \in Nat,
           NEW m \in Nat, NEW n \in Nat, NEW p, NEW q,
           p = f + m * L, q = f + n * L,
           p < last, last <= p + L, q < last, last <= q + L
    PROVE  p = q
<1>1. PICK x \in Nat, y \in Nat : x = m * L /\ y = n * L
  OBVIOUS
<1>2. ~(m < n)
  <2> SUFFICES ASSUME m + 1 <= n PROVE FALSE
    OBVIOUS
  <2>1. L * (m + 1) <= L * n /\ L * (m + 1) = m * L + L /\ L * n = n * L
    BY MulMonotone
  <2> QED
    BY <1>1, <2>1
<1>3. ~(n < m)
  <2> SUFFICES ASSUME n + 1 <= m PROVE FALSE
    OBVIOUS
  <2>1. L * (n + 1) <= L * m /\ L * (n + 1) = n * L + L /\ L * m = m * L
    BY MulMonotone
  <2> QED
    BY <1>1, <2>1
<1>4. m = n
  BY <1>2, <1>3
<1> QED
  BY <1>4

\* Where an item may be, with p in the variable of its loop and before the step l:
\* at the start of a block, and at one that there is.
ColAt(p, l) ==
    /\ \E n \in Nat : p = ColFirst + n * launch.localMemory
    /\ p > ColFirst => p - launch.localMemory < ColLast
    /\ l = "product" => p < ColLast
    /\ C!Skipped(launch.group) => p = ColFirst /\ l \in {"zero", "done"}
    /\ ~C!Skipped(launch.group) => l # "zero" /\ (l = "done" => p >= ColLast)

\* What item u has copied of a block is in the cells of local memory.
ColBlockOf(p, l) == IF l = "product" THEN p ELSE p - launch.localMemory
ColHeld(u, p, l, cells) ==
    l = "product" \/ p > ColFirst =>
       \A x \in 0 .. launch.localMemory - 1 :
          x % launch.localSz = u /\ ColBlockOf(p, l) + x < ColLast
             => cells[x] = C!FromB(ColBlockOf(p, l) + x)

\* The rows of item u in the output hold the columns that it has gone through.
ColCut(p) == IF p <= ColLast THEN p ELSE ColLast
ColCell(r) == <<r, ColOut>>
ColSums(u, p, l, o) ==
    \A r \in ColRows :
       r % launch.localSz = u =>
          /\ p > ColFirst =>
                /\ ColCell(r) \in DOMAIN o
                /\ o[ColCell(r)]
                     = C!Exactly(C!RowProducts(r, ColFirst .. ColCut(p) - 1))
          /\ C!Skipped(launch.group) /\ l = "done" =>
                ColCell(r) \in DOMAIN o /\ o[ColCell(r)] = C!Nothing

ColData ==
    /\ \A u \in C!Item : ColAt(pos[u], pc[u])
    /\ \A u \in C!Item : ColHeld(u, pos[u], pc[u], scratch)
    /\ \A u \in C!Item : ColSums(u, pos[u], pc[u], out)
    /\ out = [a \in DOMAIN out |-> out[a]]
    /\ DOMAIN out \subseteq ColRows \X {ColOut}

LEMMA ColBand ==
    ASSUME launch \in ColLaunches
    PROVE  C!FirstRow(launch.group) \in Nat /\ C!DimWFR \in Nat
<1>1. launch.localSz \in Nat \ {0} /\ launch.nWGRow \in Nat \ {0}
      /\ launch.group \in Nat /\ launch.dimR \in Nat \ {0} /\ launch.localMemory \in Nat
  BY ColSizes
<1>2. PICK z \in Nat \ {0} : z = launch.localSz * launch.nWGRow
  BY <1>1
<1>3. PICK q \in Nat : q = C!DivUp(launch.dimR, z)
  <2>1. C!DivUp(launch.dimR, z) \in Nat
    BY <1>1, <1>2, RoundedUp DEF C!DivUp
  <2> QED
    BY <2>1
<1>4. PICK d \in Nat : d = C!DimWFR
  <2>1. q * launch.localSz \in Nat
    BY <1>1
  <2> QED
    BY <1>2, <1>3, <2>1 DEF C!DimWFR
<1>5. PICK m \in Nat : m = C!IdWFR(launch.group)
  <2>1. PICK g \in Nat, w \in Nat \ {0} : g = launch.group /\ w = launch.nWGRow
    BY <1>1
  <2>2. g % w \in Nat
    OBVIOUS
  <2> QED
    BY <2>1, <2>2 DEF C!IdWFR
<1>6. PICK b \in Nat : b = C!FirstRow(launch.group)
  <2>1. m * d \in Nat
    OBVIOUS
  <2> QED
    BY <1>4, <1>5, <2>1 DEF C!FirstRow
<1> QED
  BY <1>4, <1>6

LEMMA ColNumbers ==
    ASSUME launch \in ColLaunches
    PROVE  /\ ColFirst \in Nat /\ ColLast \in Nat /\ ColFirst < ColLast
           /\ launch.localMemory \in Nat /\ launch.localSz \in Nat \ {0}
           /\ ColRows \subseteq Nat
<1>1. launch.dimR \in Nat /\ launch.localSz \in Nat \ {0} /\ launch.localMemory \in Nat
  BY ColSizes
<1>2. PICK b \in Nat, d \in Nat : b = C!FirstRow(launch.group) /\ d = C!DimWFR
  BY ColBand
<1>3. C!Min({launch.dimR, b + d}) \in Int
  BY <1>1, ColMin
<1>4. ColRows \subseteq Nat
  <2>1. PICK top \in Int : top = C!Min({launch.dimR, b + d}) - 1
    BY <1>3
  <2>2. ColRows = b .. top
    BY <1>2, <2>1 DEF ColRows
  <2> QED
    BY <2>2
<1> QED
  BY <1>1, <1>4, ColGroup

\* An item that may multiply finds its block in local memory, the parts of all the
\* others included.
LEMMA ColHolds ==
    ASSUME ColInv, ColData, NEW i \in C!Item, C!Runs(i), pc[i] = "product",
           NEW x \in 0 .. C!BlqSz(i) - 1
    PROVE  scratch[x] = C!FromB(pos[i] + x)
<1>1. /\ launch \in ColLaunches /\ pos \in [C!Item -> Int]
      /\ InStep(C!Item, barriers, waiting, ColPhase, ColNext)
  BY DEF ColInv
<1>2. PICK f \in Nat, last \in Nat, L \in Nat, s \in Nat \ {0}, p \in Int :
          /\ f = ColFirst /\ last = ColLast /\ f < last
          /\ L = launch.localMemory /\ s = launch.localSz /\ p = pos[i]
  BY <1>1, ColNumbers
<1>3. /\ \A u \in C!Item : ColAt(pos[u], pc[u]) /\ ColHeld(u, pos[u], pc[u], scratch)
      /\ p < last /\ ~C!Skipped(launch.group)
  BY <1>2 DEF ColData, ColAt
<1>4. x \in 0 .. L - 1 /\ x \in Nat /\ p + x < last
  <2>1. C!BlqSz(i) = IF L <= last - p THEN L ELSE last - p
    BY <1>2, ColMin DEF C!BlqSz, ColLast
  <2> QED
    BY <1>2, <2>1
<1>5. PICK u \in C!Item : u = x % s
  <2>1. x % s \in 0 .. s - 1
    BY <1>4
  <2> QED
    BY <1>2, <2>1 DEF C!Item
<1>6. PICK m \in Nat : p = f + m * L
  BY <1>2, <1>3 DEF ColAt
<1>7. PICK n \in Nat : pos[u] = f + n * L
  BY <1>2, <1>3 DEF ColAt
<1>8. pos[u] \in Nat /\ p \in Nat /\ p >= f /\ pos[u] >= f
  <2>1. m * L \in Nat /\ n * L \in Nat
    OBVIOUS
  <2> QED
    BY <1>6, <1>7, <2>1
<1>9. \/ ColPhase[u] = ColPhase[i]
      \/ ColPhase[i] \in DOMAIN ColNext /\ ColPhase[u] = ColNext[ColPhase[i]]
  BY <1>1, ColFree, AtBarrier
<1>10. ColBlockOf(pos[u], pc[u]) = p /\ (pc[u] = "product" \/ pos[u] > f)
  <2>1. CASE p + L < last
    <3>1. ColPhase[i] = <<"product", p>> /\ ColNext[ColPhase[i]] = <<"block", p + L>>
      BY <1>2, <2>1 DEF ColPhase, ColNext
    <3>2. CASE ColPhase[u] = <<"product", p>>
      BY <1>2, <3>2 DEF ColPhase, ColBlockOf
    <3>3. CASE ColPhase[u] = <<"block", p + L>>
      <4>1. pc[u] = "block" /\ pos[u] = p + L
        BY <3>3 DEF ColPhase
      <4> QED
        BY <1>2, <1>4, <1>8, <4>1 DEF ColBlockOf
    <3> QED
      BY <1>9, <3>1, <3>2, <3>3
  <2>2. CASE ~(p + L < last)
    <3>1. ColPhase[i] = <<"last", 0>> /\ <<"last", 0>> \notin DOMAIN ColNext
      BY <1>2, <2>2 DEF ColPhase, ColNext
    <3>2. ColPhase[u] = <<"last", 0>>
      BY <1>9, <3>1
    <3>3. CASE pc[u] = "product"
      <4>1. pos[u] < last /\ last <= pos[u] + L
        BY <1>2, <1>3, <1>8, <3>2, <3>3 DEF ColAt, ColPhase
      <4>2. last <= p + L
        BY <2>2
      <4>3. pos[u] = p
        BY <1>3, <1>6, <1>7, <4>1, <4>2, LastBlock
      <4> QED
        BY <3>3, <4>3 DEF ColBlockOf
    <3>4. CASE pc[u] # "product"
      <4>1. pos[u] >= last
        BY <1>1, <1>2, <1>3, <1>8, <3>2, <3>4 DEF ColAt, ColPhase, ColInv, ColPlaces
      <4>2. pos[u] > f /\ pos[u] - L < last
        BY <1>2, <1>3, <4>1 DEF ColAt
      <4>3. n # 0
        BY <1>7, <4>2
      <4>4. pos[u] - L = f + (n - 1) * L
        <5>1. (n - 1) * L = n * L - L /\ n * L \in Nat
          OBVIOUS
        <5> QED
          BY <1>2, <1>7, <5>1
      <4>5. PICK q \in Int : q = pos[u] - L
        BY <1>8
      <4>6. q = p
        <5>1. q < last /\ last <= q + L /\ p < last /\ last <= p + L
          BY <1>3, <1>8, <2>2, <4>1, <4>2, <4>5
        <5>2. PICK k \in Nat : k = n - 1
          BY <4>3
        <5>3. q = f + k * L
          BY <4>4, <4>5, <5>2
        <5> QED
          BY <1>6, <5>1, <5>3, LastBlock
      <4> QED
        BY <1>2, <3>4, <4>2, <4>5, <4>6 DEF ColBlockOf
    <3> QED
      BY <3>3, <3>4
  <2> QED
    BY <2>1, <2>2
<1> QED
  BY <1>2, <1>3, <1>4, <1>5, <1>10 DEF ColHeld

LEMMA ColSameRows ==
    ASSUME launch' = launch, NEW r, NEW S
    PROVE  C!RowProducts(r, S)' = C!RowProducts(r, S)
BY DEF C!RowProducts, C!InTriangle, C!Strict, C!UnitTerm

\* ColData holds after a step when it holds of the new values.
LEMMA ColDataAfter ==
    ASSUME launch' = launch,
           \A u \in C!Item : ColAt(pos'[u], pc'[u]),
           \A u \in C!Item : ColHeld(u, pos'[u], pc'[u], scratch'),
           \A u \in C!Item : ColSums(u, pos'[u], pc'[u], out'),
           out' = [a \in DOMAIN out' |-> out'[a]],
           DOMAIN out' \subseteq ColRows \X {ColOut}
    PROVE  ColData'
<1>1. /\ C!Item' = C!Item /\ ColLast' = ColLast
      /\ launch'.localMemory = launch.localMemory
  BY ColSame
<1>2. /\ ColFirst' = ColFirst /\ ColRows' = ColRows /\ ColOut' = ColOut
      /\ C!Skipped(launch.group)' = C!Skipped(launch.group)
  BY DEF ColFirst, ColRows, ColOut, C!FrsCol, C!LstCol, C!FirstRow, C!DimWFR, C!IdWFR,
         C!IdWFC, C!ColSz, C!Skipped, C!NotDiag
<1>3. \A u \in C!Item : ColAt(pos[u], pc[u])'
  BY <1>1, <1>2 DEF ColAt
<1>4. \A u \in C!Item : ColHeld(u, pos[u], pc[u], scratch)'
  BY <1>1, <1>2 DEF ColHeld, ColBlockOf
<1>5. \A r, S : C!RowProducts(r, S)' = C!RowProducts(r, S)
  BY ColSameRows
<1>6. \A u \in C!Item : ColSums(u, pos[u], pc[u], out)'
  BY <1>1, <1>2, <1>5 DEF ColSums, ColCut, ColCell
<1> QED
  BY <1>1, <1>2, <1>3, <1>4, <1>6 DEF ColData

LEMMA ColDataStart == C!Init => ColData
<1> SUFFICES ASSUME C!Init PROVE ColData
  OBVIOUS
<1> DEFINE l == IF C!Skipped(launch.group) THEN "zero" ELSE "block"
<1>1. /\ launch \in ColLaunches
      /\ pc = [i \in C!Item |-> l] /\ pos = [i \in C!Item |-> ColFirst]
      /\ out = [a \in {} |-> C!Nothing]
  BY DEF C!Init, C!Start, ColFirst
<1>2. /\ ColFirst \in Nat /\ ColLast \in Nat /\ ColFirst < ColLast
      /\ launch.localMemory \in Nat
  BY <1>1, ColNumbers
<1>3. ColAt(ColFirst, l)
  <2>1. \E n \in Nat : ColFirst = ColFirst + n * launch.localMemory
    <3>1. ColFirst = ColFirst + 0 * launch.localMemory
      BY <1>2
    <3> QED
      BY <3>1
  <2> QED
    BY <1>2, <2>1 DEF ColAt
<1>4. ASSUME NEW u PROVE ColHeld(u, ColFirst, l, scratch) /\ ColSums(u, ColFirst, l, out)
  BY <1>2 DEF ColHeld, ColSums
<1> QED
  BY <1>1, <1>3, <1>4 DEF ColData

\* What a block adds to a row.
LEMMA ColTerms ==
    ASSUME ColInv, ColData, NEW i \in C!Item, C!Runs(i), pc[i] = "product", NEW r \in ColRows
    PROVE  C!BlockTerms(i, r)
             = C!RowProducts(r, pos[i] .. pos[i] + C!BlqSz(i) - 1)
<1>1. PICK p \in Int, n \in Int : p = pos[i] /\ n = C!BlqSz(i)
  <2>1. C!BlqSz(i) \in Int
    BY ColNumbers, ColMin DEF C!BlqSz, ColInv, ColLast
  <2> QED
    BY <2>1 DEF ColInv
<1>2. \A x \in 0 .. n - 1 : scratch[x] = C!FromB(p + x)
  BY <1>1, ColHolds
<1>3. {<<C!Elem(r, p + x), scratch[x]>> : x \in {l \in 0 .. n - 1 : C!InTriangle(r, p + l)}}
        = {<<C!Elem(r, c), C!FromB(c)>> : c \in {l \in p .. p + n - 1 : C!InTriangle(r, l)}}
  <2> DEFINE U == {<<C!Elem(r, p + x), scratch[x]>> :
                     x \in {l \in 0 .. n - 1 : C!InTriangle(r, p + l)}}
             V == {<<C!Elem(r, c), C!FromB(c)>> :
                     c \in {l \in p .. p + n - 1 : C!InTriangle(r, l)}}
  <2>1. ASSUME NEW e \in U PROVE e \in V
    <3>1. PICK x \in 0 .. n - 1 : /\ C!InTriangle(r, p + x)
                                  /\ e = <<C!Elem(r, p + x), C!FromB(p + x)>>
      BY <1>2
    <3>2. p + x \in p .. p + n - 1
      BY <1>1
    <3> QED
      BY <3>1, <3>2
  <2>2. ASSUME NEW e \in V PROVE e \in U
    <3>1. PICK c \in p .. p + n - 1 : /\ C!InTriangle(r, c)
                                      /\ e = <<C!Elem(r, c), C!FromB(c)>>
      OBVIOUS
    <3>2. c - p \in 0 .. n - 1 /\ c = p + (c - p)
      BY <1>1
    <3> QED
      BY <1>2, <3>1, <3>2
  <2> QED
    BY <2>1, <2>2
<1>4. (r - p \in 0 .. n - 1) = (r \in p .. p + n - 1)
  <2>1. r \in Nat
    BY ColNumbers DEF ColInv
  <2> QED
    BY <1>1, <2>1
<1> QED
  BY <1>1, <1>3, <1>4 DEF C!BlockTerms, C!RowProducts

\* A row with the block added to it.
LEMMA ColAdds ==
    ASSUME ColInv, ColData, NEW i \in C!Item, C!Runs(i), pc[i] = "product",
           NEW r \in ColRows, r % launch.localSz = i
    PROVE  C!Added(IF pos[i] = C!FrsCol(launch.group) THEN C!Nothing ELSE out[ColCell(r)],
                   C!Exactly(C!BlockTerms(i, r)))
             = C!Exactly(C!RowProducts(r, ColFirst .. ColCut(pos[i] + launch.localMemory) - 1))
<1>1. PICK p \in Nat, f \in Nat, last \in Nat, L \in Nat :
          /\ p = pos[i] /\ f = ColFirst /\ last = ColLast /\ L = launch.localMemory
          /\ f <= p /\ p < last
  <2>1. ColAt(pos[i], pc[i])
    BY DEF ColData
  <2>2. ColFirst \in Nat /\ ColLast \in Nat /\ launch.localMemory \in Nat
    BY ColNumbers DEF ColInv
  <2>3. PICK n \in Nat : pos[i] = ColFirst + n * launch.localMemory
    BY <2>1 DEF ColAt
  <2>4. n * launch.localMemory \in Nat
    BY <2>2
  <2>5. pos[i] < ColLast
    BY <2>1 DEF ColAt
  <2>6. PICK y \in Nat : y = n * launch.localMemory
    BY <2>4
  <2>7. pos[i] \in Nat /\ ColFirst <= pos[i]
    BY <2>2, <2>3, <2>6
  <2> QED
    BY <2>2, <2>5, <2>7
<1>2. C!BlqSz(i) = IF L <= last - p THEN L ELSE last - p
  BY <1>1, ColMin DEF C!BlqSz, ColLast
<1> DEFINE T == p .. p + C!BlqSz(i) - 1
<1>3. (f .. p - 1) \cup T = f .. ColCut(p + L) - 1 /\ (f .. p - 1) \cap T = {}
  BY <1>1, <1>2 DEF ColCut
<1>4. (IF pos[i] = C!FrsCol(launch.group) THEN C!Nothing ELSE out[ColCell(r)])
        = C!Exactly(C!RowProducts(r, f .. p - 1))
  <2>1. CASE p = f
    <3>1. f .. p - 1 = {}
      BY <1>1, <2>1
    <3>2. C!RowProducts(r, {}) = {}
      BY DEF C!RowProducts
    <3> QED
      BY <1>1, <2>1, <3>1, <3>2 DEF C!Exactly, C!Nothing, ColFirst
  <2>2. CASE p # f
    <3>1. ColSums(i, p, pc[i], out)
      BY <1>1 DEF ColData
    <3>2. ColCut(p) = p /\ p > f
      BY <1>1, <2>2 DEF ColCut
    <3> QED
      BY <1>1, <2>2, <3>1, <3>2 DEF ColSums, ColFirst
  <2> QED
    BY <2>1, <2>2
<1> HIDE DEF T
<1>5. C!BlockTerms(i, r) = C!RowProducts(r, T)
  BY <1>1, ColTerms DEF T
<1>6. /\ C!RowProducts(r, f .. p - 1) \cap C!RowProducts(r, T) = {}
      /\ C!RowProducts(r, (f .. p - 1) \cup T)
           = C!RowProducts(r, f .. p - 1) \cup C!RowProducts(r, T)
  BY <1>3, ColProducts
<1>7. C!Added(C!Exactly(C!RowProducts(r, f .. p - 1)), C!Exactly(C!RowProducts(r, T)))
        = C!Exactly(C!RowProducts(r, f .. ColCut(p + L) - 1))
  BY <1>3, <1>6, ColAdded
<1> QED
  BY <1>1, <1>4, <1>5, <1>7

\* An item that leaves local memory and the output as they are.
LEMMA ColDataGoesOn ==
    ASSUME ColInv, ColData, NEW i \in C!Item, launch' = launch, pos' = pos,
           NEW l, pc' = [pc EXCEPT ![i] = l], ColAt(pos[i], l), l # "product",
           pc[i] # "product", ~C!Skipped(launch.group),
           scratch' = scratch, out' = out
    PROVE  ColData'
<1>1. \A u \in C!Item \ {i} : pc'[u] = pc[u]
  BY DEF ColInv
<1>2. pc'[i] = l
  BY DEF ColInv
<1>3. \A u \in C!Item : ColAt(pos'[u], pc'[u])
  BY <1>1, <1>2 DEF ColData
<1>4. \A u \in C!Item : ColHeld(u, pos'[u], pc'[u], scratch')
  <2>1. ColHeld(i, pos[i], l, scratch)
    BY DEF ColData, ColHeld, ColBlockOf
  <2> QED
    BY <1>1, <1>2, <2>1 DEF ColData
<1>5. \A u \in C!Item : ColSums(u, pos'[u], pc'[u], out')
  <2>1. ColSums(i, pos[i], l, out)
    BY DEF ColData, ColSums
  <2> QED
    BY <1>1, <1>2, <2>1 DEF ColData
<1>6. out' = [a \in DOMAIN out' |-> out'[a]] /\ DOMAIN out' \subseteq ColRows \X {ColOut}
  BY DEF ColData
<1> QED
  BY <1>3, <1>4, <1>5, <1>6, ColDataAfter

LEMMA ColDataCopy == ASSUME ColInv, ColData, NEW i \in C!Item, C!CopyBlock(i) PROVE ColData'
<1>1. /\ pc[i] = "block" /\ pos[i] < ColLast
      /\ pc' = [pc EXCEPT ![i] = "product"]
      /\ scratch' = C!Over([col \in C!Copied(i) |-> C!FromB(pos[i] + col)], scratch)
      /\ launch' = launch /\ pos' = pos /\ out' = out
  BY DEF C!CopyBlock, C!At, C!BarrierThen, ColLast
<1>2. \A u \in C!Item \ {i} : pc'[u] = pc[u]
  BY <1>1 DEF ColInv
<1>3. pc'[i] = "product"
  BY <1>1 DEF ColInv
<1>4. ColAt(pos[i], "block")
  BY <1>1 DEF ColData
<1>5. \A u \in C!Item : ColAt(pos'[u], pc'[u])
  <2>1. ColAt(pos[i], "product")
    BY <1>1, <1>4 DEF ColAt
  <2> QED
    BY <1>1, <1>2, <1>3, <2>1 DEF ColData
<1>6. \A u \in C!Item : ColHeld(u, pos'[u], pc'[u], scratch')
  <2>1. \A x \in DOMAIN scratch :
           scratch'[x] = IF x \in C!Copied(i) THEN C!FromB(pos[i] + x) ELSE scratch[x]
    BY <1>1 DEF C!Over
  <2>2. DOMAIN scratch = 0 .. launch.localMemory - 1
    BY DEF ColInv
  <2>3. ColHeld(i, pos[i], "product", scratch')
    <3> SUFFICES ASSUME NEW x \in 0 .. launch.localMemory - 1, x % launch.localSz = i,
                        pos[i] + x < ColLast
                 PROVE  scratch'[x] = C!FromB(pos[i] + x)
      BY DEF ColHeld, ColBlockOf
    <3>1. x \in 0 .. C!BlqSz(i) - 1
      <4>1. launch.localMemory \in Nat /\ ColLast \in Nat /\ pos[i] \in Int
        BY ColNumbers DEF ColInv
      <4>2. C!BlqSz(i) = IF launch.localMemory <= ColLast - pos[i]
                         THEN launch.localMemory ELSE ColLast - pos[i]
        BY <4>1, ColMin DEF C!BlqSz, ColLast
      <4> QED
        BY <4>1, <4>2
    <3>2. x \in C!Copied(i)
      BY <3>1 DEF C!Copied
    <3> QED
      BY <2>1, <2>2, <3>2
  <2>4. ASSUME NEW u \in C!Item \ {i} PROVE ColHeld(u, pos[u], pc[u], scratch')
    <3>1. ColHeld(u, pos[u], pc[u], scratch)
      BY DEF ColData
    <3>2. \A x \in 0 .. launch.localMemory - 1 :
             x % launch.localSz = u => scratch'[x] = scratch[x]
      BY <2>1, <2>2 DEF C!Copied
    <3> QED
      BY <3>1, <3>2 DEF ColHeld
  <2> QED
    BY <1>1, <1>2, <1>3, <2>3, <2>4
<1>7. \A u \in C!Item : ColSums(u, pos'[u], pc'[u], out')
  <2>1. ColSums(i, pos[i], pc[i], out)
    BY DEF ColData
  <2>2. ColSums(i, pos[i], "product", out)
    BY <1>1, <2>1 DEF ColSums
  <2> QED
    BY <1>1, <1>2, <1>3, <2>2 DEF ColData
<1>8. out' = [a \in DOMAIN out' |-> out'[a]] /\ DOMAIN out' \subseteq ColRows \X {ColOut}
  BY <1>1 DEF ColData
<1> QED
  BY <1>1, <1>5, <1>6, <1>7, <1>8, ColDataAfter

\* A write f to the rows of item i turns the output into o and leaves the rows of
\* the other items as they are.
ColWritten(i, f, o) ==
    /\ o = [a \in DOMAIN o |-> o[a]]
    /\ DOMAIN o \subseteq ColRows \X {ColOut}
    /\ \A r \in ColRows : r % launch.localSz = i =>
          ColCell(r) \in DOMAIN f /\ ColCell(r) \in DOMAIN o
          /\ o[ColCell(r)] = f[ColCell(r)]
    /\ \A u \in C!Item \ {i} : \A p, l : ColSums(u, p, l, out) => ColSums(u, p, l, o)

LEMMA ColWrite ==
    ASSUME ColInv, ColData, NEW i \in C!Item, NEW f,
           DOMAIN f = C!RowsOf(i) \X {C!IdWFC(launch.group)}
    PROVE  ColWritten(i, f, C!Over(f, out))
<1> DEFINE o == C!Over(f, out)
<1>1. C!RowsOf(i) = {r \in ColRows : r % launch.localSz = i}
  BY ColRowsOf DEF ColInv
<1>2. DOMAIN o = DOMAIN f \cup DOMAIN out /\ o = [a \in DOMAIN o |-> o[a]]
      /\ \A a \in DOMAIN o : o[a] = IF a \in DOMAIN f THEN f[a] ELSE out[a]
  BY DEF C!Over
<1>3. DOMAIN o \subseteq ColRows \X {ColOut}
  BY <1>1, <1>2 DEF ColData, ColOut
<1>4. \A r \in ColRows : r % launch.localSz = i => ColCell(r) \in DOMAIN f
  BY <1>1 DEF ColCell, ColOut
<1>5. \A r \in ColRows : r % launch.localSz # i => ColCell(r) \notin DOMAIN f
  BY <1>1 DEF ColCell, ColOut
<1>6. ASSUME NEW u \in C!Item \ {i}, NEW p, NEW l, ColSums(u, p, l, out)
      PROVE  ColSums(u, p, l, o)
  <2>1. \A r \in ColRows : r % launch.localSz = u /\ ColCell(r) \in DOMAIN out =>
           ColCell(r) \in DOMAIN o /\ o[ColCell(r)] = out[ColCell(r)]
    BY <1>2, <1>5
  <2> QED
    BY <1>6, <2>1 DEF ColSums
<1>7. o = [a \in DOMAIN o |-> o[a]] /\ DOMAIN f \subseteq DOMAIN o
  BY <1>2
<1>8. \A a \in DOMAIN f : o[a] = f[a]
  BY <1>2
<1> HIDE DEF o
<1> QED
  BY <1>3, <1>4, <1>6, <1>7, <1>8 DEF ColWritten, o

LEMMA ColDataZeros == ASSUME ColInv, ColData, NEW i \in C!Item, C!WriteZeros(i) PROVE ColData'
<1> DEFINE f == [a \in C!RowsOf(i) \X {C!IdWFC(launch.group)} |-> C!Nothing]
<1>1. /\ pc[i] = "zero" /\ pc' = [pc EXCEPT ![i] = "done"]
      /\ out' = C!Over(f, out)
      /\ launch' = launch /\ pos' = pos /\ scratch' = scratch
  BY DEF C!WriteZeros, C!At, C!Goto
<1>2. \A u \in C!Item \ {i} : pc'[u] = pc[u]
  BY <1>1 DEF ColInv
<1>3. pc'[i] = "done"
  BY <1>1 DEF ColInv
<1>4. C!Skipped(launch.group)
  BY <1>1 DEF ColData, ColAt
<1>5. \A u \in C!Item : ColAt(pos'[u], pc'[u])
  <2>1. ColAt(pos[i], "done")
    BY <1>1, <1>4 DEF ColAt, ColData
  <2> QED
    BY <1>1, <1>2, <1>3, <2>1 DEF ColData
<1>6. \A u \in C!Item : ColHeld(u, pos'[u], pc'[u], scratch')
  <2>1. pos[i] = ColFirst /\ ColFirst \in Nat
    BY <1>4, ColNumbers DEF ColData, ColAt, ColInv
  <2>2. ColHeld(i, pos[i], "done", scratch)
    BY <2>1 DEF ColHeld
  <2> QED
    BY <1>1, <1>2, <1>3, <2>2 DEF ColData
<1>7. DOMAIN f = C!RowsOf(i) \X {C!IdWFC(launch.group)}
      /\ \A a \in DOMAIN f : f[a] = C!Nothing
  OBVIOUS
<1> HIDE DEF f
<1>8. ColWritten(i, f, out')
  <2>1. ColWritten(i, f, C!Over(f, out))
    BY <1>7, ColWrite
  <2> QED
    BY <1>1, <2>1
<1>9. \A u \in C!Item : ColSums(u, pos'[u], pc'[u], out')
  <2>1. pos[i] = ColFirst /\ ColFirst \in Nat
    BY <1>4, ColNumbers DEF ColData, ColAt, ColInv
  <2>2. ColSums(i, pos[i], "done", out')
    BY <1>4, <1>7, <1>8, <2>1 DEF ColSums, ColWritten
  <2> QED
    BY <1>1, <1>2, <1>3, <1>8, <2>2 DEF ColData, ColWritten
<1> QED
  BY <1>1, <1>5, <1>6, <1>8, <1>9, ColDataAfter DEF ColWritten

LEMMA ColDataMultiply ==
    ASSUME ColInv, ColData, NEW i \in C!Item, C!MultiplyBlock(i) PROVE ColData'
<1> DEFINE f == C!Products(i)
<1>1. /\ C!Runs(i) /\ pc[i] = "product" /\ pc' = [pc EXCEPT ![i] = "block"]
      /\ out' = C!Over(f, out)
      /\ launch' = launch /\ scratch' = scratch
      /\ pos' = [pos EXCEPT ![i] = pos[i] + launch.localMemory]
  BY DEF C!MultiplyBlock, C!At, C!Goto, C!BarrierThen
<1>2. \A u \in C!Item \ {i} : pc'[u] = pc[u] /\ pos'[u] = pos[u]
  BY <1>1 DEF ColInv
<1>3. pc'[i] = "block" /\ pos'[i] = pos[i] + launch.localMemory
  BY <1>1 DEF ColInv
<1>4. PICK p \in Int, L \in Nat, first \in Nat, last \in Nat :
         p = pos[i] /\ L = launch.localMemory /\ first = ColFirst /\ last = ColLast
  BY ColNumbers DEF ColInv
<1>5. ColAt(p, "product") /\ ColHeld(i, p, "product", scratch)
  BY <1>1, <1>4 DEF ColData
<1>6. \A u \in C!Item : ColAt(pos'[u], pc'[u])
  <2>1. PICK n \in Nat : p = first + n * L
    BY <1>4, <1>5 DEF ColAt
  <2>2. p + L = first + (n + 1) * L
    <3>1. (n + 1) * L = n * L + L /\ n * L \in Nat
      OBVIOUS
    <3> QED
      BY <2>1, <3>1
  <2>3. \E m \in Nat : p + L = first + m * L
    <3>1. n + 1 \in Nat
      OBVIOUS
    <3> QED
      BY <2>2, <3>1
  <2>4. p < last /\ p + L - L = p
    BY <1>4, <1>5 DEF ColAt
  <2>5. ColAt(p + L, "block")
    BY <1>4, <1>5, <2>3, <2>4 DEF ColAt
  <2> QED
    BY <1>2, <1>3, <1>4, <2>5 DEF ColData
<1>7. \A u \in C!Item : ColHeld(u, pos'[u], pc'[u], scratch')
  <2>1. p + L - L = p
    OBVIOUS
  <2>2. ColHeld(i, p + L, "block", scratch)
    BY <1>4, <1>5, <2>1 DEF ColHeld, ColBlockOf
  <2> QED
    BY <1>1, <1>2, <1>3, <1>4, <2>2 DEF ColData
<1>8. /\ DOMAIN f = C!RowsOf(i) \X {C!IdWFC(launch.group)}
      /\ \A r : ColCell(r) \in DOMAIN f =>
            f[ColCell(r)] = C!Added(IF pos[i] = C!FrsCol(launch.group) THEN C!Nothing
                                    ELSE out[ColCell(r)],
                                    C!Exactly(C!BlockTerms(i, r)))
  BY DEF C!Products, ColCell
<1> HIDE DEF f
<1>9. ColWritten(i, f, out')
  <2>1. ColWritten(i, f, C!Over(f, out))
    BY <1>8, ColWrite
  <2> QED
    BY <1>1, <2>1
<1>10. ColSums(i, p + L, "block", out')
  <2>1. \A r \in ColRows : r % launch.localSz = i =>
           f[ColCell(r)] = C!Exactly(C!RowProducts(r, ColFirst .. ColCut(p + L) - 1))
    BY <1>1, <1>4, <1>8, <1>9, ColAdds DEF ColWritten
  <2> QED
    BY <1>9, <2>1 DEF ColSums, ColWritten
<1>11. \A u \in C!Item : ColSums(u, pos'[u], pc'[u], out')
  BY <1>2, <1>3, <1>4, <1>9, <1>10 DEF ColData, ColWritten
<1> QED
  BY <1>1, <1>6, <1>7, <1>9, <1>11, ColDataAfter DEF ColWritten

LEMMA ColDataStep == ASSUME ColInv, ColData, NEW i \in C!Item, C!Step(i) PROVE ColData'
<1>1. CASE C!Return(i)
  <2>1. /\ pc[i] = "block" /\ pc' = [pc EXCEPT ![i] = "done"] /\ ~(pos[i] < ColLast)
        /\ launch' = launch /\ pos' = pos /\ scratch' = scratch /\ out' = out
    BY <1>1, ColNumbers DEF C!Return, C!At, C!Goto, ColLast, ColInv
  <2>2. ColAt(pos[i], "block")
    BY <2>1 DEF ColData
  <2>3. ~C!Skipped(launch.group)
    BY <2>2 DEF ColAt
  <2>4. pos[i] >= ColLast
    BY <2>1, ColNumbers DEF ColInv
  <2>5. ColAt(pos[i], "done")
    BY <2>2, <2>3, <2>4 DEF ColAt
  <2> QED
    BY <2>1, <2>3, <2>5, ColDataGoesOn
<1> QED
  BY <1>1, ColDataZeros, ColDataCopy, ColDataMultiply DEF C!Step

\* A group that has nothing to add has no part of the triangle.
LEMMA ColNoTriangle ==
    ASSUME launch \in ColLaunches, C!Skipped(launch.group), NEW r \in ColRows
    PROVE  C!RowProducts(r, ColFirst .. ColLast - 1) = {}
<1>1. /\ ColFirst \in Nat /\ ColLast \in Nat /\ r \in Nat
  BY ColNumbers
<1>2. PICK b \in Nat, d \in Nat : b = C!FirstRow(launch.group) /\ d = C!DimWFR
  BY ColBand
<1>3. b <= r /\ r <= b + d - 1
  <2>1. C!Min({launch.dimR, b + d}) <= b + d /\ C!Min({launch.dimR, b + d}) \in Int
    BY <1>2, ColSizes, ColMin
  <2> QED
    BY <1>2, <2>1 DEF ColRows
<1>4. \/ ~launch.upper /\ ColFirst + C!NotDiag > b + d - 1
      \/ ~launch.lower /\ b + C!NotDiag > ColLast - 1
  BY <1>2 DEF C!Skipped, ColFirst, ColLast
<1>5. C!NotDiag = IF launch.diag THEN 0 ELSE 1
  BY DEF C!NotDiag
<1>6. C!Strict \in {0, 1} /\ C!Strict >= C!NotDiag
  BY DEF C!Strict, C!NotDiag
<1>7. ASSUME NEW c \in ColFirst .. ColLast - 1 PROVE ~C!InTriangle(r, c)
  BY <1>1, <1>2, <1>3, <1>4, <1>5, <1>6 DEF C!InTriangle
<1>8. ~(launch.diag /\ launch.unit /\ r \in ColFirst .. ColLast - 1)
  BY <1>1, <1>2, <1>3, <1>4, <1>5
<1> QED
  BY <1>7, <1>8 DEF C!RowProducts

LEMMA ColExact == ColInv /\ ColData => C!BlockExact
<1> SUFFICES ASSUME ColInv, ColData, C!Done PROVE
        out = [a \in ColRows \X {ColOut} |->
                 C!Exactly(C!RowProducts(a[1], ColFirst .. ColLast - 1))]
  BY DEF C!BlockExact, C!Share, ColRows, ColOut, ColFirst, ColLast
<1>1. /\ ColFirst \in Nat /\ ColLast \in Nat /\ ColFirst < ColLast
      /\ launch.localSz \in Nat \ {0} /\ ColRows \subseteq Nat
  BY ColNumbers DEF ColInv
<1>2. ASSUME NEW r \in ColRows
      PROVE  /\ ColCell(r) \in DOMAIN out
             /\ out[ColCell(r)] = C!Exactly(C!RowProducts(r, ColFirst .. ColLast - 1))
  <2>1. PICK u \in C!Item : u = r % launch.localSz
    <3>1. PICK s \in Nat \ {0}, x \in Nat : s = launch.localSz /\ x = r
      BY <1>1
    <3>2. x % s \in 0 .. s - 1
      OBVIOUS
    <3> QED
      BY <3>1, <3>2 DEF C!Item
  <2>2. pc[u] = "done" /\ ColAt(pos[u], "done") /\ ColSums(u, pos[u], "done", out)
        /\ pos[u] \in Int
    BY DEF C!Done, ColData, ColInv
  <2>3. CASE C!Skipped(launch.group)
    <3>1. C!RowProducts(r, ColFirst .. ColLast - 1) = {}
      BY <2>3, ColNoTriangle DEF ColInv
    <3> QED
      BY <2>1, <2>2, <2>3, <3>1 DEF ColSums, C!Exactly, C!Nothing
  <2>4. CASE ~C!Skipped(launch.group)
    <3>1. pos[u] >= ColLast
      BY <2>2, <2>4 DEF ColAt
    <3>2. pos[u] > ColFirst /\ ColCut(pos[u]) = ColLast
      BY <1>1, <2>2, <3>1 DEF ColCut
    <3> QED
      BY <2>1, <2>2, <3>2 DEF ColSums
  <2> QED
    BY <2>3, <2>4
<1>3. DOMAIN out = ColRows \X {ColOut}
  <2>1. DOMAIN out \subseteq ColRows \X {ColOut}
    BY DEF ColData
  <2>2. ASSUME NEW a \in ColRows \X {ColOut} PROVE a \in DOMAIN out
    <3>1. a[1] \in ColRows /\ a = ColCell(a[1])
      BY DEF ColCell
    <3> QED
      BY <1>2, <3>1
  <2> QED
    BY <2>1, <2>2
<1>4. \A a \in ColRows \X {ColOut} :
         out[a] = C!Exactly(C!RowProducts(a[1], ColFirst .. ColLast - 1))
  <2> SUFFICES ASSUME NEW a \in ColRows \X {ColOut}
               PROVE  out[a] = C!Exactly(C!RowProducts(a[1], ColFirst .. ColLast - 1))
    OBVIOUS
  <2>1. a[1] \in ColRows /\ a = ColCell(a[1])
    BY DEF ColCell
  <2> QED
    BY <1>2, <2>1
<1> QED
  BY <1>3, <1>4 DEF ColData

-------------------------------------------------------------------------------
(***************************************************************************)
(* GerCol: what a group writes                                             *)
(***************************************************************************)

GerFirst == E!FrsCol(launch.group)
GerRows ==
    E!FirstRow(launch.group)
      .. E!Min({launch.dimR, E!FirstRow(launch.group) + E!DimWFR}) - 1
GerShare == E!Share(launch.group)

LEMMA GerBand ==
    ASSUME launch \in GerLaunches
    PROVE  E!FirstRow(launch.group) \in Nat /\ E!DimWFR \in Nat
<1>1. launch.localSz \in Nat \ {0} /\ launch.nWGRow \in Nat \ {0}
      /\ launch.group \in Nat /\ launch.dimR \in Nat \ {0}
  BY GerSizes
<1>2. PICK z \in Nat \ {0} : z = launch.localSz * launch.nWGRow
  BY <1>1
<1>3. PICK q \in Nat : q = E!DivUp(launch.dimR, z)
  <2>1. E!DivUp(launch.dimR, z) \in Nat
    BY <1>1, <1>2, RoundedUp DEF E!DivUp
  <2> QED
    BY <2>1
<1>4. PICK d \in Nat : d = E!DimWFR
  <2>1. q * launch.localSz \in Nat
    BY <1>1
  <2> QED
    BY <1>2, <1>3, <2>1 DEF E!DimWFR
<1>5. PICK m \in Nat : m = E!IdWFR(launch.group)
  <2>1. PICK g \in Nat, w \in Nat \ {0} : g = launch.group /\ w = launch.nWGRow
    BY <1>1
  <2>2. g % w \in Nat
    OBVIOUS
  <2> QED
    BY <2>1, <2>2 DEF E!IdWFR
<1>6. PICK b \in Nat : b = E!FirstRow(launch.group)
  <2>1. m * d \in Nat
    OBVIOUS
  <2> QED
    BY <1>4, <1>5, <2>1 DEF E!FirstRow
<1> QED
  BY <1>4, <1>6

LEMMA GerNumbers ==
    ASSUME launch \in GerLaunches
    PROVE  /\ GerFirst \in Nat /\ GerLast \in Nat
           /\ launch.localSz \in Nat \ {0} /\ GerRows \subseteq Nat /\ E!BlockSz \in Nat
<1>1. /\ launch.dimR \in Nat /\ launch.localSz \in Nat \ {0} /\ launch.localMemory \in Nat
      /\ launch.dimC \in Nat \ {0} /\ launch.nWGCol \in Nat \ {0}
      /\ launch.nWGRow \in Nat \ {0} /\ launch.group \in Nat
  BY GerSizes
<1>2. PICK b \in Nat, d \in Nat : b = E!FirstRow(launch.group) /\ d = E!DimWFR
  BY GerBand
<1>3. E!Min({launch.dimR, b + d}) \in Int
  BY <1>1, GerMin
<1>4. GerRows \subseteq Nat
  <2>1. PICK top \in Int : top = E!Min({launch.dimR, b + d}) - 1
    BY <1>3
  <2>2. GerRows = b .. top
    BY <1>2, <2>1 DEF GerRows
  <2> QED
    BY <2>2
<1>5. PICK c \in Nat : c = E!ColSz
  <2>1. (launch.dimC + launch.nWGCol - 1) \div launch.nWGCol \in Nat
    BY <1>1, RoundedUp
  <2> QED
    BY <1>1, <2>1 DEF E!ColSz
<1>6. PICK f \in Nat : f = GerFirst
  <2>1. PICK g \in Nat, w \in Nat \ {0} : g = launch.group /\ w = launch.nWGRow
    BY <1>1
  <2>2. g \div w \in Nat
    BY DivMod
  <2>3. (g \div w) * c \in Nat
    BY <2>2
  <2> QED
    BY <1>5, <2>1, <2>3 DEF GerFirst, E!FrsCol
<1>7. GerLast \in Nat
  <2>1. GerLast = E!Min({launch.dimC, f + c})
    BY <1>5, <1>6 DEF GerLast, E!LstCol, GerFirst
  <2> QED
    BY <1>1, <2>1, GerMin
<1>8. E!BlockSz \in Nat
  BY <1>1 DEF E!BlockSz
<1> QED
  BY <1>1, <1>4, <1>6, <1>7, <1>8

\* The rows of an item.
LEMMA GerRowsOf ==
    ASSUME launch \in GerLaunches, NEW i \in E!Item
    PROVE  E!RowsOf(i) = {r \in GerRows : r % launch.localSz = i}
<1>1. PICK n \in Nat \ {0}, s \in Nat \ {0}, w \in Nat \ {0}, g \in Nat :
          n = launch.dimR /\ s = launch.localSz /\ w = launch.nWGRow /\ g = launch.group
  BY GerSizes
<1>2. i \in 0 .. s - 1
  BY <1>1 DEF E!Item
<1>3. PICK q \in Nat \ {0} : q = E!DivUp(launch.dimR, launch.localSz * launch.nWGRow)
  <2>1. PICK z \in Nat \ {0} : z = s * w
    OBVIOUS
  <2>2. (n - 1) \div z + 1 \in Nat \ {0}
    BY RoundedUp
  <2> QED
    BY <1>1, <2>1, <2>2 DEF E!DivUp
<1>4. PICK d \in Nat : d = q * s /\ d = E!DimWFR
  <2>1. q * s \in Nat
    OBVIOUS
  <2> QED
    BY <1>1, <1>3, <2>1 DEF E!DimWFR
<1>5. PICK m \in Nat : m = E!IdWFR(launch.group)
  <2>1. g % w \in 0 .. w - 1
    BY DivMod
  <2> QED
    BY <1>1, <2>1 DEF E!IdWFR
<1>6. PICK b \in Nat : b = m * d /\ b = E!FirstRow(launch.group)
  <2>1. m * d \in Nat
    OBVIOUS
  <2> QED
    BY <1>4, <1>5, <2>1 DEF E!FirstRow
<1>7. PICK f \in Nat : f = b + i /\ f = E!FrsRow(i)
  BY <1>2, <1>6 DEF E!FrsRow
<1>8. PICK last : last = (IF n <= f + d THEN n ELSE f + d) /\ last = E!LstRow(i)
  BY <1>1, <1>4, <1>7, GerMin DEF E!LstRow
<1>9. GerRows = b .. (IF n <= b + d THEN n ELSE b + d) - 1
  <2>1. E!Min({n, b + d}) = IF n <= b + d THEN n ELSE b + d
    BY <1>1, <1>4, <1>6, GerMin
  <2> QED
    BY <1>1, <1>4, <1>6, <2>1 DEF GerRows
<1>10. RowsFrom(f, last, s)
         = {r \in b .. (IF n <= b + d THEN n ELSE b + d) - 1 : r % s = i}
  <2>1. RowPlan(s, q, d, m, b, n, i, f, last)
    BY <1>2, <1>4, <1>6, <1>7, <1>8 DEF RowPlan
  <2> QED
    BY <2>1, RowsOfItem
<1>11. E!RowsOf(i) = RowsFrom(f, last, s)
  BY <1>1, <1>7, <1>8 DEF E!RowsOf, RowsFrom
<1> QED
  BY <1>1, <1>9, <1>10, <1>11

\* Where an item may be, with p in the variable of its loop and before the step l.
GerAt(p, l) ==
    /\ \E n \in Nat : p = GerFirst + n * E!BlockSz
    /\ p > GerFirst => p - E!BlockSz < GerLast
    /\ l = "update" => p < GerLast
    /\ E!Skipped(launch.group) => l = "done"
    /\ ~E!Skipped(launch.group) => (l = "done" => p >= GerLast)

\* What item u has copied of a block of the vectors is in local memory.
GerBlockOf(p, l) == IF l = "update" THEN p ELSE p - E!BlockSz
GerHeld(u, p, l, cells) ==
    l = "update" \/ p > GerFirst =>
       \A x \in 0 .. E!BlockSz - 1 :
          x % launch.localSz = u /\ GerBlockOf(p, l) + x < GerLast =>
             IF launch.single THEN cells[x] = E!Rhs2(GerBlockOf(p, l) + x)
             ELSE /\ cells[x] = E!Rhs1(GerBlockOf(p, l) + x)
                  /\ cells[E!BlockSz + x] = E!Rhs2(GerBlockOf(p, l) + x)

\* The elements that item u has updated are those of the columns that it has gone
\* through.
GerSums(u, p, o) ==
    \A a \in GerShare :
       a[1] % launch.localSz = u =>
          IF a[2] < p THEN a \in DOMAIN o /\ o[a] = E!Expected(a)
          ELSE a \notin DOMAIN o

GerData ==
    /\ \A u \in E!Item : GerAt(pos[u], pc[u])
    /\ \A u \in E!Item : GerHeld(u, pos[u], pc[u], scratch)
    /\ \A u \in E!Item : GerSums(u, pos[u], out)
    /\ out = [a \in DOMAIN out |-> out[a]]
    /\ DOMAIN out \subseteq GerShare

\* The block that item i is at is in the cells of local memory, for column x of it.
GerBlockHeld(i, x) ==
    IF launch.single THEN scratch[x] = E!Rhs2(pos[i] + x)
    ELSE scratch[x] = E!Rhs1(pos[i] + x) /\ scratch[E!BlockSz + x] = E!Rhs2(pos[i] + x)

\* An item that may update finds its block in local memory, the parts of all the
\* others included.
LEMMA GerHolds ==
    ASSUME GerInv, GerData, NEW i \in E!Item, E!Runs(i), pc[i] = "update",
           NEW x \in 0 .. E!BlqSz(i) - 1
    PROVE  GerBlockHeld(i, x)
<1>1. /\ launch \in GerLaunches /\ pos \in [E!Item -> Int]
      /\ InStep(E!Item, barriers, waiting, GerPhase, GerNext)
  BY DEF GerInv
<1>2. PICK f \in Nat, last \in Nat, L \in Nat, s \in Nat \ {0}, p \in Int :
          /\ f = GerFirst /\ last = GerLast
          /\ L = E!BlockSz /\ s = launch.localSz /\ p = pos[i]
  BY <1>1, GerNumbers
<1>3. /\ \A u \in E!Item : GerAt(pos[u], pc[u]) /\ GerHeld(u, pos[u], pc[u], scratch)
      /\ p < last /\ ~E!Skipped(launch.group)
  BY <1>2 DEF GerData, GerAt
<1>4. x \in 0 .. L - 1 /\ x \in Nat /\ p + x < last
  <2>1. E!BlqSz(i) = IF L <= last - p THEN L ELSE last - p
    BY <1>2, GerMin DEF E!BlqSz, GerLast
  <2> QED
    BY <1>2, <2>1
<1>5. PICK u \in E!Item : u = x % s
  <2>1. x % s \in 0 .. s - 1
    BY <1>4
  <2> QED
    BY <1>2, <2>1 DEF E!Item
<1>6. PICK m \in Nat : p = f + m * L
  BY <1>2, <1>3 DEF GerAt
<1>7. PICK n \in Nat : pos[u] = f + n * L
  BY <1>2, <1>3 DEF GerAt
<1>8. pos[u] \in Nat /\ p \in Nat /\ p >= f /\ pos[u] >= f
  <2>1. m * L \in Nat /\ n * L \in Nat
    OBVIOUS
  <2> QED
    BY <1>6, <1>7, <2>1
<1>9. \/ GerPhase[u] = GerPhase[i]
      \/ GerPhase[i] \in DOMAIN GerNext /\ GerPhase[u] = GerNext[GerPhase[i]]
  BY <1>1, GerFree, AtBarrier
<1>10. GerBlockOf(pos[u], pc[u]) = p /\ (pc[u] = "update" \/ pos[u] > f)
  <2>1. CASE p + L < last
    <3>1. GerPhase[i] = <<"update", p>> /\ GerNext[GerPhase[i]] = <<"block", p + L>>
      BY <1>2, <2>1 DEF GerPhase, GerNext
    <3>2. CASE GerPhase[u] = <<"update", p>>
      BY <1>2, <3>2 DEF GerPhase, GerBlockOf
    <3>3. CASE GerPhase[u] = <<"block", p + L>>
      <4>1. pc[u] = "block" /\ pos[u] = p + L
        BY <3>3 DEF GerPhase
      <4> QED
        BY <1>2, <1>4, <1>8, <4>1 DEF GerBlockOf
    <3> QED
      BY <1>9, <3>1, <3>2, <3>3
  <2>2. CASE ~(p + L < last)
    <3>1. GerPhase[i] = <<"last", 0>> /\ <<"last", 0>> \notin DOMAIN GerNext
      BY <1>2, <2>2 DEF GerPhase, GerNext
    <3>2. GerPhase[u] = <<"last", 0>>
      BY <1>9, <3>1
    <3>3. CASE pc[u] = "update"
      <4>1. pos[u] < last /\ last <= pos[u] + L
        BY <1>2, <1>3, <1>8, <3>2, <3>3 DEF GerAt, GerPhase
      <4>2. last <= p + L
        BY <2>2
      <4>3. pos[u] = p
        BY <1>3, <1>6, <1>7, <4>1, <4>2, LastBlock
      <4> QED
        BY <3>3, <4>3 DEF GerBlockOf
    <3>4. CASE pc[u] # "update"
      <4>1. pos[u] >= last
        BY <1>1, <1>2, <1>3, <1>8, <3>2, <3>4 DEF GerAt, GerPhase, GerInv, GerPlaces
      <4>2. pos[u] > f /\ pos[u] - L < last
        BY <1>2, <1>3, <1>8, <4>1 DEF GerAt
      <4>3. n # 0
        BY <1>7, <4>2
      <4>4. pos[u] - L = f + (n - 1) * L
        <5>1. (n - 1) * L = n * L - L /\ n * L \in Nat
          OBVIOUS
        <5> QED
          BY <1>2, <1>7, <5>1
      <4>5. PICK q \in Int : q = pos[u] - L
        BY <1>8
      <4>6. q = p
        <5>1. q < last /\ last <= q + L /\ p < last /\ last <= p + L
          BY <1>3, <1>8, <2>2, <4>1, <4>2, <4>5
        <5>2. PICK k \in Nat : k = n - 1
          BY <4>3
        <5>3. q = f + k * L
          BY <4>4, <4>5, <5>2
        <5> QED
          BY <1>6, <5>1, <5>3, LastBlock
      <4> QED
        BY <1>2, <3>4, <4>2, <4>5, <4>6 DEF GerBlockOf
    <3> QED
      BY <3>3, <3>4
  <2> QED
    BY <2>1, <2>2
<1> QED
  BY <1>2, <1>3, <1>4, <1>5, <1>10 DEF GerHeld, GerBlockHeld

LEMMA GerDataAfter ==
    ASSUME launch' = launch,
           \A u \in E!Item : GerAt(pos'[u], pc'[u]),
           \A u \in E!Item : GerHeld(u, pos'[u], pc'[u], scratch'),
           \A u \in E!Item : GerSums(u, pos'[u], out'),
           out' = [a \in DOMAIN out' |-> out'[a]],
           DOMAIN out' \subseteq GerShare
    PROVE  GerData'
<1>1. E!Item' = E!Item /\ GerLast' = GerLast /\ E!BlockSz' = E!BlockSz
  BY GerSame
<1>2. /\ GerFirst' = GerFirst
      /\ E!Skipped(launch.group)' = E!Skipped(launch.group)
  BY DEF GerFirst, E!FrsCol, E!LstCol, E!FirstRow, E!DimWFR, E!IdWFR, E!ColSz,
         E!Skipped, E!NotDiag
<1>3. GerShare' = GerShare
  BY DEF GerShare, E!Share, E!FrsCol, E!LstCol, E!FirstRow, E!DimWFR, E!IdWFR, E!ColSz,
         E!InTriangle, E!Strict
<1>4. \A u \in E!Item : GerAt(pos[u], pc[u])'
  BY <1>1, <1>2 DEF GerAt
<1>5. \A u \in E!Item : GerHeld(u, pos[u], pc[u], scratch)'
  BY <1>1, <1>2 DEF GerHeld, GerBlockOf
<1>6. \A a : E!Expected(a)' = E!Expected(a)
  BY DEF E!Expected
<1>7. \A u \in E!Item : GerSums(u, pos[u], out)'
  BY <1>1, <1>3, <1>6 DEF GerSums
<1> QED
  BY <1>1, <1>3, <1>4, <1>5, <1>7 DEF GerData

\* A group outside of the triangle has nothing to update.
LEMMA GerNoTriangle ==
    ASSUME launch \in GerLaunches, E!Skipped(launch.group)
    PROVE  GerShare = {}
<1> SUFFICES ASSUME NEW r \in GerRows, NEW c \in GerFirst .. GerLast - 1,
                    E!InTriangle(r, c)
             PROVE  FALSE
  BY DEF GerShare, E!Share, GerRows, GerFirst, GerLast
<1>1. GerFirst \in Nat /\ GerLast \in Nat /\ r \in Nat
  BY GerNumbers
<1>2. PICK b \in Nat, d \in Nat : b = E!FirstRow(launch.group) /\ d = E!DimWFR
  BY GerBand
<1>3. b <= r /\ r <= b + d - 1
  <2>1. E!Min({launch.dimR, b + d}) <= b + d /\ E!Min({launch.dimR, b + d}) \in Int
    BY <1>2, GerSizes, GerMin
  <2> QED
    BY <1>2, <2>1 DEF GerRows
<1>4. \/ ~launch.upper /\ GerFirst + E!NotDiag > b + d - 1
      \/ ~launch.lower /\ b + E!NotDiag > GerLast - 1
  BY <1>2 DEF E!Skipped, GerFirst, GerLast
<1>5. E!NotDiag \in {0, 1} /\ E!Strict \in {0, 1} /\ E!Strict >= E!NotDiag
  BY DEF E!Strict, E!NotDiag
<1> QED
  BY <1>1, <1>2, <1>3, <1>4, <1>5 DEF E!InTriangle

LEMMA GerDataStart == E!Init => GerData
<1> SUFFICES ASSUME E!Init PROVE GerData
  OBVIOUS
<1> DEFINE l == IF E!Skipped(launch.group) THEN "done" ELSE "block"
<1>1. /\ launch \in GerLaunches
      /\ pc = [i \in E!Item |-> l] /\ pos = [i \in E!Item |-> GerFirst]
      /\ out = [a \in {} |-> E!Nothing]
  BY DEF E!Init, E!Start, GerFirst
<1>2. GerFirst \in Nat /\ GerLast \in Nat /\ E!BlockSz \in Nat /\ GerRows \subseteq Nat
  BY <1>1, GerNumbers
<1>3. GerAt(GerFirst, l)
  <2>1. \E n \in Nat : GerFirst = GerFirst + n * E!BlockSz
    <3>1. GerFirst = GerFirst + 0 * E!BlockSz
      BY <1>2
    <3> QED
      BY <3>1
  <2> QED
    BY <1>2, <2>1 DEF GerAt
<1>4. ASSUME NEW u PROVE GerHeld(u, GerFirst, l, scratch) /\ GerSums(u, GerFirst, out)
  <2>1. \A a \in GerShare : a[2] \in GerFirst .. GerLast - 1
    BY DEF GerShare, E!Share, GerFirst, GerLast
  <2>2. GerSums(u, GerFirst, out)
    BY <1>1, <1>2, <2>1 DEF GerSums
  <2> QED
    BY <1>2, <2>2 DEF GerHeld
<1> QED
  BY <1>1, <1>3, <1>4 DEF GerData

\* What a column of the block adds to the element of a row.
LEMMA GerTerms ==
    ASSUME GerInv, NEW i \in E!Item, NEW x, GerBlockHeld(i, x), NEW r, NEW c, c = pos[i] + x,
           NEW a, a = <<r, c>>
    PROVE  E!Added(E!Scaled(a), E!Exactly(E!Terms(r, x))) = E!Expected(a)
<1>1. E!Terms(r, x) = {<<E!Rhs1(r), E!Rhs2(c)>>}
                        \cup (IF launch.single THEN {} ELSE {<<E!Rhs2(r), E!Rhs1(c)>>})
  BY DEF E!Terms, GerBlockHeld
<1>2. a[1] = r /\ a[2] = c
  OBVIOUS
<1>3. E!Scaled(a) = [c |-> {a}, of |-> {}, once |-> TRUE]
      /\ E!Exactly(E!Terms(r, x)) = [c |-> {}, of |-> E!Terms(r, x), once |-> TRUE]
  BY DEF E!Scaled, E!Exactly
<1>4. E!Added(E!Scaled(a), E!Exactly(E!Terms(r, x)))
        = [c |-> {a}, of |-> E!Terms(r, x), once |-> TRUE]
  <2>1. E!Added(E!Scaled(a), E!Exactly(E!Terms(r, x)))
          = [c |-> E!Scaled(a).c \cup E!Exactly(E!Terms(r, x)).c,
             of |-> E!Scaled(a).of \cup E!Exactly(E!Terms(r, x)).of,
             once |-> E!Scaled(a).once /\ E!Exactly(E!Terms(r, x)).once
                      /\ E!Scaled(a).of \cap E!Exactly(E!Terms(r, x)).of = {}]
    BY DEF E!Added
  <2>2. /\ E!Scaled(a).c \cup E!Exactly(E!Terms(r, x)).c = {a}
        /\ E!Scaled(a).of \cup E!Exactly(E!Terms(r, x)).of = E!Terms(r, x)
    BY <1>3
  <2>3. (E!Scaled(a).once /\ E!Exactly(E!Terms(r, x)).once
         /\ E!Scaled(a).of \cap E!Exactly(E!Terms(r, x)).of = {}) = TRUE
    BY <1>3
  <2> QED
    BY <2>1, <2>2, <2>3
<1> QED
  BY <1>1, <1>2, <1>4 DEF E!Expected

\* The elements that an item updates: those of its rows in the columns of the block.
LEMMA GerUpdated ==
    ASSUME GerInv, GerData, NEW i \in E!Item, pc[i] = "update", NEW a
    PROVE  /\ a \in E!Updated(i) <=>
                 /\ a \in GerShare /\ a[1] % launch.localSz = i
                 /\ a[2] >= pos[i] /\ a[2] < pos[i] + E!BlockSz
           /\ a \in E!Updated(i) =>
                 a[2] - pos[i] \in 0 .. E!BlqSz(i) - 1 /\ a = <<a[1], a[2]>>
<1>1. PICK p \in Int, f \in Nat, last \in Nat, L \in Nat, s \in Nat \ {0} :
         /\ p = pos[i] /\ f = GerFirst /\ last = GerLast /\ L = E!BlockSz
         /\ s = launch.localSz /\ f <= p /\ p < last
  <2>1. /\ GerFirst \in Nat /\ GerLast \in Nat /\ E!BlockSz \in Nat
        /\ launch.localSz \in Nat \ {0} /\ pos[i] \in Int
    BY GerNumbers DEF GerInv
  <2>2. GerAt(pos[i], pc[i])
    BY DEF GerData
  <2>3. PICK n \in Nat : pos[i] = GerFirst + n * E!BlockSz
    BY <2>2 DEF GerAt
  <2>4. PICK y \in Nat : y = n * E!BlockSz
    BY <2>1
  <2>5. GerFirst <= pos[i] /\ pos[i] < GerLast
    BY <2>1, <2>2, <2>3, <2>4 DEF GerAt
  <2> QED
    BY <2>1, <2>5
<1>2. PICK n \in Int : n = E!BlqSz(i) /\ n = IF L <= last - p THEN L ELSE last - p
  BY <1>1, GerMin DEF E!BlqSz, GerLast
<1>3. E!RowsOf(i) = {r \in GerRows : r % s = i}
  BY <1>1, GerRowsOf DEF GerInv
<1>4. {p + x : x \in 0 .. n - 1} = p .. p + n - 1
  <2>1. ASSUME NEW c \in p .. p + n - 1 PROVE c \in {p + x : x \in 0 .. n - 1}
    <3>1. c - p \in 0 .. n - 1 /\ c = p + (c - p)
      BY <1>2
    <3> QED
      BY <3>1
  <2>2. ASSUME NEW x \in 0 .. n - 1 PROVE p + x \in p .. p + n - 1
    BY <1>2
  <2> QED
    BY <2>1, <2>2
<1>5. E!Updated(i) = {e \in {r \in GerRows : r % s = i} \X (p .. p + n - 1) :
                         E!InTriangle(e[1], e[2])}
  BY <1>1, <1>2, <1>3, <1>4 DEF E!Updated
<1>6. GerShare = {e \in GerRows \X (f .. last - 1) : E!InTriangle(e[1], e[2])}
  BY <1>1 DEF GerShare, E!Share, GerRows, GerFirst, GerLast
<1>7. \A c : c \in p .. p + n - 1
               <=> c \in f .. last - 1 /\ c >= p /\ c < p + L
  BY <1>1, <1>2
<1>8. a \in E!Updated(i) <=> /\ a \in GerShare /\ a[1] % s = i
                             /\ a[2] >= p /\ a[2] < p + L
  BY <1>5, <1>6, <1>7
<1>9. a \in E!Updated(i) => a[2] - p \in 0 .. n - 1 /\ a = <<a[1], a[2]>>
  <2> SUFFICES ASSUME a \in E!Updated(i)
               PROVE  a[2] - p \in 0 .. n - 1 /\ a = <<a[1], a[2]>>
    OBVIOUS
  <2>1. a[2] \in p .. p + n - 1 /\ a = <<a[1], a[2]>>
    BY <1>5
  <2> QED
    BY <1>2, <2>1
<1> QED
  BY <1>1, <1>2, <1>8, <1>9

LEMMA GerDataCopy == ASSUME GerInv, GerData, NEW i \in E!Item, E!CopyBlock(i) PROVE GerData'
<1>1. /\ pc[i] = "block" /\ pos[i] < GerLast
      /\ pc' = [pc EXCEPT ![i] = "update"]
      /\ scratch' = E!Over(E!Copies(i), scratch)
      /\ launch' = launch /\ pos' = pos /\ out' = out
  BY DEF E!CopyBlock, E!At, E!BarrierThen, GerLast
<1>2. \A u \in E!Item \ {i} : pc'[u] = pc[u]
  BY <1>1 DEF GerInv
<1>3. pc'[i] = "update"
  BY <1>1 DEF GerInv
<1>4. GerAt(pos[i], "block")
  BY <1>1 DEF GerData
<1>5. \A u \in E!Item : GerAt(pos'[u], pc'[u])
  <2>1. GerAt(pos[i], "update")
    BY <1>1, <1>4 DEF GerAt
  <2> QED
    BY <1>1, <1>2, <1>3, <2>1 DEF GerData
<1>6. PICK L \in Nat, p \in Int, last \in Nat :
         L = E!BlockSz /\ p = pos[i] /\ last = GerLast
  BY GerNumbers DEF GerInv
<1>7. /\ launch.single => DOMAIN E!Copies(i) = E!Copied(i)
      /\ ~launch.single => DOMAIN E!Copies(i) = E!Copied(i) \cup {L + x : x \in E!Copied(i)}
      /\ E!Copied(i) \subseteq 0 .. L - 1
      /\ \A a \in DOMAIN E!Copies(i) : scratch'[a] = E!Copies(i)[a]
      /\ \A a \in DOMAIN scratch \ DOMAIN E!Copies(i) : scratch'[a] = scratch[a]
  BY <1>1, <1>6, GerBlocks DEF E!Over
<1>8. \A u \in E!Item : GerHeld(u, pos'[u], pc'[u], scratch')
  <2>1. GerHeld(i, p, "update", scratch')
    <3> SUFFICES ASSUME NEW x \in 0 .. L - 1, x % launch.localSz = i, p + x < last
                 PROVE  IF launch.single THEN scratch'[x] = E!Rhs2(p + x)
                        ELSE scratch'[x] = E!Rhs1(p + x) /\ scratch'[L + x] = E!Rhs2(p + x)
      BY <1>6 DEF GerHeld, GerBlockOf
    <3>1. x \in E!Copied(i)
      <4>1. E!BlqSz(i) = IF L <= last - p THEN L ELSE last - p
        BY <1>6, GerMin DEF E!BlqSz, GerLast
      <4>2. x \in 0 .. E!BlqSz(i) - 1
        BY <1>6, <4>1
      <4> QED
        BY <4>2 DEF E!Copied
    <3>2. CASE launch.single
      BY <1>6, <1>7, <3>1, <3>2 DEF E!Copies
    <3>3. CASE ~launch.single
      <4>1. x \in DOMAIN E!Copies(i) /\ L + x \in DOMAIN E!Copies(i)
        BY <1>7, <3>1, <3>3
      <4>2. L + x \notin E!Copied(i) /\ p + (L + x) - L = p + x
        BY <1>6, <1>7
      <4>3. E!Copies(i)[x] = E!Rhs1(p + x)
        BY <1>6, <3>1, <3>3 DEF E!Copies, E!Over
      <4>4. E!Copies(i)[L + x] = E!Rhs2(p + (L + x) - L)
        <5>1. L + x \in {E!BlockSz + c : c \in E!Copied(i)}
          BY <1>6, <3>1
        <5> QED
          BY <1>6, <3>3, <4>2, <5>1 DEF E!Copies, E!Over
      <4> QED
        BY <1>7, <3>3, <4>1, <4>2, <4>3, <4>4
    <3> QED
      BY <3>2, <3>3
  <2>2. ASSUME NEW u \in E!Item \ {i} PROVE GerHeld(u, pos[u], pc[u], scratch')
    <3>1. GerHeld(u, pos[u], pc[u], scratch)
      BY DEF GerData
    <3>2. ASSUME NEW x \in 0 .. L - 1, x % launch.localSz = u
          PROVE  /\ scratch'[x] = scratch[x]
                 /\ ~launch.single => scratch'[L + x] = scratch[L + x]
      <4>1. x \notin E!Copied(i)
        BY <3>2 DEF E!Copied
      <4>2. x \notin DOMAIN E!Copies(i)
        BY <1>6, <1>7, <4>1
      <4>3. ~launch.single => L + x \notin DOMAIN E!Copies(i)
        BY <1>6, <1>7, <4>1
      <4>4. x \in DOMAIN scratch /\ (~launch.single => L + x \in DOMAIN scratch)
        <5>1. DOMAIN scratch = 0 .. launch.localMemory - 1 /\ launch.localMemory \in Nat
          BY GerSizes DEF GerInv
        <5>2. /\ ~launch.single => 2 * L <= launch.localMemory
              /\ launch.single => L = launch.localMemory
          BY <1>6, GerBlocks
        <5> QED
          BY <1>6, <5>1, <5>2
      <4> QED
        BY <1>7, <4>2, <4>3, <4>4
    <3> QED
      BY <1>6, <3>1, <3>2 DEF GerHeld
  <2> QED
    BY <1>1, <1>2, <1>3, <1>6, <2>1, <2>2
<1>9. \A u \in E!Item : GerSums(u, pos'[u], out')
  BY <1>1 DEF GerData
<1>10. out' = [a \in DOMAIN out' |-> out'[a]] /\ DOMAIN out' \subseteq GerShare
  BY <1>1 DEF GerData
<1> QED
  BY <1>1, <1>5, <1>8, <1>9, <1>10, GerDataAfter

LEMMA GerDataReturn == ASSUME GerInv, GerData, NEW i \in E!Item, E!Return(i) PROVE GerData'
<1>1. /\ pc[i] = "block" /\ pc' = [pc EXCEPT ![i] = "done"] /\ pos[i] >= GerLast
      /\ launch' = launch /\ pos' = pos /\ scratch' = scratch /\ out' = out
  BY DEF E!Return, E!At, E!Goto, GerLast
<1>2. \A u \in E!Item \ {i} : pc'[u] = pc[u]
  BY <1>1 DEF GerInv
<1>3. pc'[i] = "done"
  BY <1>1 DEF GerInv
<1>4. GerAt(pos[i], "block") /\ GerHeld(i, pos[i], "block", scratch)
  BY <1>1 DEF GerData
<1>5. GerAt(pos[i], "done")
  BY <1>1, <1>4 DEF GerAt
<1>6. GerHeld(i, pos[i], "done", scratch)
  BY <1>4 DEF GerHeld, GerBlockOf
<1>7. \A u \in E!Item : GerAt(pos'[u], pc'[u])
  BY <1>1, <1>2, <1>3, <1>5 DEF GerData
<1>8. \A u \in E!Item : GerHeld(u, pos'[u], pc'[u], scratch')
  BY <1>1, <1>2, <1>3, <1>6 DEF GerData
<1>9. \A u \in E!Item : GerSums(u, pos'[u], out')
  BY <1>1 DEF GerData
<1>10. out' = [a \in DOMAIN out' |-> out'[a]] /\ DOMAIN out' \subseteq GerShare
  BY <1>1 DEF GerData
<1> QED
  BY <1>1, <1>7, <1>8, <1>9, <1>10, GerDataAfter

LEMMA GerDataUpdate == ASSUME GerInv, GerData, NEW i \in E!Item, E!Update(i) PROVE GerData'
<1> DEFINE g == E!Plus(i)
<1>1. /\ E!Runs(i) /\ pc[i] = "update"
      /\ out' = E!Over(g, out)
      /\ launch' = launch /\ scratch' = scratch
      /\ pos' = [pos EXCEPT ![i] = pos[i] + E!BlockSz]
  BY DEF E!Update, E!At
<1>2. PICK p \in Int, L \in Nat, first \in Nat, last \in Nat :
         p = pos[i] /\ L = E!BlockSz /\ first = GerFirst /\ last = GerLast
  BY GerNumbers DEF GerInv
<1>3. pos'[i] = p + L /\ \A u \in E!Item \ {i} : pos'[u] = pos[u]
  BY <1>1, <1>2 DEF GerInv
<1>4. PICK l : /\ l = IF p + L < last THEN "block" ELSE "done"
               /\ pc' = [pc EXCEPT ![i] = l]
  <2>1. GerLast' = GerLast
    BY <1>1, GerSame
  <2>2. pc' = [pc EXCEPT ![i] = IF p + L < last THEN "block" ELSE "done"]
    <3>1. CASE p + L < last
      <4>1. pos'[i] < E!LstCol(launch.group)
        BY <1>2, <1>3, <3>1 DEF GerLast
      <4> QED
        BY <3>1, <4>1 DEF E!Update, E!BarrierThen, E!Goto
    <3>2. CASE ~(p + L < last)
      <4>1. ~(pos'[i] < E!LstCol(launch.group))
        BY <1>2, <1>3, <3>2 DEF GerLast
      <4> QED
        BY <3>2, <4>1 DEF E!Update, E!BarrierThen, E!Goto
    <3> QED
      BY <3>1, <3>2
  <2> QED
    BY <2>2
<1>5. pc'[i] = l /\ \A u \in E!Item \ {i} : pc'[u] = pc[u]
  BY <1>4 DEF GerInv
<1>6. /\ GerAt(p, "update") /\ GerHeld(i, p, "update", scratch) /\ GerSums(i, p, out)
      /\ ~E!Skipped(launch.group) /\ p < last
  BY <1>1, <1>2 DEF GerData, GerAt
<1>7. \A u \in E!Item : GerAt(pos'[u], pc'[u])
  <2>1. PICK n \in Nat : p = first + n * L
    BY <1>2, <1>6 DEF GerAt
  <2>2. PICK m \in Nat : m = n + 1
    OBVIOUS
  <2>3. p + L = first + m * L
    <3>1. (n + 1) * L = n * L + L /\ n * L \in Nat
      OBVIOUS
    <3> QED
      BY <2>1, <2>2, <3>1
  <2>4. p + L - L = p /\ (l = "done" => p + L >= last) /\ l # "update"
    BY <1>4
  <2>5. GerAt(p + L, l)
    BY <1>2, <1>6, <2>3, <2>4 DEF GerAt
  <2> QED
    BY <1>3, <1>5, <2>5 DEF GerData
<1>8. \A u \in E!Item : GerHeld(u, pos'[u], pc'[u], scratch')
  <2>1. p + L - L = p /\ l # "update"
    BY <1>4
  <2>2. GerHeld(i, p + L, l, scratch)
    BY <1>2, <1>6, <2>1 DEF GerHeld, GerBlockOf
  <2> QED
    BY <1>1, <1>3, <1>5, <2>2 DEF GerData
<1>9. DOMAIN g = E!Updated(i)
  BY DEF E!Plus
<1>10. ASSUME NEW a \in E!Updated(i) PROVE g[a] = E!Expected(a)
  <2>1. PICK x : x = a[2] - p /\ x \in 0 .. E!BlqSz(i) - 1
    BY <1>1, <1>2, GerUpdated
  <2>2. a = <<a[1], a[2]>> /\ a \in GerShare /\ a[1] % launch.localSz = i
    BY <1>1, GerUpdated
  <2>3. a[2] \in Int
    BY <2>2, GerNumbers DEF GerShare, E!Share, GerInv, GerFirst, GerLast
  <2>4. a \notin DOMAIN out
    <3>1. a[2] >= p
      BY <1>1, <1>2, GerUpdated
    <3>2. ~(a[2] < p)
      BY <2>3, <3>1
    <3> QED
      BY <1>6, <2>2, <3>2 DEF GerSums
  <2>5. GerBlockHeld(i, x)
    BY <1>1, <2>1, GerHolds
  <2>6. a[2] = pos[i] + x
    BY <1>2, <2>1, <2>3
  <2>7. E!Added(E!Scaled(a), E!Exactly(E!Terms(a[1], x))) = E!Expected(a)
    BY <2>2, <2>5, <2>6, GerTerms
  <2> QED
    BY <1>2, <2>1, <2>4, <2>7 DEF E!Plus
<1> HIDE DEF g
<1>11. /\ DOMAIN out' = E!Updated(i) \cup DOMAIN out
       /\ out' = [a \in DOMAIN out' |-> out'[a]]
       /\ \A a \in DOMAIN out' : out'[a] = IF a \in E!Updated(i) THEN g[a] ELSE out[a]
  BY <1>1, <1>9 DEF E!Over
<1>12. DOMAIN out' \subseteq GerShare
  <2>1. E!Updated(i) \subseteq GerShare
    BY <1>1, GerUpdated
  <2> QED
    BY <1>11, <2>1 DEF GerData
<1>13. \A a \in GerShare : a[2] \in Int
  BY GerNumbers DEF GerShare, E!Share, GerInv, GerFirst, GerLast
<1>14. GerSums(i, p + L, out')
  <2> SUFFICES ASSUME NEW a \in GerShare, a[1] % launch.localSz = i
               PROVE  IF a[2] < p + L THEN a \in DOMAIN out' /\ out'[a] = E!Expected(a)
                      ELSE a \notin DOMAIN out'
    BY DEF GerSums
  <2>1. a \in E!Updated(i) <=> a[2] >= p /\ a[2] < p + L
    BY <1>1, <1>2, GerUpdated
  <2>2. IF a[2] < p THEN a \in DOMAIN out /\ out[a] = E!Expected(a) ELSE a \notin DOMAIN out
    BY <1>6 DEF GerSums
  <2>3. a[2] \in Int
    BY <1>13
  <2>4. CASE a \in E!Updated(i)
    BY <1>10, <1>11, <2>1, <2>4
  <2>5. CASE a \notin E!Updated(i)
    <3>1. a \in DOMAIN out' <=> a \in DOMAIN out
      BY <1>11, <2>5
    <3>2. a \in DOMAIN out' => out'[a] = out[a]
      BY <1>11, <2>5
    <3>3. a[2] < p <=> a[2] < p + L
      BY <1>2, <2>1, <2>3, <2>5
    <3> QED
      BY <2>2, <3>1, <3>2, <3>3
  <2> QED
    BY <2>4, <2>5
<1>15. ASSUME NEW u \in E!Item \ {i} PROVE GerSums(u, pos[u], out')
  <2> SUFFICES ASSUME NEW a \in GerShare, a[1] % launch.localSz = u
               PROVE  IF a[2] < pos[u] THEN a \in DOMAIN out' /\ out'[a] = E!Expected(a)
                      ELSE a \notin DOMAIN out'
    BY DEF GerSums
  <2>1. a \notin E!Updated(i)
    BY <1>1, GerUpdated
  <2>2. a \in DOMAIN out' <=> a \in DOMAIN out
    BY <1>11, <2>1
  <2>3. a \in DOMAIN out' => out'[a] = out[a]
    BY <1>11, <2>1
  <2>4. IF a[2] < pos[u] THEN a \in DOMAIN out /\ out[a] = E!Expected(a)
        ELSE a \notin DOMAIN out
    BY DEF GerData, GerSums
  <2> QED
    BY <2>2, <2>3, <2>4
<1>16. \A u \in E!Item : GerSums(u, pos'[u], out')
  BY <1>3, <1>14, <1>15
<1> QED
  BY <1>1, <1>7, <1>8, <1>11, <1>12, <1>16, GerDataAfter

LEMMA GerDataStep == ASSUME GerInv, GerData, NEW i \in E!Item, E!Step(i) PROVE GerData'
BY GerDataCopy, GerDataUpdate, GerDataReturn DEF E!Step

LEMMA GerExact == GerInv /\ GerData => E!BlockExact
<1> SUFFICES ASSUME GerInv, GerData, E!Done
             PROVE  out = [a \in GerShare |-> E!Expected(a)]
  BY DEF E!BlockExact, GerShare
<1>1. /\ GerFirst \in Nat /\ GerLast \in Nat
      /\ launch.localSz \in Nat \ {0} /\ GerRows \subseteq Nat
  BY GerNumbers DEF GerInv
<1>2. ASSUME NEW a \in GerShare PROVE a \in DOMAIN out /\ out[a] = E!Expected(a)
  <2>1. ~E!Skipped(launch.group)
    BY GerNoTriangle DEF GerInv
  <2>2. a[1] \in Nat /\ a[2] \in Nat /\ a[2] < GerLast
    <3>1. a[1] \in GerRows /\ a[2] \in GerFirst .. GerLast - 1
      BY DEF GerShare, E!Share, GerRows, GerFirst, GerLast
    <3>2. PICK r, c : r = a[1] /\ c = a[2] /\ r \in GerRows /\ c \in GerFirst .. GerLast - 1
      BY <3>1
    <3>3. r \in Nat /\ c \in Nat /\ c < GerLast
      BY <1>1, <3>2
    <3> QED
      BY <3>2, <3>3
  <2>3. PICK u \in E!Item : u = a[1] % launch.localSz
    <3>1. PICK s \in Nat \ {0}, x \in Nat : s = launch.localSz /\ x = a[1]
      BY <1>1, <2>2
    <3>2. x % s \in 0 .. s - 1
      OBVIOUS
    <3> QED
      BY <3>1, <3>2 DEF E!Item
  <2>4. pc[u] = "done" /\ GerAt(pos[u], "done") /\ GerSums(u, pos[u], out) /\ pos[u] \in Int
    BY DEF E!Done, GerData, GerInv
  <2>5. a[2] < pos[u]
    BY <1>1, <2>1, <2>2, <2>4 DEF GerAt
  <2> QED
    BY <2>3, <2>4, <2>5 DEF GerSums
<1>3. DOMAIN out = GerShare
  BY <1>2 DEF GerData
<1> QED
  BY <1>2, <1>3 DEF GerData

-------------------------------------------------------------------------------
(***************************************************************************)
(* GemvRow: what a group writes                                            *)
(***************************************************************************)

RowFirst == W!FrsRow(launch.group)
RowCols ==
    W!FirstCol(launch.group)
      .. W!Min({launch.dimC, W!FirstCol(launch.group) + W!DimWFC}) - 1
RowOut == W!IdWFC(launch.group)

LEMMA RowBand ==
    ASSUME launch \in RowLaunches
    PROVE  W!FirstCol(launch.group) \in Nat /\ W!DimWFC \in Nat
<1>1. launch.localSz \in Nat \ {0} /\ launch.nWGCol \in Nat \ {0}
      /\ launch.group \in Nat /\ launch.dimC \in Nat \ {0}
  BY RowSizes
<1>2. PICK z \in Nat \ {0} : z = launch.localSz * launch.nWGCol
  BY <1>1
<1>3. PICK q \in Nat : q = W!DivUp(launch.dimC, z)
  <2>1. W!DivUp(launch.dimC, z) \in Nat
    BY <1>1, <1>2, RoundedUp DEF W!DivUp
  <2> QED
    BY <2>1
<1>4. PICK d \in Nat : d = W!DimWFC
  <2>1. q * launch.localSz \in Nat
    BY <1>1
  <2> QED
    BY <1>2, <1>3, <2>1 DEF W!DimWFC
<1>5. PICK m \in Nat : m = W!IdWFC(launch.group)
  <2>1. PICK g \in Nat, w \in Nat \ {0} : g = launch.group /\ w = launch.nWGCol
    BY <1>1
  <2>2. g % w \in Nat
    OBVIOUS
  <2> QED
    BY <2>1, <2>2 DEF W!IdWFC
<1>6. PICK b \in Nat : b = W!FirstCol(launch.group)
  <2>1. m * d \in Nat
    OBVIOUS
  <2> QED
    BY <1>4, <1>5, <2>1 DEF W!FirstCol
<1> QED
  BY <1>4, <1>6

LEMMA RowNumbers ==
    ASSUME launch \in RowLaunches
    PROVE  /\ RowFirst \in Nat /\ RowLast \in Int /\ W!ShrSz \in Nat
           /\ launch.localMemory \in Nat /\ launch.localSz \in Nat \ {0}
           /\ RowCols \subseteq Nat
<1>1. launch.dimC \in Nat /\ launch.localSz \in Nat \ {0} /\ launch.localMemory \in Nat
  BY RowSizes
<1>2. PICK b \in Nat, d \in Nat : b = W!FirstCol(launch.group) /\ d = W!DimWFC
  BY RowBand
<1>3. W!Min({launch.dimC, b + d}) \in Int
  BY <1>1, RowMin
<1>4. RowCols \subseteq Nat
  <2>1. PICK top \in Int : top = W!Min({launch.dimC, b + d}) - 1
    BY <1>3
  <2>2. RowCols = b .. top
    BY <1>2, <2>1 DEF RowCols
  <2> QED
    BY <2>2
<1>5. RowFirst \in Nat
  <2>1. PICK g \in Nat, w \in Nat \ {0}, n \in Nat \ {0}, y \in Nat \ {0} :
           g = launch.group /\ w = launch.nWGCol /\ n = launch.dimR /\ y = launch.nWGRow
    BY RowSizes
  <2>2. g \div w \in Nat
    OBVIOUS
  <2>3. (n + y - 1) \div y \in Nat
    OBVIOUS
  <2>4. PICK a \in Nat, c \in Nat : a = W!IdWFR(launch.group) /\ c = W!RowSz
    BY <2>1, <2>2, <2>3 DEF W!IdWFR, W!RowSz
  <2>5. a * c \in Nat
    OBVIOUS
  <2> QED
    BY <2>4, <2>5 DEF RowFirst, W!FrsRow
<1> QED
  BY <1>1, <1>4, <1>5, RowLastInt, RowShare

\* The columns of an item.
LEMMA RowColumnsOf ==
    ASSUME launch \in RowLaunches, NEW i \in W!Item
    PROVE  W!ColumnsOf(i) = {x \in RowCols : x % launch.localSz = i}
<1>1. PICK n \in Nat \ {0}, s \in Nat \ {0}, w \in Nat \ {0}, g \in Nat :
          n = launch.dimC /\ s = launch.localSz /\ w = launch.nWGCol /\ g = launch.group
  BY RowSizes
<1>2. i \in 0 .. s - 1
  BY <1>1 DEF W!Item
<1>3. PICK q \in Nat \ {0} : q = W!DivUp(launch.dimC, launch.localSz * launch.nWGCol)
  <2>1. PICK z \in Nat \ {0} : z = s * w
    OBVIOUS
  <2>2. (n - 1) \div z + 1 \in Nat \ {0}
    BY RoundedUp
  <2> QED
    BY <1>1, <2>1, <2>2 DEF W!DivUp
<1>4. PICK d \in Nat : d = q * s /\ d = W!DimWFC
  <2>1. q * s \in Nat
    OBVIOUS
  <2> QED
    BY <1>1, <1>3, <2>1 DEF W!DimWFC
<1>5. PICK m \in Nat : m = W!IdWFC(launch.group)
  <2>1. g % w \in 0 .. w - 1
    BY DivMod
  <2> QED
    BY <1>1, <2>1 DEF W!IdWFC
<1>6. PICK b \in Nat : b = m * d /\ b = W!FirstCol(launch.group)
  <2>1. m * d \in Nat
    OBVIOUS
  <2> QED
    BY <1>4, <1>5, <2>1 DEF W!FirstCol
<1>7. PICK f \in Nat : f = b + i /\ f = W!FrsCol(i)
  BY <1>2, <1>6 DEF W!FrsCol
<1>8. PICK last : last = (IF n <= f + d THEN n ELSE f + d) /\ last = W!LstCol(i)
  BY <1>1, <1>4, <1>7, RowMin DEF W!LstCol
<1>9. RowCols = b .. (IF n <= b + d THEN n ELSE b + d) - 1
  <2>1. W!Min({n, b + d}) = IF n <= b + d THEN n ELSE b + d
    BY <1>1, <1>4, <1>6, RowMin
  <2> QED
    BY <1>1, <1>4, <1>6, <2>1 DEF RowCols
<1>10. RowsFrom(f, last, s)
         = {r \in b .. (IF n <= b + d THEN n ELSE b + d) - 1 : r % s = i}
  <2>1. RowPlan(s, q, d, m, b, n, i, f, last)
    BY <1>2, <1>4, <1>6, <1>7, <1>8 DEF RowPlan
  <2> QED
    BY <2>1, RowsOfItem
<1>11. W!ColumnsOf(i) = RowsFrom(f, last, s)
  BY <1>1, <1>7, <1>8 DEF W!ColumnsOf, RowsFrom
<1> QED
  BY <1>1, <1>9, <1>10, <1>11

\* The products of a row over two sets of columns that do not meet.
LEMMA RowProductsOf ==
    ASSUME NEW row, NEW S, NEW Q, S \cap Q = {}
    PROVE  /\ W!RowProducts(row, S) \cap W!RowProducts(row, Q) = {}
           /\ W!RowProducts(row, S \cup Q) = W!RowProducts(row, S) \cup W!RowProducts(row, Q)
<1>1. ASSUME NEW x \in W!RowProducts(row, S), x \in W!RowProducts(row, Q)
      PROVE  FALSE
  <2>1. \/ \E col \in S : x = <<W!Elem(row, col), W!FromB(col)>>
        \/ row \in S /\ x = W!UnitTerm(row)
    BY DEF W!RowProducts
  <2>2. \/ \E col \in Q : x = <<W!Elem(row, col), W!FromB(col)>>
        \/ row \in Q /\ x = W!UnitTerm(row)
    BY <1>1 DEF W!RowProducts
  <2>3. \A col : <<W!Elem(row, col), W!FromB(col)>> # W!UnitTerm(row)
    BY DEF W!Elem, W!FromA, W!FromB, W!UnitTerm, W!One
  <2>4. \A p, q : <<W!Elem(row, p), W!FromB(p)>> = <<W!Elem(row, q), W!FromB(q)>> => p = q
    BY DEF W!FromB
  <2> QED
    BY <2>1, <2>2, <2>3, <2>4
<1>2. W!RowProducts(row, S \cup Q) = W!RowProducts(row, S) \cup W!RowProducts(row, Q)
  BY DEF W!RowProducts
<1> QED
  BY <1>1, <1>2

LEMMA RowAdded ==
    ASSUME NEW S, NEW Q, S \cap Q = {}
    PROVE  W!Added(W!Exactly(S), W!Exactly(Q)) = W!Exactly(S \cup Q)
<1>1. /\ W!Exactly(S) = [c |-> {}, of |-> S, once |-> TRUE]
      /\ W!Exactly(Q) = [c |-> {}, of |-> Q, once |-> TRUE]
      /\ W!Exactly(S \cup Q) = [c |-> {}, of |-> S \cup Q, once |-> TRUE]
  BY DEF W!Exactly, W!Nothing
<1> QED
  <2>1. W!Added(W!Exactly(S), W!Exactly(Q))
          = [c |-> W!Exactly(S).c \cup W!Exactly(Q).c,
             of |-> W!Exactly(S).of \cup W!Exactly(Q).of,
             once |-> W!Exactly(S).once /\ W!Exactly(Q).once
                      /\ W!Exactly(S).of \cap W!Exactly(Q).of = {}]
    BY DEF W!Added
  <2>2. /\ W!Exactly(S).c \cup W!Exactly(Q).c = {}
        /\ W!Exactly(S).of \cup W!Exactly(Q).of = S \cup Q
        /\ W!Exactly(S).once /\ W!Exactly(Q).once
           /\ W!Exactly(S).of \cap W!Exactly(Q).of = {}
    BY <1>1
  <2>3. (W!Exactly(S).once /\ W!Exactly(Q).once
         /\ W!Exactly(S).of \cap W!Exactly(Q).of = {}) = TRUE
    BY <2>2, <1>1
  <2> QED
    BY <1>1, <2>1, <2>2, <2>3

\* What is in the cell of a row at place c when m places of it are left: the
\* products of every m-th column.
RowLane(m, c) == {x \in RowCols : x % m = c}
RowSum(r, m, c) == W!Exactly(W!RowProducts(r, RowLane(m, c)))

LEMMA RowLaneHalves ==
    ASSUME launch \in RowLaunches, NEW h \in Nat \ {0}, NEW c \in 0 .. h - 1
    PROVE  /\ RowLane(2 * h, c) \cup RowLane(2 * h, c + h) = RowLane(h, c)
           /\ RowLane(2 * h, c) \cap RowLane(2 * h, c + h) = {}
<1>1. ASSUME NEW x \in RowCols
      PROVE  x % h = c <=> (x % (2 * h) = c \/ x % (2 * h) = c + h)
  <2>1. PICK z \in Nat : z = x
    BY <1>1, RowNumbers
  <2>2. z % h = c <=> (z % (2 * h) = c \/ z % (2 * h) = c + h)
    <3>1. ASSUME z % h = c PROVE z % (2 * h) = c \/ z % (2 * h) = c + h
      BY <3>1, ModHalf, ZenonT(40)
    <3>2. ASSUME z % (2 * h) = c PROVE z % h = c
      BY <3>2, ModHalf, ZenonT(40)
    <3>3. ASSUME z % (2 * h) = c + h PROVE z % h = c
      BY <3>3, ModHalf, ZenonT(40)
    <3> QED
      BY <3>1, <3>2, <3>3
  <2> QED
    BY <2>1, <2>2
<1>2. c # c + h
  OBVIOUS
<1> QED
  BY <1>1, <1>2 DEF RowLane

LEMMA RowLaneAll == ASSUME launch \in RowLaunches PROVE RowLane(1, 0) = RowCols
<1>1. ASSUME NEW x \in RowCols PROVE x % 1 = 0
  <2>1. x \in Nat
    BY RowNumbers
  <2> QED
    BY <2>1
<1> QED
  BY <1>1 DEF RowLane

LEMMA RowSumsAdd ==
    ASSUME launch \in RowLaunches, NEW r, NEW h \in Nat \ {0}, NEW c \in 0 .. h - 1
    PROVE  W!Added(RowSum(r, 2 * h, c), RowSum(r, 2 * h, c + h)) = RowSum(r, h, c)
<1>1. PICK S : S = RowLane(2 * h, c)
  OBVIOUS
<1>2. PICK Q : Q = RowLane(2 * h, c + h)
  OBVIOUS
<1>3. S \cup Q = RowLane(h, c) /\ S \cap Q = {}
  BY <1>1, <1>2, RowLaneHalves
<1>4. /\ W!RowProducts(r, S) \cap W!RowProducts(r, Q) = {}
      /\ W!RowProducts(r, S \cup Q) = W!RowProducts(r, S) \cup W!RowProducts(r, Q)
  BY <1>3, RowProductsOf
<1>5. W!Added(W!Exactly(W!RowProducts(r, S)), W!Exactly(W!RowProducts(r, Q)))
        = W!Exactly(W!RowProducts(r, S \cup Q))
  BY <1>4, RowAdded
<1> QED
  BY <1>1, <1>2, <1>3, <1>5 DEF RowSum

\* A number is halved without a rest until it is one when every divisor of it above
\* one is even.
Halving(n) ==
    \A d \in 2 .. n : (\E q \in 1 .. n : n = d * q) => d % 2 = 0

IsFactor(s, w) == \E q \in 1 .. w : w = s * q

LEMMA EvenHalf ==
    ASSUME NEW w \in Nat \ {0}, Halving(w), NEW s \in Nat \ {0}, IsFactor(s, w)
    PROVE  s = 1 \/ (s = 2 * (s \div 2) /\ s \div 2 \in Nat \ {0} /\ IsFactor(s \div 2, w))
<1>2. PICK q \in 1 .. w : w = s * q
  BY DEF IsFactor
<1>3. s <= w
  <2>1. s * 1 <= s * q /\ s * 1 = s
    BY <1>2, MulMonotone
  <2> DEFINE m == s * q
  <2>2. m = w
    BY <1>2
  <2> HIDE DEF m
  <2> QED
    BY <2>1, <2>2 DEF m
<1>4. ASSUME s # 1 PROVE s % 2 = 0
  <2>1. s \in 2 .. w /\ w = s * q /\ q \in 1 .. w
    BY <1>2, <1>3, <1>4
  <2> QED
    BY <2>1 DEF Halving
<1>5. ASSUME s # 1
      PROVE  s = 2 * (s \div 2) /\ s \div 2 \in Nat \ {0} /\ IsFactor(s \div 2, w)
  <2>1. PICK h \in Nat : h = s \div 2 /\ s = 2 * h
    BY <1>4, <1>5, DivMod
  <2>2. h # 0
    BY <2>1
  <2>3. w = h * (2 * q) /\ 2 * q \in Nat
    BY <1>2, <2>1
  <2>4. 2 * q \in 1 .. w
    <3> DEFINE z == 2 * q
    <3>1. 1 * z <= h * z /\ h \in Nat \ {0} /\ z \in Nat \ {0}
      <4>1. z \in Nat \ {0} /\ 1 <= h
        BY <1>2, <2>1, <2>2
      <4> HIDE DEF z
      <4>2. z * 1 <= z * h
        BY <4>1, <2>1, MulMonotone
      <4> QED
        BY <2>1, <2>2, <4>1, <4>2
    <3> DEFINE m == h * z
    <3>2. m = w
      BY <2>3
    <3> HIDE DEF z
    <3>3. 1 * z = z
      BY <3>1
    <3> HIDE DEF m
    <3> QED
      BY <3>1, <3>2, <3>3 DEF m, z
  <2> QED
    BY <2>1, <2>2, <2>3, <2>4 DEF IsFactor
<1> QED
  BY <1>5

\* The places of a row that have sums when the variable of the tree is o.
RowWidth(o) == IF o = 0 THEN 1 ELSE 2 * o
RowSplits(o) == o = 0 \/ IsFactor(o, launch.localSz)

\* The variable of the tree at its start, and behind a level.
LEMMA RowFirstSplit ==
    ASSUME launch \in RowLaunches, Halving(launch.localSz)
    PROVE  /\ launch.localSz \div 2 \in Nat /\ RowSplits(launch.localSz \div 2)
           /\ RowWidth(launch.localSz \div 2) = launch.localSz
<1>1. PICK w \in Nat \ {0} : w = launch.localSz
  BY RowNumbers
<1>2. IsFactor(w, w)
  <2>1. w = w * 1 /\ 1 \in 1 .. w
    OBVIOUS
  <2> QED
    BY <2>1 DEF IsFactor
<1>3. CASE w = 1
  <2>1. 1 \div 2 = 0
    OBVIOUS
  <2> QED
    BY <1>1, <1>3, <2>1 DEF RowSplits, RowWidth
<1>4. CASE w # 1
  <2>1. w = 2 * (w \div 2) /\ w \div 2 \in Nat \ {0} /\ IsFactor(w \div 2, w)
    BY <1>1, <1>2, <1>4, EvenHalf
  <2> QED
    BY <1>1, <2>1 DEF RowSplits, RowWidth
<1> QED
  BY <1>3, <1>4

LEMMA RowNextSplit ==
    ASSUME launch \in RowLaunches, Halving(launch.localSz),
           NEW d \in Nat \ {0}, RowSplits(d)
    PROVE  d \div 2 \in Nat /\ RowSplits(d \div 2) /\ RowWidth(d \div 2) = d
<1>1. PICK w \in Nat \ {0} : w = launch.localSz
  BY RowNumbers
<1>2. IsFactor(d, w)
  BY <1>1 DEF RowSplits
<1>3. CASE d = 1
  <2>1. 1 \div 2 = 0
    OBVIOUS
  <2> QED
    BY <1>3, <2>1 DEF RowSplits, RowWidth
<1>4. CASE d # 1
  <2>1. d = 2 * (d \div 2) /\ d \div 2 \in Nat \ {0} /\ IsFactor(d \div 2, w)
    BY <1>1, <1>2, <1>4, EvenHalf
  <2> QED
    BY <1>1, <2>1 DEF RowSplits, RowWidth
<1> QED
  BY <1>3, <1>4

\* Where an item may be, with p and o in the variables of its loops and before the
\* step l.
RowAt(p, o, l) ==
    /\ \E n \in Nat : p = RowFirst + n * W!ShrSz
    /\ p > RowFirst => p - W!ShrSz < RowLast
    /\ l = "tree" => p < RowLast /\ RowSplits(o)
    /\ l # "tree" => o = 0
    /\ W!Skipped(launch.group) => p = RowFirst /\ l \in {"zero", "done"}
    /\ ~W!Skipped(launch.group) => l # "zero" /\ (l = "done" => p >= RowLast)

\* The sums that item u has in the cells of local memory: its cell of a row keeps
\* the last one that it has stored.
RowBlockOf(p, l) == IF l = "tree" THEN p ELSE p - W!ShrSz
RowCellOf(x, u) == x * launch.localSz + u
RowHeld(u, p, o, l, cells) ==
    l = "tree" \/ p > RowFirst =>
       \A x \in 0 .. W!ShrSz - 1 :
          RowBlockOf(p, l) + x < RowLast =>
             /\ u < RowWidth(o) =>
                   cells[RowCellOf(x, u)] = RowSum(RowBlockOf(p, l) + x, RowWidth(o), u)
             /\ u \in RowWidth(o) .. 2 * RowWidth(o) - 1 =>
                   cells[RowCellOf(x, u)]
                     = RowSum(RowBlockOf(p, l) + x, 2 * RowWidth(o), u)

\* What item 0 has written.
RowTo(p, l) ==
    IF W!Skipped(launch.group) /\ l # "done" THEN RowFirst
    ELSE IF W!Skipped(launch.group) \/ p > RowLast THEN RowLast
    ELSE p
RowWritten(p, l, o) ==
    o = [a \in (RowFirst .. RowTo(p, l) - 1) \X {RowOut} |->
            W!Exactly(W!RowProducts(a[1], RowCols))]

RowData ==
    /\ \A u \in W!Item : RowAt(pos[u], offset[u], pc[u])
    /\ \A u \in W!Item : RowHeld(u, pos[u], offset[u], pc[u], scratch)
    /\ RowWritten(pos[0], pc[0], out)

\* A cell of a block's rows.
LEMMA RowCells ==
    ASSUME RowInv, NEW i \in W!Item, NEW u \in W!Item, NEW x \in 0 .. W!ShrSz - 1
    PROVE  /\ RowCellOf(x, u) \in DOMAIN scratch
           /\ RowCellOf(x, u) \in W!OwnCells(i) => u = i
<1>1. launch \in RowLaunches
  BY DEF RowInv
<1>2. PICK s \in Nat \ {0}, S \in Nat, m \in Nat :
         s = launch.localSz /\ S = W!ShrSz /\ m = launch.localMemory /\ s * S <= m
  BY <1>1, RowNumbers, RowShare
<1>3. u \in 0 .. s - 1 /\ x \in 0 .. S - 1 /\ x \in Nat /\ u \in Nat /\ i \in 0 .. s - 1
  BY <1>2 DEF W!Item
<1>4. RowCellOf(x, u) = s * x + u
  <2>1. x * s = s * x
    BY <1>3
  <2> QED
    BY <1>2, <2>1 DEF RowCellOf
<1>5. s * x + u \in 0 .. m - 1
  <2>1. s * (x + 1) <= s * S /\ s * (x + 1) = s * x + s
    BY <1>3, MulMonotone
  <2>2. PICK y \in Nat : y = s * x
    BY <1>3
  <2>3. PICK z \in Nat : z = s * S
    OBVIOUS
  <2> QED
    BY <1>2, <1>3, <2>1, <2>2, <2>3
<1>6. ASSUME RowCellOf(x, u) \in W!OwnCells(i) PROVE u = i
  <2>1. \E y \in Nat : RowCellOf(x, u) = launch.localSz * y + i
    BY <1>6, RowOwn
  <2>2. \E y \in Nat : RowCellOf(x, u) = launch.localSz * y + u
    BY <1>2, <1>3, <1>4
  <2> QED
    BY <1>2, <1>3, <2>1, <2>2, RowApart
<1> QED
  BY <1>2, <1>4, <1>5, <1>6 DEF RowInv

\* An item that may add finds the sums of the level before in local memory.
LEMMA RowHolds ==
    ASSUME RowInv, RowData, Halving(launch.localSz), NEW i \in W!Item, W!Runs(i),
           pc[i] = "tree", i < offset[i], NEW x \in W!Rows(i)
    PROVE  /\ x \in 0 .. W!ShrSz - 1
           /\ scratch[RowCellOf(x, i)] = RowSum(pos[i] + x, 2 * offset[i], i)
           /\ scratch[RowCellOf(x, i) + offset[i]]
                = RowSum(pos[i] + x, 2 * offset[i], i + offset[i])
<1>1. /\ launch \in RowLaunches /\ pos \in [W!Item -> Int] /\ offset \in [W!Item -> Nat]
      /\ pc \in [W!Item -> RowPlaces]
      /\ \A u \in W!Item : 2 * offset[u] <= launch.localSz
      /\ InStep(W!Item, barriers, waiting, RowPhase, RowNext)
  BY DEF RowInv
<1>2. PICK f \in Nat, last \in Int, S \in Nat, s \in Nat \ {0}, p \in Int :
          /\ f = RowFirst /\ last = RowLast
          /\ S = W!ShrSz /\ s = launch.localSz /\ p = pos[i]
  BY <1>1, RowNumbers
<1>3. PICK d \in Nat \ {0} : d = offset[i] /\ i < d /\ 2 * d <= s /\ i \in 0 .. s - 1
  <2>1. i \in 0 .. s - 1
    BY <1>2 DEF W!Item
  <2> QED
    BY <1>1, <1>2, <2>1
<1>4. x \in 0 .. S - 1 /\ x \in Nat /\ p + x < last /\ S > 0
  <2>1. W!BlqSz(i) = IF S <= last - p THEN S ELSE last - p
    BY <1>2, RowMin DEF W!BlqSz, RowLast
  <2> QED
    BY <1>2, <2>1 DEF W!Rows
<1>5. PICK u \in W!Item : u = i + d
  BY <1>2, <1>3 DEF W!Item
<1>6. /\ RowAt(p, d, "tree") /\ RowHeld(i, p, d, "tree", scratch)
      /\ RowAt(pos[u], offset[u], pc[u]) /\ RowHeld(u, pos[u], offset[u], pc[u], scratch)
  BY <1>2, <1>3 DEF RowData
<1>7. scratch[RowCellOf(x, i)] = RowSum(p + x, 2 * d, i)
  <2>1. RowWidth(d) = 2 * d /\ i < 2 * d
    BY <1>3 DEF RowWidth
  <2> QED
    BY <1>2, <1>4, <1>6, <2>1 DEF RowHeld, RowBlockOf
<1>8. RowPhase[i] = <<"tree", p, d>>
  BY <1>2, <1>3 DEF RowPhase
<1>9. \/ RowPhase[u] = <<"tree", p, d>>
      \/ RowPhase[u] = RowThen(p, d \div 2)
  <2>1. \/ RowPhase[u] = RowPhase[i]
        \/ RowPhase[i] \in DOMAIN RowNext /\ RowPhase[u] = RowNext[RowPhase[i]]
    BY <1>1, RowFree, AtBarrier
  <2>2. RowPhase[i] \in DOMAIN RowNext => RowNext[RowPhase[i]] = RowThen(p, d \div 2)
    BY <1>8 DEF RowNext
  <2> QED
    BY <1>8, <2>1, <2>2
<1>10. d \div 2 \in Nat /\ RowWidth(d \div 2) = d
  BY <1>1, <1>6, RowNextSplit DEF RowAt
<1>11. /\ pc[u] = "tree" \/ pos[u] > f
       /\ RowBlockOf(pos[u], pc[u]) = p
       /\ RowWidth(offset[u]) = 2 * d \/ RowWidth(offset[u]) = d
  <2>1. CASE RowPhase[u] = <<"tree", p, d>>
    <3>1. pc[u] = "tree" /\ pos[u] = p /\ offset[u] = d
      BY <1>1, <2>1 DEF RowPhase
    <3> QED
      BY <1>3, <3>1 DEF RowBlockOf, RowWidth
  <2>2. CASE RowPhase[u] = RowThen(p, d \div 2) /\ d \div 2 > 0
    <3>1. RowPhase[u] = <<"tree", p, d \div 2>>
      BY <2>2 DEF RowThen
    <3>2. pc[u] = "tree" /\ pos[u] = p /\ offset[u] = d \div 2
      BY <1>1, <3>1 DEF RowPhase
    <3> QED
      BY <1>10, <3>2 DEF RowBlockOf
  <2>3. CASE RowPhase[u] = RowThen(p, d \div 2) /\ ~(d \div 2 > 0)
    <3>1. RowPhase[u] = <<"block", p + S, 0>> /\ d \div 2 = 0
      BY <1>2, <1>10, <2>3 DEF RowThen
    <3>2. CASE pc[u] = "tree"
      <4>1. offset[u] = 0 /\ pos[u] + S = p + S
        BY <1>1, <1>2, <3>1, <3>2 DEF RowPhase
      <4>2. pos[u] = p
        BY <1>1, <4>1
      <4> QED
        BY <1>10, <3>1, <3>2, <4>1, <4>2 DEF RowBlockOf
    <3>3. CASE pc[u] # "tree"
      <4>1. offset[u] = 0 /\ pos[u] = p + S
        BY <1>1, <1>6, <3>1, <3>3 DEF RowPhase, RowAt
      <4>2. p >= f
        <5>1. PICK n \in Nat : p = f + n * S
          BY <1>2, <1>6 DEF RowAt
        <5>2. PICK y \in Nat : y = n * S
          OBVIOUS
        <5> QED
          BY <5>1, <5>2
      <4>3. pos[u] > f /\ pos[u] - S = p
        BY <1>4, <4>1, <4>2
      <4> QED
        BY <1>2, <1>10, <3>1, <3>3, <4>1, <4>3 DEF RowBlockOf
    <3> QED
      BY <3>2, <3>3
  <2> QED
    BY <1>9, <2>1, <2>2, <2>3
<1>12. scratch[RowCellOf(x, u)] = RowSum(p + x, 2 * d, u)
  <2>1. u < 2 * d /\ u \in d .. 2 * d - 1
    BY <1>3, <1>5
  <2>2. CASE RowWidth(offset[u]) = 2 * d
    BY <1>2, <1>4, <1>6, <1>11, <2>1, <2>2 DEF RowHeld
  <2>3. CASE RowWidth(offset[u]) = d
    BY <1>2, <1>4, <1>6, <1>11, <2>1, <2>3 DEF RowHeld
  <2> QED
    BY <1>11, <2>2, <2>3
<1>13. RowCellOf(x, u) = RowCellOf(x, i) + d
  <2>1. PICK y \in Nat : y = x * s
    BY <1>4
  <2> QED
    BY <1>2, <1>3, <1>5, <2>1 DEF RowCellOf
<1> QED
  BY <1>2, <1>3, <1>4, <1>5, <1>7, <1>12, <1>13

\* What depends on the launch only.
LEMMA RowShape ==
    ASSUME launch' = launch
    PROVE  /\ RowFirst' = RowFirst /\ RowLast' = RowLast /\ W!ShrSz' = W!ShrSz
           /\ W!Item' = W!Item /\ RowCols' = RowCols /\ RowOut' = RowOut
           /\ W!Skipped(launch.group)' = W!Skipped(launch.group)
           /\ \A x, u : RowCellOf(x, u)' = RowCellOf(x, u)
           /\ \A o : RowSplits(o)' = RowSplits(o)
           /\ \A r, S : W!RowProducts(r, S)' = W!RowProducts(r, S)
           /\ \A r, m, c : RowSum(r, m, c)' = RowSum(r, m, c)
<1>1. /\ RowLast' = RowLast /\ W!ShrSz' = W!ShrSz /\ W!Item' = W!Item
  BY RowSame
<1>2. /\ RowFirst' = RowFirst /\ RowCols' = RowCols /\ RowOut' = RowOut
      /\ W!Skipped(launch.group)' = W!Skipped(launch.group)
  BY DEF RowFirst, RowCols, RowOut, W!FrsRow, W!LstRow, W!FirstCol, W!DimWFC, W!IdWFR,
         W!IdWFC, W!RowSz, W!Skipped, W!NotDiag
<1>3. \A r, S : W!RowProducts(r, S)' = W!RowProducts(r, S)
  BY DEF W!RowProducts, W!InTriangle, W!Strict, W!UnitTerm
<1>4. \A r, m, c : RowSum(r, m, c)' = RowSum(r, m, c)
  BY <1>2, <1>3 DEF RowSum, RowLane
<1>5. \A x, u : RowCellOf(x, u)' = RowCellOf(x, u)
  BY DEF RowCellOf
<1>6. \A o : RowSplits(o)' = RowSplits(o)
  BY DEF RowSplits
<1> QED
  BY <1>1, <1>2, <1>3, <1>4, <1>5, <1>6

\* RowData holds after a step when it holds of the new values.
LEMMA RowDataAfter ==
    ASSUME launch' = launch,
           \A u \in W!Item : RowAt(pos'[u], offset'[u], pc'[u]),
           \A u \in W!Item : RowHeld(u, pos'[u], offset'[u], pc'[u], scratch'),
           RowWritten(pos'[0], pc'[0], out')
    PROVE  RowData'
<1>1. /\ RowFirst' = RowFirst /\ RowLast' = RowLast /\ W!ShrSz' = W!ShrSz
      /\ W!Item' = W!Item /\ RowCols' = RowCols /\ RowOut' = RowOut
      /\ W!Skipped(launch.group)' = W!Skipped(launch.group)
      /\ \A x, u : RowCellOf(x, u)' = RowCellOf(x, u)
      /\ \A o : RowSplits(o)' = RowSplits(o)
      /\ \A r, S : W!RowProducts(r, S)' = W!RowProducts(r, S)
      /\ \A r, m, c : RowSum(r, m, c)' = RowSum(r, m, c)
  BY RowShape
<1>3. \A u \in W!Item : RowAt(pos[u], offset[u], pc[u])'
  BY <1>1 DEF RowAt
<1>4. \A u \in W!Item : RowHeld(u, pos[u], offset[u], pc[u], scratch)'
  BY <1>1 DEF RowHeld, RowBlockOf
<1>6. RowWritten(pos[0], pc[0], out)'
  <2>1. RowTo(pos'[0], pc'[0]) = RowTo(pos[0], pc[0])'
    BY <1>1 DEF RowTo
  <2>2. \A a : W!Exactly(W!RowProducts(a[1], RowCols))'
                 = W!Exactly(W!RowProducts(a[1], RowCols))
    BY <1>1
  <2> QED
    BY <1>1, <2>1, <2>2 DEF RowWritten
<1> QED
  BY <1>1, <1>3, <1>4, <1>6 DEF RowData

LEMMA RowDataStart == W!Init => RowData
<1> SUFFICES ASSUME W!Init PROVE RowData
  OBVIOUS
<1> DEFINE l == IF W!Skipped(launch.group) THEN "zero" ELSE "block"
<1>1. /\ launch \in RowLaunches
      /\ pc = [i \in W!Item |-> l] /\ pos = [i \in W!Item |-> RowFirst]
      /\ offset = [i \in W!Item |-> 0]
      /\ out = [a \in {} |-> W!Nothing]
  BY DEF W!Init, W!Start, RowFirst
<1>2. /\ RowFirst \in Nat /\ RowLast \in Int /\ W!ShrSz \in Nat
      /\ launch.localSz \in Nat \ {0}
  BY <1>1, RowNumbers
<1>3. RowAt(RowFirst, 0, l)
  <2>1. RowFirst = RowFirst + 0 * W!ShrSz
    BY <1>2
  <2>2. \E n \in Nat : RowFirst = RowFirst + n * W!ShrSz
    BY <2>1
  <2> QED
    BY <1>2, <2>2 DEF RowAt
<1>4. ASSUME NEW u PROVE RowHeld(u, RowFirst, 0, l, scratch)
  BY <1>2 DEF RowHeld
<1>5. 0 \in W!Item
  BY <1>2 DEF W!Item
<1>6. RowWritten(RowFirst, l, out)
  <2>1. RowFirst .. RowTo(RowFirst, l) - 1 = {}
    BY <1>2 DEF RowTo
  <2>2. (RowFirst .. RowTo(RowFirst, l) - 1) \X {RowOut} = {}
    BY <2>1
  <2> QED
    BY <1>1, <2>2 DEF RowWritten
<1> QED
  BY <1>1, <1>3, <1>4, <1>5, <1>6 DEF RowData

\* A step of item i that writes its own cells of the block, if any, and of which
\* only item 0 may write in the output.
RowWalk(i) ==
    /\ launch' = launch
    /\ \A u \in W!Item \ {i} :
          /\ pc'[u] = pc[u] /\ pos'[u] = pos[u] /\ offset'[u] = offset[u]
          /\ \A x \in 0 .. W!ShrSz - 1 : scratch'[RowCellOf(x, u)] = scratch[RowCellOf(x, u)]
    /\ RowAt(pos'[i], offset'[i], pc'[i])
    /\ RowHeld(i, pos'[i], offset'[i], pc'[i], scratch')
    /\ IF i = 0 THEN RowWritten(pos'[0], pc'[0], out') ELSE out' = out

LEMMA RowWalks == ASSUME RowInv, RowData, NEW i \in W!Item, RowWalk(i) PROVE RowData'
<1>1. \A u \in W!Item : RowAt(pos'[u], offset'[u], pc'[u])
  BY DEF RowWalk, RowData
<1>2. ASSUME NEW u \in W!Item PROVE RowHeld(u, pos'[u], offset'[u], pc'[u], scratch')
  <2>1. CASE u = i
    BY <2>1 DEF RowWalk
  <2>2. CASE u # i
    <3>1. /\ pc'[u] = pc[u] /\ pos'[u] = pos[u] /\ offset'[u] = offset[u]
          /\ \A x \in 0 .. W!ShrSz - 1 :
                scratch'[RowCellOf(x, u)] = scratch[RowCellOf(x, u)]
      BY <2>2 DEF RowWalk
    <3>2. RowHeld(u, pos[u], offset[u], pc[u], scratch)
      BY DEF RowData
    <3> QED
      BY <3>1, <3>2 DEF RowHeld
  <2> QED
    BY <2>1, <2>2
<1>3. RowWritten(pos'[0], pc'[0], out')
  <2>1. 0 \in W!Item
    BY RowNumbers DEF RowInv, W!Item
  <2>2. CASE i = 0
    BY <2>2 DEF RowWalk
  <2>3. CASE i # 0
    BY <2>1, <2>3 DEF RowWalk, RowData
  <2> QED
    BY <2>2, <2>3
<1> QED
  BY <1>1, <1>2, <1>3, RowDataAfter DEF RowWalk

\* What a write to an item's cells of the block leaves in local memory.
LEMMA RowStores ==
    ASSUME RowInv, NEW i \in W!Item, NEW f, DOMAIN f = W!OwnCells(i)
    PROVE  /\ \A u \in W!Item \ {i} : \A x \in 0 .. W!ShrSz - 1 :
                 W!Over(f, scratch)[RowCellOf(x, u)] = scratch[RowCellOf(x, u)]
           /\ \A a \in W!OwnCells(i) : W!Over(f, scratch)[a] = f[a]
<1>1. \A a \in DOMAIN scratch :
         W!Over(f, scratch)[a] = IF a \in DOMAIN f THEN f[a] ELSE scratch[a]
  BY DEF W!Over
<1>2. \A a \in W!OwnCells(i) : a \in DOMAIN scratch
  BY RowOwn
<1> QED
  BY <1>1, <1>2, RowCells

\* The rows of the block that an item is at.
LEMMA RowRows ==
    ASSUME RowInv, NEW i \in W!Item
    PROVE  /\ \A x : x \in W!Rows(i)
                       <=> x \in 0 .. W!ShrSz - 1 /\ pos[i] + x < RowLast
           /\ \A x \in W!Rows(i) : RowCellOf(x, i) \in W!OwnCells(i)
<1>1. PICK last \in Int, S \in Nat, p \in Int :
          last = RowLast /\ S = W!ShrSz /\ p = pos[i]
  BY RowNumbers DEF RowInv
<1>2. W!BlqSz(i) = IF S <= last - p THEN S ELSE last - p
  BY <1>1, RowMin DEF W!BlqSz, RowLast
<1>3. \A x : x \in W!Rows(i) <=> x \in 0 .. W!ShrSz - 1 /\ pos[i] + x < RowLast
  BY <1>1, <1>2 DEF W!Rows
<1>4. \A x \in W!Rows(i) : RowCellOf(x, i) \in W!OwnCells(i)
  BY DEF RowCellOf, W!OwnCells
<1> QED
  BY <1>3, <1>4

LEMMA RowDataFill ==
    ASSUME RowInv, RowData, Halving(launch.localSz), NEW i \in W!Item, W!Fill(i)
    PROVE  RowData'
<1> DEFINE d == launch.localSz \div 2
           g == [a \in {row * launch.localSz + i : row \in W!Rows(i)} |->
                   W!RowSums(i)[a \div launch.localSz]]
<1>1. /\ W!At(i, "block") /\ pos[i] < W!LstRow(launch.group)
      /\ scratch' = W!Over(g, scratch)
      /\ offset' = [offset EXCEPT ![i] = d]
      /\ W!BarrierThen(i, "tree") /\ launch' = launch /\ pos' = pos /\ out' = out
  BY DEF W!Fill
<1>2. pc[i] = "block" /\ pos[i] < RowLast /\ pc' = [pc EXCEPT ![i] = "tree"]
  BY <1>1 DEF W!At, W!BarrierThen, RowLast
<1>3. /\ pc \in [W!Item -> RowPlaces] /\ pos \in [W!Item -> Int]
      /\ offset \in [W!Item -> Nat] /\ launch \in RowLaunches
      /\ i \in 0 .. launch.localSz - 1
  BY DEF RowInv, W!Item
<1>4. pc'[i] = "tree" /\ offset'[i] = d /\ pos'[i] = pos[i]
      /\ \A u \in W!Item \ {i} : pc'[u] = pc[u] /\ offset'[u] = offset[u] /\ pos'[u] = pos[u]
  BY <1>1, <1>2, <1>3
<1>5. d \in Nat /\ RowSplits(d) /\ RowWidth(d) = launch.localSz
  BY <1>3, RowFirstSplit
<1>6. DOMAIN g = W!OwnCells(i)
  BY DEF W!OwnCells
<1>7. PICK s \in Nat \ {0} : s = launch.localSz /\ i \in 0 .. s - 1
  BY <1>3, RowNumbers
<1>8. \A x \in W!Rows(i) : g[RowCellOf(x, i)] = RowSum(pos[i] + x, s, i)
  <2> SUFFICES ASSUME NEW x \in W!Rows(i) PROVE g[RowCellOf(x, i)] = RowSum(pos[i] + x, s, i)
    OBVIOUS
  <2>1. PICK y \in Nat : y = x
    BY RowRows
  <2>2. PICK a \in Nat : a = RowCellOf(x, i) /\ a = y * s + i /\ a = s * y + i
    <3>1. y * s + i \in Nat /\ y * s = s * y
      BY <1>7
    <3> QED
      BY <1>7, <2>1, <3>1 DEF RowCellOf
  <2>3. a \div s = y
    BY <1>7, <2>2, DivModUnique
  <2>4. a \in W!OwnCells(i)
    BY <2>2, RowRows
  <2>5. g[a] = W!RowSums(i)[x]
    BY <1>7, <2>1, <2>3, <2>4 DEF W!OwnCells
  <2>6. W!RowSums(i)[x] = W!Exactly(W!RowProducts(pos[i] + x, W!ColumnsOf(i)))
    BY DEF W!RowSums
  <2>7. W!ColumnsOf(i) = RowLane(s, i)
    BY <1>3, <1>7, RowColumnsOf DEF RowLane
  <2> HIDE DEF g
  <2> QED
    BY <2>2, <2>5, <2>6, <2>7 DEF RowSum
<1> HIDE DEF g, d
<1>9. /\ \A u \in W!Item \ {i} : \A x \in 0 .. W!ShrSz - 1 :
            scratch'[RowCellOf(x, u)] = scratch[RowCellOf(x, u)]
      /\ \A a \in W!OwnCells(i) : scratch'[a] = g[a]
  BY <1>1, <1>6, RowStores
<1>10. RowHeld(i, pos[i], d, "tree", scratch')
  <2>1. ASSUME NEW x \in 0 .. W!ShrSz - 1, pos[i] + x < RowLast
        PROVE  scratch'[RowCellOf(x, i)] = RowSum(pos[i] + x, s, i)
    BY <1>8, <1>9, <2>1, RowRows
  <2>2. ~(i \in s .. 2 * s - 1)
    BY <1>7
  <2> QED
    BY <1>5, <1>7, <2>1, <2>2 DEF RowHeld, RowBlockOf
<1>11. RowAt(pos[i], offset[i], "block") /\ RowAt(pos[i], d, "tree")
  <2>1. RowAt(pos[i], offset[i], "block")
    BY <1>2 DEF RowData
  <2> QED
    BY <1>2, <1>5, <2>1 DEF RowAt
<1>12. IF i = 0 THEN RowWritten(pos'[0], pc'[0], out') ELSE out' = out
  BY <1>1, <1>2, <1>4 DEF RowData, RowTo, RowWritten
<1> QED
  BY <1>1, <1>2, <1>4, <1>9, <1>10, <1>11, <1>12, RowWalks DEF RowWalk

LEMMA RowDataLevel ==
    ASSUME RowInv, RowData, Halving(launch.localSz), NEW i \in W!Item, W!Level(i)
    PROVE  RowData'
<1>1. /\ W!Runs(i) /\ pc[i] = "tree" /\ offset[i] > 0
      /\ pc' = [pc EXCEPT ![i] = "tree"]
      /\ offset' = [offset EXCEPT ![i] = offset[i] \div 2]
      /\ launch' = launch /\ pos' = pos /\ out' = out
  BY DEF W!Level, W!At, W!BarrierThen
<1>2. /\ pc \in [W!Item -> RowPlaces] /\ pos \in [W!Item -> Int]
      /\ offset \in [W!Item -> Nat] /\ launch \in RowLaunches
      /\ i \in 0 .. launch.localSz - 1
  BY DEF RowInv, W!Item
<1>3. PICK d \in Nat \ {0} : d = offset[i]
  BY <1>1, <1>2
<1>4. RowAt(pos[i], d, "tree") /\ RowHeld(i, pos[i], d, "tree", scratch)
  BY <1>1, <1>3 DEF RowData
<1>5. PICK h \in Nat : h = d \div 2 /\ RowSplits(h) /\ RowWidth(h) = d
  BY <1>2, <1>4, RowNextSplit DEF RowAt
<1>6. /\ pc'[i] = "tree" /\ offset'[i] = h /\ pos'[i] = pos[i]
      /\ \A u \in W!Item \ {i} : pc'[u] = pc[u] /\ offset'[u] = offset[u] /\ pos'[u] = pos[u]
  BY <1>1, <1>2, <1>3, <1>5
<1>7. RowAt(pos[i], h, "tree")
  BY <1>4, <1>5 DEF RowAt
<1>8. IF i = 0 THEN RowWritten(pos'[0], pc'[0], out') ELSE out' = out
  BY <1>1, <1>6 DEF RowData, RowTo, RowWritten
<1>9. CASE i >= d
  <2>1. scratch' = scratch
    BY <1>3, <1>9 DEF W!Level
  <2>2. RowHeld(i, pos[i], h, "tree", scratch)
    <3>1. RowWidth(d) = 2 * d
      BY DEF RowWidth
    <3>2. i \in d .. 2 * d - 1 => i < 2 * d
      OBVIOUS
    <3>3. ~(i < d)
      BY <1>2, <1>9
    <3> QED
      BY <1>4, <1>5, <3>1, <3>2, <3>3 DEF RowHeld
  <2> QED
    BY <1>1, <1>6, <1>7, <1>8, <2>1, <2>2, RowWalks DEF RowWalk
<1>10. CASE i < d
  <2> DEFINE g == [a \in {row * launch.localSz + i : row \in W!Rows(i)} |->
                     W!Added(scratch[a], scratch[a + offset[i]])]
  <2>1. scratch' = W!Over(g, scratch)
    BY <1>2, <1>3, <1>10 DEF W!Level
  <2>2. DOMAIN g = W!OwnCells(i)
    BY DEF W!OwnCells
  <2>3. \A x \in W!Rows(i) : g[RowCellOf(x, i)] = RowSum(pos[i] + x, d, i)
    <3> SUFFICES ASSUME NEW x \in W!Rows(i)
                 PROVE  g[RowCellOf(x, i)] = RowSum(pos[i] + x, d, i)
      OBVIOUS
    <3>1. g[RowCellOf(x, i)]
            = W!Added(scratch[RowCellOf(x, i)], scratch[RowCellOf(x, i) + offset[i]])
      BY DEF RowCellOf
    <3>2. /\ scratch[RowCellOf(x, i)] = RowSum(pos[i] + x, 2 * d, i)
          /\ scratch[RowCellOf(x, i) + offset[i]] = RowSum(pos[i] + x, 2 * d, i + d)
      BY <1>1, <1>3, <1>10, RowHolds
    <3>3. i \in 0 .. d - 1
      BY <1>2, <1>10
    <3> HIDE DEF g
    <3> QED
      BY <1>2, <3>1, <3>2, <3>3, RowSumsAdd
  <2> HIDE DEF g
  <2>4. /\ \A u \in W!Item \ {i} : \A x \in 0 .. W!ShrSz - 1 :
              scratch'[RowCellOf(x, u)] = scratch[RowCellOf(x, u)]
        /\ \A a \in W!OwnCells(i) : scratch'[a] = g[a]
    BY <2>1, <2>2, RowStores
  <2>5. RowHeld(i, pos[i], h, "tree", scratch')
    <3>1. ASSUME NEW x \in 0 .. W!ShrSz - 1, pos[i] + x < RowLast
          PROVE  scratch'[RowCellOf(x, i)] = RowSum(pos[i] + x, d, i)
      BY <2>3, <2>4, <3>1, RowRows
    <3>2. ~(i \in d .. 2 * d - 1)
      BY <1>2, <1>10
    <3> QED
      BY <1>5, <3>1, <3>2 DEF RowHeld, RowBlockOf
  <2> QED
    BY <1>1, <1>6, <1>7, <1>8, <2>4, <2>5, RowWalks DEF RowWalk
<1> QED
  BY <1>2, <1>9, <1>10

LEMMA RowDataStore ==
    ASSUME RowInv, RowData, NEW i \in W!Item, W!StoreRows(i)
    PROVE  RowData'
<1>1. /\ pc[i] = "tree" /\ offset[i] = 0
      /\ pc' = [pc EXCEPT ![i] = "block"]
      /\ pos' = [pos EXCEPT ![i] = pos[i] + W!ShrSz]
      /\ launch' = launch /\ offset' = offset /\ scratch' = scratch
  BY DEF W!StoreRows, W!At, W!Goto
<1>2. /\ pc \in [W!Item -> RowPlaces] /\ pos \in [W!Item -> Int]
      /\ launch \in RowLaunches
  BY DEF RowInv
<1>3. PICK p \in Int, S \in Nat, f \in Nat, last \in Int :
          p = pos[i] /\ S = W!ShrSz /\ f = RowFirst /\ last = RowLast
  BY <1>2, RowNumbers
<1>4. /\ pc'[i] = "block" /\ offset'[i] = 0 /\ pos'[i] = p + S
      /\ \A u \in W!Item \ {i} : pc'[u] = pc[u] /\ offset'[u] = offset[u] /\ pos'[u] = pos[u]
  BY <1>1, <1>2, <1>3
<1>5. RowAt(p, 0, "tree") /\ RowHeld(i, p, 0, "tree", scratch)
  BY <1>1, <1>3 DEF RowData
<1>6. PICK n \in Nat : p = f + n * S
  BY <1>3, <1>5 DEF RowAt
<1>7. RowAt(p + S, 0, "block")
  <2>1. p + S = f + (n + 1) * S
    <3>1. (n + 1) * S = n * S + S /\ n * S \in Nat
      OBVIOUS
    <3> QED
      BY <1>6, <3>1
  <2>2. \E m \in Nat : p + S = f + m * S
    <3>1. n + 1 \in Nat
      OBVIOUS
    <3> QED
      BY <2>1, <3>1
  <2>3. p + S - S < last
    BY <1>3, <1>5 DEF RowAt
  <2> QED
    BY <1>3, <1>5, <2>2, <2>3 DEF RowAt
<1>8. RowHeld(i, p + S, 0, "block", scratch)
  <2>1. p + S - S = p
    OBVIOUS
  <2> QED
    BY <1>3, <1>5, <2>1 DEF RowHeld, RowBlockOf
<1>9. IF i = 0 THEN RowWritten(pos'[0], pc'[0], out') ELSE out' = out
  <2>1. CASE i # 0
    BY <2>1 DEF W!StoreRows
  <2>2. CASE i = 0
    <3> DEFINE g == [a \in {<<pos[i] + row, W!IdWFC(launch.group)>> : row \in W!Rows(i)} |->
                       scratch[(a[1] - pos[i]) * launch.localSz]]
               h == [a \in (f .. p - 1) \X {RowOut} |->
                       W!Exactly(W!RowProducts(a[1], RowCols))]
    <3>1. out' = W!Over(g, out)
      BY <2>2 DEF W!StoreRows
    <3>2. f <= p /\ p < last /\ ~W!Skipped(launch.group)
      <4>1. n * S \in Nat
        OBVIOUS
      <4>2. PICK y \in Nat : y = n * S
        BY <4>1
      <4> QED
        BY <1>3, <1>5, <1>6, <4>2 DEF RowAt
    <3>3. RowTo(pos[0], pc[0]) = p
      BY <1>1, <1>3, <2>2, <3>2 DEF RowTo
    <3>4. out = h
      BY <1>3, <2>2, <3>3 DEF RowData, RowWritten
    <3>5. PICK top \in Int : top = (IF p + S > last THEN last ELSE p + S)
      OBVIOUS
    <3>6. RowTo(p + S, "block") = top
      BY <1>3, <3>2, <3>5 DEF RowTo
    <3>7. \A x : x \in W!Rows(i) <=> x \in 0 .. S - 1 /\ p + x < last
      BY <1>3, RowRows
    <3>8. DOMAIN g = (p .. top - 1) \X {RowOut}
      <4>1. ASSUME NEW x \in W!Rows(i) PROVE p + x \in p .. top - 1
        BY <3>5, <3>7
      <4>2. ASSUME NEW r \in p .. top - 1 PROVE r - p \in W!Rows(i) /\ p + (r - p) = r
        BY <3>5, <3>7
      <4>3. {<<pos[i] + row, W!IdWFC(launch.group)>> : row \in W!Rows(i)}
              = (p .. top - 1) \X {RowOut}
        <5>1. ASSUME NEW e, \E row \in W!Rows(i) : e = <<pos[i] + row, W!IdWFC(launch.group)>>
              PROVE  e \in (p .. top - 1) \X {RowOut}
          BY <1>3, <4>1, <5>1 DEF RowOut
        <5>2. ASSUME NEW e \in (p .. top - 1) \X {RowOut}
              PROVE  \E row \in W!Rows(i) : e = <<pos[i] + row, W!IdWFC(launch.group)>>
          <6>1. PICK r \in p .. top - 1 : e = <<r, RowOut>>
            OBVIOUS
          <6> QED
            BY <1>3, <4>2, <6>1 DEF RowOut
        <5> QED
          BY <5>1, <5>2
      <4> QED
        BY <4>3
    <3>9. ASSUME NEW a \in (p .. top - 1) \X {RowOut}
          PROVE  g[a] = W!Exactly(W!RowProducts(a[1], RowCols))
      <4>1. PICK r \in p .. top - 1 : a[1] = r
        OBVIOUS
      <4>2. PICK x \in W!Rows(i) : x = r - p /\ p + x = r /\ x \in 0 .. S - 1 /\ p + x < last
        BY <3>5, <3>7
      <4>3. g[a] = scratch[x * launch.localSz]
        BY <1>3, <3>8, <4>1, <4>2
      <4>4. x * launch.localSz = RowCellOf(x, 0)
        <5>1. x * launch.localSz \in Nat
          BY <1>2, <4>2, RowNumbers
        <5>2. PICK y \in Nat : y = x * launch.localSz
          BY <5>1
        <5> QED
          BY <5>2 DEF RowCellOf
      <4>5. scratch[RowCellOf(x, 0)] = RowSum(r, 1, 0)
        <5>1. RowWidth(0) = 1 /\ 0 < 1
          BY DEF RowWidth
        <5> QED
          BY <1>3, <1>5, <2>2, <4>2, <5>1 DEF RowHeld, RowBlockOf
      <4> HIDE DEF g
      <4> QED
        BY <1>2, <4>1, <4>3, <4>4, <4>5, RowLaneAll DEF RowSum
    <3> HIDE DEF g
    <3>10. out' = [a \in (f .. top - 1) \X {RowOut} |->
                     W!Exactly(W!RowProducts(a[1], RowCols))]
      <4>1. DOMAIN g \cup DOMAIN out = (f .. top - 1) \X {RowOut}
        <5>1. (p .. top - 1) \cup (f .. p - 1) = f .. top - 1
          BY <3>2, <3>5
        <5>2. DOMAIN out = (f .. p - 1) \X {RowOut}
          BY <3>4
        <5> QED
          BY <3>8, <5>1, <5>2
      <4>2. \A a \in DOMAIN out : out[a] = W!Exactly(W!RowProducts(a[1], RowCols))
        BY <3>4
      <4>3. out' = [a \in DOMAIN g \cup DOMAIN out |->
                      IF a \in DOMAIN g THEN g[a] ELSE out[a]]
        BY <3>1 DEF W!Over
      <4>4. \A a \in (f .. top - 1) \X {RowOut} :
               (IF a \in DOMAIN g THEN g[a] ELSE out[a])
                 = W!Exactly(W!RowProducts(a[1], RowCols))
        BY <3>8, <3>9, <4>1, <4>2
      <4> HIDE DEF h
      <4> QED
        BY <4>1, <4>3, <4>4
    <3> QED
      BY <1>3, <1>4, <2>2, <3>6, <3>10 DEF RowWritten
  <2> QED
    BY <2>1, <2>2
<1> QED
  BY <1>1, <1>4, <1>7, <1>8, <1>9, RowWalks DEF RowWalk

\* A group that has nothing to add has no part of the triangle.
LEMMA RowNoTriangle ==
    ASSUME launch \in RowLaunches, W!Skipped(launch.group),
           NEW r \in RowFirst .. RowLast - 1
    PROVE  W!RowProducts(r, RowCols) = {}
<1>1. /\ RowFirst \in Nat /\ RowLast \in Int /\ r \in Nat
  BY RowNumbers
<1>2. PICK b \in Nat, d \in Nat : b = W!FirstCol(launch.group) /\ d = W!DimWFC
  BY RowBand
<1>3. ASSUME NEW c \in RowCols PROVE b <= c /\ c <= b + d - 1 /\ c \in Nat
  <2>1. W!Min({launch.dimC, b + d}) <= b + d /\ W!Min({launch.dimC, b + d}) \in Int
    BY <1>2, RowSizes, RowMin
  <2> QED
    BY <1>2, <2>1 DEF RowCols
<1>4. \/ ~launch.upper /\ b + W!NotDiag > RowLast - 1
      \/ ~launch.lower /\ RowFirst + W!NotDiag > b + d - 1
  BY <1>2 DEF W!Skipped, RowFirst, RowLast
<1>5. W!NotDiag = IF launch.diag THEN 0 ELSE 1
  BY DEF W!NotDiag
<1>6. W!Strict \in {0, 1} /\ W!Strict >= W!NotDiag
  BY DEF W!Strict, W!NotDiag
<1>7. ASSUME NEW c \in RowCols PROVE ~W!InTriangle(r, c)
  BY <1>1, <1>2, <1>3, <1>4, <1>5, <1>6 DEF W!InTriangle
<1>8. ~(launch.diag /\ launch.unit /\ r \in RowCols)
  BY <1>1, <1>2, <1>3, <1>4, <1>5
<1> QED
  BY <1>7, <1>8 DEF W!RowProducts

LEMMA RowDataZeros ==
    ASSUME RowInv, RowData, NEW i \in W!Item, W!WriteZeros(i)
    PROVE  RowData'
<1>1. /\ pc[i] = "zero" /\ pc' = [pc EXCEPT ![i] = "done"]
      /\ launch' = launch /\ pos' = pos /\ offset' = offset /\ scratch' = scratch
  BY DEF W!WriteZeros, W!At, W!Goto
<1>2. /\ pc \in [W!Item -> RowPlaces] /\ launch \in RowLaunches
  BY DEF RowInv
<1>3. pc'[i] = "done" /\ \A u \in W!Item \ {i} : pc'[u] = pc[u]
  BY <1>1, <1>2
<1>4. RowAt(pos[i], offset[i], "zero")
  BY <1>1 DEF RowData
<1>5. W!Skipped(launch.group) /\ pos[i] = RowFirst /\ RowFirst \in Nat /\ RowLast \in Int
  BY <1>2, <1>4, RowNumbers DEF RowAt
<1>6. RowAt(pos[i], offset[i], "done")
  BY <1>4, <1>5 DEF RowAt
<1>7. RowHeld(i, pos[i], offset[i], "done", scratch)
  BY <1>5 DEF RowHeld
<1>8. IF i = 0 THEN RowWritten(pos'[0], pc'[0], out') ELSE out' = out
  <2>1. CASE i # 0
    BY <2>1 DEF W!WriteZeros
  <2>2. CASE i = 0
    <3> DEFINE rows == (RowFirst .. RowLast - 1) \X {RowOut}
               g == [a \in rows |-> W!Nothing]
    <3>1. out' = W!Over(g, out)
      BY <2>2 DEF W!WriteZeros, RowFirst, RowLast, RowOut
    <3>2. DOMAIN out = {}
      <4>1. RowTo(pos[0], pc[0]) = RowFirst
        BY <1>1, <1>5, <2>2 DEF RowTo
      <4>2. DOMAIN out = (RowFirst .. RowFirst - 1) \X {RowOut}
        BY <4>1 DEF RowData, RowWritten
      <4>3. RowFirst .. RowFirst - 1 = {}
        BY <1>5
      <4> QED
        BY <4>2, <4>3
    <3>3. out' = [a \in rows |-> W!Nothing]
      <4>1. DOMAIN g = rows /\ \A a \in rows : g[a] = W!Nothing
        OBVIOUS
      <4> HIDE DEF g, rows
      <4>2. DOMAIN g \cup DOMAIN out = rows
        BY <3>2, <4>1
      <4> QED
        BY <3>1, <4>1, <4>2 DEF W!Over
    <3>4. \A a \in rows : W!Exactly(W!RowProducts(a[1], RowCols)) = W!Nothing
      <4> SUFFICES ASSUME NEW a \in rows
                   PROVE  W!Exactly(W!RowProducts(a[1], RowCols)) = W!Nothing
        OBVIOUS
      <4>1. a[1] \in RowFirst .. RowLast - 1
        OBVIOUS
      <4>2. W!RowProducts(a[1], RowCols) = {}
        BY <1>2, <1>5, <4>1, RowNoTriangle
      <4> QED
        BY <4>2 DEF W!Exactly, W!Nothing
    <3>5. RowTo(pos'[0], pc'[0]) = RowLast
      BY <1>3, <1>5, <2>2 DEF RowTo
    <3> HIDE DEF g
    <3>6. out' = [a \in rows |-> W!Exactly(W!RowProducts(a[1], RowCols))]
      <4> HIDE DEF rows
      <4> QED
        BY <3>3, <3>4
    <3> QED
      BY <2>2, <3>5, <3>6 DEF RowWritten
  <2> QED
    BY <2>1, <2>2
<1> QED
  BY <1>1, <1>3, <1>6, <1>7, <1>8, RowWalks DEF RowWalk

LEMMA RowDataStep ==
    ASSUME RowInv, RowData, Halving(launch.localSz), NEW i \in W!Item, W!Step(i)
    PROVE  RowData'
<1>1. CASE W!Return(i)
  <2>1. /\ pc[i] = "block" /\ pc' = [pc EXCEPT ![i] = "done"] /\ pos[i] >= RowLast
        /\ launch' = launch /\ pos' = pos /\ offset' = offset /\ scratch' = scratch
        /\ out' = out
    BY <1>1 DEF W!Return, W!At, W!Goto, RowLast
  <2>2. /\ pc \in [W!Item -> RowPlaces] /\ launch \in RowLaunches
    BY DEF RowInv
  <2>3. pc'[i] = "done" /\ \A u \in W!Item \ {i} : pc'[u] = pc[u]
    BY <2>1, <2>2
  <2>4. RowAt(pos[i], offset[i], "block") /\ RowHeld(i, pos[i], offset[i], "block", scratch)
    BY <2>1 DEF RowData
  <2>5. RowAt(pos[i], offset[i], "done") /\ ~W!Skipped(launch.group)
    BY <2>1, <2>4 DEF RowAt
  <2>6. RowHeld(i, pos[i], offset[i], "done", scratch)
    BY <2>4 DEF RowHeld, RowBlockOf
  <2>7. IF i = 0 THEN RowWritten(pos'[0], pc'[0], out') ELSE out' = out
    BY <2>1, <2>3, <2>5 DEF RowData, RowTo, RowWritten
  <2> QED
    BY <2>1, <2>3, <2>5, <2>6, <2>7, RowWalks DEF RowWalk
<1> QED
  BY <1>1, RowDataZeros, RowDataFill, RowDataLevel, RowDataStore DEF W!Step

LEMMA RowExact == RowInv /\ RowData => W!BlockExact
<1> SUFFICES ASSUME RowInv, RowData, W!Done PROVE
        out = [a \in (RowFirst .. RowLast - 1) \X {RowOut} |->
                 W!Exactly(W!RowProducts(a[1], RowCols))]
  BY DEF W!BlockExact, W!Share, RowCols, RowOut, RowFirst, RowLast
<1>1. 0 \in W!Item /\ RowFirst \in Nat /\ RowLast \in Int /\ pos[0] \in Int
  BY RowNumbers DEF RowInv, W!Item
<1>2. pc[0] = "done"
  BY <1>1 DEF W!Done
<1>3. RowAt(pos[0], offset[0], "done") /\ RowWritten(pos[0], "done", out)
  BY <1>1, <1>2 DEF RowData
<1>4. RowTo(pos[0], "done") = RowLast
  BY <1>1, <1>3 DEF RowTo, RowAt
<1> QED
  BY <1>3, <1>4 DEF RowWritten

-------------------------------------------------------------------------------
(***************************************************************************)
(* Gemv: what a group writes                                               *)
(***************************************************************************)

\* A group that copies tiles has at least as many items as a cache line elements.
GemvFits == launch.local /\ launch.trans => launch.localSz % launch.clElems = 0

GemvFirst == G!FirstC(launch.group)
GemvEnd ==
    IF ~launch.local \/ G!CDim <= GemvFirst + launch.localSz THEN G!CDim
    ELSE GemvFirst + launch.localSz
GemvColumn == G!CGroup(launch.group) * G!NcDim

\* The products of a row with x, over some of the columns.
GemvPair(r, l) == <<G!FromA(G!Address(launch.trans, r, l, launch.lda)), G!FromB(l)>>
GemvSum(r, L) == G!Exactly({GemvPair(r, l) : l \in L})

LEMMA GemvNumbers ==
    ASSUME launch \in GemvLaunches
    PROVE  /\ launch.localSz \in Nat \ {0} /\ launch.clElems \in Nat \ {0}
           /\ launch.lda \in Nat /\ launch.group \in Nat
           /\ G!NcDim \in Nat \ {0} /\ G!CDim \in Nat \ {0}
           /\ G!NcGroup(launch.group) \in Nat /\ G!CGroup(launch.group) \in Nat
           /\ GemvFirst \in Nat /\ GemvFirst < G!CDim /\ GemvEnd \in Nat
           /\ GemvColumn \in Nat
           /\ \A i \in G!Item : /\ i \in 0 .. launch.localSz - 1
                                /\ G!NcIndex(i) \in Nat
                                /\ G!OutIndex(i) = G!NcIndex(i) + GemvColumn
           /\ ~launch.local => /\ G!NcGroup(launch.group) = launch.group
                               /\ GemvFirst = 0 /\ GemvColumn = 0
                               /\ G!GroupStride \in Nat /\ G!NcDim <= G!GroupStride
<1>1. /\ launch.localSz \in Nat \ {0} /\ launch.clElems \in Nat \ {0}
      /\ launch.lda \in Nat /\ launch.group \in Nat
      /\ G!NcDim \in Nat \ {0} /\ G!CDim \in Nat \ {0}
      /\ launch.wgsPerC = IF launch.local THEN G!DivUp(G!CDim, launch.localSz) ELSE 1
      /\ launch.groupRange = launch.wgsPerC * G!DivUp(G!NcDim, launch.localSz)
  BY GemvSizes, GemvGrids
<1>2. PICK s \in Nat \ {0}, g \in Nat, k \in Nat \ {0}, n \in Nat \ {0} :
          s = launch.localSz /\ g = launch.group /\ k = G!CDim /\ n = G!NcDim
  BY <1>1
<1>3. PICK w \in Nat \ {0} :
          /\ w = launch.wgsPerC
          /\ w = IF launch.local THEN (k - 1) \div s + 1 ELSE 1
  <2>1. (k - 1) \div s + 1 \in Nat \ {0}
    BY RoundedUp
  <2> QED
    BY <1>1, <1>2, <2>1 DEF G!DivUp
<1>4. PICK a \in Nat, b \in 0 .. w - 1 :
          a = G!NcGroup(launch.group) /\ b = G!CGroup(launch.group) /\ a = g \div w
  <2>1. g \div w \in Nat /\ g % w \in 0 .. w - 1
    BY DivMod
  <2>2. g - (g \div w) * w = g % w
    BY Remainder
  <2> QED
    BY <1>2, <1>3, <2>1, <2>2 DEF G!NcGroup, G!CGroup
<1>5. PICK f \in Nat : f = b * s /\ f = GemvFirst
  <2>1. b * s \in Nat
    BY <1>4
  <2> QED
    BY <1>2, <1>4, <2>1 DEF GemvFirst, G!FirstC
<1>6. f < k
  <2>1. CASE launch.local
    <3>1. k - 1 \in Nat
      OBVIOUS
    <3>2. s * ((k - 1) \div s) <= k - 1 /\ (k - 1) \div s \in Nat
      BY <3>1, TimesQuotient, DivMod
    <3>3. b <= (k - 1) \div s
      BY <1>3, <2>1, <3>2
    <3>4. s * b <= s * ((k - 1) \div s)
      BY <3>2, <3>3, MulMonotone
    <3>5. s * b = b * s /\ s * ((k - 1) \div s) \in Nat /\ b * s \in Nat
      BY <3>2
    <3> QED
      BY <1>5, <3>2, <3>4, <3>5
  <2>2. CASE ~launch.local
    <3>1. b = 0 /\ 0 * s = 0
      BY <1>3, <2>2
    <3> QED
      BY <1>5, <3>1
  <2> QED
    BY <2>1, <2>2
<1>7. PICK c \in Nat : c = GemvColumn /\ c = b * n
  <2>1. b * n \in Nat
    BY <1>4
  <2> QED
    BY <1>2, <1>4, <2>1 DEF GemvColumn
<1>8. ASSUME NEW i \in G!Item
      PROVE  /\ i \in 0 .. launch.localSz - 1 /\ G!NcIndex(i) \in Nat
             /\ G!OutIndex(i) = G!NcIndex(i) + GemvColumn
  <2>1. i \in 0 .. s - 1
    BY <1>2 DEF G!Item
  <2>2. a * s \in Nat
    OBVIOUS
  <2>3. i + a * s \in Nat
    BY <2>1, <2>2
  <2>4. G!NcIndex(i) = i + a * s
    BY <1>2, <1>4 DEF G!NcIndex
  <2>5. G!OutIndex(i) = G!NcIndex(i) + GemvColumn
    BY DEF G!OutIndex, GemvColumn
  <2> QED
    BY <1>2, <2>1, <2>3, <2>4, <2>5
<1>9. ASSUME ~launch.local
      PROVE  /\ G!NcGroup(launch.group) = launch.group
             /\ GemvFirst = 0 /\ GemvColumn = 0
             /\ G!GroupStride \in Nat /\ G!NcDim <= G!GroupStride
  <2>1. w = 1 /\ b = 0
    BY <1>3, <1>9
  <2>2. g \div 1 = g /\ 0 * s = 0 /\ 0 * n = 0
    OBVIOUS
  <2>3. PICK h \in Nat \ {0} : h = (n - 1) \div s + 1 /\ n <= s * h
    BY RoundedUp
  <2>4. G!DivUp(n, s) = h
    BY <2>3 DEF G!DivUp
  <2>5. launch.groupRange = h
    BY <1>1, <1>2, <1>3, <2>1, <2>4
  <2>6. G!GroupStride = h * s /\ h * s = s * h /\ s * h \in Nat
    BY <1>2, <2>5 DEF G!GroupStride
  <2> QED
    BY <1>2, <1>4, <1>5, <1>7, <2>1, <2>2, <2>3, <2>6
<1>10. GemvEnd \in Nat
  BY <1>2, <1>5 DEF GemvEnd
<1> QED
  BY <1>1, <1>2, <1>4, <1>5, <1>6, <1>7, <1>8, <1>9, <1>10

\* n products from column o on, of which those from column e on are zero, take the
\* sum of a row on.
GemvFeeds(p, r, o, n, e) ==
    /\ DOMAIN p = 0 .. n - 1
    /\ \A t \in 0 .. n - 1 :
          p[t] = IF t + o < e THEN GemvPair(r, t + o) ELSE <<G!Zero, G!Zero>>

GemvCut(n, e) == IF e <= n THEN e ELSE n

LEMMA GemvMad ==
    ASSUME NEW p, NEW r, NEW f \in Nat, NEW o \in Nat, f <= o, NEW n \in Nat,
           NEW e \in Nat, GemvFeeds(p, r, o, n, e)
    PROVE  G!Mad(p, GemvSum(r, f .. GemvCut(o, e) - 1))
             = GemvSum(r, f .. GemvCut(o + n, e) - 1)
<1> DEFINE live == {t \in DOMAIN p : G!Zero \notin {p[t][1], p[t][2]}
                                     \/ G!Garbage \in {p[t][1], p[t][2]}}
           new == {p[t] : t \in live}
           old == {GemvPair(r, l) : l \in f .. GemvCut(o, e) - 1}
<1>1. ASSUME NEW t \in 0 .. n - 1
      PROVE  t \in live <=> t + o < e
  <2>1. CASE t + o < e
    <3>1. p[t] = GemvPair(r, t + o)
      BY <2>1 DEF GemvFeeds
    <3>2. p[t][1][1] = "A" /\ p[t][2][1] = "B"
      BY <3>1 DEF GemvPair, G!FromA, G!FromB
    <3>3. p[t][1] # G!Zero /\ p[t][2] # G!Zero
      BY <3>2 DEF G!Zero
    <3> QED
      BY <2>1, <3>3 DEF GemvFeeds
  <2>2. CASE ~(t + o < e)
    <3>1. p[t] = <<G!Zero, G!Zero>>
      BY <2>2 DEF GemvFeeds
    <3>2. p[t][1] = G!Zero /\ p[t][2] = G!Zero
      BY <3>1
    <3>3. G!Zero # G!Garbage
      BY DEF G!Zero, G!Garbage
    <3> QED
      BY <2>2, <3>2, <3>3
  <2> QED
    BY <2>1, <2>2
<1>2. ASSUME NEW t \in live
      PROVE  /\ t \in 0 .. n - 1 /\ t + o < e /\ p[t] = GemvPair(r, t + o)
  <2>1. t \in 0 .. n - 1
    BY DEF GemvFeeds
  <2> QED
    BY <1>1, <2>1 DEF GemvFeeds
<1>3. new = {GemvPair(r, l) : l \in o .. GemvCut(o + n, e) - 1}
  <2>1. ASSUME NEW t \in live
        PROVE  t + o \in o .. GemvCut(o + n, e) - 1 /\ p[t] = GemvPair(r, t + o)
    BY <1>2 DEF GemvCut
  <2>2. ASSUME NEW l \in o .. GemvCut(o + n, e) - 1
        PROVE  l - o \in live /\ p[l - o] = GemvPair(r, l)
    <3>1. l - o \in 0 .. n - 1 /\ l - o + o = l /\ l < e
      BY DEF GemvCut
    <3>2. l - o \in live
      BY <1>1, <3>1
    <3> HIDE DEF live
    <3> QED
      BY <1>2, <3>1, <3>2
  <2> HIDE DEF live
  <2> QED
    BY <2>1, <2>2
<1>4. \A l, m : GemvPair(r, l) = GemvPair(r, m) => l = m
  BY DEF GemvPair, G!FromB
<1>5. new \cap old = {}
  <2> SUFFICES ASSUME NEW l \in o .. GemvCut(o + n, e) - 1,
                      NEW m \in f .. GemvCut(o, e) - 1,
                      GemvPair(r, l) = GemvPair(r, m)
               PROVE  FALSE
    BY <1>3
  <2>1. m < o
    BY DEF GemvCut
  <2> QED
    BY <1>4, <2>1
<1>6. \A t, u \in live : t # u => p[t] # p[u]
  <2> SUFFICES ASSUME NEW t \in live, NEW u \in live, p[t] = p[u]
               PROVE  t = u
    OBVIOUS
  <2>1. /\ t \in Nat /\ u \in Nat /\ p[t] = GemvPair(r, t + o) /\ p[u] = GemvPair(r, u + o)
    BY <1>2
  <2> HIDE DEF live
  <2>2. t + o = u + o
    BY <1>4, <2>1
  <2> QED
    BY <2>1, <2>2
<1>7. old \cup new = {GemvPair(r, l) : l \in f .. GemvCut(o + n, e) - 1}
  <2>1. f .. GemvCut(o + n, e) - 1
          = (f .. GemvCut(o, e) - 1) \cup (o .. GemvCut(o + n, e) - 1)
    BY DEF GemvCut
  <2> QED
    BY <1>3, <2>1
<1> HIDE DEF live, new, old
<1>8. G!Mad(p, GemvSum(r, f .. GemvCut(o, e) - 1))
        = [c |-> {}, of |-> old \cup new, once |-> TRUE]
  <2> DEFINE x == GemvSum(r, f .. GemvCut(o, e) - 1)
  <2>1. x = [c |-> {}, of |-> old, once |-> TRUE]
    BY DEF GemvSum, G!Exactly, old
  <2>2. G!Mad(p, x) = [x EXCEPT !.of = @ \cup new,
                                !.once = /\ @
                                         /\ new \cap x.of = {}
                                         /\ \A t, u \in live : t # u => p[t] # p[u]]
    BY DEF G!Mad, live, new
  <2> HIDE DEF x
  <2>3. x.of = old /\ x.once = TRUE
    BY <2>1
  <2>4. G!Mad(p, x) = [[x EXCEPT !.of = old \cup new] EXCEPT !.once = TRUE]
    BY <2>2, <2>3, <1>5, <1>6
  <2>5. G!Mad(p, x) = [c |-> {}, of |-> old \cup new, once |-> TRUE]
    BY <2>1, <2>4
  <2> QED
    BY <2>5 DEF x
<1> QED
  BY <1>7, <1>8 DEF GemvSum, G!Exactly

\* What an item copies of x, and of the tile that starts at column first.
GemvX(u) ==
    IF u + GemvFirst < G!CDim THEN G!FromB(u + GemvFirst) ELSE G!Zero
GemvElement(row, col) ==
    IF col < G!CDim /\ row < G!NcDim THEN G!FromA(col + row * launch.lda) ELSE G!Zero
GemvTileCell(u, t) == TileCell(launch.localSz, launch.clElems, u, t)
GemvTileElement(u, t, k) ==
    GemvElement((u \div launch.clElems) + t * (launch.localSz \div launch.clElems)
                  + G!NcGroup(launch.group) * launch.localSz,
                (u % launch.clElems) + k * launch.clElems + GemvFirst)

\* Where an item may be, with p in the variable of its loop and before the step l.
GemvAt(u, p, l) ==
    IF ~launch.local
    THEN /\ p = 0 \/ (p = G!GroupStride /\ G!NcIndex(u) < G!NcDim)
         /\ l = "done" => p > 0 \/ G!NcIndex(u) >= G!NcDim
    ELSE launch.trans =>
            /\ p <= G!TileLoops
            /\ l = "mad" => p < G!TileLoops
            /\ l = "done" => p = G!TileLoops

\* The part of x and the part of a tile that item u has in local memory: a tile
\* stays there until the next one is copied.
GemvHeldX(u, l, cells) ==
    launch.local /\ l # "load" => cells[u] = GemvX(u)
GemvHeldTile(u, p, l, cells) ==
    launch.local /\ launch.trans =>
       /\ l = "mad" =>
             \A t \in 0 .. launch.clElems - 1 :
                cells[GemvTileCell(u, t)] = GemvTileElement(u, t, p)
       /\ l # "mad" /\ p > 0 =>
             \A t \in 0 .. launch.clElems - 1 :
                cells[GemvTileCell(u, t)] = GemvTileElement(u, t, p - 1)

\* The accumulator of an item whose row exists, after p tiles.
GemvFed(u, p, a) ==
    launch.local /\ launch.trans /\ G!NcIndex(u) < G!NcDim =>
       a = GemvSum(G!NcIndex(u),
                   GemvFirst .. GemvCut(GemvFirst + p * launch.clElems, G!CDim) - 1)

\* The items that have written their row, and what they have written.
GemvEnded(p, l) == IF launch.local THEN l = "done" ELSE p > 0
GemvWriters(ps, ls) ==
    {u \in G!Item : G!NcIndex(u) < G!NcDim /\ GemvEnded(ps[u], ls[u])}
GemvWritten(S, o) ==
    o = [a \in {G!OutIndex(u) : u \in S} |->
            GemvSum(a - GemvColumn, GemvFirst .. GemvEnd - 1)]

GemvData ==
    /\ pos \in [G!Item -> Nat] /\ DOMAIN acc = G!Item
    /\ \A u \in G!Item : GemvAt(u, pos[u], pc[u])
    /\ \A u \in G!Item : GemvHeldX(u, pc[u], scratch)
    /\ \A u \in G!Item : GemvHeldTile(u, pos[u], pc[u], scratch)
    /\ \A u \in G!Item : GemvFed(u, pos[u], acc[u])
    /\ GemvWritten(GemvWriters(pos, pc), out)

\* What depends on the launch only.
LEMMA GemvShape ==
    ASSUME launch' = launch
    PROVE  /\ GemvFirst' = GemvFirst /\ GemvEnd' = GemvEnd /\ GemvColumn' = GemvColumn
           /\ G!CDim' = G!CDim /\ G!NcDim' = G!NcDim /\ G!Item' = G!Item
           /\ G!TileLoops' = G!TileLoops /\ G!GroupStride' = G!GroupStride
           /\ \A u : G!NcIndex(u)' = G!NcIndex(u) /\ G!OutIndex(u)' = G!OutIndex(u)
           /\ \A u : GemvX(u)' = GemvX(u)
           /\ \A u, t : GemvTileCell(u, t)' = GemvTileCell(u, t)
           /\ \A u, t, k : GemvTileElement(u, t, k)' = GemvTileElement(u, t, k)
           /\ \A r, L : GemvSum(r, L)' = GemvSum(r, L)
<1>1. /\ G!CDim' = G!CDim /\ G!NcDim' = G!NcDim /\ G!Item' = G!Item
      /\ G!TileLoops' = G!TileLoops /\ G!GroupStride' = G!GroupStride
      /\ G!NcGroup(launch.group)' = G!NcGroup(launch.group)
      /\ G!CGroup(launch.group)' = G!CGroup(launch.group)
  BY DEF G!CDim, G!NcDim, G!Item, G!TileLoops, G!GroupStride, G!NcGroup, G!CGroup
<1>2. GemvFirst' = GemvFirst
  BY <1>1 DEF GemvFirst, G!FirstC, G!CGroup, G!NcGroup
<1>3. GemvColumn' = GemvColumn
  BY <1>1 DEF GemvColumn
<1>4. GemvEnd' = GemvEnd
  BY <1>1, <1>2 DEF GemvEnd
<1>5. \A u : G!NcIndex(u)' = G!NcIndex(u)
  BY <1>1 DEF G!NcIndex
<1>6. \A u : G!OutIndex(u)' = G!OutIndex(u)
  BY <1>1, <1>5 DEF G!OutIndex
<1>7. \A u : GemvX(u)' = GemvX(u)
  BY <1>1, <1>2 DEF GemvX
<1>8. \A u, t : GemvTileCell(u, t)' = GemvTileCell(u, t)
  BY DEF GemvTileCell
<1>9. \A u, t, k : GemvTileElement(u, t, k)' = GemvTileElement(u, t, k)
  BY <1>1, <1>2 DEF GemvTileElement, GemvElement
<1>10. \A r, L : GemvSum(r, L)' = GemvSum(r, L)
  BY DEF GemvSum, GemvPair
<1> QED
  BY <1>1, <1>2, <1>3, <1>4, <1>5, <1>6, <1>7, <1>8, <1>9, <1>10

\* GemvData holds after a step when it holds of the new values.
LEMMA GemvDataAfter ==
    ASSUME launch' = launch, pos' \in [G!Item -> Nat], DOMAIN acc' = G!Item,
           \A u \in G!Item : GemvAt(u, pos'[u], pc'[u]),
           \A u \in G!Item : GemvHeldX(u, pc'[u], scratch'),
           \A u \in G!Item : GemvHeldTile(u, pos'[u], pc'[u], scratch'),
           \A u \in G!Item : GemvFed(u, pos'[u], acc'[u]),
           GemvWritten(GemvWriters(pos', pc'), out')
    PROVE  GemvData'
<1>1. /\ GemvFirst' = GemvFirst /\ GemvEnd' = GemvEnd /\ GemvColumn' = GemvColumn
      /\ G!CDim' = G!CDim /\ G!NcDim' = G!NcDim /\ G!Item' = G!Item
      /\ G!TileLoops' = G!TileLoops /\ G!GroupStride' = G!GroupStride
      /\ \A u : G!NcIndex(u)' = G!NcIndex(u) /\ G!OutIndex(u)' = G!OutIndex(u)
      /\ \A u : GemvX(u)' = GemvX(u)
      /\ \A u, t : GemvTileCell(u, t)' = GemvTileCell(u, t)
      /\ \A u, t, k : GemvTileElement(u, t, k)' = GemvTileElement(u, t, k)
      /\ \A r, L : GemvSum(r, L)' = GemvSum(r, L)
  BY GemvShape
<1>2. pos' \in [G!Item' -> Nat] /\ DOMAIN acc' = G!Item'
  BY <1>1
<1>3. \A u \in G!Item : GemvAt(u, pos[u], pc[u])'
  BY <1>1 DEF GemvAt
<1>4. \A u \in G!Item : GemvHeldX(u, pc[u], scratch)'
  BY <1>1 DEF GemvHeldX
<1>5. \A u \in G!Item : GemvHeldTile(u, pos[u], pc[u], scratch)'
  BY <1>1 DEF GemvHeldTile
<1>6. \A u \in G!Item : GemvFed(u, pos[u], acc[u])'
  BY <1>1 DEF GemvFed
<1>7. GemvWritten(GemvWriters(pos, pc), out)'
  <2>1. GemvWriters(pos, pc)' = GemvWriters(pos', pc')
    BY <1>1 DEF GemvWriters, GemvEnded
  <2>2. {G!OutIndex(u) : u \in GemvWriters(pos', pc')}
          = {G!OutIndex(u)' : u \in GemvWriters(pos', pc')}
    BY <1>1
  <2>3. \A a : GemvSum(a - GemvColumn, GemvFirst .. GemvEnd - 1)'
                 = GemvSum(a - GemvColumn, GemvFirst .. GemvEnd - 1)
    BY <1>1
  <2> QED
    BY <2>1, <2>2, <2>3 DEF GemvWritten
<1> QED
  BY <1>1, <1>2, <1>3, <1>4, <1>5, <1>6, <1>7 DEF GemvData

LEMMA GemvDataStart == G!Init => GemvData
<1> SUFFICES ASSUME G!Init PROVE GemvData
  OBVIOUS
<1> DEFINE l == IF launch.local THEN "load" ELSE "row"
<1>1. /\ launch \in GemvLaunches
      /\ pc = [i \in G!Item |-> l] /\ pos = [i \in G!Item |-> 0]
      /\ acc = [i \in G!Item |-> G!Nothing]
      /\ out = [a \in {} |-> G!Nothing]
  BY DEF G!Init, G!Start
<1>2. PICK f \in Nat, n \in Nat, s \in Nat \ {0}, c \in Nat \ {0} :
         f = GemvFirst /\ n = G!CDim /\ s = launch.localSz /\ c = launch.clElems
  BY <1>1, GemvNumbers
<1>3. ASSUME NEW u \in G!Item
      PROVE  /\ GemvAt(u, 0, l) /\ GemvHeldX(u, l, scratch)
             /\ GemvHeldTile(u, 0, l, scratch) /\ GemvFed(u, 0, G!Nothing)
  <2>1. s \div c \in Nat
    BY DivMod
  <2>2. GemvAt(u, 0, l)
    BY <1>2, <2>1 DEF GemvAt, G!TileLoops
  <2>3. GemvHeldX(u, l, scratch) /\ GemvHeldTile(u, 0, l, scratch)
    BY DEF GemvHeldX, GemvHeldTile
  <2>4. f .. GemvCut(f + 0 * c, n) - 1 = {}
    BY DEF GemvCut
  <2>5. GemvSum(G!NcIndex(u), {}) = G!Nothing
    BY DEF GemvSum, G!Exactly, G!Nothing
  <2>6. GemvFed(u, 0, G!Nothing)
    BY <1>2, <2>4, <2>5 DEF GemvFed
  <2> QED
    BY <2>2, <2>3, <2>6
<1>4. GemvWriters(pos, pc) = {}
  BY <1>1 DEF GemvWriters, GemvEnded
<1>5. GemvWritten({}, out)
  <2>1. {G!OutIndex(u) : u \in {}} = {}
    OBVIOUS
  <2> QED
    BY <1>1, <2>1 DEF GemvWritten
<1>6. pos \in [G!Item -> Nat] /\ DOMAIN acc = G!Item
  BY <1>1
<1> QED
  BY <1>1, <1>3, <1>4, <1>5, <1>6 DEF GemvData

\* An item writes its row.
LEMMA GemvPuts ==
    ASSUME GemvInv, NEW i \in G!Item, NEW S, S \subseteq G!Item, GemvWritten(S, out)
    PROVE  GemvWritten(S \cup {i},
                       G!Put(G!OutIndex(i),
                             GemvSum(G!NcIndex(i), GemvFirst .. GemvEnd - 1)))
<1> DEFINE a == G!OutIndex(i)
           v == GemvSum(G!NcIndex(i), GemvFirst .. GemvEnd - 1)
           cells == {G!OutIndex(u) : u \in S}
<1>1. launch \in GemvLaunches
  BY DEF GemvInv
<1>2. a - GemvColumn = G!NcIndex(i)
  <2>1. G!NcIndex(i) \in Nat /\ GemvColumn \in Nat /\ a = G!NcIndex(i) + GemvColumn
    BY <1>1, GemvNumbers
  <2> QED
    BY <2>1
<1>3. v = GemvSum(a - GemvColumn, GemvFirst .. GemvEnd - 1)
  BY <1>2
<1>4. {G!OutIndex(u) : u \in S \cup {i}} = {a} \cup cells
  OBVIOUS
<1>5. /\ DOMAIN out = cells
      /\ \A x \in cells : out[x] = GemvSum(x - GemvColumn, GemvFirst .. GemvEnd - 1)
  BY DEF GemvWritten
<1>6. G!Put(a, v) = [x \in {a} \cup cells |-> IF x \in {a} THEN v ELSE out[x]]
  <2> HIDE DEF a, v, cells
  <2> QED
    BY <1>5 DEF G!Put, G!Over
<1> HIDE DEF a, v, cells
<1>7. \A x \in {a} \cup cells :
         (IF x \in {a} THEN v ELSE out[x])
           = GemvSum(x - GemvColumn, GemvFirst .. GemvEnd - 1)
  BY <1>3, <1>5
<1>8. G!Put(a, v) = [x \in {a} \cup cells |->
                       GemvSum(x - GemvColumn, GemvFirst .. GemvEnd - 1)]
  BY <1>6, <1>7
<1> QED
  BY <1>4, <1>8 DEF GemvWritten, a, v

\* A step of item i that writes in local memory only its own cell of x and its own
\* cells of the tile, and in the output at most its row, once.
GemvWalk(i) ==
    /\ launch' = launch /\ pos' \in [G!Item -> Nat] /\ DOMAIN acc' = G!Item
    /\ \A u \in G!Item \ {i} :
          /\ pc'[u] = pc[u] /\ pos'[u] = pos[u] /\ acc'[u] = acc[u]
          /\ launch.local => scratch'[u] = scratch[u]
          /\ launch.local /\ launch.trans =>
                \A t \in 0 .. launch.clElems - 1 :
                   scratch'[GemvTileCell(u, t)] = scratch[GemvTileCell(u, t)]
    /\ GemvAt(i, pos'[i], pc'[i])
    /\ GemvHeldX(i, pc'[i], scratch')
    /\ GemvHeldTile(i, pos'[i], pc'[i], scratch')
    /\ GemvFed(i, pos'[i], acc'[i])
    /\ \/ /\ out' = out
          /\ G!NcIndex(i) < G!NcDim =>
                (GemvEnded(pos'[i], pc'[i]) <=> GemvEnded(pos[i], pc[i]))
       \/ /\ G!NcIndex(i) < G!NcDim /\ GemvEnded(pos'[i], pc'[i])
          /\ out' = G!Put(G!OutIndex(i),
                          GemvSum(G!NcIndex(i), GemvFirst .. GemvEnd - 1))

LEMMA GemvWalks == ASSUME GemvInv, GemvData, NEW i \in G!Item, GemvWalk(i) PROVE GemvData'
<1>1. \A u \in G!Item : GemvAt(u, pos'[u], pc'[u])
  BY DEF GemvWalk, GemvData
<1>2. \A u \in G!Item : GemvHeldX(u, pc'[u], scratch')
  BY DEF GemvWalk, GemvData, GemvHeldX
<1>3. ASSUME NEW u \in G!Item PROVE GemvHeldTile(u, pos'[u], pc'[u], scratch')
  <2>1. CASE u = i
    BY <2>1 DEF GemvWalk
  <2>2. CASE u # i
    <3>1. /\ pc'[u] = pc[u] /\ pos'[u] = pos[u]
          /\ launch.local /\ launch.trans =>
                \A t \in 0 .. launch.clElems - 1 :
                   scratch'[GemvTileCell(u, t)] = scratch[GemvTileCell(u, t)]
      BY <2>2 DEF GemvWalk
    <3>2. GemvHeldTile(u, pos[u], pc[u], scratch)
      BY DEF GemvData
    <3> QED
      BY <3>1, <3>2 DEF GemvHeldTile
  <2> QED
    BY <2>1, <2>2
<1>4. \A u \in G!Item : GemvFed(u, pos'[u], acc'[u])
  BY DEF GemvWalk, GemvData
<1>5. GemvWritten(GemvWriters(pos', pc'), out')
  <2>1. GemvWritten(GemvWriters(pos, pc), out)
    BY DEF GemvData
  <2>2. \A u \in G!Item \ {i} : u \in GemvWriters(pos', pc') <=> u \in GemvWriters(pos, pc)
    BY DEF GemvWalk, GemvWriters
  <2>3. GemvWriters(pos, pc) \subseteq G!Item /\ GemvWriters(pos', pc') \subseteq G!Item
    BY DEF GemvWriters
  <2>4. CASE /\ out' = out
             /\ G!NcIndex(i) < G!NcDim =>
                   (GemvEnded(pos'[i], pc'[i]) <=> GemvEnded(pos[i], pc[i]))
    <3>1. i \in GemvWriters(pos', pc') <=> i \in GemvWriters(pos, pc)
      BY <2>4 DEF GemvWriters
    <3>2. GemvWriters(pos', pc') = GemvWriters(pos, pc)
      BY <2>2, <2>3, <3>1
    <3> QED
      BY <2>1, <2>4, <3>2
  <2>5. CASE /\ G!NcIndex(i) < G!NcDim /\ GemvEnded(pos'[i], pc'[i])
             /\ out' = G!Put(G!OutIndex(i),
                             GemvSum(G!NcIndex(i), GemvFirst .. GemvEnd - 1))
    <3>1. i \in GemvWriters(pos', pc')
      BY <2>5 DEF GemvWriters
    <3>2. GemvWriters(pos', pc') = GemvWriters(pos, pc) \cup {i}
      BY <2>2, <2>3, <3>1
    <3> QED
      BY <2>1, <2>3, <2>5, <3>2, GemvPuts
  <2> QED
    BY <2>4, <2>5 DEF GemvWalk
<1> QED
  BY <1>1, <1>2, <1>3, <1>4, <1>5, GemvDataAfter DEF GemvWalk

LEMMA GemvMin ==
    ASSUME NEW a \in Int, NEW b \in Int
    PROVE  G!Min({a, b}) = IF a <= b THEN a ELSE b
BY DEF G!Min

\* Where x and the tile are in local memory.
LEMMA GemvPlacesX ==
    ASSUME GemvInv, launch.local, NEW u \in G!Item
    PROVE  u \in DOMAIN scratch
<1>1. launch \in GemvLaunches /\ DOMAIN scratch = 0 .. G!KernelScratchSize - 1
  BY DEF GemvInv
<1>2. PICK s \in Nat \ {0}, c \in Nat \ {0} :
         s = launch.localSz /\ c = launch.clElems /\ u \in 0 .. s - 1
  BY <1>1, GemvNumbers
<1>3. PICK x \in Nat : x = (c + 1) * s
  OBVIOUS
<1> QED
  BY <1>1, <1>2, <1>3 DEF G!KernelScratchSize

LEMMA GemvPlacesTile ==
    ASSUME GemvInv, launch.local, launch.trans, GemvFits, NEW u \in G!Item,
           NEW t \in 0 .. launch.clElems - 1
    PROVE  /\ GemvTileCell(u, t) \in DOMAIN scratch
           /\ GemvTileCell(u, t) \notin G!Item
<1>1. launch \in GemvLaunches /\ DOMAIN scratch = 0 .. G!KernelScratchSize - 1
  BY DEF GemvInv
<1>2. PICK s \in Nat \ {0}, c \in Nat \ {0} :
         /\ s = launch.localSz /\ c = launch.clElems /\ u \in 0 .. s - 1
         /\ t \in 0 .. c - 1 /\ s % c = 0
  BY <1>1, GemvNumbers DEF GemvFits
<1>3. TileCell(s, c, u, t) \in 0 .. (s + (c + 1) * s) - 1
  BY <1>2, TileInside
<1>4. GemvTileCell(u, t) \in DOMAIN scratch
  BY <1>1, <1>2, <1>3 DEF G!KernelScratchSize, GemvTileCell
<1>5. TileCell(s, c, u, t) >= s
  <2>0. s % c = 0 /\ u \in 0 .. s - 1 /\ t \in 0 .. c - 1
    BY <1>2
  <2>1. /\ u % c \in 0 .. c - 1 /\ u \div c \in 0 .. (s \div c) - 1
        /\ (u \div c) + t * (s \div c) \in 0 .. s - 1
    BY <2>0, TilePlace
  <2>2. PICK x \in Nat, y \in Nat : x = u % c /\ y = (u \div c) + t * (s \div c)
    BY <2>1
  <2>3. PICK z \in Nat : z = (s + 1) * x
    OBVIOUS
  <2> QED
    BY <2>2, <2>3 DEF TileCell
<1>6. TileCell(s, c, u, t) \notin 0 .. s - 1
  BY <1>5
<1> QED
  BY <1>2, <1>4, <1>6 DEF GemvTileCell, G!Item

LEMMA GemvDataLoad ==
    ASSUME GemvInv, GemvData, GemvFits, NEW i \in G!Item, G!LoadX(i)
    PROVE  GemvData'
<1> DEFINE l == IF launch.trans THEN "tile" ELSE "dot"
           x == IF i + G!FirstC(launch.group) < G!CDim
                THEN G!FromB(i + G!FirstC(launch.group)) ELSE G!Zero
<1>1. /\ pc[i] = "load" /\ launch' = launch
      /\ pc' = [pc EXCEPT ![i] = l] /\ pos' = pos /\ acc' = acc /\ out' = out
      /\ scratch' = [scratch EXCEPT ![i] = x]
  BY DEF G!LoadX, G!At, G!BarrierThen
<1>2. /\ launch \in GemvLaunches /\ pc \in [G!Item -> GemvPlaces]
  BY DEF GemvInv
<1>3. launch.local /\ pos[i] = 0
  BY <1>1, <1>2 DEF GemvPlaces, GemvInv
<1>4. x = GemvX(i)
  BY DEF GemvX, GemvFirst
<1>5. /\ scratch'[i] = GemvX(i)
      /\ \A u \in G!Item \ {i} : scratch'[u] = scratch[u]
      /\ launch.trans =>
            \A u \in G!Item : \A t \in 0 .. launch.clElems - 1 :
               scratch'[GemvTileCell(u, t)] = scratch[GemvTileCell(u, t)]
  <2>1. i \in DOMAIN scratch
    BY <1>3, GemvPlacesX
  <2>2. \A u \in G!Item \ {i} : u \in DOMAIN scratch
    BY <1>3, GemvPlacesX
  <2>3. launch.trans =>
            \A u \in G!Item : \A t \in 0 .. launch.clElems - 1 :
               GemvTileCell(u, t) \in DOMAIN scratch /\ GemvTileCell(u, t) # i
    BY <1>3, GemvPlacesTile
  <2> HIDE DEF x
  <2> QED
    BY <1>1, <1>4, <2>1, <2>2, <2>3
<1> HIDE DEF x
<1>6. /\ pc'[i] = l /\ pos'[i] = 0 /\ acc'[i] = acc[i]
      /\ \A u \in G!Item \ {i} : pc'[u] = pc[u] /\ pos'[u] = pos[u] /\ acc'[u] = acc[u]
  BY <1>1, <1>2, <1>3
<1>7. GemvAt(i, 0, l)
  <2>1. launch.localSz \div launch.clElems \in Nat
    BY <1>2, GemvNumbers, DivMod
  <2> QED
    BY <1>3, <2>1 DEF GemvAt, G!TileLoops
<1>8. GemvHeldX(i, l, scratch') /\ GemvHeldTile(i, 0, l, scratch')
  BY <1>5 DEF GemvHeldX, GemvHeldTile
<1>9. GemvFed(i, 0, acc[i])
  BY <1>3 DEF GemvData
<1>10. GemvEnded(pos'[i], pc'[i]) <=> GemvEnded(pos[i], pc[i])
  BY <1>1, <1>3, <1>6 DEF GemvEnded
<1>11. pos' \in [G!Item -> Nat] /\ DOMAIN acc' = G!Item
  BY <1>1 DEF GemvData
<1> HIDE DEF l
<1>12. GemvWalk(i)
  BY <1>1, <1>5, <1>6, <1>7, <1>8, <1>9, <1>10, <1>11 DEF GemvWalk
<1> QED
  BY <1>12, GemvWalks

\* The sum of no products.
LEMMA GemvNone ==
    ASSUME NEW r, NEW f \in Nat, NEW e \in Nat, f < e
    PROVE  GemvSum(r, f .. GemvCut(f, e) - 1) = G!Nothing
<1>1. f .. GemvCut(f, e) - 1 = {}
  BY DEF GemvCut
<1> QED
  BY <1>1 DEF GemvSum, G!Exactly, G!Nothing

\* The row of a matrix that is not transposed.
LEMMA GemvDataDot ==
    ASSUME GemvInv, GemvData, NEW i \in G!Item, G!Dot(i)
    PROVE  GemvData'
<1> DEFINE last == G!Min({G!CDim - GemvFirst, launch.localSz})
           p == [c \in 0 .. last - 1 |->
                   <<G!FromA(G!NcIndex(i) + (GemvFirst + c) * launch.lda), scratch[c]>>]
<1>1. /\ G!Runs(i) /\ pc[i] = "dot" /\ pc' = [pc EXCEPT ![i] = "done"]
      /\ launch' = launch /\ pos' = pos /\ acc' = acc /\ scratch' = scratch
      /\ out' = IF G!NcIndex(i) >= G!NcDim THEN out
                ELSE G!Put(G!OutIndex(i), G!Mad(p, G!Nothing))
  BY DEF G!Dot, G!At, G!Goto, GemvFirst
<1>2. /\ launch \in GemvLaunches /\ pc \in [G!Item -> GemvPlaces]
      /\ InStep(G!Item, barriers, waiting, GemvPhase, GemvNext)
  BY DEF GemvInv
<1>3. launch.local /\ ~launch.trans
  BY <1>1, <1>2 DEF GemvPlaces
<1>4. \A u \in G!Item : pc[u] # "load"
  <2> SUFFICES ASSUME NEW u \in G!Item, pc[u] = "load" PROVE FALSE
    OBVIOUS
  <2>1. GemvPhase[i] = <<"dot", 0>> /\ GemvPhase[u] = <<"load", 0>>
    BY <1>1, <1>3 DEF GemvPhase
  <2>2. GemvPhase[i] \notin DOMAIN GemvNext
    BY <2>1 DEF GemvNext
  <2>3. GemvPhase[u] = GemvPhase[i]
    BY <1>1, <1>2, <2>2, GemvFree, AtBarrier
  <2> QED
    BY <2>1, <2>3
<1>5. PICK f \in Nat, k \in Nat, s \in Nat \ {0}, r \in Nat, b \in Nat :
         /\ f = GemvFirst /\ k = G!CDim /\ s = launch.localSz /\ r = G!NcIndex(i)
         /\ b = launch.lda /\ f < k
  BY <1>2, GemvNumbers
<1>6. PICK n \in Nat : n = last /\ n = IF k - f <= s THEN k - f ELSE s
  <2>1. last = IF k - f <= s THEN k - f ELSE s
    BY <1>5, GemvMin
  <2> QED
    BY <1>5, <2>1
<1>7. GemvFeeds(p, r, f, n, k)
  <2> SUFFICES ASSUME NEW c \in 0 .. n - 1
               PROVE  /\ c + f < k
                      /\ p[c] = GemvPair(r, c + f)
    BY <1>6 DEF GemvFeeds
  <2>1. c + f < k /\ c \in 0 .. s - 1
    BY <1>6
  <2>2. c \in G!Item
    BY <1>5, <2>1 DEF G!Item
  <2>3. GemvHeldX(c, pc[c], scratch)
    BY <2>2 DEF GemvData
  <2>4. scratch[c] = G!FromB(c + f)
    BY <1>3, <1>4, <1>5, <2>1, <2>2, <2>3 DEF GemvHeldX, GemvX
  <2>5. r + (f + c) * b = r + (c + f) * b
    OBVIOUS
  <2>6. G!Address(launch.trans, r, c + f, launch.lda) = r + (c + f) * b
    BY <1>3, <1>5 DEF G!Address
  <2>7. p[c] = <<G!FromA(r + (f + c) * b), scratch[c]>>
    BY <1>5, <1>6
  <2> HIDE DEF p
  <2> QED
    BY <2>1, <2>4, <2>5, <2>6, <2>7 DEF GemvPair
<1> HIDE DEF p, last
<1>8. G!Mad(p, G!Nothing) = GemvSum(r, f .. GemvCut(f + n, k) - 1)
  <2>1. G!Mad(p, GemvSum(r, f .. GemvCut(f, k) - 1))
          = GemvSum(r, f .. GemvCut(f + n, k) - 1)
    BY <1>7, GemvMad
  <2>2. GemvSum(r, f .. GemvCut(f, k) - 1) = G!Nothing
    BY <1>5, GemvNone
  <2> QED
    BY <2>1, <2>2
<1>9. GemvCut(f + n, k) = GemvEnd
  BY <1>3, <1>5, <1>6 DEF GemvCut, GemvEnd
<1>10. /\ pc'[i] = "done" /\ pos'[i] = pos[i] /\ acc'[i] = acc[i]
       /\ \A u \in G!Item \ {i} : pc'[u] = pc[u] /\ pos'[u] = pos[u] /\ acc'[u] = acc[u]
  BY <1>1, <1>2
<1>11. /\ GemvAt(i, pos[i], "done") /\ GemvHeldTile(i, pos[i], "done", scratch)
       /\ GemvFed(i, pos[i], acc[i])
  BY <1>3 DEF GemvAt, GemvHeldTile, GemvFed
<1>12. GemvHeldX(i, "done", scratch)
  <2>1. GemvHeldX(i, "dot", scratch)
    BY <1>1 DEF GemvData
  <2> QED
    BY <2>1 DEF GemvHeldX
<1>13. GemvEnded(pos'[i], pc'[i])
  BY <1>3, <1>10 DEF GemvEnded
<1>14. /\ G!NcIndex(i) < G!NcDim =>
             out' = G!Put(G!OutIndex(i), GemvSum(G!NcIndex(i), GemvFirst .. GemvEnd - 1))
       /\ ~(G!NcIndex(i) < G!NcDim) => out' = out
  <2>1. G!NcDim \in Nat
    BY <1>2, GemvNumbers
  <2> QED
    BY <1>1, <1>5, <1>8, <1>9, <2>1
<1>15. pos' \in [G!Item -> Nat] /\ DOMAIN acc' = G!Item
  BY <1>1 DEF GemvData
<1>16. GemvWalk(i)
  <2>1. CASE G!NcIndex(i) < G!NcDim
    BY <1>1, <1>10, <1>11, <1>12, <1>13, <1>14, <1>15, <2>1 DEF GemvWalk
  <2>2. CASE ~(G!NcIndex(i) < G!NcDim)
    BY <1>1, <1>10, <1>11, <1>12, <1>14, <1>15, <2>2 DEF GemvWalk
  <2> QED
    BY <2>1, <2>2
<1> QED
  BY <1>16, GemvWalks

\* What an item copies of the tile it is at.
LEMMA GemvCopies ==
    ASSUME GemvInv, launch.local, launch.trans, NEW i \in G!Item
    PROVE  /\ DOMAIN G!Extracted(i)
                = {GemvTileCell(i, t) : t \in 0 .. launch.clElems - 1}
           /\ \A t \in 0 .. launch.clElems - 1 :
                 G!Extracted(i)[GemvTileCell(i, t)] = GemvTileElement(i, t, pos[i])
<1>1. launch \in GemvLaunches /\ pos \in [G!Item -> Nat]
  BY DEF GemvInv
<1>2. PICK s \in Nat \ {0}, c \in Nat \ {0}, b \in Nat, f \in Nat, a \in Nat, k \in Nat :
         /\ s = launch.localSz /\ c = launch.clElems /\ b = launch.lda
         /\ f = GemvFirst /\ a = G!NcGroup(launch.group) /\ k = pos[i]
         /\ i \in 0 .. s - 1
  BY <1>1, GemvNumbers
<1>3. PICK x \in Nat, y \in Nat, q \in Nat, m \in Nat, o \in Nat :
         /\ x = i % c /\ y = i \div c /\ q = s \div c /\ m = (s + 1) * x /\ o = a * s
  <2>1. i % c \in Nat /\ i \div c \in Nat /\ s \div c \in Nat
    <3>1. i \in Nat
      BY <1>2
    <3>2. i \div c \in Nat /\ i % c \in 0 .. c - 1
      BY <3>1, DivMod
    <3>3. s \div c \in Nat
      BY DivMod
    <3> QED
      BY <3>2, <3>3
  <2>2. (s + 1) * (i % c) \in Nat /\ a * s \in Nat
    BY <2>1
  <2> QED
    BY <2>1, <2>2
<1>4. ASSUME NEW t \in 0 .. c - 1
      PROVE  /\ G!MatrixScratch + G!Padded * G!TileC(i) + G!TileNc(i, t) = GemvTileCell(i, t)
             /\ GemvTileCell(i, t) = s + m + (y + t * q)
             /\ t * q \in Nat
  <2>1. G!TileNc(i, t) = y + t * q /\ G!TileC(i) = x
    BY <1>2, <1>3 DEF G!TileNc, G!TileC, G!TileDimNc
  <2>2. G!MatrixScratch = s /\ G!Padded = s + 1
    BY <1>2 DEF G!MatrixScratch, G!Padded
  <2>3. GemvTileCell(i, t) = s + m + (y + t * q)
    BY <1>2, <1>3 DEF GemvTileCell, TileCell
  <2>4. t * q \in Nat
    OBVIOUS
  <2> QED
    BY <1>3, <2>1, <2>2, <2>3, <2>4
<1>5. DOMAIN G!Extracted(i) = {GemvTileCell(i, t) : t \in 0 .. launch.clElems - 1}
  <2>1. DOMAIN G!Extracted(i)
          = {G!MatrixScratch + G!Padded * G!TileC(i) + G!TileNc(i, t) :
               t \in 0 .. launch.clElems - 1}
    BY DEF G!Extracted
  <2>2. {G!MatrixScratch + G!Padded * G!TileC(i) + G!TileNc(i, t) :
               t \in 0 .. launch.clElems - 1}
          = {GemvTileCell(i, t) : t \in 0 .. launch.clElems - 1}
    BY <1>2, <1>4
  <2> QED
    BY <2>1, <2>2
<1>6. ASSUME NEW t \in 0 .. c - 1
      PROVE  G!Extracted(i)[GemvTileCell(i, t)] = GemvTileElement(i, t, k)
  <2>1. PICK z \in Nat : z = t * q
    BY <1>4
  <2>2. PICK e \in Nat : e = GemvTileCell(i, t) /\ e = s + m + (y + z)
    BY <1>4, <2>1
  <2>3. e \in DOMAIN G!Extracted(i)
    BY <1>2, <1>5, <2>2
  <2>4. PICK w \in Nat : w = k * c
    OBVIOUS
  <2>5. G!Extracted(i)[e]
          = LET nc == (e - G!MatrixScratch - G!Padded * G!TileC(i))
                        + G!NcGroup(launch.group) * launch.localSz
                cc == G!TileC(i) + pos[i] * launch.clElems + G!FirstC(launch.group)
            IN IF cc < G!CDim /\ nc < G!NcDim THEN G!FromA(cc + nc * launch.lda) ELSE G!Zero
    BY <2>3 DEF G!Extracted
  <2>6. /\ G!MatrixScratch = s /\ G!Padded * G!TileC(i) = m
        /\ G!NcGroup(launch.group) * launch.localSz = o
        /\ G!TileC(i) + pos[i] * launch.clElems + G!FirstC(launch.group) = x + w + f
    BY <1>2, <1>3, <2>4 DEF G!MatrixScratch, G!Padded, G!TileC, GemvFirst
  <2>7. G!Extracted(i)[e] = GemvElement((e - s - m) + o, x + w + f)
    BY <2>5, <2>6 DEF GemvElement
  <2>8. e - s - m = y + z
    BY <2>2
  <2>9. GemvTileElement(i, t, k) = GemvElement(y + z + o, x + w + f)
    BY <1>2, <1>3, <2>1, <2>4 DEF GemvTileElement
  <2> QED
    BY <2>2, <2>7, <2>8, <2>9
<1> QED
  BY <1>2, <1>5, <1>6

LEMMA GemvDataTile ==
    ASSUME GemvInv, GemvData, GemvFits, NEW i \in G!Item, G!LoadTile(i)
    PROVE  GemvData'
<1> DEFINE g == G!Extracted(i)
<1>1. /\ pc[i] = "tile" /\ pc' = [pc EXCEPT ![i] = "mad"] /\ pos[i] < G!TileLoops
      /\ launch' = launch /\ pos' = pos /\ acc' = acc /\ out' = out
      /\ scratch' = G!Over(g, scratch)
  BY DEF G!LoadTile, G!At, G!BarrierThen
<1>2. /\ launch \in GemvLaunches /\ pc \in [G!Item -> GemvPlaces]
  BY DEF GemvInv
<1>3. launch.local /\ launch.trans
  BY <1>1, <1>2 DEF GemvPlaces
<1>4. /\ DOMAIN g = {GemvTileCell(i, t) : t \in 0 .. launch.clElems - 1}
      /\ \A t \in 0 .. launch.clElems - 1 :
            g[GemvTileCell(i, t)] = GemvTileElement(i, t, pos[i])
  BY <1>3, GemvCopies
<1> HIDE DEF g
<1>5. /\ \A a \in DOMAIN g : scratch'[a] = g[a]
      /\ \A a \in DOMAIN scratch : a \notin DOMAIN g => scratch'[a] = scratch[a]
  BY <1>1 DEF G!Over
<1>6. \A u \in G!Item : scratch'[u] = scratch[u]
  <2> SUFFICES ASSUME NEW u \in G!Item PROVE scratch'[u] = scratch[u]
    OBVIOUS
  <2>1. u \in DOMAIN scratch
    BY <1>3, GemvPlacesX
  <2>2. u \notin DOMAIN g
    BY <1>3, <1>4, GemvPlacesTile
  <2> QED
    BY <1>5, <2>1, <2>2
<1>7. \A u \in G!Item \ {i} : \A t \in 0 .. launch.clElems - 1 :
         scratch'[GemvTileCell(u, t)] = scratch[GemvTileCell(u, t)]
  <2> SUFFICES ASSUME NEW u \in G!Item \ {i}, NEW t \in 0 .. launch.clElems - 1
               PROVE  scratch'[GemvTileCell(u, t)] = scratch[GemvTileCell(u, t)]
    OBVIOUS
  <2>1. GemvTileCell(u, t) \in DOMAIN scratch
    BY <1>3, GemvPlacesTile
  <2>2. ASSUME NEW v \in 0 .. launch.clElems - 1, GemvTileCell(u, t) = GemvTileCell(i, v)
        PROVE  FALSE
    <3>1. PICK s \in Nat \ {0}, c \in Nat \ {0} :
             /\ s = launch.localSz /\ c = launch.clElems /\ u \in 0 .. s - 1
             /\ i \in 0 .. s - 1 /\ t \in 0 .. c - 1 /\ v \in 0 .. c - 1 /\ s % c = 0
      BY <1>2, <1>3, GemvNumbers DEF GemvFits
    <3>2. TileCell(s, c, u, t) = TileCell(s, c, i, v)
      BY <2>2, <3>1 DEF GemvTileCell
    <3>3. u = i
      BY <3>1, <3>2, TileCells
    <3> QED
      BY <3>3
  <2>3. GemvTileCell(u, t) \notin DOMAIN g
    BY <1>4, <2>2
  <2> QED
    BY <1>5, <2>1, <2>3
<1>8. /\ pc'[i] = "mad" /\ pos'[i] = pos[i] /\ acc'[i] = acc[i]
      /\ \A u \in G!Item \ {i} : pc'[u] = pc[u] /\ pos'[u] = pos[u] /\ acc'[u] = acc[u]
  BY <1>1, <1>2
<1>9. GemvAt(i, pos[i], "mad")
  <2>1. GemvAt(i, pos[i], "tile")
    BY <1>1 DEF GemvData
  <2> QED
    BY <1>1, <1>3, <2>1 DEF GemvAt
<1>10. GemvHeldX(i, "mad", scratch')
  <2>1. GemvHeldX(i, "tile", scratch)
    BY <1>1 DEF GemvData
  <2> QED
    BY <1>6, <2>1 DEF GemvHeldX
<1>11. GemvHeldTile(i, pos[i], "mad", scratch')
  <2>1. \A t \in 0 .. launch.clElems - 1 :
           scratch'[GemvTileCell(i, t)] = GemvTileElement(i, t, pos[i])
    BY <1>4, <1>5
  <2> QED
    BY <2>1 DEF GemvHeldTile
<1>12. GemvFed(i, pos[i], acc[i])
  BY DEF GemvData
<1>13. GemvEnded(pos'[i], pc'[i]) <=> GemvEnded(pos[i], pc[i])
  BY <1>1, <1>3, <1>8 DEF GemvEnded
<1>14. pos' \in [G!Item -> Nat] /\ DOMAIN acc' = G!Item
  BY <1>1 DEF GemvData
<1>15. GemvWalk(i)
  BY <1>1, <1>6, <1>7, <1>8, <1>9, <1>10, <1>11, <1>12, <1>13, <1>14 DEF GemvWalk
<1> QED
  BY <1>15, GemvWalks

\* An item that may multiply finds all of the tile, and what it needs of x, in local
\* memory.
LEMMA GemvHolds ==
    ASSUME GemvInv, GemvData, GemvFits, NEW i \in G!Item, G!Runs(i), pc[i] = "mad",
           launch.local, launch.trans, NEW c \in 0 .. launch.clElems - 1
    PROVE  /\ scratch[G!CellOfMatrix(i, c)]
                = GemvElement(G!NcIndex(i), c + pos[i] * launch.clElems + GemvFirst)
           /\ scratch[G!CellOfX(i, c)] = GemvX(pos[i] * launch.clElems + c)
<1>1. /\ launch \in GemvLaunches /\ pos \in [G!Item -> Nat]
      /\ pc \in [G!Item -> GemvPlaces]
      /\ InStep(G!Item, barriers, waiting, GemvPhase, GemvNext)
  BY DEF GemvInv
<1>2. PICK s \in Nat \ {0}, n \in Nat \ {0}, f \in Nat, a \in Nat, k \in Nat :
         /\ s = launch.localSz /\ n = launch.clElems
         /\ f = GemvFirst /\ a = G!NcGroup(launch.group) /\ k = pos[i]
         /\ i \in 0 .. s - 1 /\ c \in 0 .. n - 1 /\ s % n = 0
  BY <1>1, GemvNumbers DEF GemvFits
<1>3. PICK q \in Nat \ {0} : q = s \div n /\ s = n * q
  <2>1. s % n = 0
    BY <1>2
  <2> QED
    BY <2>1, Divides
<1>4. k < q
  <2>1. GemvAt(i, k, "mad")
    BY <1>2 DEF GemvData
  <2> QED
    BY <1>2, <1>3, <2>1 DEF GemvAt, G!TileLoops
<1>5. ASSUME NEW u \in G!Item
      PROVE  /\ pc[u] # "load"
             /\ \/ pc[u] = "mad" /\ pos[u] = k
                \/ pc[u] # "mad" /\ pos[u] = k + 1
  <2>1. GemvPhase[i] = <<"mad", k>>
    BY <1>2 DEF GemvPhase
  <2>2. GemvNext[GemvPhase[i]] = <<"tile", k + 1>>
    BY <2>1 DEF GemvNext
  <2>3. GemvPhase[u] = <<"mad", k>> \/ GemvPhase[u] = <<"tile", k + 1>>
    BY <1>1, <2>1, <2>2, GemvFree, AtBarrier
  <2> QED
    BY <1>1, <2>3 DEF GemvPhase
<1>6. ASSUME NEW u \in G!Item, NEW t \in 0 .. n - 1
      PROVE  scratch[GemvTileCell(u, t)] = GemvTileElement(u, t, k)
  <2>1. GemvHeldTile(u, pos[u], pc[u], scratch)
    BY DEF GemvData
  <2>2. CASE pc[u] = "mad" /\ pos[u] = k
    BY <1>2, <2>1, <2>2 DEF GemvHeldTile
  <2>3. CASE pc[u] # "mad" /\ pos[u] = k + 1
    <3>1. k + 1 - 1 = k /\ k + 1 > 0
      OBVIOUS
    <3> QED
      BY <1>2, <2>1, <2>3, <3>1 DEF GemvHeldTile
  <2> QED
    BY <1>5, <2>2, <2>3
<1>7. scratch[G!CellOfMatrix(i, c)]
        = GemvElement(G!NcIndex(i), c + pos[i] * launch.clElems + GemvFirst)
  <2>1. PICK t \in Nat, y \in 0 .. q - 1 : t = i \div q /\ y = i % q /\ i = q * t + y
    <3>1. i \in Nat
      BY <1>2
    <3>2. i \div q \in Nat /\ i % q \in 0 .. q - 1 /\ i = q * (i \div q) + (i % q)
      BY <3>1, DivMod
    <3> QED
      BY <3>2
  <2>2. t < n
    <3> SUFFICES ASSUME n <= t PROVE FALSE
      OBVIOUS
    <3>1. q * n <= q * t /\ q * n = n * q
      BY MulMonotone
    <3>2. PICK z \in Nat : z = q * t
      OBVIOUS
    <3>3. s = q * n
      BY <1>3, <3>1
    <3>4. s <= z
      BY <3>1, <3>2, <3>3
    <3>5. i = z + y
      BY <2>1, <3>2
    <3>6. i < s /\ y >= 0
      BY <1>2
    <3> QED
      BY <3>4, <3>5, <3>6
  <2>3. PICK u \in Nat : u = n * y + c
    <3>1. n * y \in Nat
      BY <2>1
    <3> QED
      BY <1>2, <3>1
  <2>4. u \in 0 .. s - 1
    <3>1. n * (y + 1) <= n * q /\ n * (y + 1) = n * y + n
      BY <2>1, MulMonotone
    <3>2. PICK z \in Nat : z = n * y
      BY <2>1
    <3> QED
      BY <1>2, <1>3, <2>3, <3>1, <3>2
  <2>5. u \div n = y /\ u % n = c
    <3>1. y \in Nat /\ c \in 0 .. n - 1
      BY <1>2, <2>1
    <3> QED
      BY <2>3, <3>1, DivModUnique
  <2>6. y + t * q = i
    <3>1. t * q = q * t /\ q * t \in Nat
      OBVIOUS
    <3> QED
      BY <2>1, <3>1
  <2>7. GemvTileCell(u, t) = G!CellOfMatrix(i, c)
    <3>1. GemvTileCell(u, t) = s + (s + 1) * c + (y + t * q)
      BY <1>2, <1>3, <2>5 DEF GemvTileCell, TileCell
    <3>2. G!CellOfMatrix(i, c) = s + i + c * (s + 1)
      BY <1>2 DEF G!CellOfMatrix, G!MatrixScratch, G!Padded
    <3>3. (s + 1) * c = c * (s + 1) /\ c * (s + 1) \in Nat
      BY <1>2
    <3> QED
      BY <1>2, <2>6, <3>1, <3>2, <3>3
  <2>8. GemvTileElement(u, t, k)
          = GemvElement(G!NcIndex(i), c + pos[i] * launch.clElems + GemvFirst)
    <3>1. GemvTileElement(u, t, k)
            = GemvElement(y + t * q + a * s, c + k * n + f)
      BY <1>2, <1>3, <2>5 DEF GemvTileElement
    <3>2. G!NcIndex(i) = i + a * s
      BY <1>2 DEF G!NcIndex
    <3> QED
      BY <1>2, <2>6, <3>1, <3>2
  <2>9. u \in G!Item /\ t \in 0 .. n - 1
    BY <1>2, <2>1, <2>2, <2>4 DEF G!Item
  <2> QED
    BY <1>6, <2>7, <2>8, <2>9
<1>8. scratch[G!CellOfX(i, c)] = GemvX(pos[i] * launch.clElems + c)
  <2>1. PICK x \in Nat : x = k * n + c
    <3>1. k * n \in Nat
      OBVIOUS
    <3> QED
      BY <1>2, <3>1
  <2>2. x \in 0 .. s - 1
    <3>1. n * (k + 1) <= n * q /\ n * (k + 1) = k * n + n
      BY <1>4, MulMonotone
    <3>2. PICK z \in Nat : z = k * n
      OBVIOUS
    <3> QED
      BY <1>2, <1>3, <2>1, <3>1, <3>2
  <2>3. x \in G!Item
    BY <1>2, <2>2 DEF G!Item
  <2>4. GemvHeldX(x, pc[x], scratch) /\ pc[x] # "load"
    BY <1>5, <2>3 DEF GemvData
  <2>5. scratch[x] = GemvX(x)
    BY <2>4 DEF GemvHeldX
  <2> QED
    BY <1>2, <2>1, <2>5 DEF G!CellOfX
<1> QED
  BY <1>7, <1>8

LEMMA GemvDataMultiply ==
    ASSUME GemvInv, GemvData, GemvFits, NEW i \in G!Item, G!MultiplyTile(i)
    PROVE  GemvData'
<1> DEFINE p == [c \in 0 .. launch.clElems - 1 |->
                   <<scratch[G!CellOfMatrix(i, c)], scratch[G!CellOfX(i, c)]>>]
<1>1. /\ G!Runs(i) /\ pc[i] = "mad" /\ pc' = [pc EXCEPT ![i] = "tile"]
      /\ launch' = launch /\ pos' = [pos EXCEPT ![i] = pos[i] + 1]
      /\ acc' = [acc EXCEPT ![i] = G!Mad(p, acc[i])]
      /\ scratch' = scratch /\ out' = out
  BY DEF G!MultiplyTile, G!At, G!BarrierThen
<1>2. /\ launch \in GemvLaunches /\ pc \in [G!Item -> GemvPlaces]
  BY DEF GemvInv
<1>3. launch.local /\ launch.trans
  BY <1>1, <1>2 DEF GemvPlaces
<1>4. PICK n \in Nat \ {0}, f \in Nat, e \in Nat, b \in Nat, r \in Nat, m \in Nat, s \in Nat \ {0} :
         /\ n = launch.clElems /\ f = GemvFirst /\ e = G!CDim /\ b = launch.lda
         /\ r = G!NcIndex(i) /\ m = G!NcDim /\ s = launch.localSz
  BY <1>2, GemvNumbers
<1>5. PICK k \in Nat : k = pos[i]
  BY DEF GemvData
<1>6. PICK o \in Nat : o = k * n
  OBVIOUS
<1>7. /\ pc'[i] = "tile" /\ pos'[i] = k + 1 /\ acc'[i] = G!Mad(p, acc[i])
      /\ \A u \in G!Item \ {i} : pc'[u] = pc[u] /\ pos'[u] = pos[u] /\ acc'[u] = acc[u]
      /\ pos' \in [G!Item -> Nat] /\ DOMAIN acc' = G!Item
  <2>1. pos \in [G!Item -> Nat] /\ DOMAIN acc = G!Item
    BY DEF GemvData
  <2> HIDE DEF p
  <2> QED
    BY <1>1, <1>2, <1>5, <2>1
<1>8. GemvFed(i, k + 1, acc'[i])
  <2> SUFFICES ASSUME r < m
               PROVE  acc'[i] = GemvSum(r, f .. GemvCut(f + (k + 1) * n, e) - 1)
    BY <1>4 DEF GemvFed
  <2>1. acc[i] = GemvSum(r, f .. GemvCut(f + o, e) - 1)
    <3>1. GemvFed(i, k, acc[i])
      BY <1>5 DEF GemvData
    <3> QED
      BY <1>3, <1>4, <1>6, <3>1 DEF GemvFed
  <2>2. GemvFeeds(p, r, f + o, n, e)
    <3> SUFFICES ASSUME NEW c \in 0 .. n - 1
                 PROVE  p[c] = IF c + (f + o) < e THEN GemvPair(r, c + (f + o))
                               ELSE <<G!Zero, G!Zero>>
      BY <1>4 DEF GemvFeeds
    <3>1. /\ scratch[G!CellOfMatrix(i, c)] = GemvElement(r, c + o + f)
          /\ scratch[G!CellOfX(i, c)] = GemvX(o + c)
      BY <1>1, <1>3, <1>4, <1>5, <1>6, GemvHolds
    <3>2. PICK x \in Nat : x = c + (f + o) /\ x = c + o + f /\ x = o + c + f
      OBVIOUS
    <3>3. GemvElement(r, c + o + f)
            = IF x < e THEN G!FromA(x + r * b) ELSE G!Zero
      BY <1>4, <3>2 DEF GemvElement
    <3>4. GemvX(o + c) = IF x < e THEN G!FromB(x) ELSE G!Zero
      BY <1>4, <3>2 DEF GemvX
    <3>5. GemvPair(r, x) = <<G!FromA(x + r * b), G!FromB(x)>>
      BY <1>3, <1>4 DEF GemvPair, G!Address
    <3>6. p[c] = <<scratch[G!CellOfMatrix(i, c)], scratch[G!CellOfX(i, c)]>>
      BY <1>4
    <3> HIDE DEF p
    <3>7. CASE x < e
      BY <3>1, <3>2, <3>3, <3>4, <3>5, <3>6, <3>7
    <3>8. CASE ~(x < e)
      BY <3>1, <3>2, <3>3, <3>4, <3>6, <3>8
    <3> QED
      BY <3>7, <3>8
  <2>3. G!Mad(p, GemvSum(r, f .. GemvCut(f + o, e) - 1))
          = GemvSum(r, f .. GemvCut(f + o + n, e) - 1)
    <3>1. f + o \in Nat /\ f <= f + o
      OBVIOUS
    <3> HIDE DEF p
    <3> QED
      BY <2>2, <3>1, GemvMad
  <2>4. f + (k + 1) * n = f + o + n
    <3>1. (k + 1) * n = k * n + n
      OBVIOUS
    <3> QED
      BY <1>6, <3>1
  <2> HIDE DEF p
  <2> QED
    BY <1>7, <2>1, <2>3, <2>4
<1> HIDE DEF p
<1>9. GemvAt(i, k + 1, "tile")
  <2>1. GemvAt(i, k, "mad")
    BY <1>1, <1>5 DEF GemvData
  <2>2. G!TileLoops \in Nat
    BY <1>4, DivMod DEF G!TileLoops
  <2> QED
    BY <1>3, <2>1, <2>2 DEF GemvAt
<1>10. GemvHeldX(i, "tile", scratch)
  <2>1. GemvHeldX(i, "mad", scratch)
    BY <1>1 DEF GemvData
  <2> QED
    BY <2>1 DEF GemvHeldX
<1>11. GemvHeldTile(i, k + 1, "tile", scratch)
  <2>1. GemvHeldTile(i, k, "mad", scratch)
    BY <1>1, <1>5 DEF GemvData
  <2>2. k + 1 - 1 = k
    OBVIOUS
  <2> QED
    BY <2>1, <2>2 DEF GemvHeldTile
<1>12. GemvEnded(pos'[i], pc'[i]) <=> GemvEnded(pos[i], pc[i])
  BY <1>1, <1>3, <1>7 DEF GemvEnded
<1>13. GemvWalk(i)
  BY <1>1, <1>7, <1>8, <1>9, <1>10, <1>11, <1>12 DEF GemvWalk
<1> QED
  BY <1>13, GemvWalks

LEMMA GemvDataStore ==
    ASSUME GemvInv, GemvData, GemvFits, NEW i \in G!Item, G!StoreSum(i)
    PROVE  GemvData'
<1>1. /\ pc[i] = "tile" /\ pc' = [pc EXCEPT ![i] = "done"] /\ pos[i] >= G!TileLoops
      /\ launch' = launch /\ pos' = pos /\ acc' = acc /\ scratch' = scratch
      /\ out' = IF G!NcIndex(i) < G!NcDim THEN G!Put(G!OutIndex(i), acc[i]) ELSE out
  BY DEF G!StoreSum, G!At, G!Goto
<1>2. /\ launch \in GemvLaunches /\ pc \in [G!Item -> GemvPlaces]
  BY DEF GemvInv
<1>3. launch.local /\ launch.trans
  BY <1>1, <1>2 DEF GemvPlaces
<1>4. PICK n \in Nat \ {0}, s \in Nat \ {0}, f \in Nat, e \in Nat :
         /\ n = launch.clElems /\ s = launch.localSz /\ s % n = 0
         /\ f = GemvFirst /\ e = G!CDim
  BY <1>2, <1>3, GemvNumbers DEF GemvFits
<1>5. PICK q \in Nat : q = G!TileLoops /\ s = n * q
  <2>1. s % n = 0
    BY <1>4
  <2>2. s = n * (s \div n) /\ s \div n \in Nat \ {0}
    BY <2>1, Divides
  <2> QED
    BY <1>4, <2>2 DEF G!TileLoops
<1>6. pos[i] = q
  <2>1. GemvAt(i, pos[i], "tile") /\ pos[i] \in Nat
    BY <1>1 DEF GemvData
  <2> QED
    BY <1>1, <1>3, <1>5, <2>1 DEF GemvAt
<1>7. G!NcIndex(i) < G!NcDim =>
         acc[i] = GemvSum(G!NcIndex(i), GemvFirst .. GemvEnd - 1)
  <2>1. GemvFed(i, q, acc[i])
    BY <1>6 DEF GemvData
  <2>2. q * n = s
    BY <1>5
  <2>3. GemvCut(f + s, e) = GemvEnd
    BY <1>3, <1>4 DEF GemvCut, GemvEnd
  <2> QED
    BY <1>3, <1>4, <2>1, <2>2, <2>3 DEF GemvFed
<1>8. /\ pc'[i] = "done" /\ pos'[i] = pos[i] /\ acc'[i] = acc[i]
      /\ \A u \in G!Item \ {i} : pc'[u] = pc[u] /\ pos'[u] = pos[u] /\ acc'[u] = acc[u]
  BY <1>1, <1>2
<1>9. GemvAt(i, pos[i], "done")
  <2>1. q <= q
    OBVIOUS
  <2> QED
    BY <1>3, <1>5, <1>6, <2>1 DEF GemvAt
<1>10. GemvHeldX(i, "done", scratch) /\ GemvHeldTile(i, pos[i], "done", scratch)
  <2>1. GemvHeldX(i, "tile", scratch) /\ GemvHeldTile(i, pos[i], "tile", scratch)
    BY <1>1 DEF GemvData
  <2> QED
    BY <2>1 DEF GemvHeldX, GemvHeldTile
<1>11. GemvFed(i, pos[i], acc[i])
  BY DEF GemvData
<1>12. GemvEnded(pos'[i], pc'[i])
  BY <1>3, <1>8 DEF GemvEnded
<1>13. pos' \in [G!Item -> Nat] /\ DOMAIN acc' = G!Item
  BY <1>1 DEF GemvData
<1>14. GemvWalk(i)
  <2>1. CASE G!NcIndex(i) < G!NcDim
    BY <1>1, <1>7, <1>8, <1>9, <1>10, <1>11, <1>12, <1>13, <2>1 DEF GemvWalk
  <2>2. CASE ~(G!NcIndex(i) < G!NcDim)
    BY <1>1, <1>8, <1>9, <1>10, <1>11, <1>13, <2>2 DEF GemvWalk
  <2> QED
    BY <2>1, <2>2
<1> QED
  BY <1>14, GemvWalks

\* One row, without local memory, or the end of the loop: there is one row to an
\* item.
LEMMA GemvDataRow ==
    ASSUME GemvInv, GemvData, NEW i \in G!Item, G!Row(i)
    PROVE  GemvData'
<1> DEFINE p == [c \in 0 .. G!CDim - 1 |->
                   <<G!FromA(G!MatrixIndex(i, pos[i])
                               + c * (IF launch.trans THEN 1 ELSE launch.lda)),
                     G!FromB(c)>>]
           more == pos[i] < G!NcDim /\ G!ThreadId(i) + pos[i] < G!NcDim
<1>1. /\ pc[i] = "row"
      /\ launch' = launch /\ acc' = acc /\ scratch' = scratch
      /\ more => /\ out' = G!Put(G!ThreadId(i) + pos[i], G!Mad(p, G!Nothing))
                 /\ pos' = [pos EXCEPT ![i] = pos[i] + G!GroupStride]
                 /\ pc' = [pc EXCEPT ![i] = "row"]
      /\ ~more => pc' = [pc EXCEPT ![i] = "done"] /\ pos' = pos /\ out' = out
  BY DEF G!Row, G!At, G!Goto
<1>2. /\ launch \in GemvLaunches /\ pc \in [G!Item -> GemvPlaces]
  BY DEF GemvInv
<1>3. ~launch.local
  BY <1>1, <1>2 DEF GemvPlaces
<1>4. PICK s \in Nat \ {0}, r \in Nat, n \in Nat \ {0}, e \in Nat \ {0}, b \in Nat, w \in Nat :
         /\ s = launch.localSz /\ r = G!NcIndex(i) /\ n = G!NcDim /\ e = G!CDim
         /\ b = launch.lda /\ w = G!GroupStride /\ n <= w
         /\ G!NcGroup(launch.group) = launch.group
         /\ GemvFirst = 0 /\ GemvColumn = 0 /\ G!OutIndex(i) = r
  <2>1. G!OutIndex(i) = G!NcIndex(i) + 0 /\ G!NcIndex(i) \in Nat
    BY <1>2, <1>3, GemvNumbers
  <2>2. G!OutIndex(i) = G!NcIndex(i)
    BY <2>1
  <2> QED
    BY <1>2, <1>3, <2>2, GemvNumbers
<1>5. G!ThreadId(i) = r
  <2>1. launch.group * s \in Nat /\ i \in Nat
    BY <1>2, <1>4, GemvNumbers
  <2> QED
    BY <1>4, <2>1 DEF G!ThreadId, G!NcIndex
<1>6. /\ pos \in [G!Item -> Nat] /\ DOMAIN acc = G!Item
      /\ pos[i] = 0 \/ (pos[i] = w /\ r < n)
  <2>1. GemvAt(i, pos[i], "row")
    BY <1>1 DEF GemvData
  <2> QED
    BY <1>3, <1>4, <2>1 DEF GemvAt, GemvData
<1>7. /\ \A u \in G!Item : acc'[u] = acc[u]
      /\ \A u \in G!Item \ {i} : pc'[u] = pc[u] /\ pos'[u] = pos[u]
      /\ DOMAIN acc' = G!Item
  <2> HIDE DEF more, p
  <2>1. pc' = [pc EXCEPT ![i] = pc'[i]] /\ pos' = [pos EXCEPT ![i] = pos'[i]]
    BY <1>1, <1>2, <1>6
  <2> QED
    BY <1>1, <1>2, <1>6, <2>1
<1>8. \A u, x, l, a, cells : /\ GemvHeldX(u, l, cells) /\ GemvHeldTile(u, x, l, cells)
                             /\ GemvFed(u, x, a)
  BY <1>3 DEF GemvHeldX, GemvHeldTile, GemvFed
<1>9. CASE more
  <2>1. pos[i] = 0 /\ r < n
    BY <1>4, <1>5, <1>6, <1>9
  <2>2. /\ pos'[i] = w /\ pos' \in [G!Item -> Nat] /\ pc'[i] = "row"
    <3>1. pos' = [pos EXCEPT ![i] = pos[i] + G!GroupStride] /\ pc' = [pc EXCEPT ![i] = "row"]
      BY <1>1, <1>9
    <3>2. pos[i] + G!GroupStride = w
      BY <1>4, <2>1
    <3> QED
      BY <1>2, <1>6, <3>1, <3>2
  <2>3. GemvFeeds(p, r, 0, e, e)
    <3> SUFFICES ASSUME NEW c \in 0 .. e - 1 PROVE c + 0 < e /\ p[c] = GemvPair(r, c + 0)
      BY <1>4 DEF GemvFeeds
    <3>1. PICK x \in Nat : x = c /\ c + 0 = c /\ c < e
      OBVIOUS
    <3>2. p[c] = <<G!FromA(G!MatrixIndex(i, 0) + c * (IF launch.trans THEN 1 ELSE b)),
                   G!FromB(c)>>
      BY <1>4, <2>1
    <3>3. 0 \div w = 0
      BY <1>4
    <3>4. CASE launch.trans
      <4>1. G!MatrixIndex(i, 0) = r * b + 0 * (e * 1 + w * b)
        BY <1>4, <1>5, <3>3, <3>4 DEF G!MatrixIndex
      <4>2. 0 * (e * 1 + w * b) = 0 /\ r * b \in Nat
        <5>1. e * 1 + w * b \in Nat
          OBVIOUS
        <5> QED
          BY <5>1
      <4>3. G!MatrixIndex(i, 0) = r * b
        BY <4>1, <4>2
      <4>4. G!Address(launch.trans, r, c, launch.lda) = c + r * b
        BY <1>4, <3>4 DEF G!Address
      <4>5. r * b + c * 1 = c + r * b
        BY <3>1, <4>2
      <4> HIDE DEF p
      <4> QED
        BY <3>1, <3>2, <3>4, <4>3, <4>4, <4>5 DEF GemvPair
    <3>5. CASE ~launch.trans
      <4>1. G!MatrixIndex(i, 0) = r * 1 + 0 * (e * b + w * 1)
        BY <1>4, <1>5, <3>3, <3>5 DEF G!MatrixIndex
      <4>2. 0 * (e * b + w * 1) = 0
        <5>1. e * b + w * 1 \in Nat
          OBVIOUS
        <5> QED
          BY <5>1
      <4>3. G!MatrixIndex(i, 0) = r
        BY <4>1, <4>2
      <4>4. G!Address(launch.trans, r, c, launch.lda) = r + c * b
        BY <1>4, <3>5 DEF G!Address
      <4> HIDE DEF p
      <4> QED
        BY <3>1, <3>2, <3>5, <4>3, <4>4 DEF GemvPair
    <3> QED
      BY <3>4, <3>5
  <2> HIDE DEF p
  <2>4. G!Mad(p, G!Nothing) = GemvSum(r, GemvFirst .. GemvEnd - 1)
    <3>1. G!Mad(p, GemvSum(r, 0 .. GemvCut(0, e) - 1))
            = GemvSum(r, 0 .. GemvCut(0 + e, e) - 1)
      BY <2>3, GemvMad
    <3>2. GemvSum(r, 0 .. GemvCut(0, e) - 1) = G!Nothing
      BY GemvNone
    <3>3. GemvCut(0 + e, e) = e /\ GemvEnd = e
      BY <1>3, <1>4 DEF GemvCut, GemvEnd
    <3> QED
      BY <1>4, <3>1, <3>2, <3>3
  <2>5. out' = G!Put(G!OutIndex(i), GemvSum(G!NcIndex(i), GemvFirst .. GemvEnd - 1))
    <3>1. G!ThreadId(i) + pos[i] = G!OutIndex(i)
      BY <1>4, <1>5, <2>1
    <3>2. out' = G!Put(G!ThreadId(i) + pos[i], G!Mad(p, G!Nothing))
      BY <1>1, <1>9
    <3> QED
      BY <1>4, <2>4, <3>1, <3>2
  <2>6. GemvAt(i, w, "row") /\ GemvEnded(w, "row")
    BY <1>3, <1>4, <2>1 DEF GemvAt, GemvEnded
  <2>7. GemvWalk(i)
    BY <1>1, <1>3, <1>4, <1>7, <1>8, <2>1, <2>2, <2>5, <2>6 DEF GemvWalk
  <2> QED
    BY <2>7, GemvWalks
<1>10. CASE ~more
  <2>1. /\ pos' = pos /\ out' = out /\ pc' = [pc EXCEPT ![i] = "done"]
    BY <1>1, <1>10
  <2>2. pc'[i] = "done" /\ pos'[i] = pos[i] /\ pos' \in [G!Item -> Nat]
    BY <1>2, <1>6, <2>1
  <2>3. GemvAt(i, pos[i], "done")
    <3>1. pos[i] > 0 \/ r >= n
      BY <1>4, <1>5, <1>6, <1>10
    <3> QED
      BY <1>3, <1>4, <1>6, <3>1 DEF GemvAt
  <2>4. GemvEnded(pos'[i], pc'[i]) <=> GemvEnded(pos[i], pc[i])
    BY <1>3, <2>2 DEF GemvEnded
  <2> HIDE DEF more
  <2>5. GemvWalk(i)
    BY <1>1, <1>3, <1>7, <1>8, <2>1, <2>2, <2>3, <2>4 DEF GemvWalk
  <2> QED
    BY <2>5, GemvWalks
<1> QED
  BY <1>9, <1>10

LEMMA GemvDataStep ==
    ASSUME GemvInv, GemvData, GemvFits, NEW i \in G!Item, G!Step(i)
    PROVE  GemvData'
BY GemvDataLoad, GemvDataDot, GemvDataTile, GemvDataMultiply, GemvDataStore, GemvDataRow
   DEF G!Step

\* The rows and the columns of a group are its share.
LEMMA GemvShare ==
    ASSUME launch \in GemvLaunches
    PROVE  /\ G!Share(launch.group).col * G!NcDim = GemvColumn
           /\ G!Share(launch.group).terms = GemvFirst .. GemvEnd - 1
           /\ \A r : r \in G!Share(launch.group).rows
                       <=> \E u \in G!Item : r = G!NcIndex(u) /\ r < G!NcDim
<1>1. PICK s \in Nat \ {0}, n \in Nat \ {0}, e \in Nat \ {0}, a \in Nat, b \in Nat, f \in Nat :
         /\ s = launch.localSz /\ n = G!NcDim /\ e = G!CDim
         /\ a = G!NcGroup(launch.group) /\ b = G!CGroup(launch.group) /\ f = GemvFirst
  BY GemvNumbers
<1>2. PICK m \in Nat : m = a * s
  OBVIOUS
<1>3. G!Item = 0 .. s - 1 /\ \A u \in G!Item : G!NcIndex(u) = u + m
  BY <1>1, <1>2 DEF G!Item, G!NcIndex
<1>4. \A r \in Nat : (\E u \in G!Item : r = G!NcIndex(u)) <=> r \div s = a
  <2> SUFFICES ASSUME NEW r \in Nat
               PROVE  (\E u \in G!Item : r = G!NcIndex(u)) <=> r \div s = a
    OBVIOUS
  <2>0. (\E u \in G!Item : r = G!NcIndex(u)) <=> \E u \in 0 .. s - 1 : r = u + m
    <3>1. G!Item = 0 .. s - 1
      BY <1>3
    <3>2. \A u \in 0 .. s - 1 : G!NcIndex(u) = u + m
      BY <1>3
    <3> QED
      BY <3>1, <3>2, Zenon
  <2>1. m <= r /\ r < m + s <=> r \div s = a
    BY <1>2, WholeBlock
  <2>2. (\E u \in 0 .. s - 1 : r = u + m) => m <= r /\ r < m + s
    OBVIOUS
  <2>3. ASSUME m <= r, r < m + s PROVE \E u \in 0 .. s - 1 : r = u + m
    <3>1. r - m \in 0 .. s - 1 /\ r = r - m + m
      BY <2>3
    <3> QED
      BY <3>1
  <2> QED
    BY <2>0, <2>1, <2>2, <2>3
<1>5. CASE launch.local
  <2>1. /\ G!Share(launch.group).col = b
        /\ G!Share(launch.group).rows = {r \in 0 .. n - 1 : r \div s = a}
        /\ G!Share(launch.group).terms = {l \in 0 .. e - 1 : l \div s = b}
    BY <1>1, <1>5 DEF G!Share
  <2>2. f = b * s
    BY <1>1 DEF GemvFirst, G!FirstC
  <2>3. GemvEnd = IF e <= f + s THEN e ELSE f + s
    BY <1>1, <1>5 DEF GemvEnd
  <2>4. {l \in 0 .. e - 1 : l \div s = b} = f .. GemvEnd - 1
    <3>1. \A l \in Nat : f <= l /\ l < f + s <=> l \div s = b
      BY <2>2, WholeBlock
    <3> QED
      BY <2>3, <3>1
  <2>5. \A r : r \in {x \in 0 .. n - 1 : x \div s = a}
                 <=> \E u \in G!Item : r = G!NcIndex(u) /\ r < n
    <3> SUFFICES ASSUME NEW r
                 PROVE  r \in {x \in 0 .. n - 1 : x \div s = a}
                          <=> \E u \in G!Item : r = G!NcIndex(u) /\ r < n
      OBVIOUS
    <3>1. CASE r \in Nat
      BY <1>4, <3>1
    <3>2. CASE r \notin Nat
      BY <1>3, <3>2
    <3> QED
      BY <3>1, <3>2
  <2> QED
    BY <1>1, <2>1, <2>4, <2>5 DEF GemvColumn
<1>6. CASE ~launch.local
  <2>1. PICK w \in Nat \ {0} : w = G!GroupStride /\ n <= w /\ a = launch.group
    BY <1>1, <1>6, GemvNumbers
  <2>2. /\ G!Share(launch.group).col = 0
        /\ G!Share(launch.group).rows = {r \in 0 .. n - 1 : (r % w) \div s = a}
        /\ G!Share(launch.group).terms = 0 .. e - 1
    BY <1>1, <1>6, <2>1 DEF G!Share
  <2>3. f = 0 /\ GemvColumn = 0 /\ GemvEnd = e /\ 0 * n = 0
    BY <1>1, <1>6, GemvNumbers DEF GemvEnd
  <2>4. \A r \in 0 .. n - 1 : r % w = r
    BY <2>1
  <2>5. \A r : r \in {x \in 0 .. n - 1 : (x % w) \div s = a}
                 <=> \E u \in G!Item : r = G!NcIndex(u) /\ r < n
    <3> SUFFICES ASSUME NEW r
                 PROVE  r \in {x \in 0 .. n - 1 : (x % w) \div s = a}
                          <=> \E u \in G!Item : r = G!NcIndex(u) /\ r < n
      OBVIOUS
    <3>1. CASE r \in 0 .. n - 1
      <4>1. r % w = r /\ r \in Nat
        BY <2>4, <3>1
      <4> QED
        BY <1>4, <3>1, <4>1
    <3>2. CASE r \notin 0 .. n - 1
      <4>1. \A u \in G!Item : G!NcIndex(u) \in Nat
        BY <1>3
      <4> QED
        BY <3>2, <4>1
    <3> QED
      BY <3>1, <3>2
  <2> QED
    BY <1>1, <2>2, <2>3, <2>5
<1> QED
  BY <1>5, <1>6

LEMMA GemvExact == GemvInv /\ GemvData => G!BlockExact
<1> SUFFICES ASSUME GemvInv, GemvData, G!Done PROVE
        out = [a \in {r + G!Share(launch.group).col * G!NcDim :
                         r \in G!Share(launch.group).rows} |->
                 GemvSum(a - G!Share(launch.group).col * G!NcDim,
                         G!Share(launch.group).terms)]
  BY DEF G!BlockExact, GemvSum, GemvPair
<1>1. launch \in GemvLaunches
  BY DEF GemvInv
<1>2. PICK n \in Nat \ {0} : n = G!NcDim
  BY <1>1, GemvNumbers
<1>3. \A u \in G!Item : /\ G!NcIndex(u) \in Nat
                        /\ G!OutIndex(u) = G!NcIndex(u) + GemvColumn
  BY <1>1, GemvNumbers
<1>4. GemvWriters(pos, pc) = {u \in G!Item : G!NcIndex(u) < n}
  <2> SUFFICES ASSUME NEW u \in G!Item, G!NcIndex(u) < n PROVE GemvEnded(pos[u], pc[u])
    BY <1>2 DEF GemvWriters
  <2>1. pc[u] = "done"
    BY DEF G!Done
  <2>2. GemvAt(u, pos[u], "done")
    BY <2>1 DEF GemvData
  <2> QED
    BY <1>2, <1>3, <2>1, <2>2 DEF GemvEnded, GemvAt
<1>5. /\ G!Share(launch.group).col * G!NcDim = GemvColumn
      /\ G!Share(launch.group).terms = GemvFirst .. GemvEnd - 1
      /\ \A r : r \in G!Share(launch.group).rows
                  <=> \E u \in G!Item : r = G!NcIndex(u) /\ r < G!NcDim
  BY <1>1, GemvShare
<1>6. {r + GemvColumn : r \in G!Share(launch.group).rows}
        = {G!OutIndex(u) : u \in GemvWriters(pos, pc)}
  BY <1>2, <1>3, <1>4, <1>5
<1>7. out = [a \in {G!OutIndex(u) : u \in GemvWriters(pos, pc)} |->
               GemvSum(a - GemvColumn, GemvFirst .. GemvEnd - 1)]
  BY DEF GemvData, GemvWritten
<1> QED
  BY <1>5, <1>6, <1>7

-------------------------------------------------------------------------------
(***************************************************************************)
(* The BLAS 2 kernels: what a group writes                                 *)
(***************************************************************************)

\* The sizes for which the kernels are right.  GemvRow halves the items of a group
\* in a tree (gemv.hpp:662), which is right when their number is a power of two.
\* The interface takes the work-group size of the device, 256 at most
\* (sycl_policy.h:80), and does not check it.
TreesHalve == \A l \in RowLaunches : Halving(l.localSz)

\* Gemv multiplies a transposed matrix tile by tile, localSz / cl_elems of them
\* (gemv.hpp:244), which is none when a group has fewer items than a cache line
\* has elements.
TilesFit ==
    \A l \in GemvLaunches : l.local /\ l.trans => l.localSz % l.clElems = 0

BlockData ==
    /\ Runs("gemv") => GemvData
    /\ Runs("gemvRow") => RowData
    /\ Runs("gemvCol") => ColData
    /\ Runs("gerCol") => GerData

LEMMA BlockDataStart == Init => BlockData
<1> SUFFICES ASSUME Init PROVE BlockData
  OBVIOUS
<1>1. Runs("gemv") => G!Init
  BY RowSizes, ColSizes, GerSizes, PartSizes, InvSizes
     DEF Init, Runs, R!Init, W!Init, C!Init, E!Init, D!Init
<1>2. Runs("gemvRow") => W!Init
  BY GemvSizes, ColSizes, GerSizes, PartSizes, InvSizes
     DEF Init, Runs, R!Init, G!Init, C!Init, E!Init, D!Init
<1>3. Runs("gemvCol") => C!Init
  BY GemvSizes, RowSizes, GerSizes, PartSizes, InvSizes
     DEF Init, Runs, R!Init, G!Init, W!Init, E!Init, D!Init
<1>4. Runs("gerCol") => E!Init
  BY GemvSizes, RowSizes, ColSizes, PartSizes, InvSizes
     DEF Init, Runs, R!Init, G!Init, W!Init, C!Init, D!Init
<1> QED
  BY <1>1, <1>2, <1>3, <1>4, GemvDataStart, RowDataStart, ColDataStart, GerDataStart
     DEF BlockData

LEMMA SameLaunch == ASSUME NEW i \in DOMAIN pc, Step(i) PROVE launch' = launch
BY DEF Step, G!Step, G!LoadX, G!Dot, G!LoadTile, G!MultiplyTile,
   G!StoreSum, G!Row, W!Step, W!WriteZeros, W!Fill, W!Level, W!StoreRows,
   W!Return, C!Step, C!WriteZeros, C!CopyBlock, C!MultiplyBlock, C!Return,
   E!Step, E!CopyBlock, E!Update, E!Return, R!Step, R!Enter, R!LoadElement,
   R!PutScratch, R!Arrive, R!Leave, R!Skip, R!LoadPair, R!StoreSum,
   R!WriteBack, R!Return, D!Step, D!Load, D!InvertDiagonal, D!Accumulate,
   D!Store, D!WriteRow, D!Leave

LEMMA BlockDataStep ==
    ASSUME TreesHalve, TilesFit, KernelInv, BlockData, NEW i \in DOMAIN pc, Step(i)
    PROVE  BlockData'
<1>1. \A k : Runs(k)' = Runs(k)
  BY SameLaunch DEF Runs
<1>2. ASSUME Runs("gemv") PROVE GemvData'
  <2>1. GemvInv /\ GemvData /\ i \in G!Item /\ G!Step(i)
    BY <1>2 DEF KernelInv, BlockData, GemvInv, Step, Runs
  <2>2. GemvFits
    BY <2>1 DEF TilesFit, GemvFits, GemvInv
  <2> QED
    BY <2>1, <2>2, GemvDataStep
<1>3. ASSUME Runs("gemvRow") PROVE RowData'
  <2>1. RowInv /\ RowData /\ i \in W!Item /\ W!Step(i)
    BY <1>3 DEF KernelInv, BlockData, RowInv, Step, Runs
  <2>2. Halving(launch.localSz)
    BY <2>1 DEF TreesHalve, RowInv
  <2> QED
    BY <2>1, <2>2, RowDataStep
<1>4. ASSUME Runs("gemvCol") PROVE ColData'
  <2>1. ColInv /\ ColData /\ i \in C!Item /\ C!Step(i)
    BY <1>4 DEF KernelInv, BlockData, ColInv, Step, Runs
  <2> QED
    BY <2>1, ColDataStep
<1>5. ASSUME Runs("gerCol") PROVE GerData'
  <2>1. GerInv /\ GerData /\ i \in E!Item /\ E!Step(i)
    BY <1>5 DEF KernelInv, BlockData, GerInv, Step, Runs
  <2> QED
    BY <2>1, GerDataStep
<1> QED
  BY <1>1, <1>2, <1>3, <1>4, <1>5 DEF BlockData

LEMMA BlockDataStutter ==
    ASSUME KernelInv, BlockData, UNCHANGED vars PROVE BlockData'
<1>1. /\ launch' = launch /\ pc' = pc /\ pos' = pos /\ offset' = offset
      /\ acc' = acc /\ scratch' = scratch /\ out' = out
  BY DEF vars
<1>2. ASSUME GemvData PROVE GemvData'
  BY <1>1, <1>2, GemvDataAfter DEF GemvData
<1>3. ASSUME RowData PROVE RowData'
  BY <1>1, <1>3, RowDataAfter DEF RowData
<1>4. ASSUME ColData PROVE ColData'
  BY <1>1, <1>4, ColDataAfter DEF ColData
<1>5. ASSUME GerData PROVE GerData'
  BY <1>1, <1>5, GerDataAfter DEF GerData
<1> QED
  BY <1>1, <1>2, <1>3, <1>4, <1>5 DEF BlockData, Runs

\* Gemv, GemvRow, GemvCol, GerCol: when all items of a group have returned, the
\* group has written its share of the output and nothing else, each product in
\* it once, whatever order its items ran in.
THEOREM SharesAreExact == TreesHalve /\ TilesFit => (Spec => []BlockExact)
<1> SUFFICES ASSUME TreesHalve, TilesFit PROVE Spec => []BlockExact
  OBVIOUS
<1>1. KernelInv /\ KernelInv' /\ BlockData /\ [Next]_vars => BlockData'
  BY BlockDataStep, BlockDataStutter DEF Next, Finished
<1>2. KernelInv /\ BlockData => BlockExact
  BY GemvExact, RowExact, ColExact, GerExact DEF KernelInv, BlockData, BlockExact
<1> QED
  BY <1>1, <1>2, BlockDataStart, KernelInvariant, PTL DEF Spec

-------------------------------------------------------------------------------
(***************************************************************************)
(* DiagonalBlocksInverter: what a group writes                             *)
(***************************************************************************)

\* The inverter is right for a triangle of numbers in the memory of A whose
\* diagonal can be inverted, and is one where UnitDiag says so.
BlockCell(l, i, j) ==
    l.block * (BlockSize + l.lda * BlockSize) + i + j * l.lda
CellInMatrix(l, i, j) ==
    IF l.upper THEN i <= j /\ l.block * BlockSize + j < l.n
    ELSE j <= i /\ l.block * BlockSize + i < l.n
RegularBlock(l) ==
    \A i, j \in D!Index : CellInMatrix(l, i, j) =>
        /\ BlockCell(l, i, j) \in DOMAIN l.a /\ l.a[BlockCell(l, i, j)] \in D!Number
        /\ i = j => IF l.unit THEN l.a[BlockCell(l, i, j)] = 1
                    ELSE \E x \in D!Number : D!Times(l.a[BlockCell(l, i, j)], x) = 1

RegularBlocks == \A l \in InverterLaunches : RegularBlock(l)

\* A cell of the block as it is loaded, the number that stands on the diagonal
\* afterwards, and the columns that an item has behind it.
InvLoaded(i, j) ==
    IF CellInMatrix(launch, i, j) THEN launch.a[BlockCell(launch, i, j)] ELSE 0
InvPivot(j) ==
    IF launch.unit THEN InvLoaded(j, j) ELSE D!Reciprocal(InvLoaded(j, j))
InvPassed(j, k) == IF launch.upper THEN k < j ELSE k > j

\* The sum for column k of a row, and what the row gets from it.
InvSumAt(row, k) ==
    D!SumOf(D!Terms(k), LAMBDA t : D!Times(row[t], InvLoaded(t, k)))
InvRule(row, k) == D!Times(InvSumAt(row, k), D!Minus(InvPivot(k)))

\* Row i of local memory, for an item that is at column j.
InvRow(i, j, l, row) ==
    l # "load" =>
        /\ \A k \in D!Index :
              k # i /\ ~(D!Active(i, k) /\ InvPassed(j, k)) => row[k] = InvLoaded(i, k)
        /\ i \in D!Live =>
              /\ row[i] = IF l = "diagonal" THEN InvLoaded(i, i) ELSE InvPivot(i)
              /\ \A k \in D!Live : row[k] \in D!Number
        /\ \A k \in D!Live :
              i \in D!Live /\ D!Active(i, k) /\ InvPassed(j, k) => row[k] = InvRule(row, k)

InvColumn(j, l) ==
    /\ IF launch.upper THEN j \in 1 .. BlockSize ELSE j \in -1 .. BlockSize - 2
    /\ l = "diagonal" => ~launch.unit
    /\ l \in {"load", "diagonal"} => j = D!FirstColumn
    /\ l = "store" => D!MoreColumns(j)
    /\ l = "done" => ~D!MoreColumns(j)

InvHeld(i, j, l, row, s) ==
    l = "store" /\ i \in D!Live /\ j \in D!Live /\ D!Active(i, j) => s = InvSumAt(row, j)

InvData ==
    /\ scratch = [i \in D!Index |-> [k \in D!Index |-> scratch[i][k]]]
    /\ acc = [i \in D!Index |-> acc[i]] /\ out = [i \in D!Index |-> out[i]]
    /\ \A i \in D!Index : InvColumn(pos[i], pc[i])
    /\ \A i \in D!Index : InvRow(i, pos[i], pc[i], scratch[i])
    /\ \A i \in D!Index : InvHeld(i, pos[i], pc[i], scratch[i], acc[i])
    /\ \A i \in D!Index : pc[i] = "done" => out[i] = scratch[i]

LEMMA InvNumber ==
    /\ P \in Nat \ {0} /\ 1 < P /\ D!Number = 0 .. P - 1 /\ D!Undefined = -1
    /\ D!Number \subseteq D!Element
    /\ 0 \in D!Number /\ 1 \in D!Number
BY PAssumption DEF D!Number, D!Undefined, D!Element

LEMMA InvTimes ==
    ASSUME NEW a \in D!Number, NEW b \in D!Number
    PROVE  /\ D!Times(a, b) \in D!Number /\ D!Times(a, b) # D!Undefined
           /\ SameMod(D!Times(a, b), a * b, P)
<1>1. a \in D!Element /\ b \in D!Element /\ a # D!Undefined /\ b # D!Undefined
      /\ a \in Int /\ b \in Int
  BY InvNumber
<1>2. D!Times(a, b) = (a * b) % P
  BY <1>1 DEF D!Times, D!Products
<1>3. PICK c \in Int : c = a * b
  BY <1>1
<1>4. c % P \in 0 .. P - 1 /\ SameMod(c % P, c, P)
  BY InvNumber, SameModRest
<1> QED
  BY <1>2, <1>3, <1>4, InvNumber

LEMMA InvMinus ==
    ASSUME NEW a \in D!Number
    PROVE  D!Minus(a) \in D!Number /\ SameMod(D!Minus(a), -a, P)
<1>1. a # D!Undefined /\ a \in Int
  BY InvNumber
<1>2. PICK c \in Int : c = P - a
  BY <1>1, InvNumber
<1>3. D!Minus(a) = c % P
  BY <1>1, <1>2 DEF D!Minus
<1>4. c % P \in 0 .. P - 1 /\ SameMod(c % P, c, P)
  BY InvNumber, SameModRest
<1>5. SameMod(c, -a, P)
  <2>1. c = -a + P * 1
    BY <1>1, <1>2, InvNumber
  <2> QED
    BY <2>1 DEF SameMod
<1>6. -a \in Int /\ c % P \in Int /\ P \in Nat
  BY <1>1, <1>4, InvNumber
<1>7. SameMod(c % P, -a, P)
  BY <1>4, <1>5, <1>6, SameModOn
<1> QED
  BY <1>3, <1>4, <1>7, InvNumber

LEMMA InvSum == \A h, S : D!SumFunctionOnSet(h, S) = SumFunctionOnSet(h, S)
BY DEF D!SumFunctionOnSet, SumFunctionOnSet, D!FoldFunctionOnSet, FoldFunctionOnSet,
       D!MapThenFoldSet, MapThenFoldSet

\* A sum of products of numbers.
LEMMA InvSumNumber ==
    ASSUME NEW S, IsFiniteSet(S), NEW f, NEW g,
           \A t \in S : f[t] \in D!Number /\ g[t] \in D!Number,
           NEW h, \A t \in S : h[t] = D!Times(f[t], g[t]),
           NEW e, \A t \in S : e[t] = f[t] * g[t]
    PROVE  /\ D!SumFunctionOnSet(h, S) % P \in D!Number
           /\ SumFunctionOnSet(e, S) \in Int
           /\ SameMod(D!SumFunctionOnSet(h, S) % P, SumFunctionOnSet(e, S), P)
<1>3. \A t \in S : h[t] \in Int /\ e[t] \in Int /\ SameMod(h[t], e[t], P)
  <2> TAKE t \in S
  <2>1. PICK u \in D!Number, v \in D!Number : u = f[t] /\ v = g[t]
    OBVIOUS
  <2>2. h[t] = D!Times(u, v) /\ e[t] = u * v
    BY <2>1
  <2>3. D!Times(u, v) \in Int /\ u * v \in Int
    BY InvNumber, InvTimes
  <2> QED
    BY <2>2, <2>3, InvTimes
<1>4. /\ SumFunctionOnSet(h, S) \in Int /\ SumFunctionOnSet(e, S) \in Int
      /\ SameMod(SumFunctionOnSet(h, S), SumFunctionOnSet(e, S), P)
  BY <1>3, InvNumber, SameModSum
<1>5. PICK c \in Int, d \in Int : /\ c = SumFunctionOnSet(h, S) /\ d = SumFunctionOnSet(e, S)
                                  /\ SameMod(c, d, P)
  BY <1>4
<1>6. c % P \in 0 .. P - 1 /\ SameMod(c % P, c, P)
  BY InvNumber, SameModRest
<1>7. c % P \in Int /\ P \in Nat
  BY <1>6, InvNumber
<1>8. SameMod(c % P, d, P)
  BY <1>5, <1>6, <1>7, SameModOn
<1>9. D!SumFunctionOnSet(h, S) = c
  BY <1>5, InvSum
<1> QED
  BY <1>5, <1>6, <1>8, <1>9, InvNumber

RegularLaunch == launch \in InverterLaunches /\ RegularBlock(launch)

LEMMA InvLaunch ==
    ASSUME launch \in InverterLaunches
    PROVE  /\ launch.unit \in BOOLEAN /\ launch.upper \in BOOLEAN
           /\ launch.n \in Nat \ {0} /\ launch.block \in Nat
           /\ launch.block * BlockSize \in Nat /\ launch.block * BlockSize < launch.n
           /\ BlockSize \in Nat \ {0} /\ D!Index = 0 .. BlockSize - 1
<1>1. /\ BlockSize \in Nat \ {0} /\ launch.unit \in BOOLEAN /\ launch.upper \in BOOLEAN
      /\ launch.n \in Nat \ {0} /\ launch.block \in Nat
      /\ launch.block * BlockSize < launch.n
  BY GroupKernelsAssumption DEF GroupKernelsAssumption, D!InverterAssumption
<1> QED
  BY <1>1 DEF D!Index

\* The rows of the block that are in the matrix.
LEMMA InvLive ==
    ASSUME launch \in InverterLaunches
    PROVE  /\ D!Live \subseteq D!Index /\ IsFiniteSet(D!Live) /\ IsFiniteSet(D!Index)
           /\ \A i \in D!Index : i \in D!Live <=> launch.block * BlockSize + i < launch.n
<1>1. PICK m \in Nat, b \in Nat \ {0}, n \in Nat :
         m = launch.block * BlockSize /\ b = BlockSize /\ n = launch.n /\ m < n
  BY InvLaunch
<1>2. D!Min({b, n - m}) = IF b <= n - m THEN b ELSE n - m
  BY <1>1 DEF D!Min
<1>3. PICK e \in Int : e = D!Min({b, n - m}) /\ e <= b /\ (e = b \/ e = n - m) /\ e <= n - m
  BY <1>1, <1>2
<1>4. D!Live = 0 .. e - 1 /\ D!Index = 0 .. b - 1
  BY <1>1, <1>3 DEF D!Live, D!Index
<1>5. PICK u \in Int, v \in Int : u = e - 1 /\ v = b - 1
  OBVIOUS
<1>6. IsFiniteSet(0 .. u) /\ IsFiniteSet(0 .. v)
  BY FS_Interval
<1>7. D!Live = 0 .. u /\ D!Index = 0 .. v
  BY <1>4, <1>5
<1>8. \A i \in D!Index : i \in D!Live <=> launch.block * BlockSize + i < launch.n
  <2> TAKE i \in D!Index
  <2>1. i \in 0 .. b - 1
    BY <1>4
  <2>2. i \in 0 .. e - 1 <=> m + i < n
    BY <1>1, <1>3, <2>1
  <2> QED
    BY <1>1, <1>4, <2>2
<1>9. D!Live \subseteq D!Index
  BY <1>3, <1>4
<1> QED
  BY <1>6, <1>7, <1>8, <1>9

\* Only rows and columns that are in the matrix have cells in it.
LEMMA InvCells ==
    ASSUME launch \in InverterLaunches, NEW i \in D!Index, NEW j \in D!Index
    PROVE  /\ CellInMatrix(launch, i, j)
                <=> i \in D!Live /\ j \in D!Live /\ (i = j \/ D!Active(i, j))
           /\ D!IsInRange(i, j) <=> CellInMatrix(launch, i, j)
<1>1. i \in Nat /\ j \in Nat /\ launch.block * BlockSize \in Nat /\ launch.n \in Nat
  BY InvLaunch
<1> QED
  BY <1>1, InvLive DEF CellInMatrix, D!Active, D!IsInRange

LEMMA InvLoadedNumber ==
    ASSUME RegularLaunch, NEW i \in D!Index, NEW j \in D!Index
    PROVE  /\ InvLoaded(i, j) \in D!Number
           /\ ~(i \in D!Live /\ j \in D!Live /\ (i = j \/ D!Active(i, j)))
                => InvLoaded(i, j) = 0
           /\ i \in D!Live /\ j \in D!Live => D!Block(i, j) = InvLoaded(i, j)
<1>1. CASE CellInMatrix(launch, i, j)
  <2>1. InvLoaded(i, j) \in D!Number
    BY <1>1 DEF InvLoaded, RegularLaunch, RegularBlock
  <2>2. i \in D!Live /\ j \in D!Live /\ (i = j \/ D!Active(i, j))
    BY <1>1, InvCells DEF RegularLaunch
  <2>3. D!Block(i, j) = InvLoaded(i, j)
    BY <1>1, InvLaunch DEF D!Block, InvLoaded, BlockCell, D!SrcBlockOffset, CellInMatrix,
       RegularLaunch
  <2> QED
    BY <2>1, <2>2, <2>3
<1>2. CASE ~CellInMatrix(launch, i, j)
  <2>1. InvLoaded(i, j) = 0
    BY <1>2 DEF InvLoaded
  <2>2. ~(i \in D!Live /\ j \in D!Live /\ (i = j \/ D!Active(i, j)))
    BY <1>2, InvCells DEF RegularLaunch
  <2>3. i \in D!Live /\ j \in D!Live => D!Block(i, j) = 0
    <3>1. i \in Nat /\ j \in Nat /\ launch.upper \in BOOLEAN
      BY InvLaunch DEF RegularLaunch
    <3> QED
      BY <2>2, <3>1 DEF D!Block, D!Active
  <2> QED
    BY <2>1, <2>2, <2>3, InvNumber
<1> QED
  BY <1>1, <1>2

LEMMA InvPivotNumber ==
    ASSUME RegularLaunch, NEW j \in D!Live
    PROVE  InvPivot(j) \in D!Number /\ SameMod(InvLoaded(j, j) * InvPivot(j), 1, P)
<1>1. j \in D!Index /\ CellInMatrix(launch, j, j)
  BY InvLive, InvCells DEF RegularLaunch
<1>2. PICK a \in D!Number :
         /\ a = InvLoaded(j, j)
         /\ IF launch.unit THEN a = 1 ELSE \E x \in D!Number : D!Times(a, x) = 1
  BY <1>1 DEF InvLoaded, RegularLaunch, RegularBlock
<1>3. CASE launch.unit
  <2>1. a = 1 /\ InvPivot(j) = 1
    BY <1>2, <1>3 DEF InvPivot
  <2>2. SameMod(1, 1, P) /\ 1 * 1 = 1
    BY InvNumber, SameModSelf
  <2> QED
    BY <1>2, <2>1, <2>2, InvNumber
<1>4. CASE ~launch.unit
  <2>1. PICK r \in D!Number : r = InvPivot(j) /\ D!Times(a, r) = 1
    BY <1>2, <1>4 DEF InvPivot, D!Reciprocal
  <2>2. SameMod(1, a * r, P)
    BY <2>1, InvTimes
  <2>3. PICK c \in Int : c = a * r
    BY InvNumber
  <2>4. SameMod(c, 1, P)
    BY <2>2, <2>3, InvNumber, SameModBack
  <2> QED
    BY <1>2, <2>1, <2>3, <2>4
<1> QED
  BY <1>3, <1>4

\* The sum for a column of a row whose cells in the columns before are numbers.
LEMMA InvTerms ==
    ASSUME launch \in InverterLaunches, NEW j \in D!Index
    PROVE  /\ D!Terms(j) = {t \in D!Index : D!Active(t, j)}
           /\ IsFiniteSet(D!Terms(j))
           /\ \A i \in D!Index, t \in D!Index : D!Active(i, t) /\ D!Active(t, j) => D!Active(i, j)
<1>1. PICK b \in Nat : b = BlockSize /\ D!Index = 0 .. b - 1 /\ launch.upper \in BOOLEAN
  BY InvLaunch
<1>2. D!Terms(j) = {t \in D!Index : D!Active(t, j)}
  BY <1>1 DEF D!Terms, D!Active
<1>3. IsFiniteSet(D!Terms(j))
  BY <1>2, InvLive, FS_Subset
<1> QED
  BY <1>1, <1>2, <1>3 DEF D!Active

LEMMA InvSumAtNumber ==
    ASSUME RegularLaunch, NEW j \in D!Index, NEW row,
           \A t \in D!Terms(j) : row[t] \in D!Number
    PROVE  /\ InvSumAt(row, j) \in D!Number
           /\ SumFunctionOnSet([t \in D!Terms(j) |-> row[t] * InvLoaded(t, j)], D!Terms(j))
                \in Int
           /\ SameMod(InvSumAt(row, j),
                      SumFunctionOnSet([t \in D!Terms(j) |-> row[t] * InvLoaded(t, j)],
                                       D!Terms(j)), P)
<1>1. PICK S : S = D!Terms(j) /\ IsFiniteSet(S) /\ S \subseteq D!Index
  BY InvTerms DEF RegularLaunch
<1>2. PICK g, h, e : /\ g = [t \in S |-> InvLoaded(t, j)]
                     /\ h = [t \in S |-> D!Times(row[t], InvLoaded(t, j))]
                     /\ e = [t \in S |-> row[t] * InvLoaded(t, j)]
  OBVIOUS
<1>3. \A t \in S : row[t] \in D!Number /\ g[t] \in D!Number
  BY <1>1, <1>2, InvLoadedNumber
<1>4. \A t \in S : h[t] = D!Times(row[t], g[t]) /\ e[t] = row[t] * g[t]
  BY <1>2
<1>5. InvSumAt(row, j) = D!SumFunctionOnSet(h, S) % P
  <2>1. \A t \in S : D!Times(row[t], InvLoaded(t, j)) # D!Undefined
    BY <1>2, <1>3, InvTimes
  <2> QED
    BY <1>1, <1>2, <2>1 DEF InvSumAt, D!SumOf
<1>6. PICK f : f = row
  OBVIOUS
<1>7. /\ D!SumFunctionOnSet(h, S) % P \in D!Number
      /\ SumFunctionOnSet(e, S) \in Int
      /\ SameMod(D!SumFunctionOnSet(h, S) % P, SumFunctionOnSet(e, S), P)
  <2>1. /\ IsFiniteSet(S)
        /\ \A t \in S : f[t] \in D!Number /\ g[t] \in D!Number
        /\ \A t \in S : h[t] = D!Times(f[t], g[t])
        /\ \A t \in S : e[t] = f[t] * g[t]
    BY <1>1, <1>3, <1>4, <1>6
  <2> QED
    BY ONLY <2>1, InvSumNumber
<1> QED
  BY <1>1, <1>2, <1>5, <1>7

LEMMA InvSameShape ==
    ASSUME launch' = launch
    PROVE  /\ \A k : D!Terms(k)' = D!Terms(k) /\ D!MoreColumns(k)' = D!MoreColumns(k)
           /\ \A i, k : D!Active(i, k)' = D!Active(i, k) /\ InvPassed(i, k)' = InvPassed(i, k)
           /\ D!Live' = D!Live /\ D!FirstColumn' = D!FirstColumn
BY DEF D!Terms, D!Active, D!Live, D!FirstColumn, D!MoreColumns, InvPassed

LEMMA InvSameLaunch ==
    ASSUME launch' = launch
    PROVE  /\ \A i, j : InvLoaded(i, j)' = InvLoaded(i, j)
           /\ \A j : InvPivot(j)' = InvPivot(j)
           /\ \A row, k : InvSumAt(row, k)' = InvSumAt(row, k)
           /\ \A row, k : InvRule(row, k)' = InvRule(row, k)
           /\ \A i, j, l, row : InvRow(i, j, l, row)' = InvRow(i, j, l, row)
           /\ \A j, l : InvColumn(j, l)' = InvColumn(j, l)
           /\ \A i, j, l, row, s : InvHeld(i, j, l, row, s)' = InvHeld(i, j, l, row, s)
<1>1. \A i, j : InvLoaded(i, j)' = InvLoaded(i, j)
  BY DEF InvLoaded
<1>2. \A j : InvPivot(j)' = InvPivot(j)
  BY <1>1 DEF InvPivot
<1>3. /\ \A k : D!Terms(k)' = D!Terms(k) /\ D!MoreColumns(k)' = D!MoreColumns(k)
      /\ \A i, k : D!Active(i, k)' = D!Active(i, k) /\ InvPassed(i, k)' = InvPassed(i, k)
      /\ D!Live' = D!Live /\ D!FirstColumn' = D!FirstColumn
  BY InvSameShape
<1>4. \A row, k : InvSumAt(row, k)' = InvSumAt(row, k)
  BY <1>1, <1>3 DEF InvSumAt, D!SumOf
<1>5. \A row, k : InvRule(row, k)' = InvRule(row, k)
  BY <1>2, <1>4 DEF InvRule
<1>6. \A i, j, l, row : InvRow(i, j, l, row)' = InvRow(i, j, l, row)
  BY <1>1, <1>2, <1>3, <1>5 DEF InvRow
<1>7. \A j, l : InvColumn(j, l)' = InvColumn(j, l)
  BY <1>3 DEF InvColumn
<1>8. \A i, j, l, row, s : InvHeld(i, j, l, row, s)' = InvHeld(i, j, l, row, s)
  BY <1>3, <1>4 DEF InvHeld
<1> QED
  BY <1>1, <1>2, <1>4, <1>5, <1>6, <1>7, <1>8

\* A step of item i, which keeps to its own row.
LEMMA InvDataAfter ==
    ASSUME InvData, launch' = launch, NEW i \in D!Index,
           scratch' = [scratch EXCEPT ![i] = scratch'[i]],
           scratch'[i] = [k \in D!Index |-> scratch'[i][k]],
           acc' = [acc EXCEPT ![i] = acc'[i]],
           out' = [out EXCEPT ![i] = out'[i]],
           \A u \in D!Index \ {i} : pos'[u] = pos[u] /\ pc'[u] = pc[u],
           InvColumn(pos'[i], pc'[i]),
           InvRow(i, pos'[i], pc'[i], scratch'[i]),
           InvHeld(i, pos'[i], pc'[i], scratch'[i], acc'[i]),
           pc'[i] = "done" => out'[i] = scratch'[i]
    PROVE  InvData'
<1>1. /\ scratch' = [u \in D!Index |-> [k \in D!Index |-> scratch'[u][k]]]
      /\ acc' = [u \in D!Index |-> acc'[u]] /\ out' = [u \in D!Index |-> out'[u]]
  BY DEF InvData
<1>2. \A u \in D!Index \ {i} : /\ scratch'[u] = scratch[u] /\ acc'[u] = acc[u]
                                /\ out'[u] = out[u]
  BY DEF InvData
<1>3. /\ \A u \in D!Index : InvColumn(pos'[u], pc'[u])
      /\ \A u \in D!Index : InvRow(u, pos'[u], pc'[u], scratch'[u])
      /\ \A u \in D!Index : InvHeld(u, pos'[u], pc'[u], scratch'[u], acc'[u])
      /\ \A u \in D!Index : pc'[u] = "done" => out'[u] = scratch'[u]
  <2> SUFFICES ASSUME NEW u \in D!Index
               PROVE  /\ InvColumn(pos'[u], pc'[u])
                      /\ InvRow(u, pos'[u], pc'[u], scratch'[u])
                      /\ InvHeld(u, pos'[u], pc'[u], scratch'[u], acc'[u])
                      /\ pc'[u] = "done" => out'[u] = scratch'[u]
    OBVIOUS
  <2>1. CASE u = i
    BY <2>1
  <2>2. CASE u # i
    <3>1. /\ pos'[u] = pos[u] /\ pc'[u] = pc[u]
          /\ scratch'[u] = scratch[u] /\ acc'[u] = acc[u] /\ out'[u] = out[u]
      BY <1>2, <2>2
    <3>2. /\ InvColumn(pos[u], pc[u])
          /\ InvRow(u, pos[u], pc[u], scratch[u])
          /\ InvHeld(u, pos[u], pc[u], scratch[u], acc[u])
          /\ pc[u] = "done" => out[u] = scratch[u]
      BY DEF InvData
    <3> QED
      BY <3>1, <3>2
  <2> QED
    BY <2>1, <2>2
<1>4. /\ \A j, l : InvColumn(j, l)' = InvColumn(j, l)
      /\ \A u, j, l, row : InvRow(u, j, l, row)' = InvRow(u, j, l, row)
      /\ \A u, j, l, row, s : InvHeld(u, j, l, row, s)' = InvHeld(u, j, l, row, s)
  BY InvSameLaunch
<1>5. \A u \in D!Index : InvColumn(pos[u], pc[u])'
  BY <1>3 DEF InvColumn, D!FirstColumn, D!MoreColumns
<1>6. \A u \in D!Index : InvRow(u, pos[u], pc[u], scratch[u])'
  <2> TAKE u \in D!Index
  <2>1. InvRow(u, pos'[u], pc'[u], scratch'[u])
    BY <1>3
  <2>2. /\ \A v, j : InvLoaded(v, j)' = InvLoaded(v, j)
        /\ \A j : InvPivot(j)' = InvPivot(j)
        /\ \A row, k : InvRule(row, k)' = InvRule(row, k)
    BY InvSameLaunch
  <2> QED
    BY <2>1, <2>2, InvSameShape DEF InvRow
<1>7. \A u \in D!Index : InvHeld(u, pos[u], pc[u], scratch[u], acc[u])'
  <2> TAKE u \in D!Index
  <2>1. InvHeld(u, pos'[u], pc'[u], scratch'[u], acc'[u])
    BY <1>3
  <2>2. \A row, k : InvSumAt(row, k)' = InvSumAt(row, k)
    BY InvSameLaunch
  <2> QED
    BY <2>1, <2>2, InvSameShape DEF InvHeld
<1> QED
  BY <1>1, <1>3, <1>5, <1>6, <1>7 DEF InvData

\* The sum for a column depends on the row's cells in the columns before it.
LEMMA InvSumAtSame ==
    ASSUME NEW r, NEW q, NEW k, \A t \in D!Terms(k) : r[t] = q[t]
    PROVE  InvSumAt(r, k) = InvSumAt(q, k)
<1>1. PICK S : S = D!Terms(k)
  OBVIOUS
<1>2. /\ [t \in S |-> D!Times(r[t], InvLoaded(t, k))]
           = [t \in S |-> D!Times(q[t], InvLoaded(t, k))]
      /\ (\E t \in S : D!Times(r[t], InvLoaded(t, k)) = D!Undefined)
           <=> (\E t \in S : D!Times(q[t], InvLoaded(t, k)) = D!Undefined)
  BY <1>1
<1> QED
  BY <1>1, <1>2 DEF InvSumAt, D!SumOf

\* Where an item is in the loop, and which columns it has behind it then.
LEMMA InvPlace ==
    ASSUME launch \in InverterLaunches, NEW j, NEW l, InvColumn(j, l), D!MoreColumns(j)
    PROVE  /\ j \in D!Index /\ D!NextColumn(j) \in Int
           /\ InvColumn(D!NextColumn(j), "sum")
           /\ \A k \in D!Index : InvPassed(D!NextColumn(j), k) <=> InvPassed(j, k) \/ k = j
           /\ ~InvPassed(j, j) /\ ~D!Active(j, j)
           /\ \A k \in D!Index : InvPassed(j, k) \/ k = j => j \notin D!Terms(k)
           /\ j \notin D!Terms(j)
<1>1. PICK b \in Nat \ {0} : b = BlockSize /\ D!Index = 0 .. b - 1 /\ launch.upper \in BOOLEAN
  BY InvLaunch
<1>2. j \in 0 .. b - 1
  BY <1>1 DEF InvColumn, D!MoreColumns
<1> QED
  BY <1>1, <1>2 DEF InvColumn, D!MoreColumns, D!NextColumn, InvPassed, D!Active, D!Terms

LEMMA InvFirst ==
    ASSUME launch \in InverterLaunches
    PROVE  /\ IF launch.upper THEN D!FirstColumn \in 1 .. BlockSize
              ELSE D!FirstColumn \in -1 .. BlockSize - 2
           /\ \A i, k \in D!Index : ~(D!Active(i, k) /\ InvPassed(D!FirstColumn, k))
<1>1. PICK b \in Nat \ {0} : b = BlockSize /\ D!Index = 0 .. b - 1 /\ launch.upper \in BOOLEAN
  BY InvLaunch
<1> QED
  BY <1>1 DEF D!FirstColumn, InvPassed, D!Active

\* The cells of a row that a sum for a column of the matrix takes in are numbers.
LEMMA InvRowNumbers ==
    ASSUME RegularLaunch, NEW i \in D!Live, NEW j \in D!Live,
           NEW p, NEW l, l # "load", NEW row, InvRow(i, p, l, row)
    PROVE  \A t \in D!Terms(j) : row[t] \in D!Number
<1> SUFFICES ASSUME NEW t \in D!Terms(j), t \notin D!Live
             PROVE  row[t] \in D!Number
  BY DEF InvRow
<1>1. /\ launch \in InverterLaunches /\ i \in D!Index /\ j \in D!Index /\ t \in D!Index
      /\ D!Active(t, j)
  BY InvLive, InvTerms DEF RegularLaunch
<1>2. PICK m \in Nat, n \in Nat :
         /\ m = launch.block * BlockSize /\ n = launch.n
         /\ m + i < n /\ m + j < n /\ ~(m + t < n)
  BY <1>1, InvLive, InvLaunch
<1>3. i \in Int /\ j \in Int /\ t \in Int /\ launch.upper \in BOOLEAN
  BY <1>1, InvLaunch
<1>4. t # i /\ ~D!Active(i, t)
  BY <1>1, <1>2, <1>3 DEF D!Active
<1>5. row[t] = InvLoaded(i, t)
  BY <1>1, <1>4 DEF InvRow
<1> QED
  BY <1>1, <1>5, InvLoadedNumber

LEMMA InvDataStart == ASSUME D!Init PROVE InvData
<1>1. /\ launch \in InverterLaunches
      /\ pc = [i \in D!Index |-> "load"]
      /\ pos = [i \in D!Index |-> D!FirstColumn]
      /\ acc = [i \in D!Index |-> 0]
      /\ scratch = [i \in D!Index |-> [k \in D!Index |-> D!Undefined]]
      /\ out = [i \in D!Index |-> [k \in D!Index |-> D!Undefined]]
  BY DEF D!Init
<1>2. scratch = [i \in D!Index |-> [k \in D!Index |-> scratch[i][k]]]
  BY <1>1
<1>3. acc = [i \in D!Index |-> acc[i]] /\ out = [i \in D!Index |-> out[i]]
  BY <1>1
<1>4. \A i \in D!Index : pc[i] = "load" /\ pos[i] = D!FirstColumn
  BY <1>1
<1>5. InvColumn(D!FirstColumn, "load")
  BY <1>1, InvFirst DEF InvColumn
<1>6. \A i, j, row, s : InvRow(i, j, "load", row) /\ InvHeld(i, j, "load", row, s)
  BY DEF InvRow, InvHeld
<1>7. \A i \in D!Index : /\ InvColumn(pos[i], pc[i]) /\ InvRow(i, pos[i], pc[i], scratch[i])
                         /\ InvHeld(i, pos[i], pc[i], scratch[i], acc[i]) /\ pc[i] # "done"
  BY <1>4, <1>5, <1>6
<1> QED
  BY <1>2, <1>3, <1>7 DEF InvData

\* What InvData says of one item.
LEMMA InvItem ==
    ASSUME InvData, NEW i \in D!Index
    PROVE  /\ scratch[i] = [k \in D!Index |-> scratch[i][k]]
           /\ InvColumn(pos[i], pc[i]) /\ InvRow(i, pos[i], pc[i], scratch[i])
           /\ InvHeld(i, pos[i], pc[i], scratch[i], acc[i])
           /\ pc[i] = "done" => out[i] = scratch[i]
<1>1. PICK m : m = scratch /\ m = [u \in D!Index |-> [k \in D!Index |-> m[u][k]]]
  BY DEF InvData
<1>2. m[i] = [k \in D!Index |-> m[i][k]]
  BY <1>1
<1> QED
  BY <1>1, <1>2 DEF InvData

LEMMA InvDataLoad ==
    ASSUME RegularLaunch, InvInv, InvData, NEW i \in D!Index, D!Load(i)
    PROVE  InvData'
<1> DEFINE l == IF launch.unit THEN "sum" ELSE "diagonal"
           row == [k \in D!Index |-> InvLoaded(i, k)]
<1>1. /\ pc[i] = "load" /\ launch' = launch /\ pos' = pos /\ acc' = acc /\ out' = out
      /\ pc' = [pc EXCEPT ![i] = l]
  BY DEF D!Load, D!At, D!BarrierThen, D!Goto
<1>2. scratch' = [scratch EXCEPT ![i] = row]
  <2>1. \A k \in D!Index :
           (IF ~D!IsInRange(i, k) THEN 0
            ELSE LET a == D!SrcBlockOffset + i + k * launch.lda
                 IN IF a \in DOMAIN launch.a THEN launch.a[a] ELSE D!Undefined)
             = InvLoaded(i, k)
    <3> TAKE k \in D!Index
    <3>1. D!IsInRange(i, k) <=> CellInMatrix(launch, i, k)
      BY InvCells DEF RegularLaunch
    <3>2. D!SrcBlockOffset + i + k * launch.lda = BlockCell(launch, i, k)
      BY DEF D!SrcBlockOffset, BlockCell
    <3>3. CellInMatrix(launch, i, k) => BlockCell(launch, i, k) \in DOMAIN launch.a
      BY DEF RegularLaunch, RegularBlock
    <3> QED
      BY <3>1, <3>2, <3>3 DEF InvLoaded
  <2> QED
    BY <2>1 DEF D!Load
<1>3. scratch'[i] = row /\ pc'[i] = l /\ i \in DOMAIN scratch
  BY <1>1, <1>2 DEF InvData, InvInv
<1>4. InvColumn(pos[i], "load") /\ pos[i] = D!FirstColumn
  BY <1>1, InvItem DEF InvColumn
<1>5. InvColumn(pos[i], l)
  BY <1>4 DEF InvColumn
<1>6. InvRow(i, pos[i], l, row)
  <2>1. \A k \in D!Index : row[k] = InvLoaded(i, k) /\ row[k] \in D!Number
    BY InvLoadedNumber
  <2>2. l = "diagonal" \/ InvPivot(i) = InvLoaded(i, i)
    BY DEF InvPivot
  <2>3. \A k \in D!Live : k \in D!Index
    BY InvLive DEF RegularLaunch
  <2>4. \A k \in D!Index : ~(D!Active(i, k) /\ InvPassed(pos[i], k))
    BY <1>4, InvFirst DEF RegularLaunch
  <2> HIDE DEF row, l
  <2> QED
    BY <2>1, <2>2, <2>3, <2>4 DEF InvRow
<1>7. l # "store" /\ l # "done"
  OBVIOUS
<1>8. InvHeld(i, pos[i], l, row, acc[i])
  BY <1>7 DEF InvHeld
<1>9. row = [k \in D!Index |-> row[k]]
  OBVIOUS
<1> HIDE DEF row, l
<1>10. /\ scratch' = [scratch EXCEPT ![i] = scratch'[i]]
       /\ acc' = [acc EXCEPT ![i] = acc'[i]] /\ out' = [out EXCEPT ![i] = out'[i]]
       /\ \A u \in D!Index \ {i} : pos'[u] = pos[u] /\ pc'[u] = pc[u]
  <2>1. /\ pc = [u \in D!Index |-> pc[u]] /\ acc = [u \in D!Index |-> acc[u]]
        /\ out = [u \in D!Index |-> out[u]]
    BY DEF InvData, InvInv
  <2>2. acc' = [acc EXCEPT ![i] = acc'[i]] /\ out' = [out EXCEPT ![i] = out'[i]]
    BY <1>1, <2>1
  <2>3. \A u \in D!Index \ {i} : pos'[u] = pos[u] /\ pc'[u] = pc[u]
    BY <1>1, <2>1
  <2> QED
    BY <1>2, <1>3, <2>2, <2>3
<1> QED
  BY <1>1, <1>3, <1>5, <1>6, <1>7, <1>8, <1>9, <1>10, InvDataAfter

LEMMA InvDataDiagonal ==
    ASSUME RegularLaunch, InvInv, InvData, NEW i \in D!Index, D!InvertDiagonal(i)
    PROVE  InvData'
<1> DEFINE row == [scratch[i] EXCEPT ![i] = D!Reciprocal(scratch[i][i])]
<1>1. /\ pc[i] = "diagonal" /\ launch' = launch /\ pos' = pos /\ acc' = acc /\ out' = out
      /\ pc' = [pc EXCEPT ![i] = "sum"]
  BY DEF D!InvertDiagonal, D!At, D!BarrierThen, D!Goto
<1>2. scratch' = [scratch EXCEPT ![i] = row]
  BY DEF D!InvertDiagonal
<1>3. scratch'[i] = row /\ pc'[i] = "sum"
  BY <1>1, <1>2 DEF InvData, InvInv
<1>4. /\ InvColumn(pos[i], "diagonal") /\ pos[i] = D!FirstColumn /\ ~launch.unit
      /\ InvRow(i, pos[i], "diagonal", scratch[i])
      /\ scratch[i] = [k \in D!Index |-> scratch[i][k]]
  BY <1>1, InvItem DEF InvColumn
<1>5. InvColumn(pos[i], "sum")
  BY <1>4 DEF InvColumn
<1>6. InvRow(i, pos[i], "sum", row)
  <2>1. /\ \A k \in D!Index : k # i => row[k] = scratch[i][k]
        /\ row[i] = D!Reciprocal(scratch[i][i])
    BY <1>4
  <2>2. i \in D!Live => row[i] = InvPivot(i) /\ row[i] \in D!Number
    BY <1>4, <2>1, InvPivotNumber DEF InvRow, InvPivot
  <2>3. \A k \in D!Live : k \in D!Index
    BY InvLive DEF RegularLaunch
  <2>4. \A k \in D!Index : ~(D!Active(i, k) /\ InvPassed(pos[i], k))
    BY <1>4, InvFirst DEF RegularLaunch
  <2> HIDE DEF row
  <2> QED
    BY <1>4, <2>1, <2>2, <2>3, <2>4 DEF InvRow
<1>7. InvHeld(i, pos[i], "sum", row, acc[i])
  BY DEF InvHeld
<1>8. row = [k \in D!Index |-> row[k]]
  BY <1>4
<1> HIDE DEF row
<1>9. /\ scratch' = [scratch EXCEPT ![i] = scratch'[i]]
      /\ acc' = [acc EXCEPT ![i] = acc'[i]] /\ out' = [out EXCEPT ![i] = out'[i]]
      /\ \A u \in D!Index \ {i} : pos'[u] = pos[u] /\ pc'[u] = pc[u]
  <2>1. /\ pc = [u \in D!Index |-> pc[u]] /\ acc = [u \in D!Index |-> acc[u]]
        /\ out = [u \in D!Index |-> out[u]]
    BY DEF InvData, InvInv
  <2>2. acc' = [acc EXCEPT ![i] = acc'[i]] /\ out' = [out EXCEPT ![i] = out'[i]]
    BY <1>1, <2>1
  <2>3. \A u \in D!Index \ {i} : pos'[u] = pos[u] /\ pc'[u] = pc[u]
    BY <1>1, <2>1
  <2> QED
    BY <1>2, <1>3, <2>2, <2>3
<1> QED
  BY <1>1, <1>3, <1>5, <1>6, <1>7, <1>8, <1>9, InvDataAfter

\* Where the others are when an item adds up or stores.
LEMMA InvOthers ==
    ASSUME InvInv, NEW i \in D!Index, NEW u \in D!Index, ~waiting[i],
           pc[i] \in {"sum", "store"}, D!MoreColumns(pos[i])
    PROVE  /\ pc[u] \notin {"load", "diagonal"}
           /\ pc[i] = "sum" => pos[u] = pos[i]
<1>1. InvPhase[i] = <<pc[i], pos[i]>> /\ pos[i] \in Int
  BY DEF InvPhase, InvInv
<1>2. \/ InvPhase[u] = InvPhase[i]
      \/ InvPhase[i] \in DOMAIN InvNext /\ InvPhase[u] = InvNext[InvPhase[i]]
  BY InvFree, AtBarrier DEF InvInv
<1>3. InvPhase[u] = <<IF pc[u] = "done" THEN "sum" ELSE pc[u], pos[u]>>
  BY DEF InvPhase
<1>4. CASE pc[i] = "sum"
  <2>1. InvNext[InvPhase[i]] = <<"store", pos[i]>>
    BY <1>1, <1>4 DEF InvNext
  <2> QED
    BY <1>1, <1>2, <1>3, <1>4, <2>1
<1>5. CASE pc[i] = "store"
  <2>1. InvNext[InvPhase[i]] = <<"sum", D!NextColumn(pos[i])>>
    BY <1>1, <1>5 DEF InvNext
  <2> QED
    BY <1>1, <1>2, <1>3, <1>5, <2>1
<1> QED
  BY <1>4, <1>5

LEMMA InvDataAccumulate ==
    ASSUME RegularLaunch, InvInv, InvData, NEW i \in D!Index, D!Accumulate(i)
    PROVE  InvData'
<1>1. /\ pc[i] = "sum" /\ ~waiting[i] /\ D!MoreColumns(pos[i])
      /\ launch' = launch /\ pos' = pos /\ scratch' = scratch /\ out' = out
      /\ pc' = [pc EXCEPT ![i] = "store"]
      /\ acc' = [acc EXCEPT ![i] =
                   IF D!Active(i, pos[i])
                   THEN D!SumOf(D!Terms(pos[i]),
                                LAMBDA t : D!Times(scratch[i][t], scratch[t][pos[i]]))
                   ELSE 0]
  BY DEF D!Accumulate, D!At, D!BarrierThen, D!Goto
<1>2. PICK j : j = pos[i]
  OBVIOUS
<1>3. /\ pc = [u \in D!Index |-> pc[u]] /\ acc = [u \in D!Index |-> acc[u]]
      /\ out = [u \in D!Index |-> out[u]]
      /\ scratch = [u \in D!Index |-> [k \in D!Index |-> scratch[u][k]]]
  BY DEF InvData, InvInv
<1>4. /\ pc'[i] = "store" /\ scratch'[i] = scratch[i]
      /\ InvColumn(j, "sum") /\ InvRow(i, j, "sum", scratch[i])
      /\ scratch[i] = [k \in D!Index |-> scratch[i][k]]
  BY <1>1, <1>2, <1>3, InvItem
<1>5. j \in D!Index /\ ~InvPassed(j, j)
  BY <1>1, <1>2, <1>4, InvPlace DEF RegularLaunch
<1>6. InvColumn(j, "store")
  BY <1>1, <1>2, <1>4 DEF InvColumn
<1>7. InvRow(i, j, "store", scratch[i])
  BY <1>4 DEF InvRow
<1>8. D!Active(i, j) => acc'[i] = InvSumAt(scratch[i], j)
  <2>1. \A t \in D!Terms(j) : scratch[t][j] = InvLoaded(t, j)
    <3> TAKE t \in D!Terms(j)
    <3>1. t \in D!Index /\ D!Active(t, j)
      BY <1>5, InvTerms DEF RegularLaunch
    <3>2. pc[t] # "load" /\ pos[t] = j
      BY <1>1, <1>2, <3>1, InvOthers
    <3>3. InvRow(t, j, pc[t], scratch[t])
      BY <3>1, <3>2, InvItem
    <3>4. t # j
      BY <1>1, <1>2, <1>4, <3>1, InvPlace DEF RegularLaunch
    <3> QED
      BY <1>5, <3>2, <3>3, <3>4 DEF InvRow
  <2>2. PICK S, m : S = D!Terms(j) /\ m = scratch
    OBVIOUS
  <2>3. /\ [t \in S |-> D!Times(m[i][t], m[t][j])]
             = [t \in S |-> D!Times(m[i][t], InvLoaded(t, j))]
        /\ (\E t \in S : D!Times(m[i][t], m[t][j]) = D!Undefined)
             <=> (\E t \in S : D!Times(m[i][t], InvLoaded(t, j)) = D!Undefined)
    BY <2>1, <2>2
  <2>4. D!SumOf(S, LAMBDA t : D!Times(m[i][t], m[t][j]))
          = D!SumOf(S, LAMBDA t : D!Times(m[i][t], InvLoaded(t, j)))
    BY <2>3 DEF D!SumOf
  <2>5. D!Active(i, j) => acc'[i] = D!SumOf(S, LAMBDA t : D!Times(m[i][t], m[t][j]))
    BY <1>1, <1>2, <1>3, <2>2
  <2> QED
    BY <2>2, <2>4, <2>5 DEF InvSumAt
<1>9. InvHeld(i, j, "store", scratch[i], acc'[i])
  BY <1>8 DEF InvHeld
<1>10. /\ scratch' = [scratch EXCEPT ![i] = scratch'[i]]
       /\ acc' = [acc EXCEPT ![i] = acc'[i]] /\ out' = [out EXCEPT ![i] = out'[i]]
       /\ \A u \in D!Index \ {i} : pos'[u] = pos[u] /\ pc'[u] = pc[u]
  BY <1>1, <1>3
<1> QED
  BY <1>1, <1>2, <1>4, <1>6, <1>7, <1>9, <1>10, InvDataAfter

\* What an active item has in the column that it stores.
LEMMA InvStored ==
    ASSUME RegularLaunch, InvInv, InvData, NEW i \in D!Live, NEW j \in D!Live,
           pc[i] = "store", pos[i] = j, ~waiting[i], D!Active(i, j)
    PROVE  /\ D!Times(acc[i], D!Minus(scratch[j][j])) = InvRule(scratch[i], j)
           /\ InvRule(scratch[i], j) \in D!Number
<1>1. i \in D!Index /\ j \in D!Index
  BY InvLive DEF RegularLaunch
<1>2. /\ InvColumn(j, "store") /\ InvRow(i, j, "store", scratch[i])
      /\ InvHeld(i, j, "store", scratch[i], acc[i])
  BY <1>1, InvItem
<1>3. acc[i] = InvSumAt(scratch[i], j)
  BY <1>2 DEF InvHeld
<1>4. scratch[j][j] = InvPivot(j)
  <2>1. pc[j] \notin {"load", "diagonal"}
    BY <1>1, <1>2, InvOthers DEF InvColumn
  <2>2. InvRow(j, pos[j], pc[j], scratch[j])
    BY <1>1, InvItem
  <2> QED
    BY <2>1, <2>2 DEF InvRow
<1>5. \A t \in D!Terms(j) : scratch[i][t] \in D!Number
  BY <1>2, InvRowNumbers
<1>6. PICK row : row = scratch[i]
  OBVIOUS
<1>7. InvSumAt(row, j) \in D!Number
  BY <1>1, <1>5, <1>6, InvSumAtNumber
<1>8. D!Minus(InvPivot(j)) \in D!Number
  BY InvPivotNumber, InvMinus
<1>9. D!Times(InvSumAt(row, j), D!Minus(InvPivot(j))) \in D!Number
  BY <1>7, <1>8, InvTimes
<1> QED
  BY <1>3, <1>4, <1>6, <1>9 DEF InvRule

LEMMA InvDataStore ==
    ASSUME RegularLaunch, InvInv, InvData, NEW i \in D!Index, D!Store(i)
    PROVE  InvData'
<1>1. PICK j, n, old, row :
         /\ j = pos[i] /\ n = D!NextColumn(j) /\ old = scratch[i]
         /\ row = [old EXCEPT ![j] = IF D!Active(i, j)
                                     THEN D!Times(acc[i], D!Minus(scratch[j][j]))
                                     ELSE old[j]]
  OBVIOUS
<1>2. /\ pc[i] = "store" /\ ~waiting[i]
      /\ launch' = launch /\ acc' = acc /\ out' = out
      /\ pc' = [pc EXCEPT ![i] = "sum"] /\ pos' = [pos EXCEPT ![i] = n]
      /\ scratch' = [scratch EXCEPT ![i] = row]
  BY <1>1 DEF D!Store, D!At, D!BarrierThen, D!Goto
<1>3. /\ pc = [u \in D!Index |-> pc[u]] /\ acc = [u \in D!Index |-> acc[u]]
      /\ out = [u \in D!Index |-> out[u]] /\ pos = [u \in D!Index |-> pos[u]]
      /\ scratch = [u \in D!Index |-> [k \in D!Index |-> scratch[u][k]]]
  BY DEF InvData, InvInv
<1>4. pc'[i] = "sum" /\ pos'[i] = n /\ scratch'[i] = row
  BY <1>2, <1>3
<1>5. /\ InvColumn(j, "store") /\ InvRow(i, j, "store", old)
      /\ old = [k \in D!Index |-> old[k]]
  BY <1>1, <1>2, InvItem
<1>6. D!MoreColumns(j)
  BY <1>5 DEF InvColumn
<1>7. /\ j \in D!Index /\ InvColumn(n, "sum")
      /\ \A k \in D!Index : InvPassed(n, k) <=> InvPassed(j, k) \/ k = j
      /\ ~InvPassed(j, j) /\ ~D!Active(j, j)
      /\ \A k \in D!Index : InvPassed(j, k) \/ k = j => j \notin D!Terms(k)
  BY <1>1, <1>5, <1>6, InvPlace DEF RegularLaunch
<1>8. /\ \A k \in D!Index : k # j => row[k] = old[k]
      /\ row[j] = IF D!Active(i, j) THEN D!Times(acc[i], D!Minus(scratch[j][j]))
                  ELSE old[j]
      /\ row = [k \in D!Index |-> row[k]]
  BY <1>1, <1>5, <1>7
<1>9. \A k \in D!Live : k \in D!Index
  BY InvLive DEF RegularLaunch
<1>10. i \in D!Live /\ j \in D!Live /\ D!Active(i, j) =>
          row[j] = InvRule(old, j) /\ row[j] \in D!Number
  BY <1>1, <1>2, <1>8, InvStored
<1>11. InvRow(i, n, "sum", row)
  <2>1. \A k \in D!Index :
           k # i /\ ~(D!Active(i, k) /\ InvPassed(n, k)) => row[k] = InvLoaded(i, k)
    BY <1>5, <1>7, <1>8 DEF InvRow
  <2>2. i \in D!Live => row[i] = InvPivot(i)
    BY <1>5, <1>7, <1>8 DEF InvRow
  <2>3. i \in D!Live => \A k \in D!Live : row[k] \in D!Number
    BY <1>5, <1>8, <1>9, <1>10 DEF InvRow
  <2>4. \A k \in D!Live :
           i \in D!Live /\ D!Active(i, k) /\ InvPassed(n, k) => row[k] = InvRule(row, k)
    <3> SUFFICES ASSUME NEW k \in D!Live, i \in D!Live, D!Active(i, k), InvPassed(n, k)
                 PROVE  row[k] = InvRule(row, k)
      OBVIOUS
    <3>1. k \in D!Index /\ (InvPassed(j, k) \/ k = j) /\ j \notin D!Terms(k)
      BY <1>7, <1>9
    <3>2. \A t \in D!Terms(k) : row[t] = old[t]
      BY <1>8, <3>1, InvTerms DEF RegularLaunch
    <3>3. InvSumAt(row, k) = InvSumAt(old, k)
      BY ONLY <3>2, InvSumAtSame
    <3>4. InvRule(row, k) = InvRule(old, k)
      BY <3>3 DEF InvRule
    <3>5. row[k] = InvRule(old, k)
      BY <1>5, <1>7, <1>8, <1>10, <3>1 DEF InvRow
    <3> QED
      BY <3>4, <3>5
  <2> QED
    BY <2>1, <2>2, <2>3, <2>4 DEF InvRow
<1>12. InvHeld(i, n, "sum", row, acc'[i])
  BY DEF InvHeld
<1>13. /\ acc' = [acc EXCEPT ![i] = acc'[i]] /\ out' = [out EXCEPT ![i] = out'[i]]
       /\ \A u \in D!Index \ {i} : pos'[u] = pos[u] /\ pc'[u] = pc[u]
  BY <1>2, <1>3
<1> QED
  BY <1>2, <1>4, <1>7, <1>8, <1>11, <1>12, <1>13, InvDataAfter

LEMMA InvDataWrite ==
    ASSUME RegularLaunch, InvInv, InvData, NEW i \in D!Index, D!WriteRow(i)
    PROVE  InvData'
<1>1. /\ pc[i] = "sum" /\ ~D!MoreColumns(pos[i])
      /\ launch' = launch /\ acc' = acc /\ pos' = pos /\ scratch' = scratch
      /\ pc' = [pc EXCEPT ![i] = "done"] /\ out' = [out EXCEPT ![i] = scratch[i]]
  BY DEF D!WriteRow, D!At, D!Goto
<1>2. /\ pc = [u \in D!Index |-> pc[u]] /\ acc = [u \in D!Index |-> acc[u]]
      /\ out = [u \in D!Index |-> out[u]]
      /\ scratch = [u \in D!Index |-> [k \in D!Index |-> scratch[u][k]]]
  BY DEF InvData, InvInv
<1>3. pc'[i] = "done" /\ out'[i] = scratch[i] /\ scratch'[i] = scratch[i]
  BY <1>1, <1>2
<1>4. /\ InvColumn(pos[i], "sum") /\ InvRow(i, pos[i], "sum", scratch[i])
      /\ scratch[i] = [k \in D!Index |-> scratch[i][k]]
  BY <1>1, InvItem
<1>5. InvColumn(pos[i], "done") /\ InvRow(i, pos[i], "done", scratch[i])
  BY <1>1, <1>4 DEF InvColumn, InvRow
<1>6. InvHeld(i, pos[i], "done", scratch[i], acc[i])
  BY DEF InvHeld
<1>7. /\ scratch' = [scratch EXCEPT ![i] = scratch'[i]]
      /\ acc' = [acc EXCEPT ![i] = acc'[i]] /\ out' = [out EXCEPT ![i] = out'[i]]
      /\ \A u \in D!Index \ {i} : pos'[u] = pos[u] /\ pc'[u] = pc[u]
  BY <1>1, <1>2
<1> QED
  BY <1>1, <1>3, <1>4, <1>5, <1>6, <1>7, InvDataAfter

LEMMA InvDataKept ==
    ASSUME InvData, launch' = launch, pc' = pc, pos' = pos, acc' = acc,
           scratch' = scratch, out' = out
    PROVE  InvData'
<1>1. D!Index' = D!Index
  BY DEF D!Index
<1>2. \A u \in D!Index : InvColumn(pos[u], pc[u])'
  BY DEF InvData, InvColumn, D!FirstColumn, D!MoreColumns
<1>3. \A u \in D!Index : InvRow(u, pos[u], pc[u], scratch[u])'
  <2> TAKE u \in D!Index
  <2>1. InvRow(u, pos'[u], pc'[u], scratch'[u])
    BY DEF InvData
  <2>2. /\ \A v, j : InvLoaded(v, j)' = InvLoaded(v, j)
        /\ \A j : InvPivot(j)' = InvPivot(j)
        /\ \A row, k : InvRule(row, k)' = InvRule(row, k)
    BY InvSameLaunch
  <2> QED
    BY <2>1, <2>2, InvSameShape DEF InvRow
<1>4. \A u \in D!Index : InvHeld(u, pos[u], pc[u], scratch[u], acc[u])'
  <2> TAKE u \in D!Index
  <2>1. InvHeld(u, pos'[u], pc'[u], scratch'[u], acc'[u])
    BY DEF InvData
  <2>2. \A row, k : InvSumAt(row, k)' = InvSumAt(row, k)
    BY InvSameLaunch
  <2> QED
    BY <2>1, <2>2, InvSameShape DEF InvHeld
<1> QED
  BY <1>1, <1>2, <1>3, <1>4 DEF InvData

LEMMA InvDataStep ==
    ASSUME RegularLaunch, InvInv, InvData, NEW i \in D!Index, D!Step(i)
    PROVE  InvData'
<1>1. ASSUME D!Leave(i) PROVE InvData'
  BY <1>1, InvDataKept DEF D!Leave
<1> QED
  BY <1>1, InvDataLoad, InvDataDiagonal, InvDataAccumulate, InvDataStore, InvDataWrite
     DEF D!Step

\* The rows of the block as they are loaded, and the rows of each column next to
\* the diagonal.
InvBlock == [i \in D!Live |-> [k \in D!Live |-> InvLoaded(i, k)]]
InvBefore == [j \in D!Live |-> {i \in D!Live : D!Active(i, j)}]

LEMMA InvTriangle ==
    ASSUME RegularLaunch
    PROVE  TriangleOrder(D!Live, InvBefore) /\ InTriangleOf(D!Live, InvBefore, InvBlock)
<1>1. /\ IsFiniteSet(D!Live) /\ \A k \in D!Live : k \in D!Index /\ k \in Int
      /\ launch.upper \in BOOLEAN
  BY InvLive, InvLaunch DEF RegularLaunch
<1>2. InvBefore \in [D!Live -> SUBSET D!Live]
  BY DEF InvBefore
<1>3. \A j \in D!Live : InvBefore[j] = {i \in D!Live : D!Active(i, j)}
  BY DEF InvBefore
<1>4. \A j \in D!Live : ~D!Active(j, j)
  BY <1>1 DEF D!Active
<1>5. \A i, k, j \in D!Live : D!Active(i, k) /\ D!Active(k, j) => D!Active(i, j)
  BY <1>1 DEF D!Active
<1>6. TriangleOrder(D!Live, InvBefore)
  BY <1>1, <1>2, <1>3, <1>4, <1>5 DEF TriangleOrder
<1>7. \A i, j \in D!Live : /\ InvBlock[i][j] = InvLoaded(i, j) /\ InvBlock[i][j] \in Int
                           /\ i # j /\ ~D!Active(i, j) => InvBlock[i][j] = 0
  <2> TAKE i, j \in D!Live
  <2>1. InvBlock[i][j] = InvLoaded(i, j)
    BY DEF InvBlock
  <2>2. InvLoaded(i, j) \in D!Number /\ (i # j /\ ~D!Active(i, j) => InvLoaded(i, j) = 0)
    BY <1>1, InvLoadedNumber
  <2> QED
    BY <2>1, <2>2, InvNumber
<1>8. InTriangleOf(D!Live, InvBefore, InvBlock)
  BY <1>3, <1>7 DEF InTriangleOf
<1> QED
  BY <1>6, <1>8

\* What the group has written when it is done.
LEMMA InvResult ==
    ASSUME RegularLaunch, InvData, \A i \in D!Index : pc[i] = "done",
           NEW i \in D!Live, NEW j \in D!Live
    PROVE  /\ out[i][j] \in D!Number
           /\ i = j => out[i][j] = InvPivot(j)
           /\ i # j /\ ~D!Active(i, j) => out[i][j] = 0
           /\ D!Active(i, j) => out[i][j] = InvRule(out[i], j)
           /\ \A t \in D!Terms(j) : out[i][t] \in D!Number
<1>1. i \in D!Index /\ j \in D!Index
  BY InvLive DEF RegularLaunch
<1>2. PICK p, row : p = pos[i] /\ row = out[i]
  OBVIOUS
<1>3. InvColumn(p, "done") /\ InvRow(i, p, "done", row)
  BY <1>1, <1>2, InvItem
<1>4. InvPassed(p, j)
  <2>1. PICK b \in Nat \ {0} : b = BlockSize /\ D!Index = 0 .. b - 1 /\ launch.upper \in BOOLEAN
    BY InvLaunch DEF RegularLaunch
  <2> QED
    BY <1>1, <1>3, <2>1 DEF InvColumn, D!MoreColumns, InvPassed
<1>5. row[j] \in D!Number
  BY <1>3 DEF InvRow
<1>6. i = j => row[j] = InvPivot(j)
  BY <1>3 DEF InvRow
<1>7. i # j /\ ~D!Active(i, j) => row[j] = 0
  BY <1>1, <1>3, InvLoadedNumber DEF InvRow
<1>8. D!Active(i, j) => row[j] = InvRule(row, j)
  BY <1>3, <1>4 DEF InvRow
<1>9. \A t \in D!Terms(j) : row[t] \in D!Number
  BY <1>3, InvRowNumbers
<1> QED
  BY <1>2, <1>5, <1>6, <1>7, <1>8, <1>9

\* Its columns solve those of the block.
LEMMA InvSolves ==
    ASSUME RegularLaunch, InvData, \A i \in D!Index : pc[i] = "done"
    PROVE  SolvesColumns(D!Live, InvBefore, InvBlock, out, P)
<1> SUFFICES ASSUME NEW j \in D!Live
             PROVE  /\ SameMod(InvBlock[j][j] * out[j][j], 1, P)
                    /\ \A i \in InvBefore[j] :
                          SameMod(out[i][j],
                                  (-out[j][j]) * SumFunctionOnSet(
                                      [k \in D!Live |-> out[i][k] * InvBlock[k][j]],
                                      InvBefore[j]), P)
  BY DEF SolvesColumns
<1>1. /\ j \in D!Index /\ D!Live \subseteq D!Index
      /\ InvBefore[j] = {i \in D!Live : D!Active(i, j)}
      /\ out[j][j] = InvPivot(j) /\ InvBlock[j][j] = InvLoaded(j, j)
  BY InvResult, InvLive DEF InvBefore, InvBlock, RegularLaunch
<1>2. SameMod(InvBlock[j][j] * out[j][j], 1, P)
  BY <1>1, InvPivotNumber
<1>3. ASSUME NEW i \in InvBefore[j]
      PROVE  SameMod(out[i][j],
                     (-out[j][j]) * SumFunctionOnSet(
                         [k \in D!Live |-> out[i][k] * InvBlock[k][j]], InvBefore[j]), P)
  <2>1. i \in D!Live /\ D!Active(i, j)
    BY <1>1, <1>3
  <2>2. PICK row : row = out[i]
    OBVIOUS
  <2>3. /\ row[j] = InvRule(row, j) /\ \A t \in D!Terms(j) : row[t] \in D!Number
        /\ \A k \in D!Live : row[k] \in D!Number
    BY <2>1, <2>2, InvResult
  <2>4. PICK S : S = D!Terms(j) /\ IsFiniteSet(S) /\ S = {t \in D!Index : D!Active(t, j)}
    BY <1>1, InvTerms DEF RegularLaunch
  <2>5. PICK e : e = [t \in S |-> row[t] * InvLoaded(t, j)]
    OBVIOUS
  <2>6. /\ InvSumAt(row, j) \in D!Number /\ SumFunctionOnSet(e, S) \in Int
        /\ SameMod(InvSumAt(row, j), SumFunctionOnSet(e, S), P)
    BY <1>1, <2>3, <2>4, <2>5, InvSumAtNumber
  <2>7. PICK f, T : /\ f = [k \in D!Live |-> out[i][k] * InvBlock[k][j]]
                    /\ T = InvBefore[j]
    OBVIOUS
  <2>8. SumFunctionOnSet(e, S) = SumFunctionOnSet(f, T)
    <3>1. \A t \in S : e[t] \in Int
      <4> TAKE t \in S
      <4>1. row[t] \in Int /\ InvLoaded(t, j) \in Int
        BY <1>1, <2>3, <2>4, InvLoadedNumber, InvNumber
      <4> QED
        BY <2>5, <4>1
    <3>2. T \subseteq S
      BY <1>1, <2>4, <2>7
    <3>3. \A t \in S \ T : e[t] = 0
      <4> TAKE t \in S \ T
      <4>1. t \in D!Index /\ t \notin D!Live
        BY <1>1, <2>4, <2>7
      <4>2. InvLoaded(t, j) = 0
        BY <1>1, <4>1, InvLoadedNumber
      <4>3. row[t] \in Int
        BY <2>3, <2>4, InvNumber
      <4> QED
        BY <2>5, <4>2, <4>3
    <3>4. SumFunctionOnSet(e, S) = SumFunctionOnSet(e, T)
      BY ONLY <2>4, <3>1, <3>2, <3>3, SumPart
    <3>5. \A x \in T : e[x] \in Int /\ f[x] = e[x]
      <4> TAKE x \in T
      <4>1. x \in D!Live /\ x \in S
        BY <1>1, <2>7, <3>2
      <4>2. InvBlock[x][j] = InvLoaded(x, j)
        BY <4>1 DEF InvBlock
      <4> QED
        BY <2>2, <2>5, <2>7, <3>1, <4>1, <4>2
    <3>6. IsFiniteSet(T)
      BY <2>4, <3>2, FS_Subset
    <3>7. SumFunctionOnSet(f, T) = SumFunctionOnSet(e, T)
      BY ONLY <3>5, <3>6, SumSame
    <3> QED
      BY <3>4, <3>7
  <2>9. PICK s \in D!Number, c \in Int, q \in D!Number, d \in D!Number :
           /\ s = InvSumAt(row, j) /\ c = SumFunctionOnSet(e, S)
           /\ q = InvPivot(j) /\ d = D!Minus(q)
    BY <2>6, InvPivotNumber, InvMinus
  <2>10. SameMod(D!Times(s, d), s * d, P) /\ D!Times(s, d) \in D!Number
    BY <2>9, InvTimes
  <2>11. SameMod(d, -q, P)
    BY <2>9, InvMinus
  <2>12. /\ s \in Int /\ d \in Int /\ q \in Int /\ -q \in Int /\ s * d \in Int
         /\ c * (-q) \in Int /\ D!Times(s, d) \in Int /\ P \in Nat
         /\ c * (-q) = (-q) * c
    BY <2>9, <2>10, InvNumber
  <2>13. SameMod(s, c, P)
    BY <2>6, <2>9
  <2>14. SameMod(s * d, c * (-q), P)
    <3>1. PICK r : r = -q /\ r \in Int
      BY <2>12
    <3>2. SameMod(s * d, c * r, P)
      BY ONLY <2>9, <2>11, <2>12, <2>13, <3>1, SameModProduct
    <3> QED
      BY <3>1, <3>2
  <2>15. PICK x \in Int, y \in Int, z \in Int :
            x = D!Times(s, d) /\ y = s * d /\ z = c * (-q)
    BY <2>12
  <2>16. SameMod(x, z, P)
    <3>1. SameMod(x, y, P) /\ SameMod(y, z, P)
      BY <2>10, <2>14, <2>15
    <3> QED
      BY ONLY <2>12, <3>1, SameModOn
  <2>17. out[i][j] = x
    BY <2>2, <2>3, <2>9, <2>15 DEF InvRule
  <2>18. z = (-out[j][j]) * SumFunctionOnSet(f, T)
    BY <1>1, <2>8, <2>9, <2>12, <2>15
  <2> QED
    BY <2>7, <2>16, <2>17, <2>18
<1> QED
  BY <1>2, <1>3

LEMMA InvExact ==
    ASSUME RegularLaunch, InvData
    PROVE  D!InverseExact
<1> SUFFICES ASSUME \A u \in D!Index : pc[u] = "done", NEW i \in D!Live, NEW j \in D!Live
             PROVE  D!SumOf(D!Live, LAMBDA k : D!Times(D!Block(i, k), out[k][j]))
                      = IF i = j THEN 1 ELSE 0
  BY DEF D!InverseExact
<1>1. /\ D!Live \subseteq D!Index /\ IsFiniteSet(D!Live)
      /\ TriangleOrder(D!Live, InvBefore) /\ InTriangleOf(D!Live, InvBefore, InvBlock)
      /\ SolvesColumns(D!Live, InvBefore, InvBlock, out, P)
  BY InvLive, InvTriangle, InvSolves DEF RegularLaunch
<1>2. InTriangleOf(D!Live, InvBefore, out)
  <2>1. ASSUME NEW u \in D!Live, NEW v \in D!Live
        PROVE  out[u][v] \in Int /\ (u # v /\ u \notin InvBefore[v] => out[u][v] = 0)
    <3>1. out[u][v] \in Int
      BY InvResult, InvNumber
    <3>2. u # v /\ ~D!Active(u, v) => out[u][v] = 0
      BY InvResult
    <3> QED
      BY <3>1, <3>2 DEF InvBefore
  <2> QED
    BY <2>1 DEF InTriangleOf
<1>3. SameMod(EntryOf(D!Live, InvBlock, out, i, j), UnitEntry(i, j), P)
  <2>1. P \in Nat
    BY InvNumber
  <2> QED
    BY ONLY <1>1, <1>2, <2>1, ColumnsInvert, i \in D!Live, j \in D!Live
<1>4. PICK S, f, g : /\ S = D!Live /\ f = [k \in S |-> InvLoaded(i, k)]
                     /\ g = [k \in S |-> out[k][j]]
  OBVIOUS
<1>5. \A k \in S : /\ D!Block(i, k) = f[k] /\ InvBlock[i][k] = f[k] /\ out[k][j] = g[k]
                   /\ f[k] \in D!Number /\ g[k] \in D!Number
  <2> TAKE k \in S
  <2>1. i \in D!Index /\ k \in D!Index /\ k \in D!Live
    BY <1>1, <1>4
  <2>2. InvLoaded(i, k) \in D!Number /\ D!Block(i, k) = InvLoaded(i, k)
    BY <2>1, InvLoadedNumber
  <2>3. InvBlock[i][k] = InvLoaded(i, k)
    BY <2>1 DEF InvBlock
  <2>4. out[k][j] \in D!Number
    BY <2>1, InvResult
  <2> QED
    BY <1>4, <2>2, <2>3, <2>4
<1>6. PICK h, e : /\ h = [k \in S |-> D!Times(f[k], g[k])] /\ e = [k \in S |-> f[k] * g[k]]
  OBVIOUS
<1>7. D!SumOf(S, LAMBDA k : D!Times(D!Block(i, k), out[k][j]))
        = D!SumFunctionOnSet(h, S) % P
  <2>1. \A k \in S : /\ D!Times(D!Block(i, k), out[k][j]) = h[k]
                     /\ h[k] # D!Undefined
    BY <1>5, <1>6, InvTimes
  <2>2. [k \in S |-> D!Times(D!Block(i, k), out[k][j])] = h
    BY <1>6, <2>1
  <2> QED
    BY <2>1, <2>2 DEF D!SumOf
<1>8. /\ D!SumFunctionOnSet(h, S) % P \in D!Number
      /\ SumFunctionOnSet(e, S) \in Int
      /\ SameMod(D!SumFunctionOnSet(h, S) % P, SumFunctionOnSet(e, S), P)
  <2>1. /\ IsFiniteSet(S) /\ \A t \in S : f[t] \in D!Number /\ g[t] \in D!Number
        /\ \A t \in S : h[t] = D!Times(f[t], g[t])
        /\ \A t \in S : e[t] = f[t] * g[t]
    BY <1>1, <1>4, <1>5, <1>6
  <2> QED
    BY ONLY <2>1, InvSumNumber
<1>9. EntryOf(D!Live, InvBlock, out, i, j) = SumFunctionOnSet(e, S)
  <2>1. [k \in S |-> InvBlock[i][k] * out[k][j]] = e
    BY <1>5, <1>6
  <2> QED
    BY <1>4, <2>1 DEF EntryOf
<1>10. PICK x \in D!Number, c \in Int, d \in D!Number :
          /\ x = D!SumFunctionOnSet(h, S) % P /\ c = SumFunctionOnSet(e, S)
          /\ d = UnitEntry(i, j)
  BY <1>8, InvNumber DEF UnitEntry
<1>11. SameMod(x, c, P) /\ SameMod(c, d, P)
  BY <1>3, <1>8, <1>9, <1>10
<1>12. x = d
  <2>1. /\ P \in Nat \ {0} /\ x \in 0 .. P - 1 /\ d \in 0 .. P - 1
        /\ x \in Int /\ d \in Int /\ c \in Int /\ P \in Nat
    BY <1>10, InvNumber
  <2>2. SameMod(x, d, P)
    BY ONLY <1>11, <2>1, SameModOn
  <2> QED
    BY ONLY <2>1, <2>2, SameModRests
<1> QED
  BY <1>4, <1>7, <1>10, <1>12 DEF UnitEntry

\* DiagonalBlocksInverter: when all items of a group have returned, the part of
\* the block that is in the matrix times what the group has written there is the
\* unit matrix, for a triangle whose diagonal can be inverted.
THEOREM InverseIsExact == RegularBlocks => (Spec => []InverseExact)
<1> SUFFICES ASSUME RegularBlocks PROVE Spec => []InverseExact
  OBVIOUS
<1> DEFINE Held == Runs("inverter") => InvData
<1>1. Init => Held
  BY InvDataStart, GroupKernelsAssumption
     DEF Init, Runs, GroupKernelsAssumption, KernelsAssumption, G!Init, W!Init, C!Init,
         E!Init, R!Init
<1>2. KernelInv /\ KernelInv' /\ Held /\ [Next]_vars => Held'
  <2> SUFFICES ASSUME KernelInv, Held, [Next]_vars, Runs("inverter")' PROVE InvData'
    OBVIOUS
  <2>1. CASE UNCHANGED vars
    BY <2>1, InvDataKept DEF vars, Runs
  <2>2. ASSUME NEW i \in DOMAIN pc, Step(i) PROVE InvData'
    <3>1. Runs("inverter") /\ InvInv /\ InvData
      BY <2>2, SameLaunch DEF Runs, KernelInv
    <3>2. D!Step(i) /\ i \in D!Index
      BY <2>2, <3>1 DEF Step, Runs, InvInv
    <3> QED
      BY <3>1, <3>2, InvDataStep DEF RegularLaunch, InvInv, RegularBlocks
  <2> QED
    BY <2>1, <2>2 DEF Next, Finished
<1>3. KernelInv /\ Held => InverseExact
  BY InvExact DEF KernelInv, InverseExact, RegularLaunch, InvInv, RegularBlocks
<1> QED
  BY <1>1, <1>2, <1>3, KernelInvariant, PTL DEF Spec

================================================================================
