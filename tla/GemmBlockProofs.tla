---------------------------- MODULE GemmBlockProofs ----------------------------
(***************************************************************************)
(* Proofs about the GEMM kernels with local memory of GemmKernels, one     *)
(* with the panels of A and of B in one buffer or two (GemmLocal) and one  *)
(* for tall and skinny matrices (GemmPartialLocal): what a work-item finds *)
(* in local memory belongs to the products that it is to add up, however   *)
(* far the others are ahead, so that a work-group stores its block of C,   *)
(* or of the cube of partial products, with every product once.  And, with *)
(* what GemmExactProofs says of the kernels without local memory: no load  *)
(* of the six leaves the matrices where the kernel checks the index that   *)
(* it loads, and their type invariants.                                    *)
(*                                                                         *)
(* An item that may multiply has passed a barrier that all items have      *)
(* reached.  How many barriers an item has reached tells which panel it is *)
(* at, so that the items at one barrier have copied the same panel.        *)
(***************************************************************************)
EXTENDS GemmExactProofs

-------------------------------------------------------------------------------
(***************************************************************************)
(* GemmLocal: the panels                                                   *)
(***************************************************************************)

LEMMA LocalSized == launch \in LocalLaunches => Sized
<1> SUFFICES ASSUME launch \in LocalLaunches PROVE Sized
  OBVIOUS
<1>1. /\ launch.m \in Nat \ {0} /\ launch.n \in Nat \ {0} /\ launch.k \in Nat \ {0}
      /\ launch.batchSize \in Nat \ {0}
      /\ launch.lda \in Nat /\ launch.ldb \in Nat /\ launch.ldc \in Nat
      /\ launch.lda >= (IF launch.transA THEN launch.k ELSE launch.m)
      /\ launch.ldc >= launch.m
  BY GemmKernelsAssumption DEF GemmKernelsAssumption, L!GemmLocalAssumption
<1>2. launch.ldc \in Nat \ {0} /\ (~launch.transA => launch.lda # 0)
  BY <1>1
<1>3. /\ launch.m * launch.lda \in Nat /\ launch.k * launch.lda \in Nat
      /\ launch.ldb * launch.k \in Nat /\ launch.n * launch.ldb \in Nat
      /\ launch.ldc * launch.n \in Nat \ {0}
  BY <1>1, <1>2
<1> QED
  BY <1>1, <1>2, <1>3 DEF Sized, Y!ASize, Y!BSize, Y!CSize

\* The panels of K.
Panels == DivUp(launch.k, launch.clElems)

\* Of the panels that a group goes through, in batch b0 and in every d-th batch
\* after it, number n is the one of batch b at which kk of K is left.
PanelAt(b0, d, n, b, kk) ==
    \E q \in Nat, r \in 0 .. Panels - 1 :
        n = Panels * q + r /\ b = b0 + q * d /\ kk = launch.k - r * launch.clElems

LEMMA PanelSizes ==
    ASSUME launch \in LocalLaunches
    PROVE  /\ Panels \in Nat \ {0}
           /\ \A r \in 0 .. Panels - 1 : r * launch.clElems \in 0 .. launch.k - 1
           /\ launch.k <= Panels * launch.clElems
<1>1. PICK kk \in Nat \ {0}, v \in Nat \ {0}, y \in Nat :
          kk = launch.k /\ v = launch.clElems /\ y = kk - 1
  BY LocalSizes
<1>2. PICK q \in Nat : q = y \div v /\ y = v * q + (y % v) /\ y % v \in 0 .. v - 1
  BY DivMod
<1>3. Panels = q + 1
  BY <1>1, <1>2 DEF Panels, DivUp
<1>4. ASSUME NEW r \in 0 .. Panels - 1 PROVE r * v \in 0 .. kk - 1
  <2>1. v * r <= v * q
    BY <1>3, MulMonotone
  <2>2. v * r \in Nat /\ v * q \in Nat /\ r * v = v * r
    BY <1>3
  <2> QED
    BY <1>1, <1>2, <2>1, <2>2
<1>5. kk <= (q + 1) * v
  <2>1. PICK x \in Nat, z \in 0 .. v - 1 : x = v * q /\ z = y % v
    BY <1>2
  <2>2. y = x + z
    BY <1>2, <2>1
  <2>3. kk = x + z + 1
    BY <1>1, <2>1, <2>2
  <2>4. (q + 1) * v = x + v
    BY <2>1
  <2> QED
    BY <2>1, <2>3, <2>4
<1> QED
  BY <1>1, <1>3, <1>4, <1>5

\* A group starts with panel 0.
LEMMA PanelFirst ==
    ASSUME launch \in LocalLaunches, NEW b0 \in Nat, NEW d \in Nat \ {0}
    PROVE  PanelAt(b0, d, 0, b0, launch.k)
<1>1. Panels \in Nat \ {0} /\ launch.k \in Nat /\ launch.clElems \in Nat
  BY PanelSizes, LocalSizes
<1>2. 0 = Panels * 0 + 0 /\ b0 = b0 + 0 * d /\ launch.k = launch.k - 0 * launch.clElems
  BY <1>1
<1> QED
  BY <1>1, <1>2 DEF PanelAt

\* The next panel is of the same batch, or the first one of the next.
LEMMA PanelNext ==
    ASSUME launch \in LocalLaunches, NEW b0 \in Nat, NEW d \in Nat \ {0},
           NEW n, NEW b, NEW kk, PanelAt(b0, d, n, b, kk)
    PROVE  /\ n \in Nat /\ b \in Nat /\ kk \in 1 .. launch.k
           /\ kk > launch.clElems => PanelAt(b0, d, n + 1, b, kk - launch.clElems)
           /\ kk <= launch.clElems => PanelAt(b0, d, n + 1, b + d, launch.k)
<1>1. PICK q \in Nat, r \in 0 .. Panels - 1 :
          n = Panels * q + r /\ b = b0 + q * d /\ kk = launch.k - r * launch.clElems
  BY DEF PanelAt
<1>2. PICK t \in Nat \ {0}, v \in Nat \ {0}, x \in Nat, y \in Nat, w \in Nat :
          /\ t = Panels /\ v = launch.clElems /\ x = t * q /\ y = q * d /\ w = r * v
  BY PanelSizes, LocalSizes
<1>3. w \in 0 .. launch.k - 1 /\ launch.k \in Nat
  BY <1>1, <1>2, PanelSizes, LocalSizes
<1>4. n \in Nat /\ b \in Nat /\ kk \in 1 .. launch.k
  BY <1>1, <1>2, <1>3
<1>5. (r + 1) * v = w + v
  BY <1>2
<1>6. ASSUME kk > v PROVE PanelAt(b0, d, n + 1, b, kk - v)
  <2>1. r + 1 \in 0 .. t - 1
    <3> SUFFICES ASSUME r + 1 = t PROVE FALSE
      BY <1>2
    <3>1. launch.k <= t * v
      BY <1>2, PanelSizes
    <3>2. t * v = w + v
      BY <1>5
    <3> QED
      BY <1>1, <1>2, <1>3, <1>6, <3>1, <3>2
  <2>2. n + 1 = x + (r + 1) /\ kk - v = launch.k - (w + v)
    BY <1>1, <1>2, <1>3
  <2>3. n + 1 = t * q + (r + 1) /\ kk - v = launch.k - (r + 1) * v
    BY <1>2, <1>5, <2>2
  <2> QED
    BY <1>1, <1>2, <2>1, <2>3 DEF PanelAt
<1>7. ASSUME kk <= v PROVE PanelAt(b0, d, n + 1, b + d, launch.k)
  <2>1. r + 1 = t
    <3> SUFFICES ASSUME r + 1 \in 0 .. t - 1 PROVE FALSE
      BY <1>2
    <3>1. (r + 1) * v \in 0 .. launch.k - 1
      BY <1>2, PanelSizes
    <3> QED
      BY <1>1, <1>2, <1>3, <1>5, <1>7, <3>1
  <2>2. t * (q + 1) = x + t /\ (q + 1) * d = y + d
    BY <1>2
  <2>3. n + 1 = t * (q + 1) + 0 /\ b + d = b0 + (q + 1) * d
    BY <1>1, <1>2, <2>1, <2>2
  <2>4. launch.k = launch.k - 0 * v /\ 0 \in 0 .. t - 1 /\ q + 1 \in Nat
    BY <1>2, <1>3
  <2> QED
    BY <1>2, <2>3, <2>4 DEF PanelAt
<1> QED
  BY <1>2, <1>4, <1>6, <1>7

\* The number tells the panel.
LEMMA PanelOnce ==
    ASSUME launch \in LocalLaunches, NEW b0 \in Nat, NEW d \in Nat \ {0}, NEW n,
           NEW b, NEW kk, PanelAt(b0, d, n, b, kk),
           NEW b2, NEW k2, PanelAt(b0, d, n, b2, k2)
    PROVE  b = b2 /\ kk = k2
<1>1. PICK q \in Nat, r \in 0 .. Panels - 1 :
          n = Panels * q + r /\ b = b0 + q * d /\ kk = launch.k - r * launch.clElems
  BY DEF PanelAt
<1>2. PICK q2 \in Nat, r2 \in 0 .. Panels - 1 :
          n = Panels * q2 + r2 /\ b2 = b0 + q2 * d /\ k2 = launch.k - r2 * launch.clElems
  BY DEF PanelAt
<1>3. Panels \in Nat \ {0} /\ Panels * q + r = Panels * q2 + r2
  BY <1>1, <1>2, PanelSizes
<1>4. q = q2 /\ r = r2
  BY <1>3, OnePlace
<1> QED
  BY <1>1, <1>2, <1>4

-------------------------------------------------------------------------------
(***************************************************************************)
(* GemmLocal: where an item is in its loops                                *)
(***************************************************************************)

\* The buffer of panel n, and how many barriers an item that is to load it has
\* reached.
BufferAt(n) == IF launch.doubleBuffer THEN n % 2 ELSE 0
BarriersAt(n) == IF launch.doubleBuffer THEN n ELSE 2 * n

\* An item at p, in batch b with kk of K left and in buffer w, that has reached
\* a barriers: it works on panel n, or is to store a batch before panel n.
InPanel(b0, d, n, p, b, kk, w, a) ==
    /\ n \in Nat /\ w = BufferAt(n)
    /\ a = BarriersAt(n) + (IF p = "compute" THEN 1 ELSE 0)
    /\ \/ PanelAt(b0, d, n, b, kk)
       \/ p = "load" /\ kk = 0 /\ PanelAt(b0, d, n, b + d, launch.k)

InLoops(b0, d, p, b, kk, w, a, waits) ==
    /\ b0 \in Nat /\ d \in Nat \ {0}
    /\ p \in {"load", "compute", "done"}
    /\ Reached(b0, d, b) /\ (p = "done" <=> b >= launch.batchSize)
    /\ waits /\ launch.doubleBuffer => p = "compute"
    /\ \E n : InPanel(b0, d, n, p, b, kk, w, a)

LEMMA LoopsTyped ==
    ASSUME launch \in LocalLaunches, NEW b0, NEW d, NEW p, NEW b, NEW kk, NEW w, NEW a,
           NEW waits, InLoops(b0, d, p, b, kk, w, a, waits)
    PROVE  /\ b \in Nat /\ kk \in 0 .. launch.k /\ a \in Nat
           /\ p # "load" => kk # 0
<1>1. PICK n : InPanel(b0, d, n, p, b, kk, w, a)
  BY DEF InLoops
<1>2. b \in Nat
  BY DEF InLoops, Reached
<1>3. launch.k \in Nat \ {0}
  BY LocalSizes
<1>4. PanelAt(b0, d, n, b, kk) => kk \in 1 .. launch.k
  BY PanelNext DEF InLoops
<1>5. a \in Nat
  BY <1>1 DEF InPanel, BarriersAt
<1> QED
  BY <1>1, <1>2, <1>3, <1>4, <1>5 DEF InPanel

LEMMA LoopsStart ==
    ASSUME launch \in LocalLaunches, NEW b0 \in Nat, NEW d \in Nat \ {0}
    PROVE  InLoops(b0, d, IF b0 < launch.batchSize THEN "load" ELSE "done", b0, launch.k,
                   0, 0, FALSE)
<1>1. Reached(b0, d, b0)
  <2>1. b0 - b0 = 0 /\ 0 % d = 0
    OBVIOUS
  <2> QED
    BY <2>1 DEF Reached
<1>2. PanelAt(b0, d, 0, b0, launch.k)
  BY PanelFirst
<1>3. InPanel(b0, d, 0, IF b0 < launch.batchSize THEN "load" ELSE "done", b0, launch.k, 0, 0)
  BY <1>2 DEF InPanel, BufferAt, BarriersAt
<1>4. launch.batchSize \in Nat
  BY LocalSized DEF Sized
<1> QED
  BY <1>1, <1>3, <1>4 DEF InLoops

LEMMA LoopsLoad ==
    ASSUME launch \in LocalLaunches, NEW b0, NEW d, NEW b, NEW kk, NEW w, NEW a,
           NEW waits, InLoops(b0, d, "load", b, kk, w, a, waits), kk > 0
    PROVE  InLoops(b0, d, "compute", b, kk, w, a + 1, TRUE)
<1>1. PICK n : InPanel(b0, d, n, "load", b, kk, w, a)
  BY DEF InLoops
<1>2. InPanel(b0, d, n, "compute", b, kk, w, a + 1)
  BY <1>1, LoopsTyped DEF InPanel, BarriersAt
<1> QED
  BY <1>2 DEF InLoops

LEMMA LoopsCompute ==
    ASSUME launch \in LocalLaunches, NEW b0, NEW d, NEW b, NEW kk, NEW w, NEW a,
           NEW waits, InLoops(b0, d, "compute", b, kk, w, a, waits), waits \in BOOLEAN,
           NEW k2, k2 = IF kk >= launch.clElems THEN kk - launch.clElems ELSE 0
    PROVE  /\ launch.doubleBuffer => InLoops(b0, d, "load", b, k2, 1 - w, a, FALSE)
           /\ ~launch.doubleBuffer => InLoops(b0, d, "load", b, k2, w, a + 1, TRUE)
<1>1. PICK n : InPanel(b0, d, n, "compute", b, kk, w, a)
  BY DEF InLoops
<1>2. PanelAt(b0, d, n, b, kk) /\ n \in Nat
  BY <1>1 DEF InPanel
<1>3. /\ kk > launch.clElems => PanelAt(b0, d, n + 1, b, kk - launch.clElems)
      /\ kk <= launch.clElems => PanelAt(b0, d, n + 1, b + d, launch.k)
      /\ kk \in Nat /\ launch.clElems \in Nat
  BY <1>2, PanelNext, LocalSizes DEF InLoops
<1>4. \/ PanelAt(b0, d, n + 1, b, k2)
      \/ k2 = 0 /\ PanelAt(b0, d, n + 1, b + d, launch.k)
  BY <1>3
<1>5. CASE launch.doubleBuffer
  <2>1. w = n % 2 /\ a = n + 1
    BY <1>1, <1>5 DEF InPanel, BufferAt, BarriersAt
  <2>2. 1 - w = (n + 1) % 2
    BY <1>2, <2>1
  <2>3. InPanel(b0, d, n + 1, "load", b, k2, 1 - w, a)
    BY <1>2, <1>4, <1>5, <2>1, <2>2 DEF InPanel, BufferAt, BarriersAt
  <2> QED
    BY <1>5, <2>3 DEF InLoops
<1>6. CASE ~launch.doubleBuffer
  <2>1. w = 0 /\ a + 1 = 2 * (n + 1)
    BY <1>1, <1>2, <1>6 DEF InPanel, BufferAt, BarriersAt
  <2>2. InPanel(b0, d, n + 1, "load", b, k2, w, a + 1)
    BY <1>2, <1>4, <1>6, <2>1 DEF InPanel, BufferAt, BarriersAt
  <2> QED
    BY <1>6, <2>2 DEF InLoops
<1> QED
  BY <1>5, <1>6

LEMMA LoopsStore ==
    ASSUME launch \in LocalLaunches, NEW b0, NEW d, NEW b, NEW w, NEW a, NEW waits,
           InLoops(b0, d, "load", b, 0, w, a, waits)
    PROVE  InLoops(b0, d, IF b + d < launch.batchSize THEN "load" ELSE "done", b + d,
                   launch.k, w, a, FALSE)
<1>1. PICK n : InPanel(b0, d, n, "load", b, 0, w, a)
  BY DEF InLoops
<1>2. ~PanelAt(b0, d, n, b, 0)
  BY PanelNext DEF InLoops
<1>3. InPanel(b0, d, n, IF b + d < launch.batchSize THEN "load" ELSE "done", b + d,
              launch.k, w, a)
  BY <1>1, <1>2 DEF InPanel
<1>4. Reached(b0, d, b + d)
  BY NextReached DEF InLoops
<1>5. launch.batchSize \in Nat /\ b + d \in Nat
  BY <1>4, LocalSized DEF Sized, Reached
<1> QED
  BY <1>3, <1>4, <1>5 DEF InLoops

\* Items at the same barrier multiply the same panel, from the same buffer ...
LEMMA SamePanel ==
    ASSUME launch \in LocalLaunches, NEW b0, NEW d, NEW a,
           NEW b, NEW kk, NEW w, NEW waits, InLoops(b0, d, "compute", b, kk, w, a, waits),
           NEW b2, NEW k2, NEW w2, NEW waits2,
           InLoops(b0, d, "compute", b2, k2, w2, a, waits2)
    PROVE  b = b2 /\ kk = k2 /\ w = w2
<1>1. PICK n : InPanel(b0, d, n, "compute", b, kk, w, a)
  BY DEF InLoops
<1>2. PICK n2 : InPanel(b0, d, n2, "compute", b2, k2, w2, a)
  BY DEF InLoops
<1>3. n = n2
  BY <1>1, <1>2 DEF InPanel, BarriersAt
<1>4. PanelAt(b0, d, n, b, kk) /\ PanelAt(b0, d, n, b2, k2)
  BY <1>1, <1>2, <1>3 DEF InPanel
<1> QED
  BY <1>1, <1>2, <1>3, <1>4, PanelOnce DEF InPanel, InLoops

\* ... and one that loads at the barrier where another multiplies is in the other.
LEMMA OtherPanel ==
    ASSUME launch \in LocalLaunches, NEW b0, NEW d, NEW a,
           NEW b, NEW kk, NEW w, NEW waits, InLoops(b0, d, "load", b, kk, w, a, waits),
           NEW b2, NEW k2, NEW w2, NEW waits2,
           InLoops(b0, d, "compute", b2, k2, w2, a, waits2)
    PROVE  w # w2
<1>1. PICK n : InPanel(b0, d, n, "load", b, kk, w, a)
  BY DEF InLoops
<1>2. PICK n2 : InPanel(b0, d, n2, "compute", b2, k2, w2, a)
  BY DEF InLoops
<1>3. n \in Nat /\ n2 \in Nat /\ launch.doubleBuffer /\ n = n2 + 1
  BY <1>1, <1>2 DEF InPanel, BarriersAt
<1>4. n % 2 # n2 % 2
  BY <1>3
<1> QED
  BY <1>1, <1>2, <1>3, <1>4 DEF InPanel, BufferAt

\* With one buffer there is a barrier between two panels.
LEMMA BarrierBetween ==
    ASSUME launch \in LocalLaunches, ~launch.doubleBuffer, NEW b0, NEW d, NEW a,
           NEW b, NEW kk, NEW w, NEW waits, InLoops(b0, d, "compute", b, kk, w, a, waits),
           NEW b2, NEW k2, NEW w2, NEW waits2
    PROVE  ~InLoops(b0, d, "compute", b2, k2, w2, a + 1, waits2)
<1> SUFFICES ASSUME InLoops(b0, d, "compute", b2, k2, w2, a + 1, waits2) PROVE FALSE
  OBVIOUS
<1>1. PICK n : InPanel(b0, d, n, "compute", b, kk, w, a)
  BY DEF InLoops
<1>2. PICK n2 : InPanel(b0, d, n2, "compute", b2, k2, w2, a + 1)
  BY DEF InLoops
<1>3. n \in Nat /\ n2 \in Nat /\ 2 * n2 = 2 * n + 1
  BY <1>1, <1>2 DEF InPanel, BarriersAt
<1> QED
  BY <1>3

-------------------------------------------------------------------------------
(***************************************************************************)
(* GemmLocal: what the items copy                                          *)
(***************************************************************************)

\* The elements of the block of a panel that item i copies, of A and of B.
OfA(i) == L!Copied(i, L!BlockRows, launch.clElems)
OfB(i) == L!Copied(i, launch.clElems, L!BlockCols)

BlockA == 0 .. L!BlockRows * launch.clElems - 1
BlockB == 0 .. launch.clElems * L!BlockCols - 1

\* The cells of these elements in buffer w.
CellA(w, e) == L!SA(w) + PlaceA(e)
CellB(w, e) == L!SB(w) + PlaceB(e)

\* What belongs there, of the panel of batch b at which kk of K is left.
PanelA(b, kk, e) ==
    IF /\ block.internal \/ block.row + RowA(e) < launch.m
       /\ kk >= launch.clElems \/ ColA(e) < kk
    THEN FromA(Y!StridedA(b, block.row + RowA(e), launch.k - kk + ColA(e))) ELSE Zero
PanelB(b, kk, e) ==
    IF /\ block.internal \/ block.col + ColB(e) < launch.n
       /\ kk >= launch.clElems \/ RowB(e) < kk
    THEN FromB(Y!StridedB(b, launch.k - kk + RowB(e), block.col + ColB(e))) ELSE Zero

\* Item i's part of the panel is in buffer w of the memory f.
HasCopied(f, i, w, b, kk) ==
    /\ \A e \in OfA(i) : f[CellA(w, e)] = PanelA(b, kk, e)
    /\ \A e \in OfB(i) : f[CellB(w, e)] = PanelB(b, kk, e)

\* The items of a group copy the whole block.
LEMMA AllCopied ==
    ASSUME launch \in LocalLaunches, block.vectorOffset \in {1, launch.packet},
           NEW rows \in Nat \ {0}, NEW cols \in Nat \ {0}, NEW e \in 0 .. rows * cols - 1
    PROVE  \E i \in L!Item : e \in L!Copied(i, rows, cols)
<1>1. PICK p \in Nat \ {0}, s \in Nat \ {0}, n \in Nat \ {0} :
          p = block.vectorOffset /\ s = L!WgSize /\ n = rows * cols
  BY LocalSizes, LocalTiles
<1>2. PICK y \in Nat, v \in 0 .. p - 1 : e = p * y + v
  <2>1. e \in Nat
    BY <1>1
  <2>2. e \div p \in Nat /\ e % p \in 0 .. p - 1 /\ e = p * (e \div p) + (e % p)
    BY <2>1, DivMod
  <2> QED
    BY <2>2
<1>3. PICK x \in Nat, i \in 0 .. s - 1 : y = s * x + i
  <2>1. y \div s \in Nat /\ y % s \in 0 .. s - 1 /\ y = s * (y \div s) + (y % s)
    BY DivMod
  <2> QED
    BY <2>1
<1>4. PICK z \in Nat \ {0}, f \in Nat, g \in Nat, h \in Nat :
          z = s * p /\ f = z * x /\ g = p * i /\ h = g + v
  <2>1. s * p \in Nat \ {0} /\ p * i \in Nat /\ p * i + v \in Nat
    OBVIOUS
  <2>2. (s * p) * x \in Nat
    BY <2>1
  <2> QED
    BY <2>1, <2>2
<1>5. e = f + h /\ i <= g
  <2>1. p * (s * x + i) = f + g
    BY <1>4
  <2>2. i <= p * i
    <3>1. i * 1 <= i * p
      BY MulMonotone
    <3> QED
      BY <3>1
  <2> QED
    BY <1>2, <1>3, <1>4, <2>1, <2>2
<1>6. x * s * p = f /\ i * p = g
  BY <1>4
<1>7. i + x * s * p < n /\ e = i * p + x * s * p + v
  BY <1>1, <1>4, <1>5, <1>6
<1>8. x \in 0 .. L!DivUp(n, s * p) - 1
  <2>1. PICK q \in Nat, r \in 0 .. z - 1 : q = (n - 1) \div z /\ n - 1 = z * q + r
    <3>1. PICK n1 \in Nat : n1 = n - 1
      OBVIOUS
    <3>2. n1 \div z \in Nat /\ n1 % z \in 0 .. z - 1 /\ n1 = z * (n1 \div z) + (n1 % z)
      BY DivMod
    <3> QED
      BY <3>1, <3>2
  <2>2. x <= q
    <3> SUFFICES ASSUME q + 1 <= x PROVE FALSE
      BY <2>1
    <3>1. z * (q + 1) <= z * x
      BY <2>1, MulMonotone
    <3>2. PICK t \in Nat : t = z * q
      BY <2>1
    <3>3. z * (q + 1) = t + z
      BY <2>1, <3>2
    <3>4. f <= n - 1
      BY <1>1, <1>4, <1>5
    <3> QED
      BY <1>4, <2>1, <3>1, <3>2, <3>3, <3>4
  <2> QED
    BY <1>4, <2>1, <2>2 DEF L!DivUp
<1> QED
  BY <1>1, <1>7, <1>8 DEF L!Item, L!Copied, L!VectorOffset

LEMMA OfBlock ==
    ASSUME WholeTrips, LocalLaunch
    PROVE  /\ \A i \in L!Item : /\ OfA(i) \subseteq BlockA /\ OfB(i) \subseteq BlockB
           /\ \A i, u \in L!Item : i # u => OfA(i) \cap OfA(u) = {} /\ OfB(i) \cap OfB(u) = {}
           /\ \A e \in BlockA : \E i \in L!Item : e \in OfA(i)
           /\ \A e \in BlockB : \E i \in L!Item : e \in OfB(i)
<1>1. launch.clElems \in Nat \ {0} /\ L!BlockRows \in Nat \ {0} /\ L!BlockCols \in Nat \ {0}
      /\ launch \in LocalLaunches /\ block.vectorOffset \in {1, launch.packet}
  BY LocalSizes, LocalTiles DEF LocalLaunch
<1>2. ASSUME NEW i \in L!Item, NEW e \in OfA(i)
      PROVE  e \in BlockA /\ (e \div block.vectorOffset) % L!WgSize = i
  BY <1>1, <1>2, CopiedAt DEF OfA, BlockA
<1>3. ASSUME NEW i \in L!Item, NEW e \in OfB(i)
      PROVE  e \in BlockB /\ (e \div block.vectorOffset) % L!WgSize = i
  BY <1>1, <1>3, CopiedAt DEF OfB, BlockB
<1>4. ASSUME NEW e \in BlockA PROVE \E i \in L!Item : e \in OfA(i)
  BY <1>1, AllCopied DEF OfA, BlockA
<1>5. ASSUME NEW e \in BlockB PROVE \E i \in L!Item : e \in OfB(i)
  BY <1>1, AllCopied DEF OfB, BlockB
<1> QED
  BY <1>2, <1>3, <1>4, <1>5

\* The cells of a block, in one buffer or in two, are different from each other
\* and from those of the other block.
LEMMA CellsInArea ==
    ASSUME launch \in LocalLaunches, NEW w \in 0 .. L!Buffers - 1
    PROVE  /\ \A e \in BlockA : CellA(w, e) \in Area(L!Buffers * SizeB, SizeA, w)
           /\ \A e \in BlockB : CellB(w, e) \in Area(0, SizeB, w)
<1>1. /\ launch.clElems \in Nat \ {0} /\ L!BlockRows \in Nat \ {0}
      /\ L!BlockCols \in Nat \ {0} /\ L!Ldsb \in Nat \ {0} /\ L!Ldsa \in Nat \ {0}
      /\ L!BlockRows <= L!Ldsa /\ launch.clElems <= L!Ldsb /\ L!Buffers \in {1, 2}
  BY LocalSizes, LocalTiles
<1>2. ASSUME NEW e \in BlockA PROVE CellA(w, e) \in Area(L!Buffers * SizeB, SizeA, w)
  <2>1. RowA(e) \in 0 .. L!BlockRows - 1 /\ ColA(e) \in 0 .. launch.clElems - 1
    BY InBlockA DEF BlockA
  <2>2. PlaceA(e) \in 0 .. SizeA - 1
    BY <1>1, <2>1, TileCell DEF PlaceA, SizeA
  <2>3. L!SA(w) = L!Buffers * SizeB + w * SizeA
    BY <1>1 DEF L!SA, SizeA, SizeB
  <2> QED
    BY <2>2, <2>3 DEF CellA, Area
<1>3. ASSUME NEW e \in BlockB PROVE CellB(w, e) \in Area(0, SizeB, w)
  <2>1. RowB(e) \in 0 .. launch.clElems - 1 /\ ColB(e) \in 0 .. L!BlockCols - 1
    BY InBlockB DEF BlockB
  <2>2. PlaceB(e) \in 0 .. L!Ldsb * L!BlockCols - 1
    BY <1>1, <2>1, TileCell DEF PlaceB
  <2>3. L!Ldsb * L!BlockCols = SizeB /\ SizeB \in Nat
    BY <1>1 DEF SizeB
  <2>4. L!SB(w) = 0 + w * SizeB
    BY <1>1 DEF L!SB, SizeB
  <2> QED
    BY <2>2, <2>3, <2>4 DEF CellB, Area
<1> QED
  BY <1>2, <1>3

LEMMA OneElementA ==
    ASSUME launch \in LocalLaunches, NEW w \in 0 .. L!Buffers - 1, NEW x \in 0 .. L!Buffers - 1,
           NEW e \in BlockA, NEW f \in BlockA, CellA(w, e) = CellA(x, f)
    PROVE  w = x /\ e = f
<1>1. /\ launch.clElems \in Nat \ {0} /\ L!BlockRows \in Nat \ {0}
      /\ L!BlockCols \in Nat \ {0} /\ L!Ldsb \in Nat \ {0} /\ L!Ldsa \in Nat \ {0}
      /\ L!BlockRows <= L!Ldsa /\ L!Buffers \in {1, 2}
  BY LocalSizes, LocalTiles
<1>2. w = x
  <2>1. SizeA \in Nat /\ SizeB \in Nat
    BY <1>1 DEF SizeA, SizeB
  <2>2. Apart(SizeB, SizeA, L!Buffers, w, x)
    BY <1>1, <2>1, AreasApart
  <2> QED
    BY <2>2, CellsInArea DEF Apart
<1>3. /\ RowA(e) \in 0 .. L!Ldsa - 1 /\ RowA(f) \in 0 .. L!Ldsa - 1
      /\ ColA(e) \in Nat /\ ColA(f) \in Nat
  BY <1>1, InBlockA DEF BlockA
<1>4. PlaceA(e) = PlaceA(f)
  <2>1. PlaceA(e) \in Nat /\ PlaceA(f) \in Nat
    BY <1>1, <1>3 DEF PlaceA
  <2>2. L!SA(w) \in Nat
    BY <1>1 DEF L!SA
  <2>3. L!SA(w) + PlaceA(e) = L!SA(w) + PlaceA(f)
    BY <1>2 DEF CellA
  <2> QED
    BY <2>1, <2>2, <2>3
<1>5. OneCell(L!Ldsa, RowA(e), ColA(e), RowA(f), ColA(f))
  BY <1>1, <1>3, <1>4 DEF OneCell, PlaceA
<1>6. RowA(e) = RowA(f) /\ ColA(e) = ColA(f)
  BY <1>5, OneCellOnly
<1>7. e = f
  BY <1>6, InBlockA DEF BlockA
<1> QED
  BY <1>2, <1>7

LEMMA OneElementB ==
    ASSUME launch \in LocalLaunches, NEW w \in 0 .. L!Buffers - 1, NEW x \in 0 .. L!Buffers - 1,
           NEW e \in BlockB, NEW f \in BlockB, CellB(w, e) = CellB(x, f)
    PROVE  w = x /\ e = f
<1>1. /\ launch.clElems \in Nat \ {0} /\ L!BlockCols \in Nat \ {0}
      /\ L!BlockRows \in Nat \ {0} /\ L!Ldsa \in Nat \ {0}
      /\ L!Ldsb \in Nat \ {0} /\ launch.clElems <= L!Ldsb /\ L!Buffers \in {1, 2}
  BY LocalSizes, LocalTiles
<1>2. w = x
  <2>1. SizeA \in Nat /\ SizeB \in Nat
    BY <1>1 DEF SizeA, SizeB
  <2>2. Apart(SizeB, SizeA, L!Buffers, w, x)
    BY <1>1, <2>1, AreasApart
  <2> QED
    BY <2>2, CellsInArea DEF Apart
<1>3. /\ RowB(e) \in 0 .. L!Ldsb - 1 /\ RowB(f) \in 0 .. L!Ldsb - 1
      /\ ColB(e) \in Nat /\ ColB(f) \in Nat
  BY <1>1, InBlockB DEF BlockB
<1>4. PlaceB(e) = PlaceB(f)
  <2>1. PlaceB(e) \in Nat /\ PlaceB(f) \in Nat
    BY <1>1, <1>3 DEF PlaceB
  <2>2. L!SB(w) \in Nat
    BY <1>1 DEF L!SB
  <2>3. L!SB(w) + PlaceB(e) = L!SB(w) + PlaceB(f)
    BY <1>2 DEF CellB
  <2> QED
    BY <2>1, <2>2, <2>3
<1>5. OneCell(L!Ldsb, RowB(e), ColB(e), RowB(f), ColB(f))
  BY <1>1, <1>3, <1>4 DEF OneCell, PlaceB
<1>6. RowB(e) = RowB(f) /\ ColB(e) = ColB(f)
  BY <1>5, OneCellOnly
<1>7. e = f
  BY <1>6, InBlockB DEF BlockB
<1> QED
  BY <1>2, <1>7

LEMMA OtherBlock ==
    ASSUME launch \in LocalLaunches, NEW w \in 0 .. L!Buffers - 1, NEW x \in 0 .. L!Buffers - 1,
           NEW e \in BlockA, NEW f \in BlockB
    PROVE  /\ CellA(w, e) # CellB(x, f)
           /\ CellA(w, e) \in 0 .. L!LocalMemorySize - 1
           /\ CellB(x, f) \in 0 .. L!LocalMemorySize - 1
<1>1. /\ launch.clElems \in Nat \ {0} /\ L!BlockRows \in Nat \ {0}
      /\ L!BlockCols \in Nat \ {0} /\ L!Ldsb \in Nat \ {0} /\ L!Ldsa \in Nat \ {0}
      /\ L!Buffers \in {1, 2}
  BY LocalSizes, LocalTiles
<1>2. PICK s \in Nat, t \in Nat : s = SizeB /\ t = SizeA
  BY <1>1 DEF SizeA, SizeB
<1>3. L!LocalMemorySize = L!Buffers * (t + s)
  <2>1. L!Ldsb * L!BlockCols = s
    BY <1>1, <1>2 DEF SizeB
  <2> QED
    BY <1>2, <2>1 DEF L!LocalMemorySize, SizeA
<1>4. Apart(s, t, L!Buffers, x, w)
  BY <1>1, AreasApart
<1>5. CellA(w, e) \in Area(L!Buffers * s, t, w) /\ CellB(x, f) \in Area(0, s, x)
  BY <1>2, CellsInArea
<1>6. CellA(w, e) # CellB(x, f)
  BY <1>4, <1>5 DEF Apart
<1>7. PICK y \in 0 .. t - 1, z \in 0 .. s - 1 :
          CellA(w, e) = L!Buffers * s + w * t + y /\ CellB(x, f) = 0 + x * s + z
  BY <1>5 DEF Area
<1>8. CASE L!Buffers = 1
  BY <1>2, <1>3, <1>6, <1>7, <1>8
<1>9. CASE L!Buffers = 2
  BY <1>2, <1>3, <1>6, <1>7, <1>9
<1> QED
  BY <1>1, <1>8, <1>9

\* A load of A, and one of B.
LoadA(i, e) ==
    [to |-> L!SA(buffer[i]) + RowA(e) + ColA(e) * L!Ldsa,
     address |-> batch[i] * L!ASize
                   + L!Address(launch.transA, block.row + RowA(e), launch.k - k[i] + ColA(e),
                               launch.lda),
     inRange |-> /\ block.internal \/ block.row + RowA(e) < launch.m
                 /\ k[i] >= launch.clElems \/ ColA(e) < k[i]]
LoadB(i, e) ==
    [to |-> L!SB(buffer[i]) + RowB(e) + ColB(e) * L!Ldsb,
     address |-> batch[i] * L!BSize
                   + L!Address(launch.transB, launch.k - k[i] + RowB(e), block.col + ColB(e),
                               launch.ldb),
     inRange |-> /\ block.internal \/ block.col + ColB(e) < launch.n
                 /\ k[i] >= launch.clElems \/ RowB(e) < k[i]]

LEMMA LoadsAre ==
    ASSUME NEW i
    PROVE  /\ L!LoadsOfA(i) = {LoadA(i, e) : e \in OfA(i)}
           /\ L!LoadsOfB(i) = {LoadB(i, e) : e \in OfB(i)}
BY DEF L!LoadsOfA, L!LoadsOfB, LoadA, LoadB, OfA, OfB, RowA, ColA, RowB, ColB,
       L!wgRow, L!wgCol, L!Internal

LEMMA LoadIs ==
    ASSUME LocalLaunch, NEW i \in L!Item
    PROVE  /\ \A e \in BlockA :
                /\ LoadA(i, e).to = CellA(buffer[i], e)
                /\ (IF LoadA(i, e).inRange THEN FromA(LoadA(i, e).address) ELSE Zero)
                     = PanelA(batch[i], k[i], e)
           /\ \A e \in BlockB :
                /\ LoadB(i, e).to = CellB(buffer[i], e)
                /\ (IF LoadB(i, e).inRange THEN FromB(LoadB(i, e).address) ELSE Zero)
                     = PanelB(batch[i], k[i], e)
<1>1. /\ launch \in LocalLaunches /\ L!BlockRows \in Nat \ {0} /\ L!BlockCols \in Nat \ {0}
      /\ L!Ldsa \in Nat \ {0} /\ L!Ldsb \in Nat \ {0} /\ launch.clElems \in Nat \ {0}
      /\ L!Buffers \in Nat /\ buffer[i] \in Nat
  BY LocalSizes, LocalTiles DEF LocalLaunch
<1>2. L!SA(buffer[i]) \in Nat /\ L!SB(buffer[i]) \in Nat
  BY <1>1 DEF L!SA, L!SB
<1>3. ASSUME NEW e \in BlockA
      PROVE  /\ LoadA(i, e).to = CellA(buffer[i], e)
             /\ (IF LoadA(i, e).inRange THEN FromA(LoadA(i, e).address) ELSE Zero)
                  = PanelA(batch[i], k[i], e)
  <2>1. RowA(e) \in Nat /\ ColA(e) \in Nat
    BY <1>1, InBlockA DEF BlockA
  <2>2. PICK x \in Nat : x = ColA(e) * L!Ldsa
    BY <1>1, <2>1
  <2>3. LoadA(i, e).to = CellA(buffer[i], e)
    BY <1>2, <2>1, <2>2 DEF LoadA, CellA, PlaceA
  <2>4. (IF LoadA(i, e).inRange THEN FromA(LoadA(i, e).address) ELSE Zero)
          = PanelA(batch[i], k[i], e)
    BY DEF LoadA, PanelA, Y!StridedA, Y!ASize, L!ASize, Y!Address, L!Address
  <2> QED
    BY <2>3, <2>4
<1>4. ASSUME NEW e \in BlockB
      PROVE  /\ LoadB(i, e).to = CellB(buffer[i], e)
             /\ (IF LoadB(i, e).inRange THEN FromB(LoadB(i, e).address) ELSE Zero)
                  = PanelB(batch[i], k[i], e)
  <2>1. RowB(e) \in Nat /\ ColB(e) \in Nat
    BY <1>1, InBlockB DEF BlockB
  <2>2. PICK x \in Nat : x = ColB(e) * L!Ldsb
    BY <1>1, <2>1
  <2>3. LoadB(i, e).to = CellB(buffer[i], e)
    BY <1>2, <2>1, <2>2 DEF LoadB, CellB, PlaceB
  <2>4. (IF LoadB(i, e).inRange THEN FromB(LoadB(i, e).address) ELSE Zero)
          = PanelB(batch[i], k[i], e)
    BY DEF LoadB, PanelB, Y!StridedB, Y!BSize, L!BSize, Y!Address, L!Address
  <2> QED
    BY <2>3, <2>4
<1> QED
  BY <1>3, <1>4

\* The cells that item i fills in buffer w.
CellsOf(i, w) == {CellA(w, e) : e \in OfA(i)} \cup {CellB(w, e) : e \in OfB(i)}

\* extract_input_blocks copies the item's part of the panel and nothing else.
LEMMA ExtractDoes ==
    ASSUME WholeTrips, LocalLaunch, NEW i \in L!Item, L!Extract(i),
           DOMAIN scratch = 0 .. L!LocalMemorySize - 1
    PROVE  /\ DOMAIN scratch' = DOMAIN scratch
           /\ HasCopied(scratch', i, buffer[i], batch[i], k[i])
           /\ \A a \in DOMAIN scratch : a \notin CellsOf(i, buffer[i]) => scratch'[a] = scratch[a]
<1> DEFINE w == buffer[i]
           f == L!Copies(L!LoadsOfA(i), L!FromA)
           g == L!Copies(L!LoadsOfB(i), L!FromB)
<1>1. scratch' = L!Over(f, L!Over(g, scratch))
  BY DEF L!Extract
<1>2. /\ launch \in LocalLaunches /\ w \in 0 .. L!Buffers - 1
      /\ OfA(i) \subseteq BlockA /\ OfB(i) \subseteq BlockB
  BY OfBlock DEF LocalLaunch
<1>3. /\ DOMAIN f = {CellA(w, e) : e \in OfA(i)}
      /\ \A e \in OfA(i) : f[CellA(w, e)] = PanelA(batch[i], k[i], e)
  <2>1. {x.to : x \in L!LoadsOfA(i)} = {CellA(w, e) : e \in OfA(i)}
    BY <1>2, LoadsAre, LoadIs
  <2>2. DOMAIN f = {x.to : x \in L!LoadsOfA(i)}
    BY DEF L!Copies
  <2>3. ASSUME NEW e \in OfA(i) PROVE f[CellA(w, e)] = PanelA(batch[i], k[i], e)
    <3> DEFINE load == CHOOSE x \in L!LoadsOfA(i) : x.to = CellA(w, e)
    <3>1. f[CellA(w, e)] = IF load.inRange THEN L!FromA(load.address) ELSE L!Zero
      BY <2>1 DEF L!Copies
    <3>2. load = LoadA(i, e)
      <4>1. LoadA(i, e) \in L!LoadsOfA(i) /\ LoadA(i, e).to = CellA(w, e)
        BY <1>2, LoadsAre, LoadIs
      <4>2. load \in L!LoadsOfA(i) /\ load.to = CellA(w, e)
        BY <4>1
      <4> HIDE DEF load
      <4>3. PICK e2 \in OfA(i) : load = LoadA(i, e2)
        BY <4>2, LoadsAre
      <4>4. CellA(w, e2) = CellA(w, e)
        BY <1>2, <4>2, <4>3, LoadIs
      <4>5. e2 = e
        BY <1>2, <4>4, OneElementA
      <4> QED
        BY <4>3, <4>5
    <3> HIDE DEF load
    <3> QED
      BY <1>2, <3>1, <3>2, LoadIs DEF L!FromA, FromA, L!Zero, Zero
  <2> QED
    BY <2>1, <2>2, <2>3
<1>4. /\ DOMAIN g = {CellB(w, e) : e \in OfB(i)}
      /\ \A e \in OfB(i) : g[CellB(w, e)] = PanelB(batch[i], k[i], e)
  <2>1. {x.to : x \in L!LoadsOfB(i)} = {CellB(w, e) : e \in OfB(i)}
    BY <1>2, LoadsAre, LoadIs
  <2>2. DOMAIN g = {x.to : x \in L!LoadsOfB(i)}
    BY DEF L!Copies
  <2>3. ASSUME NEW e \in OfB(i) PROVE g[CellB(w, e)] = PanelB(batch[i], k[i], e)
    <3> DEFINE load == CHOOSE x \in L!LoadsOfB(i) : x.to = CellB(w, e)
    <3>1. g[CellB(w, e)] = IF load.inRange THEN L!FromB(load.address) ELSE L!Zero
      BY <2>1 DEF L!Copies
    <3>2. load = LoadB(i, e)
      <4>1. LoadB(i, e) \in L!LoadsOfB(i) /\ LoadB(i, e).to = CellB(w, e)
        BY <1>2, LoadsAre, LoadIs
      <4>2. load \in L!LoadsOfB(i) /\ load.to = CellB(w, e)
        BY <4>1
      <4> HIDE DEF load
      <4>3. PICK e2 \in OfB(i) : load = LoadB(i, e2)
        BY <4>2, LoadsAre
      <4>4. CellB(w, e2) = CellB(w, e)
        BY <1>2, <4>2, <4>3, LoadIs
      <4>5. e2 = e
        BY <1>2, <4>4, OneElementB
      <4> QED
        BY <4>3, <4>5
    <3> HIDE DEF load
    <3> QED
      BY <1>2, <3>1, <3>2, LoadIs DEF L!FromB, FromB, L!Zero, Zero
  <2> QED
    BY <2>1, <2>2, <2>3
<1> HIDE DEF f, g, w
<1>5. /\ DOMAIN scratch' = DOMAIN f \cup (DOMAIN g \cup DOMAIN scratch)
      /\ \A a \in DOMAIN f : scratch'[a] = f[a]
      /\ \A a \in DOMAIN g : a \notin DOMAIN f => scratch'[a] = g[a]
      /\ \A a \in DOMAIN scratch : a \notin DOMAIN f \cup DOMAIN g => scratch'[a] = scratch[a]
  BY <1>1 DEF L!Over
<1>6. \A e \in OfA(i), e2 \in OfB(i) : CellA(w, e) # CellB(w, e2)
  BY <1>2, OtherBlock
<1>7. DOMAIN f \subseteq DOMAIN scratch /\ DOMAIN g \subseteq DOMAIN scratch
  <2>1. 0 \in BlockA /\ 0 \in BlockB
    <3>1. /\ L!BlockRows \in Nat \ {0} /\ L!BlockCols \in Nat \ {0}
          /\ launch.clElems \in Nat \ {0}
      BY <1>2, LocalSizes, LocalTiles
    <3>2. /\ L!BlockRows * launch.clElems \in Nat \ {0}
          /\ launch.clElems * L!BlockCols \in Nat \ {0}
      BY <3>1
    <3> QED
      BY <3>2 DEF BlockA, BlockB
  <2>2. /\ \A e \in BlockA : CellA(w, e) \in DOMAIN scratch
        /\ \A e \in BlockB : CellB(w, e) \in DOMAIN scratch
    BY <1>2, <2>1, OtherBlock
  <2> QED
    BY <1>2, <1>3, <1>4, <2>2
<1>8. HasCopied(scratch', i, w, batch[i], k[i])
  <2>1. \A e \in OfA(i) : scratch'[CellA(w, e)] = PanelA(batch[i], k[i], e)
    BY <1>3, <1>5
  <2>2. \A e \in OfB(i) : CellB(w, e) \in DOMAIN g /\ CellB(w, e) \notin DOMAIN f
    BY <1>3, <1>4, <1>6
  <2>3. \A e \in OfB(i) : scratch'[CellB(w, e)] = PanelB(batch[i], k[i], e)
    BY <1>4, <1>5, <2>2
  <2> QED
    BY <2>1, <2>3 DEF HasCopied
<1>9. DOMAIN f \cup DOMAIN g = CellsOf(i, w)
  BY <1>3, <1>4 DEF CellsOf
<1>10. DOMAIN scratch' = DOMAIN scratch
  BY <1>5, <1>7
<1>11. \A a \in DOMAIN scratch : a \notin CellsOf(i, w) => scratch'[a] = scratch[a]
  BY <1>5, <1>9
<1> QED
  BY <1>8, <1>10, <1>11 DEF w

\* So the parts of other items, and those in the other buffer, stay.
LEMMA OthersStay ==
    ASSUME WholeTrips, LocalLaunch, NEW i \in L!Item, NEW u \in L!Item,
           NEW w \in 0 .. L!Buffers - 1, i # u \/ w # buffer[i],
           NEW f, NEW g, DOMAIN f = 0 .. L!LocalMemorySize - 1,
           \A a \in DOMAIN f : a \notin CellsOf(i, buffer[i]) => g[a] = f[a],
           NEW b, NEW kk, HasCopied(f, u, w, b, kk)
    PROVE  HasCopied(g, u, w, b, kk)
<1>1. /\ launch \in LocalLaunches /\ buffer[i] \in 0 .. L!Buffers - 1
      /\ OfA(i) \subseteq BlockA /\ OfB(i) \subseteq BlockB
      /\ OfA(u) \subseteq BlockA /\ OfB(u) \subseteq BlockB
      /\ i # u => OfA(i) \cap OfA(u) = {} /\ OfB(i) \cap OfB(u) = {}
  BY OfBlock DEF LocalLaunch
<1>2. 0 \in BlockA /\ 0 \in BlockB
  <2>1. /\ L!BlockRows \in Nat \ {0} /\ L!BlockCols \in Nat \ {0}
        /\ launch.clElems \in Nat \ {0}
    BY <1>1, LocalSizes, LocalTiles
  <2>2. /\ L!BlockRows * launch.clElems \in Nat \ {0}
        /\ launch.clElems * L!BlockCols \in Nat \ {0}
    BY <2>1
  <2> QED
    BY <2>2 DEF BlockA, BlockB
<1>3. ASSUME NEW e \in OfA(u) PROVE g[CellA(w, e)] = f[CellA(w, e)]
  <2>1. CellA(w, e) \in DOMAIN f
    BY <1>1, <1>2, OtherBlock
  <2>2. ASSUME NEW e2 \in OfA(i) PROVE CellA(buffer[i], e2) # CellA(w, e)
    BY <1>1, OneElementA
  <2>3. ASSUME NEW e2 \in OfB(i) PROVE CellB(buffer[i], e2) # CellA(w, e)
    BY <1>1, OtherBlock
  <2> QED
    BY <2>1, <2>2, <2>3 DEF CellsOf
<1>4. ASSUME NEW e \in OfB(u) PROVE g[CellB(w, e)] = f[CellB(w, e)]
  <2>1. CellB(w, e) \in DOMAIN f
    BY <1>1, <1>2, OtherBlock
  <2>2. ASSUME NEW e2 \in OfB(i) PROVE CellB(buffer[i], e2) # CellB(w, e)
    BY <1>1, OneElementB
  <2>3. ASSUME NEW e2 \in OfA(i) PROVE CellA(buffer[i], e2) # CellB(w, e)
    BY <1>1, OtherBlock
  <2> QED
    BY <2>1, <2>2, <2>3 DEF CellsOf
<1> QED
  BY <1>3, <1>4 DEF HasCopied

-------------------------------------------------------------------------------
(***************************************************************************)
(* GemmLocal: where the group is                                           *)
(***************************************************************************)

LocalBlock == launch.group \in L!Groups /\ block = L!BlockOf(launch.group)

\* The grid of the kernel, whatever the shape of its blocks.
LEMMA LocalCluster ==
    ASSUME launch \in LocalLaunches
    PROVE  /\ L!WorkgroupCluster \in Nat \ {0} /\ L!BatchStride \in Nat \ {0}
           /\ L!Groups = 0 .. L!WorkgroupCluster * L!BatchStride - 1
<1>1. /\ L!BlockRows \in Nat \ {0} /\ L!BlockCols \in Nat \ {0}
  BY LocalTiles
<1>2. PICK s \in Nat \ {0}, t \in Nat \ {0}, m \in Nat \ {0}, n \in Nat \ {0},
           u \in Nat \ {0}, v \in Nat \ {0}, y \in Nat \ {0} :
          /\ s = launch.tlRows * L!BlockRows /\ t = launch.tlCols * L!BlockCols
          /\ m = launch.m /\ n = launch.n /\ u = launch.tlRows /\ v = launch.tlCols
          /\ y = 4 * launch.computeUnits
  <2>1. /\ launch.tlRows * L!BlockRows \in Nat \ {0}
        /\ launch.tlCols * L!BlockCols \in Nat \ {0}
        /\ 4 * launch.computeUnits \in Nat \ {0}
    BY <1>1, LocalTypes
  <2> QED
    BY <2>1, LocalTypes
<1>3. PICK a \in Nat \ {0} : a = (m - 1) \div s + 1
  BY RoundedUp
<1>4. PICK d \in Nat \ {0} : d = (n - 1) \div t + 1
  BY RoundedUp
<1>5. PICK w \in Nat \ {0} : w = a * d * u * v
  OBVIOUS
<1>6. PICK x \in Nat \ {0} : x = (y - 1) \div w + 1
  BY RoundedUp
<1>7. L!WorkgroupCluster = w
  BY <1>2, <1>3, <1>4, <1>5 DEF L!WorkgroupCluster, L!DivUp
<1>8. L!BatchStride = x
  BY <1>2, <1>6, <1>7 DEF L!BatchStride, L!NumWorkgroupCluster, L!DivUp
<1> QED
  BY <1>7, <1>8 DEF L!Groups, L!BatchStride

LEMMA LocalFirst ==
    ASSUME launch \in LocalLaunches, LocalBlock
    PROVE  /\ launch.group \in Nat
           /\ L!WgBatchId(launch.group) \in Nat /\ L!BatchStride \in Nat \ {0}
<1>1. PICK w \in Nat \ {0}, n \in Nat \ {0} :
          w = L!WorkgroupCluster /\ n = L!BatchStride /\ L!Groups = 0 .. w * n - 1
  BY LocalCluster
<1>2. launch.group \in Nat
  BY <1>1 DEF LocalBlock
<1>3. launch.group \div w \in Nat
  BY <1>2, DivMod
<1> QED
  BY <1>1, <1>2, <1>3 DEF L!WgBatchId

\* Every item is in its loops, from batch b0 on in steps of d.
LoopsInv(b0, d) ==
    /\ LocalInv
    /\ batch \in [L!Item -> Nat] /\ k \in [L!Item -> Nat]
    /\ \A i \in L!Item :
          InLoops(b0, d, pc[i], batch[i], k[i], buffer[i], barriers[i], waiting[i])

LEMMA LoopsInvStart ==
    ASSUME L!Init
    PROVE  LocalBlock /\ LoopsInv(L!WgBatchId(launch.group), L!BatchStride)
<1>1. LocalInv /\ launch \in LocalLaunches
  BY LocalStart DEF L!Init
<1>2. LocalBlock
  BY DEF L!Init, LocalBlock
<1>3. PICK b0 \in Nat, d \in Nat \ {0} : b0 = L!WgBatchId(launch.group) /\ d = L!BatchStride
  BY <1>1, <1>2, LocalFirst
<1>4. InLoops(b0, d, IF b0 < launch.batchSize THEN "load" ELSE "done", b0, launch.k, 0, 0,
              FALSE)
  BY <1>1, LoopsStart
<1>5. /\ batch = [i \in L!Item |-> b0] /\ k = [i \in L!Item |-> launch.k]
      /\ pc = [i \in L!Item |-> IF b0 < launch.batchSize THEN "load" ELSE "done"]
      /\ buffer = [i \in L!Item |-> 0] /\ barriers = [i \in L!Item |-> 0]
      /\ waiting = [i \in L!Item |-> FALSE]
  BY <1>3 DEF L!Init
<1>6. LoopsInv(b0, d)
  <2> HIDE <1>3
  <2>1. batch \in [L!Item -> Nat] /\ k \in [L!Item -> Nat]
    BY <1>1, <1>5, LocalSizes
  <2>2. ASSUME NEW i \in L!Item
        PROVE InLoops(b0, d, pc[i], batch[i], k[i], buffer[i], barriers[i], waiting[i])
    <3>1. /\ pc[i] = IF b0 < launch.batchSize THEN "load" ELSE "done"
          /\ batch[i] = b0 /\ k[i] = launch.k /\ buffer[i] = 0 /\ barriers[i] = 0
          /\ waiting[i] = FALSE
      BY <1>5
    <3> QED
      BY <1>4, <3>1
  <2> QED
    BY <1>1, <2>1, <2>2 DEF LoopsInv
<1> QED
  BY <1>2, <1>3, <1>6

LEMMA LocalMax ==
    ASSUME NEW x \in Int
    PROVE  L!Max({x, 0}) = IF x >= 0 THEN x ELSE 0
<1> DEFINE y == IF x >= 0 THEN x ELSE 0
<1>1. y \in {x, 0} /\ \A z \in {x, 0} : y >= z
  OBVIOUS
<1>2. L!Max({x, 0}) \in {x, 0} /\ \A z \in {x, 0} : L!Max({x, 0}) >= z
  BY <1>1 DEF L!Max
<1> QED
  BY <1>1, <1>2

\* What is left of K after a panel.
Left(kk) == IF kk >= launch.clElems THEN kk - launch.clElems ELSE 0

\* What a step of item i does to its place in its loops.
Moved(i, p, b, kk, w, a, waits) ==
    /\ pc' = [pc EXCEPT ![i] = p] /\ batch' = [batch EXCEPT ![i] = b]
    /\ k' = [k EXCEPT ![i] = kk] /\ buffer' = [buffer EXCEPT ![i] = w]
    /\ barriers' = [barriers EXCEPT ![i] = a] /\ waiting' = [waiting EXCEPT ![i] = waits]
    /\ launch' = launch /\ block' = block

\* Each step moves its item on, and leaves the other ones alone.
LEMMA StepMoves ==
    ASSUME NEW b0, NEW d, d = L!BatchStride, LoopsInv(b0, d), NEW i \in L!Item
    PROVE  /\ L!Load(i) => /\ pc[i] = "load" /\ k[i] > 0
                           /\ Moved(i, "compute", batch[i], k[i], buffer[i],
                                    barriers[i] + 1, TRUE)
           /\ L!Compute(i) =>
                 /\ pc[i] = "compute"
                 /\ IF launch.doubleBuffer
                    THEN Moved(i, "load", batch[i], Left(k[i]), 1 - buffer[i], barriers[i],
                               FALSE)
                    ELSE Moved(i, "load", batch[i], Left(k[i]), buffer[i], barriers[i] + 1,
                               TRUE)
           /\ L!Store(i) =>
                 /\ pc[i] = "load" /\ k[i] = 0
                 /\ Moved(i, IF batch[i] + d < launch.batchSize THEN "load" ELSE "done",
                          batch[i] + d, launch.k, buffer[i], barriers[i], FALSE)
<1>1. /\ LocalInv /\ LocalLaunch /\ launch \in LocalLaunches
      /\ InLoops(b0, d, pc[i], batch[i], k[i], buffer[i], barriers[i], waiting[i])
      /\ batch \in [L!Item -> Nat] /\ k \in [L!Item -> Nat]
      /\ \A u \in L!Item : batch[u] \in Nat /\ k[u] \in 0 .. launch.k
  BY LoopsTyped DEF LoopsInv, LocalInv, LocalLaunch
<1>2. /\ launch.k \in Nat /\ launch.clElems \in Nat
      /\ L!Buffers \in {1, 2} /\ (launch.doubleBuffer => L!Buffers = 2)
  BY <1>1, LocalSizes, LocalTiles DEF L!Buffers, L!Bit
<1>3. /\ pc \in [L!Item -> {"load", "compute", "done"}]
      /\ buffer \in [L!Item -> 0 .. L!Buffers - 1]
      /\ ofs = [u \in L!Item |-> IF buffer[u] = 0 THEN 1 ELSE -1]
      /\ barriers \in [L!Item -> Nat] /\ waiting \in [L!Item -> BOOLEAN]
  BY <1>1 DEF LocalInv, LocalLaunch, InStep
<1>4. ASSUME L!Load(i)
      PROVE  /\ pc[i] = "load" /\ k[i] > 0
             /\ Moved(i, "compute", batch[i], k[i], buffer[i], barriers[i] + 1, TRUE)
  BY <1>1, <1>3, <1>4 DEF L!Load, L!At, L!BarrierThen, Moved
<1>5. ASSUME L!Compute(i)
      PROVE  /\ pc[i] = "compute"
             /\ IF launch.doubleBuffer
                THEN Moved(i, "load", batch[i], Left(k[i]), 1 - buffer[i], barriers[i], FALSE)
                ELSE Moved(i, "load", batch[i], Left(k[i]), buffer[i], barriers[i] + 1, TRUE)
  <2>1. /\ pc[i] = "compute" /\ batch' = [batch EXCEPT ![i] = batch[i]]
        /\ launch' = launch /\ block' = block
        /\ k' = [k EXCEPT ![i] = L!Max({k[i] - launch.clElems, 0})]
        /\ L!SyncSmem(i)
    BY <1>1, <1>5 DEF L!Compute, L!At
  <2>2. L!Max({k[i] - launch.clElems, 0}) = Left(k[i])
    <3>1. PICK x \in Int : x = k[i] - launch.clElems
      BY <1>1, <1>2
    <3>2. L!Max({x, 0}) = IF x >= 0 THEN x ELSE 0
      BY LocalMax
    <3>3. x >= 0 <=> k[i] >= launch.clElems
      BY <1>1, <1>2, <3>1
    <3> QED
      BY <3>1, <3>2, <3>3 DEF Left
  <2>3. CASE launch.doubleBuffer
    <3>1. buffer[i] \in {0, 1} /\ buffer[i] + ofs[i] = 1 - buffer[i]
      BY <1>2, <1>3, <2>3
    <3>2. /\ pc' = [pc EXCEPT ![i] = "load"] /\ waiting' = [waiting EXCEPT ![i] = FALSE]
          /\ barriers' = barriers /\ buffer' = [buffer EXCEPT ![i] = buffer[i] + ofs[i]]
      BY <2>1, <2>3 DEF L!SyncSmem, L!Goto
    <3> QED
      BY <1>3, <2>1, <2>2, <2>3, <3>1, <3>2 DEF Moved
  <2>4. CASE ~launch.doubleBuffer
    <3>2. /\ pc' = [pc EXCEPT ![i] = "load"] /\ waiting' = [waiting EXCEPT ![i] = TRUE]
          /\ barriers' = [barriers EXCEPT ![i] = barriers[i] + 1] /\ buffer' = buffer
      BY <2>1, <2>4 DEF L!SyncSmem, L!BarrierThen
    <3> QED
      BY <1>3, <2>1, <2>2, <2>4, <3>2 DEF Moved
  <2> QED
    BY <2>1, <2>3, <2>4
<1>6. ASSUME L!Store(i)
      PROVE  /\ pc[i] = "load" /\ k[i] = 0
             /\ Moved(i, IF batch[i] + d < launch.batchSize THEN "load" ELSE "done",
                      batch[i] + d, launch.k, buffer[i], barriers[i], FALSE)
  <2>1. /\ batch' = [batch EXCEPT ![i] = batch[i] + d] /\ batch'[i] = batch[i] + d
        /\ pc[i] = "load" /\ k[i] = 0 /\ k' = [k EXCEPT ![i] = launch.k]
        /\ launch' = launch /\ block' = block /\ buffer' = buffer
        /\ L!Goto(i, IF batch'[i] < launch.batchSize THEN "load" ELSE "done")
    BY <1>1, <1>6 DEF L!Store, L!At
  <2>2. /\ pc' = [pc EXCEPT ![i] = IF batch[i] + d < launch.batchSize THEN "load" ELSE "done"]
        /\ waiting' = [waiting EXCEPT ![i] = FALSE] /\ barriers' = barriers
    BY <2>1 DEF L!Goto
  <2> QED
    BY <1>3, <2>1, <2>2 DEF Moved
<1> QED
  BY <1>4, <1>5, <1>6

\* Where an item is in its loops depends on the launch alone.
LEMMA LoopsSame ==
    ASSUME launch' = launch
    PROVE  \A b0, d, p, b, kk, w, a, waits :
               InLoops(b0, d, p, b, kk, w, a, waits)' <=> InLoops(b0, d, p, b, kk, w, a, waits)
BY DEF InLoops, InPanel, PanelAt, Panels, BufferAt, BarriersAt

LEMMA LoopsMoved ==
    ASSUME NEW b0, NEW d, LoopsInv(b0, d), NEW i \in L!Item, LocalInv',
           NEW p, NEW b, NEW kk, NEW w, NEW a, NEW waits, Moved(i, p, b, kk, w, a, waits),
           InLoops(b0, d, p, b, kk, w, a, waits)
    PROVE  LoopsInv(b0, d)'
<1>1. launch' = launch /\ L!Item' = L!Item
  BY DEF Moved, L!Item, L!WgSize
<1>2. /\ batch \in [L!Item -> Nat] /\ k \in [L!Item -> Nat] /\ DOMAIN pc = L!Item
      /\ DOMAIN buffer = L!Item /\ DOMAIN barriers = L!Item /\ DOMAIN waiting = L!Item
  BY DEF LoopsInv, LocalInv, LocalLaunch, InStep
<1>3. (batch \in [L!Item -> Nat])' /\ (k \in [L!Item -> Nat])'
  <2>1. launch \in LocalLaunches /\ launch.k \in Nat
    BY LocalSizes DEF LoopsInv, LocalInv, LocalLaunch
  <2>2. b \in Nat /\ kk \in Nat
    BY <2>1, LoopsTyped
  <2> QED
    BY <1>1, <1>2, <2>2 DEF Moved
<1>4. ASSUME NEW u \in L!Item
      PROVE  InLoops(b0, d, pc'[u], batch'[u], k'[u], buffer'[u], barriers'[u], waiting'[u])
  <2>1. CASE u = i
    <3>1. /\ pc'[u] = p /\ batch'[u] = b /\ k'[u] = kk /\ buffer'[u] = w
          /\ barriers'[u] = a /\ waiting'[u] = waits
      BY <1>2, <2>1 DEF Moved
    <3> QED
      BY <3>1
  <2>2. CASE u # i
    <3>1. /\ pc'[u] = pc[u] /\ batch'[u] = batch[u] /\ k'[u] = k[u]
          /\ buffer'[u] = buffer[u] /\ barriers'[u] = barriers[u]
          /\ waiting'[u] = waiting[u]
      BY <1>2, <2>2 DEF Moved
    <3> QED
      BY <3>1 DEF LoopsInv
  <2> QED
    BY <2>1, <2>2
<1>5. ASSUME NEW u \in L!Item
      PROVE  InLoops(b0, d, pc[u], batch[u], k[u], buffer[u], barriers[u], waiting[u])'
  <2>1. PICK p2, b2, k2, w2, a2, s2 :
            /\ p2 = pc'[u] /\ b2 = batch'[u] /\ k2 = k'[u] /\ w2 = buffer'[u]
            /\ a2 = barriers'[u] /\ s2 = waiting'[u]
    OBVIOUS
  <2>2. InLoops(b0, d, p2, b2, k2, w2, a2, s2)
    BY <1>4, <2>1
  <2>3. InLoops(b0, d, p2, b2, k2, w2, a2, s2)'
    BY <1>1, <2>2, LoopsSame
  <2> QED
    BY <2>1, <2>3 DEF InLoops, InPanel
<1> QED
  BY <1>1, <1>3, <1>5 DEF LoopsInv

LEMMA LoopsStep ==
    ASSUME NEW b0, NEW d, d = L!BatchStride, LoopsInv(b0, d), NEW i \in L!Item, L!Step(i)
    PROVE  LoopsInv(b0, d)'
<1>1. /\ LocalInv /\ launch \in LocalLaunches /\ LocalInv'
      /\ InLoops(b0, d, pc[i], batch[i], k[i], buffer[i], barriers[i], waiting[i])
      /\ waiting[i] \in BOOLEAN
  BY LocalStep DEF LoopsInv, LocalInv, LocalLaunch, InStep
<1>2. CASE L!Load(i)
  <2>1. /\ pc[i] = "load" /\ k[i] > 0
        /\ Moved(i, "compute", batch[i], k[i], buffer[i], barriers[i] + 1, TRUE)
    BY <1>2, StepMoves
  <2>2. InLoops(b0, d, "compute", batch[i], k[i], buffer[i], barriers[i] + 1, TRUE)
    BY <1>1, <2>1, LoopsLoad
  <2> QED
    BY <1>1, <2>1, <2>2, LoopsMoved
<1>3. CASE L!Compute(i)
  <2>1. /\ pc[i] = "compute"
        /\ IF launch.doubleBuffer
           THEN Moved(i, "load", batch[i], Left(k[i]), 1 - buffer[i], barriers[i], FALSE)
           ELSE Moved(i, "load", batch[i], Left(k[i]), buffer[i], barriers[i] + 1, TRUE)
    BY <1>3, StepMoves
  <2>2. Left(k[i]) = IF k[i] >= launch.clElems THEN k[i] - launch.clElems ELSE 0
    BY DEF Left
  <2>3. /\ launch.doubleBuffer =>
              InLoops(b0, d, "load", batch[i], Left(k[i]), 1 - buffer[i], barriers[i], FALSE)
        /\ ~launch.doubleBuffer =>
              InLoops(b0, d, "load", batch[i], Left(k[i]), buffer[i], barriers[i] + 1, TRUE)
    BY <1>1, <2>1, <2>2, LoopsCompute
  <2>4. CASE launch.doubleBuffer
    BY <1>1, <2>1, <2>3, <2>4, LoopsMoved
  <2>5. CASE ~launch.doubleBuffer
    BY <1>1, <2>1, <2>3, <2>5, LoopsMoved
  <2> QED
    BY <2>4, <2>5
<1>4. CASE L!Store(i)
  <2>1. /\ pc[i] = "load" /\ k[i] = 0
        /\ Moved(i, IF batch[i] + d < launch.batchSize THEN "load" ELSE "done",
                 batch[i] + d, launch.k, buffer[i], barriers[i], FALSE)
    BY <1>4, StepMoves
  <2>2. InLoops(b0, d, IF batch[i] + d < launch.batchSize THEN "load" ELSE "done",
                batch[i] + d, launch.k, buffer[i], barriers[i], FALSE)
    BY <1>1, <2>1, LoopsStore
  <2> QED
    BY <1>1, <2>1, <2>2, LoopsMoved
<1> QED
  BY <1>2, <1>3, <1>4 DEF L!Step

-------------------------------------------------------------------------------
(***************************************************************************)
(* GemmLocal: what local memory holds                                      *)
(***************************************************************************)

\* The memory f holds, for an item that is to multiply a panel, the parts of all
\* items that have come to its barrier.
PanelsIn(f) ==
    \A i, u \in L!Item :
        pc[i] = "compute" /\ barriers[u] >= barriers[i]
            => HasCopied(f, u, buffer[i], batch[i], k[i])

ScratchInv ==
    /\ DOMAIN scratch = 0 .. L!LocalMemorySize - 1
    /\ ~block.outOfRange => PanelsIn(scratch)

\* What belongs in local memory depends on the launch and the block alone.
LEMMA CopiedSame ==
    ASSUME launch' = launch, block' = block
    PROVE  /\ \A f, i, w, b, kk : HasCopied(f, i, w, b, kk)' <=> HasCopied(f, i, w, b, kk)
           /\ L!LocalMemorySize' = L!LocalMemorySize /\ L!Item' = L!Item
<1>1. /\ \A i : OfA(i)' = OfA(i) /\ OfB(i)' = OfB(i)
      /\ \A w, e : CellA(w, e)' = CellA(w, e) /\ CellB(w, e)' = CellB(w, e)
  BY DEF OfA, OfB, CellA, CellB, PlaceA, PlaceB, RowA, ColA, RowB, ColB, L!Copied, L!SA, L!SB,
         L!VectorOffset, L!BlockRows, L!BlockCols, L!WgSize, L!Ldsa, L!Ldsb, L!Buffers, L!Bit,
         L!DivUp
<1>2. \A b, kk, e : PanelA(b, kk, e)' = PanelA(b, kk, e) /\ PanelB(b, kk, e)' = PanelB(b, kk, e)
  BY DEF PanelA, PanelB, RowA, ColA, RowB, ColB, L!BlockRows, L!BlockCols,
         Y!StridedA, Y!StridedB, Y!ASize, Y!BSize, Y!Address
<1>3. L!LocalMemorySize' = L!LocalMemorySize /\ L!Item' = L!Item
  BY DEF L!LocalMemorySize, L!Buffers, L!Bit, L!Ldsa, L!Ldsb, L!BlockRows, L!BlockCols, L!Item,
         L!WgSize
<1>4. ASSUME NEW f, NEW i, NEW w, NEW b, NEW kk
      PROVE  HasCopied(f, i, w, b, kk)' <=> HasCopied(f, i, w, b, kk)
  BY <1>1, <1>2 DEF HasCopied
<1> QED
  BY <1>3, <1>4

LEMMA ScratchStart == L!Init => ScratchInv
<1> SUFFICES ASSUME L!Init PROVE ScratchInv
  OBVIOUS
<1>1. \A i \in L!Item : pc[i] # "compute"
  BY DEF L!Init
<1> QED
  BY <1>1 DEF L!Init, ScratchInv, PanelsIn

\* What a step has to leave in local memory.
LEMMA ScratchKept ==
    ASSUME launch' = launch, block' = block,
           DOMAIN scratch' = 0 .. L!LocalMemorySize - 1,
           ~block.outOfRange =>
               \A i, u \in L!Item :
                   pc'[i] = "compute" /\ barriers'[u] >= barriers'[i]
                       => HasCopied(scratch', u, buffer'[i], batch'[i], k'[i])
    PROVE  ScratchInv'
<1>1. L!LocalMemorySize' = L!LocalMemorySize /\ L!Item' = L!Item
  BY CopiedSame
<1>2. ASSUME ~block.outOfRange, NEW i \in L!Item, NEW u \in L!Item,
             (pc[i] = "compute" /\ barriers[u] >= barriers[i])'
      PROVE  HasCopied(scratch, u, buffer[i], batch[i], k[i])'
  <2>1. PICK f, w, b, kk : f = scratch' /\ w = buffer'[i] /\ b = batch'[i] /\ kk = k'[i]
    OBVIOUS
  <2>2. HasCopied(f, u, w, b, kk)
    BY <1>2, <2>1
  <2>3. HasCopied(f, u, w, b, kk)'
    BY <2>2, CopiedSame
  <2> QED
    BY <2>1, <2>3 DEF HasCopied
<1> QED
  BY <1>1, <1>2 DEF ScratchInv, PanelsIn

LEMMA ScratchLoads ==
    ASSUME WholeTrips, NEW b0, NEW d, d = L!BatchStride, LoopsInv(b0, d), ScratchInv,
           NEW j \in L!Item, L!Load(j)
    PROVE  ScratchInv'
<1>0. launch \in LocalLaunches
  BY DEF LoopsInv, LocalInv, LocalLaunch
<1>1. /\ LocalInv /\ LocalLaunch /\ launch \in LocalLaunches
      /\ InStep(L!Item, barriers, waiting, LocalPhase, LocalNext)
      /\ Free(L!Item, barriers, waiting, j)
      /\ pc[j] = "load" /\ k[j] > 0
      /\ \A u \in L!Item : /\ barriers[u] \in Nat /\ waiting[u] \in BOOLEAN
                           /\ buffer[u] \in 0 .. L!Buffers - 1
                           /\ InLoops(b0, d, pc[u], batch[u], k[u], buffer[u], barriers[u],
                                      waiting[u])
  BY StepMoves DEF LoopsInv, LocalInv, LocalLaunch, InStep, L!Load, L!At, L!Runs, Free
<1>2. /\ launch' = launch /\ block' = block /\ batch' = batch /\ k' = k /\ buffer' = buffer
      /\ pc' = [pc EXCEPT ![j] = "compute"]
      /\ barriers' = [barriers EXCEPT ![j] = barriers[j] + 1]
      /\ DOMAIN pc = L!Item /\ DOMAIN barriers = L!Item
  BY <1>1 DEF L!Load, L!BarrierThen, LocalInv, InStep
<1>3. CASE block.outOfRange
  <2>1. scratch' = scratch
    BY <1>3 DEF L!Load, L!OutOfRange
  <2> QED
    BY <1>2, <1>3, <2>1, ScratchKept DEF ScratchInv
<1>4. CASE ~block.outOfRange
  <2>1. L!Extract(j) /\ PanelsIn(scratch) /\ DOMAIN scratch = 0 .. L!LocalMemorySize - 1
    BY <1>4 DEF L!Load, L!OutOfRange, ScratchInv
  <2>2. /\ DOMAIN scratch' = DOMAIN scratch
        /\ HasCopied(scratch', j, buffer[j], batch[j], k[j])
        /\ \A a \in DOMAIN scratch :
              a \notin CellsOf(j, buffer[j]) => scratch'[a] = scratch[a]
    BY <1>1, <2>1, ExtractDoes
  <2>3. InLoops(b0, d, "compute", batch[j], k[j], buffer[j], barriers[j] + 1, TRUE)
    BY <1>1, LoopsLoad
  <2>4. ASSUME NEW u \in L!Item, NEW w \in 0 .. L!Buffers - 1, j # u \/ w # buffer[j],
               NEW b, NEW kk, HasCopied(scratch, u, w, b, kk)
        PROVE  HasCopied(scratch', u, w, b, kk)
    BY <1>1, <2>1, <2>2, <2>4, OthersStay
  <2>5. ASSUME NEW i \in L!Item, NEW u \in L!Item, i = j, u # j, pc'[i] = "compute",
               barriers'[u] >= barriers'[i]
        PROVE  HasCopied(scratch', u, buffer[i], batch[i], k[i])
    <3>1. barriers[u] >= barriers[j] + 1
      BY <1>1, <1>2, <2>5
    <3>2. Passed(barriers, waiting, u) <= barriers[j]
      BY <1>1 DEF InStep
    <3>3. waiting[u] /\ barriers[u] = barriers[j] + 1
      BY <1>1, <3>1, <3>2 DEF Passed
    <3>4. pc[u] = "compute"
      <4>1. CASE launch.doubleBuffer
        BY <1>1, <3>3, <4>1 DEF InLoops
      <4>2. CASE ~launch.doubleBuffer
        <5>1. PICK n : InPanel(b0, d, n, pc[u], batch[u], k[u], buffer[u], barriers[u])
          BY <1>1 DEF InLoops
        <5>2. PICK n2 : InPanel(b0, d, n2, "compute", batch[j], k[j], buffer[j],
                                barriers[j] + 1)
          BY <2>3 DEF InLoops
        <5>3. n \in Nat /\ n2 \in Nat /\ barriers[j] + 1 = 2 * n2 + 1
          BY <4>2, <5>1, <5>2 DEF InPanel, BarriersAt
        <5>4. barriers[u] = 2 * n + (IF pc[u] = "compute" THEN 1 ELSE 0)
          BY <4>2, <5>1 DEF InPanel, BarriersAt
        <5> QED
          BY <3>3, <5>3, <5>4
      <4> QED
        BY <4>1, <4>2
    <3>5. batch[u] = batch[j] /\ k[u] = k[j] /\ buffer[u] = buffer[j]
      <4>1. PICK a, b, kk, w :
                /\ a = barriers[j] + 1 /\ b = batch[j] /\ kk = k[j] /\ w = buffer[j]
                /\ InLoops(b0, d, "compute", b, kk, w, a, TRUE)
        BY <2>3
      <4>2. PICK b2, k2, w2, s2 :
                /\ b2 = batch[u] /\ k2 = k[u] /\ w2 = buffer[u]
                /\ InLoops(b0, d, "compute", b2, k2, w2, a, s2)
        BY <1>1, <3>3, <3>4, <4>1
      <4>3. b = b2 /\ kk = k2 /\ w = w2
        BY <1>0, <4>1, <4>2, SamePanel
      <4> QED
        BY <4>1, <4>2, <4>3
    <3>6. HasCopied(scratch, u, buffer[u], batch[u], k[u])
      BY <1>1, <2>1, <3>4 DEF PanelsIn
    <3> QED
      BY <1>1, <2>4, <2>5, <3>5, <3>6
  <2>6. ASSUME NEW i \in L!Item, i # j, pc'[i] = "compute", barriers'[j] >= barriers'[i]
        PROVE  HasCopied(scratch', j, buffer[i], batch[i], k[i])
    <3>1. barriers[j] + 1 >= barriers[i] /\ pc[i] = "compute"
      BY <1>1, <1>2, <2>6
    <3>2. CASE barriers[j] >= barriers[i]
      <4>1. Passed(barriers, waiting, j) <= barriers[i]
        BY <1>1 DEF InStep
      <4>2. barriers[i] = barriers[j]
        BY <1>1, <3>2, <4>1 DEF Passed, Free
      <4>3. buffer[i] # buffer[j]
        BY <1>1, <3>1, <4>2, OtherPanel
      <4>4. HasCopied(scratch, j, buffer[i], batch[i], k[i])
        BY <2>1, <3>1, <3>2 DEF PanelsIn
      <4> QED
        BY <1>1, <2>4, <4>3, <4>4
    <3>3. CASE barriers[i] = barriers[j] + 1
      <4>1. batch[i] = batch[j] /\ k[i] = k[j] /\ buffer[i] = buffer[j]
        <5>1. PICK a, b, kk, w :
                  /\ a = barriers[j] + 1 /\ b = batch[j] /\ kk = k[j] /\ w = buffer[j]
                  /\ InLoops(b0, d, "compute", b, kk, w, a, TRUE)
          BY <2>3
        <5>2. PICK b2, k2, w2, s2 :
                  /\ b2 = batch[i] /\ k2 = k[i] /\ w2 = buffer[i]
                  /\ InLoops(b0, d, "compute", b2, k2, w2, a, s2)
          BY <1>1, <3>1, <3>3, <5>1
        <5>3. b = b2 /\ kk = k2 /\ w = w2
          BY <1>0, <5>1, <5>2, SamePanel
        <5> QED
          BY <5>1, <5>2, <5>3
      <4> QED
        BY <2>2, <4>1
    <3> QED
      BY <1>1, <3>1, <3>2, <3>3
  <2>7. ASSUME NEW i \in L!Item, NEW u \in L!Item, i # j, u # j, pc'[i] = "compute",
               barriers'[u] >= barriers'[i]
        PROVE  HasCopied(scratch', u, buffer[i], batch[i], k[i])
    <3>1. pc[i] = "compute" /\ barriers[u] >= barriers[i]
      BY <1>1, <1>2, <2>7
    <3>2. HasCopied(scratch, u, buffer[i], batch[i], k[i])
      BY <2>1, <3>1 DEF PanelsIn
    <3> QED
      BY <1>1, <2>4, <2>7, <3>2
  <2>8. ASSUME NEW i \in L!Item, NEW u \in L!Item, pc'[i] = "compute",
               barriers'[u] >= barriers'[i]
        PROVE  HasCopied(scratch', u, buffer'[i], batch'[i], k'[i])
    BY <1>2, <2>2, <2>5, <2>6, <2>7, <2>8
  <2> QED
    BY <1>2, <2>1, <2>2, <2>8, ScratchKept
<1> QED
  BY <1>3, <1>4

LEMMA ScratchComputes ==
    ASSUME NEW b0, NEW d, d = L!BatchStride, LoopsInv(b0, d), ScratchInv,
           NEW j \in L!Item, L!Compute(j)
    PROVE  ScratchInv'
<1>1. /\ LocalInv /\ launch \in LocalLaunches /\ scratch' = scratch
      /\ pc[j] = "compute"
      /\ \A u \in L!Item : /\ barriers[u] \in Nat
                           /\ InLoops(b0, d, pc[u], batch[u], k[u], buffer[u], barriers[u],
                                      waiting[u])
  BY StepMoves DEF LoopsInv, LocalInv, LocalLaunch, InStep, L!Compute
<1>2. /\ launch' = launch /\ block' = block
      /\ pc'[j] = "load"
      /\ \A i \in L!Item \ {j} : /\ pc'[i] = pc[i] /\ batch'[i] = batch[i] /\ k'[i] = k[i]
                                 /\ buffer'[i] = buffer[i] /\ barriers'[i] = barriers[i]
      /\ barriers'[j] = IF launch.doubleBuffer THEN barriers[j] ELSE barriers[j] + 1
  <2>1. /\ DOMAIN pc = L!Item /\ DOMAIN batch = L!Item /\ DOMAIN k = L!Item
        /\ DOMAIN buffer = L!Item /\ DOMAIN barriers = L!Item
    BY DEF LoopsInv, LocalInv, LocalLaunch, InStep
  <2> QED
    BY <2>1, StepMoves DEF Moved
<1>3. ASSUME ~block.outOfRange, NEW i \in L!Item, NEW u \in L!Item, pc'[i] = "compute",
             barriers'[u] >= barriers'[i]
      PROVE  HasCopied(scratch', u, buffer'[i], batch'[i], k'[i])
  <2>1. i # j /\ pc[i] = "compute"
    BY <1>2, <1>3
  <2>2. barriers[u] >= barriers[i]
    <3>1. CASE u # j \/ launch.doubleBuffer
      BY <1>2, <1>3, <2>1, <3>1
    <3>2. CASE u = j /\ ~launch.doubleBuffer
      <4>1. barriers[i] # barriers[j] + 1
        BY <1>1, <2>1, <3>2, BarrierBetween
      <4> QED
        BY <1>1, <1>2, <1>3, <2>1, <3>2, <4>1
    <3> QED
      BY <3>1, <3>2
  <2>3. HasCopied(scratch, u, buffer[i], batch[i], k[i])
    BY <1>3, <2>1, <2>2 DEF ScratchInv, PanelsIn
  <2> QED
    BY <1>1, <1>2, <2>1, <2>3
<1> QED
  BY <1>1, <1>2, <1>3, ScratchKept DEF ScratchInv

LEMMA ScratchStores ==
    ASSUME NEW b0, NEW d, d = L!BatchStride, LoopsInv(b0, d), ScratchInv,
           NEW j \in L!Item, L!Store(j)
    PROVE  ScratchInv'
<1>1. scratch' = scratch
  BY DEF L!Store
<1>2. /\ launch' = launch /\ block' = block
      /\ pc'[j] # "compute" /\ barriers' = barriers
      /\ \A i \in L!Item \ {j} : /\ pc'[i] = pc[i] /\ batch'[i] = batch[i] /\ k'[i] = k[i]
                                 /\ buffer'[i] = buffer[i]
  <2>1. /\ DOMAIN pc = L!Item /\ DOMAIN batch = L!Item /\ DOMAIN k = L!Item
        /\ DOMAIN buffer = L!Item /\ barriers \in [L!Item -> Nat]
    BY DEF LoopsInv, LocalInv, LocalLaunch, InStep
  <2> QED
    BY <2>1, StepMoves DEF Moved
<1>3. ASSUME ~block.outOfRange, NEW i \in L!Item, NEW u \in L!Item, pc'[i] = "compute",
             barriers'[u] >= barriers'[i]
      PROVE  HasCopied(scratch', u, buffer'[i], batch'[i], k'[i])
  BY <1>1, <1>2, <1>3 DEF ScratchInv, PanelsIn
<1> QED
  BY <1>1, <1>2, <1>3, ScratchKept DEF ScratchInv

LEMMA ScratchStep ==
    ASSUME WholeTrips, NEW b0, NEW d, d = L!BatchStride, LoopsInv(b0, d), ScratchInv,
           NEW j \in L!Item, L!Step(j)
    PROVE  ScratchInv'
BY ScratchLoads, ScratchComputes, ScratchStores DEF L!Step

-------------------------------------------------------------------------------
(***************************************************************************)
(* GemmLocal: what an item reads                                           *)
(***************************************************************************)

\* Cells that hold the products from n on, as many as there are before e, and
\* zeros after them.
LEMMA CellsFeed ==
    ASSUME NEW n \in Nat, NEW e \in Nat, NEW cl \in Nat, n <= e, e <= n + cl,
           NEW a, NEW b, NEW p, DOMAIN p = 0 .. cl - 1,
           \A t \in 0 .. cl - 1 :
               /\ t + n < e => p[t] = <<FromA(a[t + n]), FromB(b[t + n])>>
               /\ t + n >= e => p[t] = <<Zero, Zero>>
    PROVE  Feeds(p, n, a, b, n, e)
<1>1. Zero # Garbage
  BY DEF Zero, Garbage
<1>2. ASSUME NEW t \in DOMAIN p
      PROVE  /\ t \in Int
             /\ t + n \in n .. e - 1 => p[t] = <<FromA(a[t + n]), FromB(b[t + n])>>
             /\ t + n \notin n .. e - 1 =>
                   Zero \in {p[t][1], p[t][2]} /\ Garbage \notin {p[t][1], p[t][2]}
  <2>1. t \in 0 .. cl - 1 /\ (t + n \in n .. e - 1 <=> t + n < e)
    OBVIOUS
  <2>2. CASE t + n < e
    BY <2>1, <2>2
  <2>3. CASE t + n >= e
    <3>1. p[t][1] = Zero /\ p[t][2] = Zero
      BY <2>1, <2>3
    <3> QED
      BY <1>1, <2>1, <2>3, <3>1
  <2> QED
    BY <2>1, <2>2, <2>3
<1>3. \A x \in n .. e - 1 : x - n \in DOMAIN p
  OBVIOUS
<1> QED
  BY <1>2, <1>3 DEF Feeds

\* The element of the block of A in row r and column t, and the one of the block
\* of B in row t and column r.
ElementA(r, t) ==
    IF launch.transA THEN launch.clElems * r + t ELSE L!BlockRows * t + r
ElementB(t, r) ==
    IF launch.transB THEN L!BlockCols * t + r ELSE launch.clElems * r + t

LEMMA ElementInA ==
    ASSUME launch \in LocalLaunches, NEW r \in 0 .. L!BlockRows - 1,
           NEW t \in 0 .. launch.clElems - 1
    PROVE  ElementA(r, t) \in BlockA /\ RowA(ElementA(r, t)) = r /\ ColA(ElementA(r, t)) = t
<1>1. PICK s \in Nat \ {0}, e \in Nat \ {0} : s = L!BlockRows /\ e = launch.clElems
  BY LocalSizes, LocalTiles
<1>2. r \in 0 .. s - 1 /\ t \in 0 .. e - 1
  BY <1>1
<1>3. CASE launch.transA
  <2>1. e * r + t \in 0 .. s * e - 1
    BY <1>2, DigitsFit
  <2>2. (e * r + t) \div e = r /\ (e * r + t) % e = t
    BY <1>2, <2>1, DivModUnique
  <2> QED
    BY <1>1, <1>3, <2>1, <2>2 DEF ElementA, BlockA, RowA, ColA
<1>4. CASE ~launch.transA
  <2>1. s * t + r \in 0 .. e * s - 1
    BY <1>2, DigitsFit
  <2>2. (s * t + r) \div s = t /\ (s * t + r) % s = r
    BY <1>2, <2>1, DivModUnique
  <2>3. e * s = s * e
    OBVIOUS
  <2> QED
    BY <1>1, <1>4, <2>1, <2>2, <2>3 DEF ElementA, BlockA, RowA, ColA
<1> QED
  BY <1>3, <1>4

LEMMA ElementInB ==
    ASSUME launch \in LocalLaunches, NEW r \in 0 .. L!BlockCols - 1,
           NEW t \in 0 .. launch.clElems - 1
    PROVE  ElementB(t, r) \in BlockB /\ RowB(ElementB(t, r)) = t /\ ColB(ElementB(t, r)) = r
<1>1. PICK s \in Nat \ {0}, e \in Nat \ {0} : s = L!BlockCols /\ e = launch.clElems
  BY LocalSizes, LocalTiles
<1>2. r \in 0 .. s - 1 /\ t \in 0 .. e - 1
  BY <1>1
<1>3. CASE ~launch.transB
  <2>1. e * r + t \in 0 .. s * e - 1
    BY <1>2, DigitsFit
  <2>2. (e * r + t) \div e = r /\ (e * r + t) % e = t
    BY <1>2, <2>1, DivModUnique
  <2>3. e * s = s * e
    OBVIOUS
  <2> QED
    BY <1>1, <1>3, <2>1, <2>2, <2>3 DEF ElementB, BlockB, RowB, ColB
<1>4. CASE launch.transB
  <2>1. s * t + r \in 0 .. e * s - 1
    BY <1>2, DigitsFit
  <2>2. (s * t + r) \div s = t /\ (s * t + r) % s = r
    BY <1>2, <2>1, DivModUnique
  <2> QED
    BY <1>1, <1>4, <2>1, <2>2 DEF ElementB, BlockB, RowB, ColB
<1> QED
  BY <1>3, <1>4

\* The rows and the columns of C that the registers of item i stand for.
LocalRows(i) == [l \in Y!RegRows |-> block.row + L!RegRow(i, l)]
LocalCols(i) == [j \in Y!RegCols |-> block.col + L!RegCol(i, j)]

\* Where the block of the group is.
LEMMA LocalBlockIs ==
    ASSUME launch \in LocalLaunches, LocalBlock
    PROVE  /\ block.row \in Nat /\ block.col \in Nat
           /\ block.row = L!WgRow(launch.group) /\ block.col = L!WgCol(launch.group)
           /\ block.internal => /\ block.row + L!BlockRows <= launch.m
                                /\ block.col + L!BlockCols <= launch.n
           /\ block.outOfRange <=> block.row >= launch.m \/ block.col >= launch.n
           /\ block.vectorOffset \in {1, launch.packet}
<1>1. /\ block.row = L!WgRow(launch.group) /\ block.col = L!WgCol(launch.group)
      /\ block.internal <=> /\ launch.m - block.row >= L!BlockRows
                            /\ launch.n - block.col >= L!BlockCols
      /\ block.outOfRange <=> block.row >= launch.m \/ block.col >= launch.n
      /\ block.vectorOffset \in {1, launch.packet}
  BY DEF LocalBlock, L!BlockOf
<1>2. block.row \in Nat /\ block.col \in Nat
  <2>1. PICK g \in Nat, w \in Nat \ {0} : g = launch.group /\ w = L!WorkgroupCluster
    BY LocalFirst, LocalCluster
  <2>2. PICK z \in Nat : z = g % w
    BY DivMod
  <2>3. PICK u \in Nat \ {0}, v \in Nat \ {0}, s \in Nat \ {0}, m \in Nat \ {0} :
            /\ u = launch.tlRows /\ v = launch.tlCols /\ s = L!BlockRows /\ m = launch.m
    BY LocalTypes, LocalTiles
  <2>4. PICK us \in Nat \ {0} : us = u * s
    OBVIOUS
  <2>5. PICK a \in Nat \ {0} : a = (m - 1) \div us + 1
    BY RoundedUp
  <2>6. L!TilesPerCol = a /\ L!TileSize = u * v
    BY <2>3, <2>4, <2>5 DEF L!TilesPerCol, L!DivUp, L!TileSize
  <2>7. /\ ((z \div (u * v)) % a) * u + ((z % (u * v)) % u) \in Nat
        /\ ((z \div (u * v)) \div a) * v + ((z % (u * v)) \div u) \in Nat
    BY BlockPlace
  <2>8. PICK x \in Nat, y \in Nat :
            /\ x = ((z \div (u * v)) % a) * u + ((z % (u * v)) % u)
            /\ y = ((z \div (u * v)) \div a) * v + ((z % (u * v)) \div u)
    BY <2>7
  <2>9. L!WgRow(launch.group) = x * s /\ L!WgCol(launch.group) = y * s
    BY <2>1, <2>2, <2>3, <2>6, <2>8 DEF L!WgRow, L!WgCol, L!TileId, L!TileLocalId
  <2>10. x * s \in Nat /\ y * s \in Nat
    OBVIOUS
  <2> QED
    BY <1>1, <2>9, <2>10
<1>3. /\ launch.m \in Nat /\ launch.n \in Nat
      /\ L!BlockRows \in Nat /\ L!BlockCols \in Nat
  BY LocalTypes, LocalTiles
<1> QED
  BY <1>1, <1>2, <1>3

\* The registers of an item are in its group's block.
LEMMA RegistersIn ==
    ASSUME LocalLaunch, NEW i \in L!Item
    PROVE  /\ \A l \in L!RegRows : L!RegRow(i, l) \in 0 .. L!BlockRows - 1
           /\ \A j \in L!RegCols : L!RegCol(i, j) \in 0 .. L!BlockCols - 1
<1>1. /\ WgRows \in Nat \ {0} /\ WgCols \in Nat \ {0}
      /\ launch.itemRows \in Nat \ {0} /\ launch.itemCols \in Nat \ {0}
      /\ launch.packet \in Nat \ {0} /\ launch.itemRows % launch.packet = 0
      /\ block.vectorOffset \in {1, launch.packet}
  BY LocalSizes DEF LocalLaunch
<1>2. i \in 0 .. WgRows * WgCols - 1
  BY DEF L!Item, L!WgSize
<1>3. i % WgRows \in 0 .. WgRows - 1 /\ i \div WgRows \in 0 .. WgCols - 1
  BY <1>1, <1>2, InGroup
<1>4. ASSUME NEW l \in L!RegRows PROVE L!RegRow(i, l) \in 0 .. L!BlockRows - 1
  <2>1. l \in 0 .. launch.itemRows - 1 /\ block.vectorOffset \in Nat \ {0}
    BY <1>1 DEF L!RegRows
  <2>2. launch.itemRows % block.vectorOffset = 0
    BY <1>1
  <2> QED
    BY <1>1, <1>3, <2>1, <2>2, PacketRow DEF L!RegRow, L!VectorOffset, L!BlockRows
<1>5. ASSUME NEW j \in L!RegCols PROVE L!RegCol(i, j) \in 0 .. L!BlockCols - 1
  <2>1. PICK n \in Nat \ {0}, w \in Nat \ {0} : n = launch.itemCols /\ w = WgCols
    BY <1>1
  <2>2. PICK x \in 0 .. w - 1 : x = i \div WgRows
    BY <1>3, <2>1
  <2>3. j \in 0 .. n - 1
    BY <2>1 DEF L!RegCols
  <2>4. n * x + j \in 0 .. w * n - 1
    BY <2>3, DigitsFit
  <2>5. L!RegCol(i, j) = n * x + j
    BY <2>1, <2>2 DEF L!RegCol
  <2> QED
    BY <2>1, <2>4, <2>5 DEF L!BlockCols
<1> QED
  BY <1>4, <1>5

LEMMA LocalShape ==
    ASSUME LocalLaunch, LocalBlock, NEW i \in L!Item
    PROVE  /\ Shape(L!Stored(i), LocalRows(i), LocalCols(i))
           /\ L!Stored(i) # {} => ~block.outOfRange
           /\ L!RegRows = Y!RegRows /\ L!RegCols = Y!RegCols
<1>1. launch \in LocalLaunches
  BY DEF LocalLaunch
<1>2. L!RegRows = Y!RegRows /\ L!RegCols = Y!RegCols
  BY DEF L!RegRows, L!RegCols, Y!RegRows, Y!RegCols
<1>3. /\ launch.m \in Nat /\ launch.n \in Nat
      /\ L!BlockRows \in Nat /\ L!BlockCols \in Nat
  BY <1>1, LocalTypes, LocalTiles
<1>4. ASSUME NEW x \in L!Stored(i)
      PROVE  /\ LocalRows(i)[x[2]] \in 0 .. launch.m - 1
             /\ LocalCols(i)[x[1]] \in 0 .. launch.n - 1
  <2>1. PICK j \in L!RegCols, r \in L!RegRows : x = <<j, r>>
    BY DEF L!Stored
  <2>2. PICK y, z : /\ y = L!RegRow(i, r) /\ z = L!RegCol(i, j)
                    /\ y \in 0 .. L!BlockRows - 1 /\ z \in 0 .. L!BlockCols - 1
    BY RegistersIn
  <2>3. LocalRows(i)[x[2]] = block.row + y /\ LocalCols(i)[x[1]] = block.col + z
    BY <1>2, <2>1, <2>2 DEF LocalRows, LocalCols
  <2>4. /\ block.internal \/ block.row + y < launch.m
        /\ block.internal \/ block.col + z < launch.n
    BY <2>1, <2>2 DEF L!Stored, L!Internal, L!wgRow, L!wgCol
  <2>5. /\ block.row \in Nat /\ block.col \in Nat
        /\ block.internal => /\ block.row + L!BlockRows <= launch.m
                             /\ block.col + L!BlockCols <= launch.n
    BY <1>1, LocalBlockIs
  <2> QED
    BY <1>3, <2>2, <2>3, <2>4, <2>5
<1>5. L!Stored(i) \subseteq L!RegCols \X L!RegRows
  BY DEF L!Stored
<1>6. L!Stored(i) # {} => ~block.outOfRange
  BY DEF L!Stored, L!OutOfRange
<1> QED
  BY <1>2, <1>4, <1>5, <1>6 DEF Shape

\* An item that may multiply finds the whole panel in its buffer.
LEMMA PanelThere ==
    ASSUME WholeTrips, NEW b0, NEW d, LoopsInv(b0, d), ScratchInv, ~block.outOfRange,
           NEW i \in L!Item, L!At(i, "compute")
    PROVE  /\ \A e \in BlockA : scratch[CellA(buffer[i], e)] = PanelA(batch[i], k[i], e)
           /\ \A e \in BlockB : scratch[CellB(buffer[i], e)] = PanelB(batch[i], k[i], e)
<1>1. LocalInv /\ LocalLaunch /\ InStep(L!Item, barriers, waiting, LocalPhase, LocalNext)
  BY DEF LoopsInv, LocalInv
<1>2. pc[i] = "compute" /\ \A u \in L!Item : barriers[u] >= barriers[i]
  <2>1. ASSUME NEW u \in L!Item PROVE barriers[u] >= barriers[i]
    <3>1. Passed(barriers, waiting, i) <= barriers[u]
      BY <1>1 DEF InStep
    <3>2. barriers[i] \in Nat /\ barriers[u] \in Nat
      BY <1>1 DEF InStep
    <3> QED
      BY <3>1, <3>2 DEF L!At, L!Runs, Passed
  <2> QED
    BY <2>1 DEF L!At
<1>3. \A u \in L!Item : HasCopied(scratch, u, buffer[i], batch[i], k[i])
  BY <1>2 DEF ScratchInv, PanelsIn
<1> QED
  BY <1>1, <1>3, OfBlock DEF HasCopied

\* The cells that item i multiplies, for register x[2] of column x[1].
LocalPairs(i) ==
    [x \in Y!RegCols \X Y!RegRows |->
        [t \in 0 .. launch.clElems - 1 |->
            <<scratch[L!CellOfA(i, t, x[2])], scratch[L!CellOfB(i, t, x[1])]>>]]

\* What is in the two cells of a product.
LEMMA CellsRead ==
    ASSUME WholeTrips, NEW b0, NEW d, LoopsInv(b0, d), LocalBlock, ScratchInv,
           NEW i \in L!Item, L!At(i, "compute"), NEW x \in L!Stored(i),
           NEW t \in 0 .. launch.clElems - 1
    PROVE  IF k[i] >= launch.clElems \/ t < k[i]
           THEN /\ scratch[L!CellOfA(i, t, x[2])]
                     = FromA(Y!StridedA(batch[i], LocalRows(i)[x[2]], launch.k - k[i] + t))
                /\ scratch[L!CellOfB(i, t, x[1])]
                     = FromB(Y!StridedB(batch[i], launch.k - k[i] + t, LocalCols(i)[x[1]]))
           ELSE /\ scratch[L!CellOfA(i, t, x[2])] = Zero
                /\ scratch[L!CellOfB(i, t, x[1])] = Zero
<1>1. LocalLaunch /\ launch \in LocalLaunches /\ ~block.outOfRange
  BY LocalShape DEF LoopsInv, LocalInv, LocalLaunch
<1>2. PICK j \in L!RegCols, r \in L!RegRows : x = <<j, r>>
  BY DEF L!Stored
<1>3. PICK y, z : /\ y = L!RegRow(i, r) /\ z = L!RegCol(i, j)
                  /\ y \in 0 .. L!BlockRows - 1 /\ z \in 0 .. L!BlockCols - 1
  BY <1>1, RegistersIn
<1>4. /\ block.internal \/ block.row + y < launch.m
      /\ block.internal \/ block.col + z < launch.n
  BY <1>2, <1>3 DEF L!Stored, L!Internal, L!wgRow, L!wgCol
<1>5. /\ LocalRows(i)[x[2]] = block.row + y /\ LocalCols(i)[x[1]] = block.col + z
  BY <1>1, <1>2, <1>3, LocalShape DEF LocalRows, LocalCols
<1>6. PICK f, g : /\ f = ElementA(y, t) /\ f \in BlockA /\ RowA(f) = y /\ ColA(f) = t
                  /\ g = ElementB(t, z) /\ g \in BlockB /\ RowB(g) = t /\ ColB(g) = z
  BY <1>1, <1>3, ElementInA, ElementInB
<1>7. /\ L!CellOfA(i, t, x[2]) = CellA(buffer[i], f)
      /\ L!CellOfB(i, t, x[1]) = CellB(buffer[i], g)
  <2>1. /\ L!SA(buffer[i]) \in Nat /\ L!SB(buffer[i]) \in Nat
        /\ t * L!Ldsa \in Nat /\ z * L!Ldsb \in Nat /\ t \in Nat
    <3>1. /\ L!Ldsa \in Nat /\ L!Ldsb \in Nat /\ L!BlockCols \in Nat
          /\ launch.clElems \in Nat /\ L!Buffers \in Nat /\ buffer[i] \in Nat
      BY <1>1, LocalSizes, LocalTiles DEF LocalLaunch
    <3>2. /\ buffer[i] * L!BlockCols * L!Ldsb \in Nat
          /\ L!Buffers * L!BlockCols * L!Ldsb \in Nat
          /\ buffer[i] * L!Ldsa * launch.clElems \in Nat
      BY <3>1
    <3>3. t * L!Ldsa \in Nat /\ z * L!Ldsb \in Nat /\ t \in Nat
      BY <1>3, <3>1
    <3> QED
      BY <3>2, <3>3 DEF L!SA, L!SB
  <2>2. /\ L!CellOfA(i, t, r) = L!SA(buffer[i]) + t * L!Ldsa + y
        /\ L!CellOfB(i, t, j) = L!SB(buffer[i]) + z * L!Ldsb + t
    BY <1>3 DEF L!CellOfA, L!CellOfB
  <2>3. /\ CellA(buffer[i], f) = L!SA(buffer[i]) + (y + t * L!Ldsa)
        /\ CellB(buffer[i], g) = L!SB(buffer[i]) + (t + z * L!Ldsb)
    BY <1>6 DEF CellA, CellB, PlaceA, PlaceB
  <2>4. /\ L!CellOfA(i, t, r) = CellA(buffer[i], f)
        /\ L!CellOfB(i, t, j) = CellB(buffer[i], g)
    BY <1>3, <2>1, <2>2, <2>3
  <2> QED
    BY <1>2, <2>4
<1>8. /\ scratch[CellA(buffer[i], f)] = PanelA(batch[i], k[i], f)
      /\ scratch[CellB(buffer[i], g)] = PanelB(batch[i], k[i], g)
  BY <1>1, <1>6, PanelThere
<1>9. PanelA(batch[i], k[i], f) =
        IF k[i] >= launch.clElems \/ t < k[i]
        THEN FromA(Y!StridedA(batch[i], block.row + y, launch.k - k[i] + t)) ELSE Zero
  BY <1>4, <1>6 DEF PanelA
<1>10. PanelB(batch[i], k[i], g) =
        IF k[i] >= launch.clElems \/ t < k[i]
        THEN FromB(Y!StridedB(batch[i], launch.k - k[i] + t, block.col + z)) ELSE Zero
  BY <1>4, <1>6 DEF PanelB
<1> QED
  BY <1>5, <1>7, <1>8, <1>9, <1>10

LEMMA LocalFeeds ==
    ASSUME WholeTrips, NEW b0, NEW d, LoopsInv(b0, d), LocalBlock, ScratchInv,
           NEW i \in L!Item, L!At(i, "compute"),
           NEW n, n = launch.k - k[i], NEW e, e = launch.k - Left(k[i])
    PROVE  /\ n \in Nat /\ e \in 0 .. launch.k /\ n <= e
           /\ FeedsAll(LocalPairs(i), n, L!Stored(i), LocalRows(i), LocalCols(i), batch[i],
                       n, e)
<1>1. /\ LocalLaunch /\ launch \in LocalLaunches
      /\ InLoops(b0, d, pc[i], batch[i], k[i], buffer[i], barriers[i], waiting[i])
  BY DEF LoopsInv, LocalInv, LocalLaunch
<1>2. PICK cl \in Nat \ {0} : cl = launch.clElems
  BY <1>1, LocalSizes
<1>3. /\ launch.k \in Nat /\ k[i] \in 0 .. launch.k
      /\ batch[i] \in Nat
  BY <1>1, LocalSizes, LoopsTyped
<1>4. n \in Nat /\ e \in Nat /\ e <= launch.k /\ n <= e /\ e <= n + cl
  BY <1>2, <1>3 DEF Left
<1>5. \A t \in 0 .. cl - 1 : (k[i] >= cl \/ t < k[i] <=> t + n < e) /\ t + n = launch.k - k[i] + t
  BY <1>2, <1>3 DEF Left
<1>6. ASSUME NEW x \in L!Stored(i)
      PROVE  Feeds(LocalPairs(i)[x], n, AddressesA(batch[i], LocalRows(i)[x[2]]),
                   AddressesB(batch[i], LocalCols(i)[x[1]]), n, e)
  <2> DEFINE p == LocalPairs(i)[x]
             A == AddressesA(batch[i], LocalRows(i)[x[2]])
             B == AddressesB(batch[i], LocalCols(i)[x[1]])
  <2>1. x \in Y!RegCols \X Y!RegRows
    BY <1>1, LocalShape DEF Shape
  <2>2. /\ DOMAIN p = 0 .. cl - 1
        /\ \A t \in 0 .. cl - 1 :
              p[t] = <<scratch[L!CellOfA(i, t, x[2])], scratch[L!CellOfB(i, t, x[1])]>>
    BY <1>2, <2>1 DEF LocalPairs
  <2>3. ASSUME NEW t \in 0 .. cl - 1, t + n < e
        PROVE  p[t] = <<FromA(A[t + n]), FromB(B[t + n])>>
    <3>1. /\ scratch[L!CellOfA(i, t, x[2])]
               = FromA(Y!StridedA(batch[i], LocalRows(i)[x[2]], t + n))
          /\ scratch[L!CellOfB(i, t, x[1])]
               = FromB(Y!StridedB(batch[i], t + n, LocalCols(i)[x[1]]))
      BY <1>2, <1>5, <2>3, CellsRead
    <3>2. t + n \in 0 .. launch.k - 1
      BY <1>3, <1>4, <2>3
    <3> QED
      BY <2>2, <3>1, <3>2 DEF AddressesA, AddressesB
  <2>4. ASSUME NEW t \in 0 .. cl - 1, t + n >= e
        PROVE  p[t] = <<Zero, Zero>>
    <3>1. ~(t + n < e)
      BY <1>4, <2>4
    <3>2. /\ scratch[L!CellOfA(i, t, x[2])] = Zero
          /\ scratch[L!CellOfB(i, t, x[1])] = Zero
      BY <1>2, <1>5, <3>1, CellsRead
    <3> QED
      BY <2>2, <3>2
  <2> HIDE DEF p, A, B
  <2>5. Feeds(p, n, A, B, n, e)
    BY <1>4, <2>2, <2>3, <2>4, CellsFeed
  <2> QED
    BY <2>5 DEF p, A, B
<1> QED
  BY <1>3, <1>4, <1>6 DEF FeedsAll

-------------------------------------------------------------------------------
(***************************************************************************)
(* GemmLocal: the registers                                                *)
(***************************************************************************)

\* Each item holds, of the products of its elements, those of the panels before
\* the one it is at.
RegsInv ==
    /\ DOMAIN regRes = L!Item /\ regRes = [i \in L!Item |-> regRes[i]]
    /\ \A i \in L!Item :
          /\ Typed(regRes[i])
          /\ Sums(regRes[i], L!Stored(i), LocalRows(i), LocalCols(i), batch[i],
                  launch.k - k[i])

LEMMA LocalNumbers ==
    /\ \A p, r : L!Mad(p, r) = Mad(p, r)
    /\ \A f, g : L!Over(f, g) = Over(f, g)
    /\ L!Nothing = Nothing /\ L!Uninitialised = Uninitialised
    /\ \A x : L!Scaled(x) = Scaled(x) /\ L!FromA(x) = FromA(x) /\ L!FromB(x) = FromB(x)
    /\ \A r : L!IsAccumulator(r) <=> IsAccumulator(r)
BY DEF L!Mad, Mad, L!Over, Over, L!Nothing, Nothing, L!Uninitialised, Uninitialised, L!Scaled,
   Scaled, L!FromA, FromA, L!FromB, FromB, L!IsAccumulator, IsAccumulator, L!Zero, Zero,
   L!Garbage, Garbage

\* What depends on the launch and on the block alone does not change.
LEMMA LocalSameNumbers ==
    ASSUME launch' = launch, block' = block
    PROVE  /\ LocalBlock' <=> LocalBlock
           /\ \A i : /\ L!Stored(i)' = L!Stored(i)
                     /\ LocalRows(i)' = LocalRows(i) /\ LocalCols(i)' = LocalCols(i)
           /\ \A S, rows, cols, f, b, n :
                 Sums(f, S, rows, cols, b, n)' <=> Sums(f, S, rows, cols, b, n)
           /\ \A f : Typed(f)' <=> Typed(f)
           /\ L!WgBatchId(launch.group)' = L!WgBatchId(launch.group)
           /\ L!BatchStride' = L!BatchStride /\ L!Item' = L!Item
<1>1. /\ L!BlockRows' = L!BlockRows /\ L!BlockCols' = L!BlockCols
      /\ L!RegRows' = L!RegRows /\ L!RegCols' = L!RegCols
      /\ Y!RegRows' = Y!RegRows /\ Y!RegCols' = Y!RegCols /\ L!Item' = L!Item
  BY DEF L!BlockRows, L!BlockCols, L!RegRows, L!RegCols, Y!RegRows, Y!RegCols, L!Item, L!WgSize
<1>2. /\ L!WorkgroupCluster' = L!WorkgroupCluster /\ L!TilesPerCol' = L!TilesPerCol
      /\ L!TileSize' = L!TileSize
  BY <1>1 DEF L!WorkgroupCluster, L!TilesPerCol, L!TileSize, L!DivUp
<1>3. L!BatchStride' = L!BatchStride /\ L!Groups' = L!Groups
      /\ L!WgBatchId(launch.group)' = L!WgBatchId(launch.group)
  BY <1>2 DEF L!BatchStride, L!NumWorkgroupCluster, L!Groups, L!DivUp, L!WgBatchId
<1>4. \A g : L!WgRow(g)' = L!WgRow(g) /\ L!WgCol(g)' = L!WgCol(g)
  BY <1>1, <1>2 DEF L!WgRow, L!WgCol, L!TileId, L!TileLocalId
<1>5. L!BlockOf(launch.group)' = L!BlockOf(launch.group)
  BY <1>1, <1>4 DEF L!BlockOf
<1>6. LocalBlock' <=> LocalBlock
  BY <1>3, <1>5 DEF LocalBlock
<1>7. \A i, l : L!RegRow(i, l)' = L!RegRow(i, l) /\ L!RegCol(i, l)' = L!RegCol(i, l)
  BY DEF L!RegRow, L!RegCol, L!VectorOffset
<1>8. ASSUME NEW i
      PROVE  /\ L!Stored(i)' = L!Stored(i)
             /\ LocalRows(i)' = LocalRows(i) /\ LocalCols(i)' = LocalCols(i)
  BY <1>1, <1>7 DEF L!Stored, L!OutOfRange, L!Internal, L!wgRow, L!wgCol, LocalRows, LocalCols
<1>9. ASSUME NEW S, NEW rows, NEW cols, NEW f, NEW b, NEW n
      PROVE  Sums(f, S, rows, cols, b, n)' <=> Sums(f, S, rows, cols, b, n)
  BY LoopSame
<1>10. ASSUME NEW f PROVE Typed(f)' <=> Typed(f)
  BY <1>1 DEF Typed, IsAccumulator
<1> QED
  BY <1>1, <1>3, <1>6, <1>8, <1>9, <1>10

\* scaling_c.
LEMMA LocalScaling ==
    ASSUME LocalLaunch, LocalBlock, NEW i \in L!Item, batch[i] \in Nat, NEW b \in Nat
    PROVE  L!ScalingC(i, b) = Scaling(L!Stored(i), LocalRows(i), LocalCols(i), b)
<1> DEFINE Value(j, r) ==
               IF launch.betaZero THEN Nothing
               ELSE IF <<j, r>> \notin L!Stored(i) THEN Uninitialised
               ELSE Scaled(Cell(b, LocalRows(i), LocalCols(i), <<j, r>>))
           LValue(j, r) ==
               IF launch.betaZero THEN L!Nothing
               ELSE IF <<j, r>> \notin L!Stored(i) THEN L!Uninitialised
               ELSE L!Scaled((b - batch[i]) * L!CSize + L!AddressOfC(i, <<j, r>>))
<1>1. launch \in LocalLaunches /\ L!RegRows = Y!RegRows /\ L!RegCols = Y!RegCols
  BY LocalShape DEF LocalLaunch
<1>2. ASSUME NEW j \in Y!RegCols, NEW r \in Y!RegRows
      PROVE  (b - batch[i]) * L!CSize + L!AddressOfC(i, <<j, r>>)
               = Cell(b, LocalRows(i), LocalCols(i), <<j, r>>)
  <2>1. PICK s \in Nat, x \in Nat, y \in Nat, l \in Nat, a \in Nat :
            /\ s = Y!CSize /\ x = block.row + L!RegRow(i, r)
            /\ y = block.col + L!RegCol(i, j) /\ l = launch.ldc /\ a = batch[i]
    <3>1. block.row \in Nat /\ block.col \in Nat /\ launch.ldc \in Nat /\ Y!CSize \in Nat
      BY <1>1, LocalBlockIs, LocalSized DEF Sized
    <3>2. L!RegRow(i, r) \in Nat /\ L!RegCol(i, j) \in Nat
      BY <1>1, RegistersIn, LocalTiles
    <3> QED
      BY <3>1, <3>2
  <2>2. block.row + L!RegRow(i, r) = x /\ block.col + L!RegCol(i, j) = y
    BY <2>1
  <2>3. L!AddressOfC(i, <<j, r>>) = a * s + x + y * l
    <3>1. /\ a * s \in Nat /\ block.row \in Nat /\ L!RegRow(i, r) \in Nat /\ y * l \in Nat
      BY <1>1, <2>1, LocalBlockIs, RegistersIn, LocalTiles
    <3>2. L!AddressOfC(i, <<j, r>>) = a * s + block.row + L!RegRow(i, r) + y * l
      BY <2>1 DEF L!AddressOfC, L!CSize, Y!CSize, L!wgRow, L!wgCol
    <3> QED
      BY <2>2, <3>1, <3>2
  <2>4. Cell(b, LocalRows(i), LocalCols(i), <<j, r>>) = b * s + x + y * l
    BY <2>1 DEF Cell, LocalRows, LocalCols, Y!StridedC
  <2>5. (b - a) * s + (a * s + x + y * l) = b * s + x + y * l
    <3>1. PICK u \in Nat, v \in Nat, z \in Int : u = b * s /\ v = a * s /\ z = (b - a) * s
      OBVIOUS
    <3>2. z = u - v
      BY <3>1
    <3>3. PICK w \in Nat : w = y * l
      OBVIOUS
    <3>4. z + (v + x + w) = u + x + w
      BY <3>2
    <3> QED
      BY <3>1, <3>3, <3>4
  <2> QED
    BY <2>1, <2>3, <2>4, <2>5 DEF L!CSize, Y!CSize
<1>3. ASSUME NEW j \in Y!RegCols, NEW r \in Y!RegRows
      PROVE  LValue(j, r) = Value(j, r)
  BY <1>2, LocalNumbers
<1>4. L!ScalingC(i, b) = [j \in Y!RegCols |-> [r \in Y!RegRows |-> LValue(j, r)]]
  BY <1>1 DEF L!ScalingC
<1>5. Scaling(L!Stored(i), LocalRows(i), LocalCols(i), b)
        = [j \in Y!RegCols |-> [r \in Y!RegRows |-> Value(j, r)]]
  BY DEF Scaling
<1> HIDE DEF Value, LValue
<1>6. ASSUME NEW j \in Y!RegCols
      PROVE  [r \in Y!RegRows |-> LValue(j, r)] = [r \in Y!RegRows |-> Value(j, r)]
  BY <1>3
<1> QED
  BY <1>4, <1>5, <1>6

LEMMA RegsStart == L!Init => RegsInv
<1> SUFFICES ASSUME L!Init PROVE RegsInv
  OBVIOUS
<1>1. LocalLaunch /\ LocalBlock /\ launch \in LocalLaunches
  BY LocalStart DEF L!Init, LocalInv, LocalBlock
<1>2. PICK b0 \in Nat : b0 = L!WgBatchId(launch.group)
  BY <1>1, LocalFirst
<1>3. /\ batch = [i \in L!Item |-> b0] /\ k = [i \in L!Item |-> launch.k]
      /\ regRes = [i \in L!Item |-> L!ScalingC(i, batch[i])]
  BY <1>2 DEF L!Init
<1>4. ASSUME NEW i \in L!Item
      PROVE  /\ Typed(regRes[i])
             /\ Sums(regRes[i], L!Stored(i), LocalRows(i), LocalCols(i), batch[i],
                     launch.k - k[i])
  <2>1. batch[i] = b0 /\ k[i] = launch.k /\ regRes[i] = L!ScalingC(i, b0)
    BY <1>3
  <2>2. regRes[i] = Scaling(L!Stored(i), LocalRows(i), LocalCols(i), b0)
    BY <1>1, <2>1, LocalScaling
  <2>3. Sized /\ Shape(L!Stored(i), LocalRows(i), LocalCols(i))
    BY <1>1, LocalSized, LocalShape
  <2>4. launch.k - k[i] = 0
    BY <1>1, <2>1, LocalSizes
  <2> QED
    BY <2>1, <2>2, <2>3, <2>4, ScalingSums
<1> QED
  BY <1>3, <1>4 DEF RegsInv

\* What a step has to leave in the registers of its item.
LEMMA RegsKept ==
    ASSUME RegsInv, launch' = launch, block' = block, NEW i \in L!Item,
           NEW f, NEW b, NEW kk,
           regRes' = [regRes EXCEPT ![i] = f],
           \A u \in L!Item \ {i} : batch'[u] = batch[u] /\ k'[u] = k[u],
           batch'[i] = b, k'[i] = kk,
           Typed(f), Sums(f, L!Stored(i), LocalRows(i), LocalCols(i), b, launch.k - kk)
    PROVE  RegsInv'
<1>1. L!Item' = L!Item
  BY LocalSameNumbers
<1>2. DOMAIN regRes' = L!Item /\ regRes' = [u \in L!Item |-> regRes'[u]]
  BY DEF RegsInv
<1>3. ASSUME NEW u \in L!Item
      PROVE  (/\ Typed(regRes[u])
              /\ Sums(regRes[u], L!Stored(u), LocalRows(u), LocalCols(u), batch[u],
                      launch.k - k[u]))'
  <2>1. PICK g, S, rows, cols, b2, n :
            /\ g = regRes'[u] /\ S = L!Stored(u) /\ rows = LocalRows(u)
            /\ cols = LocalCols(u) /\ b2 = batch'[u] /\ n = launch.k - k'[u]
    OBVIOUS
  <2>2. Typed(g) /\ Sums(g, S, rows, cols, b2, n)
    <3>1. CASE u = i
      BY <2>1, <3>1 DEF RegsInv
    <3>2. CASE u # i
      <4>1. g = regRes[u] /\ b2 = batch[u] /\ n = launch.k - k[u]
        BY <2>1, <3>2 DEF RegsInv
      <4> QED
        BY <2>1, <4>1 DEF RegsInv
    <3> QED
      BY <3>1, <3>2
  <2>3. Typed(g)' /\ Sums(g, S, rows, cols, b2, n)'
    BY <2>2, LocalSameNumbers
  <2>4. S = L!Stored(u)' /\ rows = LocalRows(u)' /\ cols = LocalCols(u)'
    BY <2>1, LocalSameNumbers
  <2> QED
    BY <2>1, <2>3, <2>4 DEF Typed, Sums
<1> QED
  BY <1>1, <1>2, <1>3 DEF RegsInv

LEMMA RegsComputes ==
    ASSUME WholeTrips, NEW b0, NEW d, d = L!BatchStride, LoopsInv(b0, d), LocalBlock,
           ScratchInv, RegsInv, NEW i \in L!Item, L!Compute(i)
    PROVE  RegsInv'
<1>1. /\ LocalLaunch /\ launch \in LocalLaunches /\ L!At(i, "compute") /\ Sized
      /\ Shape(L!Stored(i), LocalRows(i), LocalCols(i))
      /\ L!RegRows = Y!RegRows /\ L!RegCols = Y!RegCols
  BY LocalShape, LocalSized DEF LoopsInv, LocalInv, LocalLaunch, L!Compute
<1>2. PICK b, n, e : /\ b \in Nat /\ b = batch[i] /\ n = launch.k - k[i]
                     /\ e = launch.k - Left(k[i])
  BY DEF LoopsInv
<1>3. PICK S, rows, cols : S = L!Stored(i) /\ rows = LocalRows(i) /\ cols = LocalCols(i)
  OBVIOUS
<1>4. PICK p : p = LocalPairs(i)
  OBVIOUS
<1>5. /\ n \in Nat /\ n \in Int /\ e \in 0 .. launch.k /\ n <= e
      /\ FeedsAll(p, n, S, rows, cols, b, n, e)
  BY <1>1, <1>2, <1>3, <1>4, LocalFeeds
<1>6. PICK f : f = regRes[i] /\ Typed(f) /\ Sums(f, S, rows, cols, b, n)
  BY <1>2, <1>3 DEF RegsInv
<1>7. PICK g : g = L!Multiplied(i)
  OBVIOUS
<1>8. MadAll(g, p, f)
  <2>1. g = [j \in Y!RegCols |-> [l \in Y!RegRows |->
                Mad([t \in 0 .. launch.clElems - 1 |->
                       <<scratch[L!CellOfA(i, t, l)], scratch[L!CellOfB(i, t, j)]>>],
                    f[j][l])]]
    BY <1>1, <1>6, <1>7, LocalNumbers DEF L!Multiplied
  <2>2. ASSUME NEW j \in Y!RegCols, NEW l \in Y!RegRows
        PROVE  g[j][l] = Mad(p[<<j, l>>], f[j][l])
    <3>1. p[<<j, l>>] = [t \in 0 .. launch.clElems - 1 |->
                           <<scratch[L!CellOfA(i, t, l)], scratch[L!CellOfB(i, t, j)]>>]
      BY <1>4 DEF LocalPairs
    <3> QED
      BY <2>1, <3>1
  <2>3. DOMAIN g = Y!RegCols /\ \A j \in Y!RegCols : DOMAIN g[j] = Y!RegRows
    BY <2>1
  <2> QED
    BY <2>2, <2>3 DEF MadAll
<1>9. Shape(S, rows, cols)
  BY <1>1, <1>3
<1>10. Typed(g) /\ Sums(g, S, rows, cols, b, e)
  <2>1. Sized
    BY <1>1
  <2>2. /\ b \in Nat /\ n \in Nat /\ n \in Int /\ e \in 0 .. launch.k /\ n <= e
    BY <1>2, <1>5
  <2>3. FeedsAll(p, n, S, rows, cols, b, n, e)
    BY <1>5
  <2>4. Typed(f) /\ Sums(f, S, rows, cols, b, n)
    BY <1>6
  <2> QED
    BY <2>1, <2>2, <2>3, <2>4, <1>8, <1>9, MadSums
<1>11. /\ launch' = launch /\ block' = block
       /\ \A u \in L!Item \ {i} : batch'[u] = batch[u] /\ k'[u] = k[u]
       /\ batch'[i] = b /\ k'[i] = Left(k[i])
       /\ regRes' = [regRes EXCEPT ![i] = g]
  <2>1. /\ batch' = [batch EXCEPT ![i] = batch[i]] /\ k' = [k EXCEPT ![i] = Left(k[i])]
        /\ launch' = launch /\ block' = block
    BY StepMoves DEF Moved
  <2>2. batch \in [L!Item -> Nat] /\ k \in [L!Item -> Nat]
    BY DEF LoopsInv
  <2>3. regRes' = [regRes EXCEPT ![i] = g]
    BY <1>7 DEF L!Compute
  <2> QED
    BY <1>2, <2>1, <2>2, <2>3
<1> QED
  BY <1>2, <1>3, <1>10, <1>11, RegsKept

LEMMA RegsLoads ==
    ASSUME NEW b0, NEW d, d = L!BatchStride, LoopsInv(b0, d), RegsInv,
           NEW i \in L!Item, L!Load(i)
    PROVE  RegsInv'
<1>1. /\ launch' = launch /\ block' = block /\ batch' = batch /\ k' = k
      /\ regRes' = [regRes EXCEPT ![i] = regRes[i]]
  BY DEF L!Load, RegsInv
<1>2. /\ Typed(regRes[i])
      /\ Sums(regRes[i], L!Stored(i), LocalRows(i), LocalCols(i), batch[i], launch.k - k[i])
  BY DEF RegsInv
<1>3. PICK f, b, kk : f = regRes[i] /\ b = batch[i] /\ kk = k[i]
  OBVIOUS
<1> QED
  BY <1>1, <1>2, <1>3, RegsKept

LEMMA RegsStores ==
    ASSUME NEW b0, NEW d, d = L!BatchStride, LoopsInv(b0, d), LocalBlock, RegsInv,
           NEW i \in L!Item, L!Store(i)
    PROVE  RegsInv'
<1>1. /\ LocalLaunch /\ launch \in LocalLaunches /\ Sized
      /\ Shape(L!Stored(i), LocalRows(i), LocalCols(i))
      /\ batch \in [L!Item -> Nat] /\ k \in [L!Item -> Nat] /\ launch.k \in Nat
  BY LocalShape, LocalSized DEF LoopsInv, LocalInv, LocalLaunch, Sized
<1>2. d \in Nat
  BY DEF LoopsInv, InLoops
<1>3. PICK b \in Nat : b = batch[i] + d
  BY <1>1, <1>2
<1>4. /\ launch' = launch /\ block' = block
      /\ \A u \in L!Item \ {i} : batch'[u] = batch[u] /\ k'[u] = k[u]
      /\ batch'[i] = b /\ k'[i] = launch.k
      /\ regRes' = [regRes EXCEPT ![i] = L!ScalingC(i, b)]
  <2>1. /\ batch' = [batch EXCEPT ![i] = b] /\ k' = [k EXCEPT ![i] = launch.k]
        /\ launch' = launch /\ block' = block
    BY <1>3 DEF L!Store
  <2>2. batch'[i] = b
    BY <1>1, <2>1
  <2>3. regRes' = [regRes EXCEPT ![i] = L!ScalingC(i, batch'[i])]
    BY DEF L!Store
  <2>4. L!ScalingC(i, batch'[i]) = L!ScalingC(i, b)
    BY <2>2
  <2> QED
    BY <1>1, <2>1, <2>2, <2>3, <2>4
<1>5. PICK g : g = L!ScalingC(i, b)
               /\ g = Scaling(L!Stored(i), LocalRows(i), LocalCols(i), b)
  BY <1>1, LocalScaling
<1>6. PICK kk : kk = launch.k /\ launch.k - kk = 0
  <2>1. launch.k - launch.k = 0
    BY <1>1
  <2> QED
    BY <2>1
<1>7. /\ Typed(g)
      /\ Sums(g, L!Stored(i), LocalRows(i), LocalCols(i), b, launch.k - kk)
  BY <1>1, <1>5, <1>6, ScalingSums
<1> QED
  BY <1>4, <1>5, <1>6, <1>7, RegsKept

LEMMA RegsStep ==
    ASSUME WholeTrips, NEW b0, NEW d, d = L!BatchStride, LoopsInv(b0, d), LocalBlock,
           ScratchInv, RegsInv, NEW i \in L!Item, L!Step(i)
    PROVE  RegsInv'
BY RegsComputes, RegsLoads, RegsStores DEF L!Step

-------------------------------------------------------------------------------
(***************************************************************************)
(* GemmLocal: the loads                                                    *)
(***************************************************************************)

\* A copy stays in local memory, and in op(A) or op(B) where it reads them.
LEMMA LocalLoad ==
    ASSUME WholeTrips, LocalLaunch, LocalBlock, NEW i \in L!Item, k[i] \in 1 .. launch.k
    PROVE  /\ \A e \in BlockA : LoadA(i, e).inRange =>
                 /\ block.row + RowA(e) \in 0 .. launch.m - 1
                 /\ launch.k - k[i] + ColA(e) \in 0 .. launch.k - 1
           /\ \A e \in BlockB : LoadB(i, e).inRange =>
                 /\ block.col + ColB(e) \in 0 .. launch.n - 1
                 /\ launch.k - k[i] + RowB(e) \in 0 .. launch.k - 1
<1>1. /\ launch \in LocalLaunches /\ L!BlockRows \in Nat \ {0} /\ L!BlockCols \in Nat \ {0}
      /\ launch.clElems \in Nat \ {0} /\ launch.k \in Nat \ {0}
      /\ launch.m \in Nat \ {0} /\ launch.n \in Nat \ {0}
  BY LocalSizes, LocalTiles, LocalTypes DEF LocalLaunch
<1>2. /\ block.row \in Nat /\ block.col \in Nat
      /\ block.internal => /\ block.row + L!BlockRows <= launch.m
                           /\ block.col + L!BlockCols <= launch.n
  BY <1>1, LocalBlockIs
<1>3. ASSUME NEW e \in BlockA, LoadA(i, e).inRange
      PROVE  /\ block.row + RowA(e) \in 0 .. launch.m - 1
             /\ launch.k - k[i] + ColA(e) \in 0 .. launch.k - 1
  <2>1. RowA(e) \in 0 .. L!BlockRows - 1 /\ ColA(e) \in 0 .. launch.clElems - 1
    BY <1>1, InBlockA DEF BlockA
  <2>2. /\ block.internal \/ block.row + RowA(e) < launch.m
        /\ k[i] >= launch.clElems \/ ColA(e) < k[i]
    BY <1>3 DEF LoadA
  <2> QED
    BY <1>1, <1>2, <2>1, <2>2
<1>4. ASSUME NEW e \in BlockB, LoadB(i, e).inRange
      PROVE  /\ block.col + ColB(e) \in 0 .. launch.n - 1
             /\ launch.k - k[i] + RowB(e) \in 0 .. launch.k - 1
  <2>1. RowB(e) \in 0 .. launch.clElems - 1 /\ ColB(e) \in 0 .. L!BlockCols - 1
    BY <1>1, InBlockB DEF BlockB
  <2>2. /\ block.internal \/ block.col + ColB(e) < launch.n
        /\ k[i] >= launch.clElems \/ RowB(e) < k[i]
    BY <1>4 DEF LoadB
  <2> QED
    BY <1>1, <1>2, <2>1, <2>2
<1> QED
  BY <1>3, <1>4

\* The copies of an item that loads are in bounds.
LEMMA LocalBounds ==
    ASSUME WholeTrips, NEW b0, NEW d, LoopsInv(b0, d), LocalBlock, ScratchInv
    PROVE  L!LoadsInBounds
<1>0. LocalLaunch /\ launch \in LocalLaunches
  BY DEF LoopsInv, LocalInv, LocalLaunch
<1> SUFFICES ASSUME NEW i \in L!Item, k[i] > 0
             PROVE  /\ {x.to : x \in L!LoadsOfA(i) \cup L!LoadsOfB(i)} \subseteq DOMAIN scratch
                    /\ {x.address : x \in {y \in L!LoadsOfA(i) : y.inRange}}
                         \subseteq L!MatrixA(batch[i])
                    /\ {x.address : x \in {y \in L!LoadsOfB(i) : y.inRange}}
                         \subseteq L!MatrixB(batch[i])
  BY DEF L!LoadsInBounds
<1>1. k[i] \in 1 .. launch.k
  <2>1. InLoops(b0, d, pc[i], batch[i], k[i], buffer[i], barriers[i], waiting[i])
    BY DEF LoopsInv
  <2>2. k[i] \in 0 .. launch.k
    BY <1>0, <2>1, LoopsTyped
  <2> QED
    BY <1>0, <2>2, LocalSizes
<1>2. OfA(i) \subseteq BlockA /\ OfB(i) \subseteq BlockB
  BY <1>0, OfBlock
<1>3. buffer[i] \in 0 .. L!Buffers - 1
  BY <1>0 DEF LocalLaunch
<1>4. \E e \in BlockA, f \in BlockB : TRUE
  <2>1. /\ L!BlockRows * launch.clElems \in Nat \ {0}
        /\ launch.clElems * L!BlockCols \in Nat \ {0}
    BY <1>0, LocalSizes, LocalTiles
  <2> QED
    BY <2>1 DEF BlockA, BlockB
<1>5. ASSUME NEW x \in L!LoadsOfA(i)
      PROVE  /\ x.to \in DOMAIN scratch
             /\ x.inRange => x.address \in L!MatrixA(batch[i])
  <2>1. PICK e \in BlockA : x = LoadA(i, e)
    BY <1>2, LoadsAre
  <2>2. x.to \in DOMAIN scratch
    <3>1. PICK f \in BlockB : TRUE
      BY <1>4
    <3>2. CellA(buffer[i], e) \in 0 .. L!LocalMemorySize - 1
      BY <1>0, <1>3, OtherBlock
    <3>3. x.to = CellA(buffer[i], e)
      BY <1>0, <2>1, LoadIs
    <3> QED
      BY <3>2, <3>3 DEF ScratchInv
  <2>3. ASSUME x.inRange PROVE x.address \in L!MatrixA(batch[i])
    <3>1. /\ block.row + RowA(e) \in 0 .. launch.m - 1
          /\ launch.k - k[i] + ColA(e) \in 0 .. launch.k - 1
      BY <1>0, <1>1, <2>1, <2>3, LocalLoad
    <3> QED
      BY <2>1, <3>1 DEF L!MatrixA, LoadA
  <2> QED
    BY <2>2, <2>3
<1>6. ASSUME NEW x \in L!LoadsOfB(i)
      PROVE  /\ x.to \in DOMAIN scratch
             /\ x.inRange => x.address \in L!MatrixB(batch[i])
  <2>1. PICK e \in BlockB : x = LoadB(i, e)
    BY <1>2, LoadsAre
  <2>2. x.to \in DOMAIN scratch
    <3>1. PICK f \in BlockA : TRUE
      BY <1>4
    <3>2. CellB(buffer[i], e) \in 0 .. L!LocalMemorySize - 1
      BY <1>0, <1>3, OtherBlock
    <3>3. x.to = CellB(buffer[i], e)
      BY <1>0, <2>1, LoadIs
    <3> QED
      BY <3>2, <3>3 DEF ScratchInv
  <2>3. ASSUME x.inRange PROVE x.address \in L!MatrixB(batch[i])
    <3>1. /\ block.col + ColB(e) \in 0 .. launch.n - 1
          /\ launch.k - k[i] + RowB(e) \in 0 .. launch.k - 1
      BY <1>0, <1>1, <2>1, <2>3, LocalLoad
    <3> QED
      BY <2>1, <3>1 DEF L!MatrixB, LoadB
  <2> QED
    BY <2>2, <2>3
<1> QED
  BY <1>5, <1>6

-------------------------------------------------------------------------------
(***************************************************************************)
(* GemmLocal: what has been stored                                         *)
(***************************************************************************)

\* The elements at the places Q, in batch b.
InBatch(b, Q) == {<<b, q[1], q[2]>> : q \in Q}

LEMMA CompleteMore ==
    ASSUME Sized, NEW S, S \subseteq Y!Elements, NEW Q, Places(Q),
           NEW b \in 0 .. launch.batchSize - 1, NEW f, NEW g, Complete(f, S),
           OneMore(g, f, Q, b)
    PROVE  Complete(g, S \cup InBatch(b, Q))
<1>1. ASSUME NEW q \in Q
      PROVE  /\ <<b, q[1], q[2]>> \in Y!Elements
             /\ Y!StridedC(b, q[1], q[2]) = CellOf(<<b, q[1], q[2]>>)
  <2>1. q[1] \in 0 .. launch.m - 1 /\ q[2] \in 0 .. launch.n - 1
    BY DEF Places
  <2> QED
    BY <2>1 DEF Y!Elements, CellOf
<1>2. /\ DOMAIN f = {CellOf(e) : e \in S}
      /\ \A e \in S : f[CellOf(e)] = Y!StridedProduct(e)
  BY DEF Complete
<1>3. /\ DOMAIN g = DOMAIN f \cup {Y!StridedC(b, q[1], q[2]) : q \in Q}
      /\ \A q \in Q : g[Y!StridedC(b, q[1], q[2])] = Y!StridedProduct(<<b, q[1], q[2]>>)
      /\ \A a \in DOMAIN f : \/ \E q \in Q : a = Y!StridedC(b, q[1], q[2])
                             \/ g[a] = f[a]
  BY DEF OneMore
<1>4. DOMAIN g = {CellOf(e) : e \in S \cup InBatch(b, Q)}
  <2>1. {Y!StridedC(b, q[1], q[2]) : q \in Q} = {CellOf(e) : e \in InBatch(b, Q)}
    BY <1>1 DEF InBatch
  <2> QED
    BY <1>2, <1>3, <2>1
<1>5. ASSUME NEW e \in InBatch(b, Q)
      PROVE  g[CellOf(e)] = Y!StridedProduct(e)
  BY <1>1, <1>3 DEF InBatch
<1>6. ASSUME NEW e \in S
      PROVE  g[CellOf(e)] = Y!StridedProduct(e)
  <2>1. CellOf(e) \in DOMAIN f
    BY <1>2
  <2>2. CASE \E q \in Q : CellOf(e) = Y!StridedC(b, q[1], q[2])
    <3>1. PICK q \in Q : CellOf(e) = Y!StridedC(b, q[1], q[2])
      BY <2>2
    <3>2. PICK x \in Y!Elements : x = <<b, q[1], q[2]>> /\ CellOf(e) = CellOf(x)
      BY <1>1, <3>1
    <3>3. e = x
      BY <3>2, OneCellEach
    <3> QED
      BY <1>3, <3>1, <3>2, <3>3
  <2>3. CASE g[CellOf(e)] = f[CellOf(e)]
    BY <1>2, <2>3
  <2> QED
    BY <1>3, <2>1, <2>2, <2>3
<1> QED
  BY <1>4, <1>5, <1>6 DEF Complete

\* The places of item i, and the elements that have been stored, of the batches
\* from b0 on in steps of d.
LocalPlaces(i) == PlacesOf(L!Stored(i), LocalRows(i), LocalCols(i))
LocalDone(b0, d) ==
    {e \in Y!Elements :
        \E i \in L!Item :
            /\ <<e[2], e[3]>> \in LocalPlaces(i)
            /\ Reached(b0, d, e[1]) /\ e[1] < batch[i]}

LocalStored(b0, d) == Complete(c, LocalDone(b0, d))

\* The addresses of C.
LEMMA LocalCell ==
    ASSUME LocalLaunch, LocalBlock, NEW i \in L!Item, batch[i] \in Nat, NEW x \in L!Stored(i)
    PROVE  L!AddressOfC(i, x) = Cell(batch[i], LocalRows(i), LocalCols(i), x)
<1>1. launch \in LocalLaunches /\ L!RegRows = Y!RegRows /\ L!RegCols = Y!RegCols
  BY LocalShape DEF LocalLaunch
<1>2. PICK j \in Y!RegCols, r \in Y!RegRows : x = <<j, r>>
  BY <1>1 DEF L!Stored
<1>3. PICK s \in Nat, u \in Nat, v \in Nat, y \in Nat, z \in Nat, l \in Nat, a \in Nat :
          /\ s = Y!CSize /\ u = block.row /\ v = L!RegRow(i, r)
          /\ y = block.col /\ z = L!RegCol(i, j) /\ l = launch.ldc /\ a = batch[i]
  <2>1. block.row \in Nat /\ block.col \in Nat /\ launch.ldc \in Nat /\ Y!CSize \in Nat
    BY <1>1, LocalBlockIs, LocalSized DEF Sized
  <2>2. L!RegRow(i, r) \in Nat /\ L!RegCol(i, j) \in Nat
    BY <1>1, RegistersIn, LocalTiles
  <2> QED
    BY <2>1, <2>2
<1>4. PICK as \in Nat, yl \in Nat : as = a * s /\ yl = (y + z) * l
  OBVIOUS
<1>5. L!AddressOfC(i, x) = as + u + v + yl
  BY <1>2, <1>3, <1>4 DEF L!AddressOfC, L!CSize, Y!CSize, L!wgRow, L!wgCol
<1>6. Cell(batch[i], LocalRows(i), LocalCols(i), x) = as + (u + v) + yl
  BY <1>2, <1>3, <1>4 DEF Cell, LocalRows, LocalCols, Y!StridedC
<1> QED
  BY <1>3, <1>4, <1>5, <1>6

\* What an item stores.
LocalWrite(i) ==
    [a \in {L!AddressOfC(i, r) : r \in L!Stored(i)} |->
        LET s == CHOOSE r \in L!Stored(i) : L!AddressOfC(i, r) = a
        IN regRes[i][s[1]][s[2]]]

LEMMA LocalWritten ==
    ASSUME LocalLaunch, LocalBlock, NEW i \in L!Item, batch[i] \in Nat
    PROVE  Written(LocalWrite(i), L!Stored(i), LocalRows(i), LocalCols(i), batch[i], regRes[i])
<1>1. \A x \in L!Stored(i) :
         L!AddressOfC(i, x) = Cell(batch[i], LocalRows(i), LocalCols(i), x)
  BY LocalCell
<1>2. DOMAIN LocalWrite(i) = {Cell(batch[i], LocalRows(i), LocalCols(i), x) : x \in L!Stored(i)}
  BY <1>1 DEF LocalWrite
<1>3. ASSUME NEW a \in DOMAIN LocalWrite(i)
      PROVE  \E x \in L!Stored(i) : /\ Cell(batch[i], LocalRows(i), LocalCols(i), x) = a
                                    /\ LocalWrite(i)[a] = regRes[i][x[1]][x[2]]
  <2> DEFINE x == CHOOSE r \in L!Stored(i) : L!AddressOfC(i, r) = a
  <2>1. \E y \in L!Stored(i) : L!AddressOfC(i, y) = a
    BY DEF LocalWrite
  <2>2. x \in L!Stored(i) /\ L!AddressOfC(i, x) = a
    BY <2>1
  <2>3. LocalWrite(i)[a] = regRes[i][x[1]][x[2]]
    BY DEF LocalWrite
  <2> HIDE DEF x
  <2> QED
    BY <1>1, <2>2, <2>3
<1> QED
  BY <1>2, <1>3 DEF Written

LEMMA LocalStoredStart ==
    ASSUME L!Init
    PROVE  LocalStored(L!WgBatchId(launch.group), L!BatchStride)
<1>1. PICK b0, d : b0 = L!WgBatchId(launch.group) /\ d = L!BatchStride
  OBVIOUS
<1>2. \A i \in L!Item : batch[i] = b0
  BY <1>1 DEF L!Init
<1>3. LocalDone(b0, d) = {}
  <2>1. ASSUME NEW e \in Y!Elements, Reached(b0, d, e[1]), e[1] < b0
        PROVE  FALSE
    BY <2>1 DEF Reached
  <2> QED
    BY <1>2, <2>1 DEF LocalDone
<1>4. DOMAIN c = {}
  BY DEF L!Init
<1>5. Complete(c, {})
  BY <1>4 DEF Complete
<1> QED
  BY <1>1, <1>3, <1>5 DEF LocalStored

LEMMA LocalStoredSame ==
    ASSUME launch' = launch, block' = block, NEW b0, NEW d
    PROVE  /\ \A i : LocalPlaces(i)' = LocalPlaces(i)
           /\ Y!Elements' = Y!Elements
           /\ \A f, S : Complete(f, S)' <=> Complete(f, S)
           /\ batch' = batch /\ c' = c /\ LocalStored(b0, d) => LocalStored(b0, d)'
<1>1. \A i : LocalPlaces(i)' = LocalPlaces(i)
  BY LocalSameNumbers DEF LocalPlaces, PlacesOf
<1>2. /\ Y!Elements' = Y!Elements /\ \A x : Y!StridedProduct(x)' = Y!StridedProduct(x)
      /\ \A x : CellOf(x)' = CellOf(x)
  BY LaunchSame
<1>3. \A f, S : Complete(f, S)' <=> Complete(f, S)
  BY <1>2 DEF Complete
<1>4. L!Item' = L!Item
  BY LocalSameNumbers
<1>5. ASSUME batch' = batch, c' = c, LocalStored(b0, d) PROVE LocalStored(b0, d)'
  <2>1. LocalDone(b0, d)' = LocalDone(b0, d)
    BY <1>1, <1>2, <1>4, <1>5 DEF LocalDone, Reached
  <2> QED
    BY <1>3, <1>5, <2>1 DEF LocalStored
<1> QED
  BY <1>1, <1>2, <1>3, <1>5

LEMMA LocalStoredStep ==
    ASSUME NEW b0, NEW d, d = L!BatchStride, LoopsInv(b0, d), LocalBlock, RegsInv,
           LocalStored(b0, d), NEW j \in L!Item, L!Step(j)
    PROVE  LocalStored(b0, d)'
<1>1. /\ LocalLaunch /\ launch \in LocalLaunches /\ Sized
      /\ batch \in [L!Item -> Nat] /\ k \in [L!Item -> Nat]
  BY LocalSized DEF LoopsInv, LocalInv, LocalLaunch
<1>2. launch' = launch /\ block' = block
  BY DEF L!Step, L!Load, L!Compute, L!Store
<1>3. CASE L!Load(j) \/ L!Compute(j)
  <2>1. batch' = batch /\ c' = c
    BY <1>3 DEF L!Load, L!Compute
  <2> QED
    BY <1>2, <2>1, LocalStoredSame
<1>4. CASE L!Store(j)
  <2>1. pc[j] = "load" /\ k[j] = 0
    BY <1>4 DEF L!Store, L!At
  <2>2. PICK b \in Nat : /\ b = batch[j] /\ Reached(b0, d, b)
                         /\ b \in 0 .. launch.batchSize - 1
    <3>1. batch[j] \in Nat /\ Reached(b0, d, batch[j]) /\ ~(batch[j] >= launch.batchSize)
      BY <1>1, <2>1 DEF LoopsInv, InLoops
    <3>2. launch.batchSize \in Nat
      BY <1>1 DEF Sized
    <3> QED
      BY <3>1, <3>2
  <2>3. PICK S, rows, cols, f, w, Q :
            /\ S = L!Stored(j) /\ rows = LocalRows(j) /\ cols = LocalCols(j)
            /\ f = regRes[j] /\ w = LocalWrite(j) /\ Q = LocalPlaces(j)
            /\ Q = PlacesOf(S, rows, cols)
    BY DEF LocalPlaces
  <2>4. Shape(S, rows, cols)
    BY <1>1, <2>3, LocalShape
  <2>5. Sums(f, S, rows, cols, b, launch.k)
    <3>1. launch.k - k[j] = launch.k
      <4>1. launch.k \in Nat
        BY <1>1 DEF Sized
      <4> QED
        BY <2>1, <4>1
    <3> QED
      BY <2>2, <2>3, <3>1 DEF RegsInv
  <2>6. Written(w, S, rows, cols, b, f)
    BY <1>1, <2>2, <2>3, LocalWritten
  <2>7. c' = Over(w, c)
    <3>1. c' = L!Over(w, c)
      BY <1>4, <2>3 DEF L!Store, LocalWrite
    <3> QED
      BY <3>1, LocalNumbers
  <2>8. Places(Q) /\ OneMore(c', c, Q, b)
    <3>1. PICK h, g : h = c' /\ g = c /\ h = Over(w, g)
      BY <2>7
    <3>2. Places(PlacesOf(S, rows, cols)) /\ OneMore(h, g, PlacesOf(S, rows, cols), b)
      BY <1>1, <2>2, <2>4, <2>5, <2>6, <3>1, StoreSums
    <3> QED
      BY <2>3, <3>1, <3>2
  <2>9. PICK D, D2, g, h : /\ D = LocalDone(b0, d) /\ D2 = LocalDone(b0, d)'
                           /\ g = c /\ h = c'
    OBVIOUS
  <2>10. Complete(h, D \cup InBatch(b, Q))
    <3>1. D \subseteq Y!Elements /\ Complete(g, D) /\ OneMore(h, g, Q, b)
      BY <2>8, <2>9 DEF LocalDone, LocalStored
    <3> QED
      BY <1>1, <2>2, <2>8, <3>1, CompleteMore
  <2>11. D2 = D \cup InBatch(b, Q)
    <3>1. /\ \A u \in L!Item : batch'[u] = IF u = j THEN b + d ELSE batch[u]
          /\ L!Item' = L!Item
      <4>1. batch' = [batch EXCEPT ![j] = batch[j] + L!BatchStride]
        BY <1>4 DEF L!Store
      <4>2. L!Item' = L!Item
        BY <1>2, LocalSameNumbers
      <4> QED
        BY <1>1, <2>2, <4>1, <4>2
    <3>2. D2 = {e \in Y!Elements :
                  \E i \in L!Item : /\ <<e[2], e[3]>> \in LocalPlaces(i)
                                    /\ Reached(b0, d, e[1]) /\ e[1] < batch'[i]}
      BY <1>2, <2>9, <3>1, LocalStoredSame DEF LocalDone, Reached
    <3>3. InBatch(b, Q) \subseteq Y!Elements
      <4>1. ASSUME NEW q \in Q PROVE <<b, q[1], q[2]>> \in Y!Elements
        <5>1. q[1] \in 0 .. launch.m - 1 /\ q[2] \in 0 .. launch.n - 1
          BY <2>8 DEF Places
        <5> QED
          BY <2>2, <5>1 DEF Y!Elements
      <4> QED
        BY <4>1 DEF InBatch
    <3>4. ASSUME NEW e \in Y!Elements
          PROVE  e \in InBatch(b, Q) <=> e[1] = b /\ <<e[2], e[3]>> \in Q
      <4>1. PICK x, y, z : e = <<x, y, z>>
        BY DEF Y!Elements
      <4>2. ASSUME NEW q \in Q PROVE q = <<q[1], q[2]>>
        BY <2>8 DEF Places
      <4>3. e \in InBatch(b, Q) <=> \E q \in Q : x = b /\ y = q[1] /\ z = q[2]
        BY <4>1 DEF InBatch
      <4>4. e[1] = x /\ e[2] = y /\ e[3] = z
        BY <4>1
      <4> QED
        BY <4>2, <4>3, <4>4
    <3>5. \A x \in Nat : Reached(b0, d, x) => (x < b + d <=> x < b \/ x = b)
      BY <2>2, NextReached
    <3>6. ASSUME NEW e \in Y!Elements
          PROVE  e \in D2 <=> e \in D \/ e \in InBatch(b, Q)
      <4>1. e[1] \in Nat
        BY DEF Y!Elements
      <4>2. ASSUME NEW i \in L!Item, Reached(b0, d, e[1])
            PROVE  e[1] < batch'[i] <=> e[1] < batch[i] \/ (i = j /\ e[1] = b)
        BY <2>2, <3>1, <3>5, <4>1, <4>2
      <4>3. e \in D <=> \E i \in L!Item : /\ <<e[2], e[3]>> \in LocalPlaces(i)
                                          /\ Reached(b0, d, e[1]) /\ e[1] < batch[i]
        BY <2>9 DEF LocalDone
      <4>4. e \in D2 <=> \E i \in L!Item : /\ <<e[2], e[3]>> \in LocalPlaces(i)
                                           /\ Reached(b0, d, e[1]) /\ e[1] < batch'[i]
        BY <3>2
      <4>5. e \in InBatch(b, Q) <=> /\ <<e[2], e[3]>> \in LocalPlaces(j)
                                    /\ Reached(b0, d, e[1]) /\ e[1] = b
        BY <2>2, <2>3, <3>4
      <4> QED
        BY <4>2, <4>3, <4>4, <4>5
    <3>7. D \subseteq Y!Elements /\ D2 \subseteq Y!Elements
      BY <2>9, <3>2 DEF LocalDone
    <3> QED
      BY <3>3, <3>6, <3>7
  <2>12. Complete(h, D2)'
    BY <1>2, <2>10, <2>11, LocalStoredSame
  <2> QED
    BY <2>9, <2>12 DEF LocalStored, Complete
<1> QED
  BY <1>3, <1>4 DEF L!Step

\* Item i is at row r and column q of a group with w rows.
AtPlace(i, w, q, r) == i = w * q + r

LEMMA PlaceOfItem ==
    ASSUME NEW w \in Nat \ {0}, NEW q \in Nat, NEW r \in 0 .. w - 1, NEW i \in Nat,
           AtPlace(i, w, q, r)
    PROVE  i \div w = q /\ i % w = r
  BY DivModUnique DEF AtPlace

-------------------------------------------------------------------------------
\* The items of a group have the places of its block between them.
LEMMA LocalCovers ==
    ASSUME LocalLaunch, LocalBlock,
           NEW row \in 0 .. launch.m - 1, NEW col \in 0 .. launch.n - 1
    PROVE  (\E i \in L!Item : <<row, col>> \in LocalPlaces(i))
              <=> /\ row - block.row \in 0 .. L!BlockRows - 1
                  /\ col - block.col \in 0 .. L!BlockCols - 1
<1>0. launch \in LocalLaunches
  BY DEF LocalLaunch
<1>1. PICK wr \in Nat \ {0}, wc \in Nat \ {0}, ir \in Nat \ {0}, ic \in Nat \ {0},
           v \in Nat \ {0} :
          /\ wr = WgRows /\ wc = WgCols /\ ir = launch.itemRows /\ ic = launch.itemCols
          /\ v = block.vectorOffset /\ ir % v = 0
          /\ L!BlockRows = wr * ir /\ L!BlockCols = wc * ic
  <2>1. /\ WgRows \in Nat \ {0} /\ WgCols \in Nat \ {0}
        /\ launch.itemRows \in Nat \ {0} /\ launch.itemCols \in Nat \ {0}
        /\ launch.packet \in Nat \ {0} /\ launch.itemRows % launch.packet = 0
        /\ block.vectorOffset \in {1, launch.packet}
    BY <1>0, LocalSizes DEF LocalLaunch
  <2>2. launch.itemRows % block.vectorOffset = 0 /\ block.vectorOffset \in Nat \ {0}
    BY <2>1
  <2> QED
    BY <2>1, <2>2 DEF L!BlockRows, L!BlockCols
<1>2. PICK x \in Nat, y \in Nat : x = block.row /\ y = block.col
  BY <1>0, LocalBlockIs
<1>3. PICK tm \in Nat, tn \in Nat : tm = wr * ir /\ tn = wc * ic
  OBVIOUS
<1>4. /\ L!RegRows = Y!RegRows /\ L!RegCols = Y!RegCols
      /\ L!RegRows = 0 .. ir - 1 /\ L!RegCols = 0 .. ic - 1
  BY <1>1 DEF L!RegRows, L!RegCols, Y!RegRows, Y!RegCols
<1>5. ASSUME NEW i \in L!Item, <<row, col>> \in LocalPlaces(i)
      PROVE  row - x \in 0 .. tm - 1 /\ col - y \in 0 .. tn - 1
  <2>1. PICK s \in L!Stored(i) :
            <<row, col>> = <<LocalRows(i)[s[2]], LocalCols(i)[s[1]]>>
    BY <1>5 DEF LocalPlaces, PlacesOf
  <2>2. PICK jj \in L!RegCols, l \in L!RegRows : s = <<jj, l>>
    BY DEF L!Stored
  <2>3. PICK a, b : /\ a = L!RegRow(i, l) /\ b = L!RegCol(i, jj)
                    /\ a \in 0 .. tm - 1 /\ b \in 0 .. tn - 1
    BY <1>1, <1>3, RegistersIn
  <2>4. row = x + a /\ col = y + b
    BY <1>2, <1>4, <2>1, <2>2, <2>3 DEF LocalRows, LocalCols
  <2> QED
    BY <2>3, <2>4
<1>6. ASSUME row - x \in 0 .. tm - 1, col - y \in 0 .. tn - 1
      PROVE  \E i \in L!Item : <<row, col>> \in LocalPlaces(i)
  <2>1. PICK r \in 0 .. tm - 1, s \in 0 .. tn - 1 : row = x + r /\ col = y + s
    <3>1. row = x + (row - x) /\ col = y + (col - y)
      OBVIOUS
    <3> QED
      BY <1>6, <3>1
  <2>2. PICK a \in 0 .. wr - 1 : a = (r \div v) % wr
    <3>1. r \in Nat
      OBVIOUS
    <3>2. r \div v \in Nat
      BY <3>1, DivMod
    <3>3. (r \div v) % wr \in 0 .. wr - 1
      BY <3>2, DivMod
    <3> QED
      BY <3>3
  <2>3. PICK l \in 0 .. ir - 1 : r = a * v + (l \div v) * wr * v + (l % v)
    <3>1. r \in Nat /\ r < wr * ir
      BY <1>3
    <3>2. /\ wr \in Nat \ {0} /\ v \in Nat \ {0} /\ ir \in Nat \ {0} /\ ir % v = 0
          /\ a \in 0 .. wr - 1 /\ r \in Nat
      BY <1>1, <2>2, <3>1
    <3>3. HasRegister(wr, v, ir, a, r) <=> r < wr * ir /\ (r \div v) % wr = a
      BY <3>2, RegisterOf
    <3>4. HasRegister(wr, v, ir, a, r)
      BY <2>2, <3>1, <3>3
    <3> QED
      BY <3>4 DEF HasRegister
  <2>4. PICK b \in 0 .. wc - 1, jj \in 0 .. ic - 1 : s = ic * b + jj
    <3>1. s \in Nat
      OBVIOUS
    <3>2. s \div ic \in Nat /\ s % ic \in 0 .. ic - 1 /\ s = ic * (s \div ic) + (s % ic)
      BY <3>1, DivMod
    <3>3. s \div ic \in 0 .. wc - 1
      <4>1. tn = ic * wc
        BY <1>3
      <4> QED
        BY <4>1, SomeBlock
    <3> QED
      BY <3>2, <3>3
  <2>5. PICK i \in L!Item : i = wr * b + a
    <3>1. wr * b + a \in 0 .. wc * wr - 1
      BY DigitsFit
    <3>2. wc * wr = wr * wc
      OBVIOUS
    <3> QED
      BY <1>1, <3>1, <3>2 DEF L!Item, L!WgSize
  <2>6. i \div wr = b /\ i % wr = a
    <3>1. i \in Nat /\ b \in Nat
      BY <1>1, <2>5 DEF L!Item, L!WgSize
    <3>2. wr \in Nat \ {0} /\ a \in 0 .. wr - 1
      BY <1>1
    <3>3. AtPlace(i, wr, b, a)
      BY <2>5 DEF AtPlace
    <3> QED
      BY <3>1, <3>2, <3>3, PlaceOfItem
  <2>7. L!RegRow(i, l) = r
    BY <1>1, <2>3, <2>6 DEF L!RegRow, L!VectorOffset
  <2>8. L!RegCol(i, jj) = s
    <3>1. L!RegCol(i, jj) = b * ic + jj
      BY <1>1, <2>6 DEF L!RegCol
    <3>2. b * ic = ic * b
      OBVIOUS
    <3> QED
      BY <2>4, <3>1, <3>2
  <2>9. LocalRows(i)[l] = row /\ LocalCols(i)[jj] = col
    BY <1>2, <1>4, <2>1, <2>3, <2>4, <2>7, <2>8 DEF LocalRows, LocalCols
  <2>10. row < launch.m /\ col < launch.n /\ row >= x /\ col >= y
    <3>1. launch.m \in Nat /\ launch.n \in Nat
      BY <1>0, LocalTypes
    <3> QED
      BY <2>1, <3>1
  <2>11. ~block.outOfRange
    <3>1. launch.m \in Nat /\ launch.n \in Nat
      BY <1>0, LocalTypes
    <3>2. ~(x >= launch.m) /\ ~(y >= launch.n)
      BY <2>10, <3>1
    <3> QED
      BY <1>0, <1>2, <3>2, LocalBlockIs
  <2>12. <<jj, l>> \in L!Stored(i)
    BY <1>2, <1>4, <2>1, <2>3, <2>4, <2>7, <2>8, <2>10, <2>11
       DEF L!Stored, L!OutOfRange, L!wgRow, L!wgCol
  <2>13. <<row, col>> = <<LocalRows(i)[<<jj, l>>[2]], LocalCols(i)[<<jj, l>>[1]]>>
    BY <2>9
  <2> QED
    BY <2>12, <2>13 DEF LocalPlaces, PlacesOf
<1> QED
  BY <1>1, <1>2, <1>3, <1>5, <1>6

\* A group that is done has stored its block, in its batches.
LEMMA LocalBlockExact ==
    ASSUME NEW b0, NEW d, b0 = L!WgBatchId(launch.group), d = L!BatchStride,
           LoopsInv(b0, d), LocalBlock, LocalStored(b0, d)
    PROVE  L!BlockExact
<1> SUFFICES ASSUME \A i \in L!Item : pc[i] = "done"
             PROVE  /\ DOMAIN c = {e[1] * L!CSize + e[2] + e[3] * launch.ldc :
                                      e \in L!GroupShare(launch.group)}
                    /\ \A e \in L!GroupShare(launch.group) :
                          c[e[1] * L!CSize + e[2] + e[3] * launch.ldc] = L!Expected(e)
  BY DEF L!BlockExact
<1>1. /\ LocalLaunch /\ launch \in LocalLaunches /\ Sized
      /\ batch \in [L!Item -> Nat]
  BY LocalSized DEF LoopsInv, LocalInv, LocalLaunch
<1>2. \A i \in L!Item : batch[i] >= launch.batchSize
  BY DEF LoopsInv, InLoops
<1>3. b0 \in Nat /\ d \in Nat \ {0}
  BY <1>1, LocalFirst
<1>4. PICK share : share = L!GroupShare(launch.group)
  OBVIOUS
<1>5. share = LocalDone(b0, d)
  <2>1. ASSUME NEW e \in Y!Elements
        PROVE  e \in share <=> e \in LocalDone(b0, d)
    <3>1. /\ e[1] \in 0 .. launch.batchSize - 1 /\ e[2] \in 0 .. launch.m - 1
          /\ e[3] \in 0 .. launch.n - 1
      BY DEF Y!Elements
    <3>2. e \in share <=> /\ e[1] >= b0 /\ (e[1] - b0) % d = 0
                          /\ e[2] - block.row \in 0 .. L!BlockRows - 1
                          /\ e[3] - block.col \in 0 .. L!BlockCols - 1
      <4>1. L!WgRow(launch.group) = block.row /\ L!WgCol(launch.group) = block.col
        BY <1>1, LocalBlockIs
      <4> QED
        BY <1>4, <4>1 DEF L!GroupShare, Y!Elements
    <3>3. Reached(b0, d, e[1]) <=> e[1] >= b0 /\ (e[1] - b0) % d = 0
      BY <1>3, <3>1 DEF Reached
    <3>4. (\E i \in L!Item : <<e[2], e[3]>> \in LocalPlaces(i))
            <=> /\ e[2] - block.row \in 0 .. L!BlockRows - 1
                /\ e[3] - block.col \in 0 .. L!BlockCols - 1
      BY <1>1, <3>1, LocalCovers
    <3>5. \A i \in L!Item : e[1] < batch[i]
      <4>1. launch.batchSize \in Nat
        BY <1>1 DEF Sized
      <4> QED
        BY <1>1, <1>2, <3>1, <4>1
    <3> QED
      BY <3>2, <3>3, <3>4, <3>5 DEF LocalDone
  <2>2. share \subseteq Y!Elements /\ LocalDone(b0, d) \subseteq Y!Elements
    BY <1>4 DEF L!GroupShare, Y!Elements, LocalDone
  <2> QED
    BY <2>1, <2>2
<1>6. \A e : /\ e[1] * L!CSize + e[2] + e[3] * launch.ldc = CellOf(e)
             /\ L!Expected(e) = Y!StridedProduct(e)
  <2>1. \A e : e[1] * L!CSize + e[2] + e[3] * launch.ldc = Y!StridedC(e[1], e[2], e[3])
    BY DEF L!CSize, Y!CSize, Y!StridedC
  <2>2. /\ L!ASize = Y!ASize /\ L!BSize = Y!BSize
        /\ \A t, r, x, ld : L!Address(t, r, x, ld) = Y!Address(t, r, x, ld)
        /\ \A x : L!FromA(x) = Y!FromA(x) /\ L!FromB(x) = Y!FromB(x)
    BY DEF L!ASize, Y!ASize, L!BSize, Y!BSize, L!Address, Y!Address, L!FromA, Y!FromA,
           L!FromB, Y!FromB
  <2>3. ASSUME NEW e
        PROVE  L!Expected(e) = Y!StridedProduct(e)
    <3>1. PICK ps, qs :
              /\ ps = {<<L!FromA(e[1] * L!ASize + L!Address(launch.transA, e[2], l, launch.lda)),
                         L!FromB(e[1] * L!BSize + L!Address(launch.transB, l, e[3], launch.ldb))>> :
                         l \in 0 .. launch.k - 1}
              /\ qs = {<<Y!FromA(z[1]), Y!FromB(z[2])>> :
                          z \in {<<Y!StridedA(e[1], e[2], l), Y!StridedB(e[1], l, e[3])>> :
                                    l \in 0 .. launch.k - 1}}
      OBVIOUS
    <3>2. ps = qs
      <4>1. qs = {<<Y!FromA(Y!StridedA(e[1], e[2], l)), Y!FromB(Y!StridedB(e[1], l, e[3]))>> :
                     l \in 0 .. launch.k - 1}
        <5>1. PICK pairs : pairs = {<<Y!StridedA(e[1], e[2], l), Y!StridedB(e[1], l, e[3])>> :
                                       l \in 0 .. launch.k - 1}
          OBVIOUS
        <5>2. qs = {<<Y!FromA(z[1]), Y!FromB(z[2])>> : z \in pairs}
          BY <3>1, <5>1
        <5>3. \A z \in pairs : \E l \in 0 .. launch.k - 1 :
                 z[1] = Y!StridedA(e[1], e[2], l) /\ z[2] = Y!StridedB(e[1], l, e[3])
          BY <5>1
        <5>4. ASSUME NEW l \in 0 .. launch.k - 1
              PROVE  \E z \in pairs :
                        z[1] = Y!StridedA(e[1], e[2], l) /\ z[2] = Y!StridedB(e[1], l, e[3])
          <6>1. <<Y!StridedA(e[1], e[2], l), Y!StridedB(e[1], l, e[3])>> \in pairs
            BY <5>1
          <6> QED
            BY <6>1
        <5> QED
          BY <5>2, <5>3, <5>4
      <4>2. ASSUME NEW l \in 0 .. launch.k - 1
            PROVE  /\ L!FromA(e[1] * L!ASize + L!Address(launch.transA, e[2], l, launch.lda))
                        = Y!FromA(Y!StridedA(e[1], e[2], l))
                   /\ L!FromB(e[1] * L!BSize + L!Address(launch.transB, l, e[3], launch.ldb))
                        = Y!FromB(Y!StridedB(e[1], l, e[3]))
        BY <2>2 DEF Y!StridedA, Y!StridedB
      <4> QED
        BY <3>1, <4>1, <4>2
    <3>3. L!Expected(e) = [c |-> IF launch.betaZero THEN {}
                                 ELSE {e[1] * L!CSize + e[2] + e[3] * launch.ldc},
                           of |-> ps, once |-> TRUE]
      BY <3>1 DEF L!Expected
    <3>4. Y!StridedProduct(e) = [c |-> IF launch.betaZero THEN {} ELSE {Y!StridedC(e[1], e[2], e[3])},
                                 of |-> qs, once |-> TRUE]
      BY <3>1 DEF Y!StridedProduct, Y!Product
    <3> QED
      BY <2>1, <3>2, <3>3, <3>4
  <2> QED
    BY <2>1, <2>3 DEF CellOf
<1>7. /\ DOMAIN c = {CellOf(e) : e \in share}
      /\ \A e \in share : c[CellOf(e)] = Y!StridedProduct(e)
  BY <1>5 DEF LocalStored, Complete
<1> QED
  BY <1>4, <1>6, <1>7

-------------------------------------------------------------------------------
(***************************************************************************)
(* GemmPartialLocal: what the items copy                                   *)
(***************************************************************************)

\* The row of the tile, along M or N, and the column, along K, of load number n of
\* item i.
TileRow(p, i, n) == IF p.transposeAtLoad THEN LoadCol(p, i, n) ELSE i % p.rows
TileCol(p, i, n) == IF p.transposeAtLoad THEN i % p.rows ELSE LoadCol(p, i, n)

\* The elements of a tile that item i copies, and all of them.
PartOf(p, i) == {<<TileRow(p, i, n), TileCol(p, i, n)>> : n \in 0 .. p.loads - 1}
RowsOf(p) == IF p.transposeAtLoad THEN p.cols ELSE p.rows
Tile(p) == (0 .. RowsOf(p) - 1) \X (0 .. T!TileK - 1)

\* The cell of element e of tile t.
CellT(p, t, e) == p.base + BufferOfTile(t) * (p.tileLd * T!TileK) + (e[1] + e[2] * p.tileLd)

\* A block's rows, columns and loads are known to be numbers.
LEMMA SharedTypes ==
    ASSUME launch \in TallSkinnyLaunches, NEW p, SharedOut(p)
    PROVE  /\ p.rows \in Nat \ {0} /\ p.cols \in Nat \ {0} /\ p.loads \in Nat \ {0}
           /\ p.tileLd \in Nat \ {0} /\ p.base \in Nat /\ T!TileK \in Nat \ {0}
           /\ RowsOf(p) \in Nat \ {0} /\ RowsOf(p) <= p.tileLd
           /\ IF p.transposeAtLoad THEN p.rows = T!TileK ELSE p.cols = T!TileK
BY TallBlocks DEF SharedOut, RowsOf

\* The items of a group share out a tile.
LEMMA TileParts ==
    ASSUME launch \in TallSkinnyLaunches, NEW p, SharedOut(p)
    PROVE  /\ \A i \in T!Item : PartOf(p, i) \subseteq Tile(p)
           /\ \A i, u \in T!Item : i # u => PartOf(p, i) \cap PartOf(p, u) = {}
           /\ \A e \in Tile(p) : \E i \in T!Item : e \in PartOf(p, i)
<1>1. /\ p.rows \in Nat \ {0} /\ p.cols \in Nat \ {0} /\ p.loads \in Nat \ {0}
      /\ T!TileK \in Nat \ {0}
      /\ IF p.transposeAtLoad THEN p.rows = T!TileK ELSE p.cols = T!TileK
  BY SharedTypes
<1>2. PICK q \in Nat \ {0} : /\ q = p.cols \div p.loads
                             /\ p.cols = q * p.loads /\ T!WgSize = p.rows * q
  BY RowItems
<1>3. ASSUME NEW i \in T!Item, NEW n \in 0 .. p.loads - 1
      PROVE  <<TileRow(p, i, n), TileCol(p, i, n)>> \in Tile(p)
  <2>1. i % p.rows \in 0 .. p.rows - 1 /\ LoadCol(p, i, n) \in 0 .. p.cols - 1
    BY LoadAt
  <2> QED
    BY <1>1, <2>1 DEF TileRow, TileCol, Tile, RowsOf
<1>4. ASSUME NEW i \in T!Item, NEW u \in T!Item, NEW n \in 0 .. p.loads - 1,
             NEW m \in 0 .. p.loads - 1,
             <<TileRow(p, i, n), TileCol(p, i, n)>> = <<TileRow(p, u, m), TileCol(p, u, m)>>
      PROVE  i = u
  <2>1. i % p.rows = u % p.rows /\ LoadCol(p, i, n) = LoadCol(p, u, m)
    BY <1>4 DEF TileRow, TileCol
  <2>2. /\ i \div p.rows \in 0 .. q - 1 /\ i = p.rows * (i \div p.rows) + (i % p.rows)
        /\ u \div p.rows \in 0 .. q - 1 /\ u = p.rows * (u \div p.rows) + (u % p.rows)
    BY <1>2, LoadAt
  <2>3. i \div p.rows + n * q = u \div p.rows + m * q
    BY <1>2, <2>1 DEF LoadCol
  <2>4. n \in Nat /\ m \in Nat
    BY <1>1
  <2>5. OneCell(q, i \div p.rows, n, u \div p.rows, m)
    BY <2>2, <2>3, <2>4 DEF OneCell
  <2>6. i \div p.rows = u \div p.rows
    BY <2>5, OneCellOnly
  <2> QED
    BY <2>1, <2>2, <2>6
<1>5. ASSUME NEW x \in 0 .. p.rows - 1, NEW y \in 0 .. p.cols - 1
      PROVE  \E i \in T!Item, n \in 0 .. p.loads - 1 :
                 i % p.rows = x /\ LoadCol(p, i, n) = y
  <2>1. PICK w \in Nat, l \in Nat : w = p.rows /\ l = p.loads /\ w # 0 /\ l # 0
    BY <1>1
  <2>2. y \in 0 .. q * l - 1
    BY <1>2, <2>1
  <2>3. y % q \in 0 .. q - 1 /\ y \div q \in 0 .. l - 1 /\ y = q * (y \div q) + (y % q)
    BY <2>1, <2>2, InTile
  <2>4. PICK a \in 0 .. q - 1, n \in 0 .. l - 1 :
            a = y % q /\ n = y \div q /\ y = q * n + a
    BY <2>3
  <2>5. PICK i \in Nat : i = w * a + x
    <3>1. w * a \in Nat /\ x \in Nat
      BY <2>1
    <3> QED
      BY <3>1
  <2>6. i \div w = a /\ i % w = x
    <3>1. w \in Nat \ {0} /\ a \in Nat /\ x \in 0 .. w - 1
      BY <2>1
    <3>2. i \in Nat /\ i = w * a + x
      BY <2>5
    <3> QED
      BY <3>1, <3>2, DivModUnique
  <2>7. i \in T!Item
    <3>1. x + a * w \in 0 .. w * q - 1
      BY <2>1, TileCell
    <3>2. x + a * w = w * a + x
      BY <2>1
    <3>3. T!WgSize = w * q
      BY <1>2, <2>1
    <3> QED
      BY <2>5, <3>1, <3>2, <3>3 DEF T!Item
  <2>8. LoadCol(p, i, n) = y
    <3>1. LoadCol(p, i, n) = a + n * q
      BY <1>2, <2>1, <2>6 DEF LoadCol
    <3> QED
      BY <2>4, <3>1
  <2> QED
    BY <2>1, <2>6, <2>7, <2>8
<1>6. ASSUME NEW e \in Tile(p) PROVE \E i \in T!Item : e \in PartOf(p, i)
  <2>1. PICK x \in 0 .. p.rows - 1, y \in 0 .. p.cols - 1 :
            e = IF p.transposeAtLoad THEN <<y, x>> ELSE <<x, y>>
    BY <1>1 DEF Tile, RowsOf
  <2>2. PICK i \in T!Item, n \in 0 .. p.loads - 1 : i % p.rows = x /\ LoadCol(p, i, n) = y
    BY <1>5
  <2>3. e = <<TileRow(p, i, n), TileCol(p, i, n)>>
    BY <2>1, <2>2 DEF TileRow, TileCol
  <2> QED
    BY <2>3 DEF PartOf
<1> QED
  BY <1>3, <1>4, <1>6 DEF PartOf

\* The cells of a tile are different from each other ...
LEMMA CellsOfTile ==
    ASSUME launch \in TallSkinnyLaunches, NEW p, SharedOut(p), NEW t \in Nat,
           NEW e \in Tile(p), NEW f \in Tile(p)
    PROVE  /\ CellT(p, t, e) \in Area(p.base, p.tileLd * T!TileK, BufferOfTile(t))
           /\ CellT(p, t, e) = CellT(p, t, f) => e = f
<1>1. /\ p.tileLd \in Nat \ {0} /\ p.base \in Nat /\ T!TileK \in Nat \ {0}
      /\ RowsOf(p) \in Nat \ {0} /\ RowsOf(p) <= p.tileLd /\ BufferOfTile(t) \in Nat
  BY SharedTypes, TileBuffers
<1>2. /\ e[1] \in 0 .. RowsOf(p) - 1 /\ e[2] \in 0 .. T!TileK - 1 /\ e = <<e[1], e[2]>>
      /\ f[1] \in 0 .. RowsOf(p) - 1 /\ f[2] \in 0 .. T!TileK - 1 /\ f = <<f[1], f[2]>>
  BY DEF Tile
<1>3. PICK o \in Nat : o = p.base + BufferOfTile(t) * (p.tileLd * T!TileK)
  BY <1>1
<1>4. PICK x \in Nat, y \in Nat :
          /\ x = e[1] + e[2] * p.tileLd /\ y = f[1] + f[2] * p.tileLd
          /\ x \in 0 .. p.tileLd * T!TileK - 1
  <2>1. e[1] + e[2] * p.tileLd \in 0 .. p.tileLd * T!TileK - 1
    BY <1>1, <1>2, TileCell
  <2>2. f[1] + f[2] * p.tileLd \in 0 .. p.tileLd * T!TileK - 1
    BY <1>1, <1>2, TileCell
  <2> QED
    BY <2>1, <2>2
<1>5. CellT(p, t, e) = o + x /\ CellT(p, t, f) = o + y
  BY <1>3, <1>4 DEF CellT
<1>6. CellT(p, t, e) \in Area(p.base, p.tileLd * T!TileK, BufferOfTile(t))
  BY <1>3, <1>4, <1>5 DEF Area
<1>7. ASSUME CellT(p, t, e) = CellT(p, t, f) PROVE e = f
  <2>1. x = y
    BY <1>5, <1>7
  <2>2. OneCell(p.tileLd, e[1], e[2], f[1], f[2])
    BY <1>1, <1>2, <1>4, <2>1 DEF OneCell
  <2>3. e[1] = f[1] /\ e[2] = f[2]
    BY <2>2, OneCellOnly
  <2> QED
    BY <1>2, <2>3
<1> QED
  BY <1>6, <1>7

\* ... and from those of the other block or of the other buffer.
LEMMA CellsOfTiles ==
    ASSUME launch \in TallSkinnyLaunches, NEW t \in Nat, NEW r \in Nat
    PROVE  /\ \A e \in Tile(T!LhsBlock), f \in Tile(T!RhsBlock) :
                /\ CellT(T!LhsBlock, t, e) # CellT(T!RhsBlock, r, f)
                /\ CellT(T!LhsBlock, t, e) \in 0 .. T!LocalMemorySize - 1
                /\ CellT(T!RhsBlock, r, f) \in 0 .. T!LocalMemorySize - 1
           /\ BufferOfTile(t) # BufferOfTile(r) =>
                /\ \A e, f \in Tile(T!LhsBlock) :
                      CellT(T!LhsBlock, t, e) # CellT(T!LhsBlock, r, f)
                /\ \A e, f \in Tile(T!RhsBlock) :
                      CellT(T!RhsBlock, t, e) # CellT(T!RhsBlock, r, f)
<1>1. PICK first \in Nat, second \in Nat, n \in {1, 2}, x \in Nat, y \in Nat :
          /\ first = T!LhsTileLd * T!TileK /\ second = T!RhsTileLd * T!TileK
          /\ n = TallBuffers /\ x = BufferOfTile(t) /\ y = BufferOfTile(r)
          /\ x \in 0 .. n - 1 /\ y \in 0 .. n - 1
  <2>1. /\ T!LhsTileLd * T!TileK \in Nat /\ T!RhsTileLd * T!TileK \in Nat
        /\ TallBuffers \in {1, 2}
    BY TallBlocks
  <2>2. BufferOfTile(t) \in 0 .. TallBuffers - 1 /\ BufferOfTile(r) \in 0 .. TallBuffers - 1
    BY TileBuffers
  <2> QED
    BY <2>1, <2>2
<1>2. /\ T!LhsBlock.base = 0 /\ T!LhsBlock.tileLd = T!LhsTileLd
      /\ T!RhsBlock.base = n * first /\ T!RhsBlock.tileLd = T!RhsTileLd
      /\ SharedOut(T!LhsBlock) /\ SharedOut(T!RhsBlock)
  BY <1>1, TallBlocks
<1>3. ASSUME NEW e \in Tile(T!LhsBlock)
      PROVE  /\ CellT(T!LhsBlock, t, e) \in Area(0, first, x)
             /\ CellT(T!LhsBlock, r, e) \in Area(0, first, y)
  BY <1>1, <1>2, CellsOfTile
<1>4. ASSUME NEW e \in Tile(T!RhsBlock)
      PROVE  /\ CellT(T!RhsBlock, t, e) \in Area(n * first, second, x)
             /\ CellT(T!RhsBlock, r, e) \in Area(n * first, second, y)
  BY <1>1, <1>2, CellsOfTile
<1>5. Apart(first, second, n, x, y) /\ Apart(first, second, n, y, x)
  <2>1. x \in 0 .. n - 1 /\ y \in 0 .. n - 1
    BY <1>1
  <2> QED
    BY <2>1, AreasApart
<1>6. T!LocalMemorySize = n * first + n * second
  <2>1. PICK a \in Nat, b \in Nat, z \in Nat :
            a = T!LhsTileLd /\ b = T!RhsTileLd /\ z = T!TileK
    BY TallBlocks
  <2>2. T!LocalMemorySize = n * (a + b) * z
    BY <1>1, <2>1 DEF T!LocalMemorySize, TallBuffers
  <2>3. (a + b) * z = a * z + b * z
    BY <2>1
  <2>4. n * (a + b) * z = n * (a * z) + n * (b * z)
    <3>1. CASE n = 1
      BY <2>3, <3>1
    <3>2. CASE n = 2
      BY <2>3, <3>2
    <3> QED
      BY <3>1, <3>2
  <2> QED
    BY <1>1, <2>1, <2>2, <2>4
<1>7. Area(0, first, x) \subseteq 0 .. T!LocalMemorySize - 1
  <2>1. x = 0 \/ (x = 1 /\ n = 2)
    BY <1>1
  <2>2. n * first = IF n = 2 THEN first + first ELSE first
    <3>1. CASE n = 1
      BY <3>1
    <3>2. CASE n = 2
      BY <3>2
    <3> QED
      BY <3>1, <3>2
  <2>3. x * first = 0 \/ (x * first = first /\ n * first = first + first)
    BY <2>1
  <2>4. n * second \in Nat /\ n * first >= first
    BY <2>2
  <2> QED
    BY <1>6, <2>3, <2>4 DEF Area
<1>8. Area(n * first, second, y) \subseteq 0 .. T!LocalMemorySize - 1
  <2>1. y = 0 \/ (y = 1 /\ n = 2)
    BY <1>1
  <2>2. n * second = IF n = 2 THEN second + second ELSE second
    <3>1. CASE n = 1
      BY <3>1
    <3>2. CASE n = 2
      BY <3>2
    <3> QED
      BY <3>1, <3>2
  <2>3. y * second = 0 \/ (y * second = second /\ n * second = second + second)
    BY <2>1
  <2>4. n * first \in Nat /\ n * second >= second
    BY <2>2
  <2> QED
    BY <1>6, <2>3, <2>4 DEF Area
<1> QED
  BY <1>1, <1>3, <1>4, <1>5, <1>7, <1>8 DEF Apart

-------------------------------------------------------------------------------
(***************************************************************************)
(* GemmPartialLocal: the loads                                             *)
(***************************************************************************)

\* Load number n of item i.
LoadT(i, t, p, n) ==
    LET row == p.rowOffset + T!Bit(p.transposeAtLoad) * p.rows * t + (i % p.rows)
        col == p.colOffset + T!Bit(~p.transposeAtLoad) * p.cols * t + LoadCol(p, i, n)
    IN [to |-> p.base + T!BufferOffset(t, p.tileLd)
                 + (IF p.transposeAtLoad
                    THEN LoadCol(p, i, n) + (i % p.rows) * p.tileLd
                    ELSE (i % p.rows) + LoadCol(p, i, n) * p.tileLd),
        address |-> col * p.ld + row,
        inRange |-> T!ChecksLimits(t) => row < p.sizeRows /\ col < p.sizeCols]

LEMMA LoadsAreT ==
    ASSUME NEW i, NEW t, NEW p
    PROVE  T!Loads(i, t, p) = {LoadT(i, t, p, n) : n \in 0 .. p.loads - 1}
BY DEF T!Loads, LoadT, LoadCol

-------------------------------------------------------------------------------
\* What the proofs need of a launch of the tall and skinny kernel.
TallLaunch == launch \in TallSkinnyLaunches /\ launch.group \in T!Groups

\* Where the block of the group is, and which tiles of K.
MOff == T!MOffset(launch.group)
NOff == T!NOffset(launch.group)
KOff == T!KOffset(launch.group)
KGrp == T!KGroup(launch.group)

LEMMA TallPlace ==
    ASSUME TallLaunch
    PROVE  /\ MOff \in Nat /\ NOff \in Nat /\ KOff \in Nat
           /\ T!NumTiles \in Nat \ {0} /\ KGrp \in 0 .. launch.depth - 1
           /\ launch.lda \in Nat /\ launch.ldb \in Nat /\ launch.ldc \in Nat \ {0}
           /\ launch.m \in Nat \ {0} /\ launch.n \in Nat \ {0} /\ launch.k \in Nat \ {0}
           /\ launch.m <= launch.ldc /\ (~launch.transA => launch.lda # 0)
           /\ launch.depth \in Nat \ {0}
<1>0. launch \in TallSkinnyLaunches
  BY DEF TallLaunch
<1>1. PICK a, d, h, s, t, e, v \in Nat \ {0} :
          TallGridIs(a, d, h, s, t, e, v) /\ TallGridFits(a, d, h, s, t, e, v)
  BY <1>0, TallGrid
<1>2. PICK g \in 0 .. (a * d) * h - 1 : g = launch.group
  BY <1>1 DEF TallGridIs, TallLaunch
<1>3. PICK w \in Nat \ {0}, x \in Nat, z \in Nat, p \in Nat, q \in Nat :
          /\ w = a * d /\ x = g \div w /\ z = g % w
          /\ p = z % a /\ q = z \div a
          /\ h = 1 => x = 0
  <2>1. HasPlace(a, d, h, g)
    BY PlaceInSlice
  <2> QED
    BY <2>1 DEF HasPlace
<1>4. x \in 0 .. h - 1
  <2>1. PICK n \in Nat : n = w * h
    OBVIOUS
  <2>2. g \in 0 .. n - 1
    BY <1>3, <2>1
  <2>3. g \div w \in 0 .. h - 1
    BY <2>1, <2>2, SomeBlock
  <2> QED
    BY <1>3, <2>3
<1>5. T!KGroup(g) = x
  <2>1. CASE launch.final
    BY <1>1, <1>3, <2>1, <1>0, TallTypes DEF T!KGroup, TallGridIs
  <2>2. CASE ~launch.final
    BY <1>1, <1>3, <2>2 DEF T!KGroup, TallGridIs
  <2> QED
    BY <2>1, <2>2
<1>6. T!MnGroup(g) = z
  <2>1. g - x * w = z
    <3>1. g \in Nat
      OBVIOUS
    <3> QED
      BY <1>3, <3>1, Remainder
  <2>2. x * a * d = x * w
    <3>1. x * a * d = x * (a * d)
      OBVIOUS
    <3> QED
      BY <1>3, <3>1
  <2> QED
    BY <1>1, <1>5, <2>1, <2>2 DEF T!MnGroup, TallGridIs
<1>7. T!MOffset(g) = p * s /\ T!NOffset(g) = q * t
  BY <1>1, <1>3, <1>6 DEF T!MOffset, T!NOffset, TallGridIs
<1>8. T!KOffset(g) = x * e * v
  BY <1>1, <1>5 DEF T!KOffset, TallGridIs
<1>9. p * s \in Nat /\ q * t \in Nat /\ x * e * v \in Nat
  OBVIOUS
<1>10. /\ launch.lda \in Nat /\ launch.ldb \in Nat /\ launch.ldc \in Nat
       /\ launch.m \in Nat \ {0} /\ launch.n \in Nat \ {0} /\ launch.k \in Nat \ {0}
       /\ launch.ldc >= launch.m /\ launch.lda >= (IF launch.transA THEN launch.k ELSE launch.m)
       /\ launch.depth \in Nat \ {0}
  BY <1>0, GemmKernelsAssumption DEF GemmKernelsAssumption, T!GemmPartialAssumption
<1>11. MOff \in Nat /\ NOff \in Nat /\ KOff \in Nat
  BY <1>2, <1>7, <1>8, <1>9 DEF MOff, NOff, KOff
<1>12. T!NumTiles \in Nat \ {0} /\ KGrp \in 0 .. launch.depth - 1
  BY <1>1, <1>2, <1>4, <1>5 DEF TallGridIs, KGrp
<1> QED
  BY <1>10, <1>11, <1>12

\* What belongs in the cell of element e of tile t.
IsInA(t, e) == MOff + e[1] < launch.m /\ KOff + t * T!TileK + e[2] < launch.k
IsInB(t, e) == NOff + e[1] < launch.n /\ KOff + t * T!TileK + e[2] < launch.k
ValueA(t, e) ==
    IF IsInA(t, e) THEN FromA(T!AddressA(MOff + e[1], KOff + t * T!TileK + e[2])) ELSE Zero
ValueB(t, e) ==
    IF IsInB(t, e) THEN FromB(T!AddressB(KOff + t * T!TileK + e[2], NOff + e[1])) ELSE Zero

At2(p, i, n) == <<TileRow(p, i, n), TileCol(p, i, n)>>

\* The limits are checked where they are needed.
LEMMA LoadIsA ==
    ASSUME TallLaunch, NEW i \in T!Item, NEW t \in Nat, NEW p, p = T!LhsBlock,
           NEW n \in 0 .. p.loads - 1
    PROVE  /\ LoadT(i, t, p, n).to = CellT(p, t, At2(p, i, n))
           /\ LoadT(i, t, p, n).inRange <=> IsInA(t, At2(p, i, n))
           /\ LoadT(i, t, p, n).address
                = T!AddressA(MOff + TileRow(p, i, n), KOff + t * T!TileK + TileCol(p, i, n))
<1>0. launch \in TallSkinnyLaunches
  BY DEF TallLaunch
<1>1. /\ SharedOut(p) /\ p.base \in Nat /\ p.tileLd \in Nat \ {0} /\ T!TileK \in Nat \ {0}
      /\ T!TileM \in Nat \ {0} /\ T!TileN \in Nat \ {0} /\ p.rows \in Nat \ {0}
      /\ p.cols \in Nat \ {0}
  BY <1>0, TallBlocks, SharedTypes
<1>2. /\ MOff \in Nat /\ NOff \in Nat /\ KOff \in Nat /\ launch.lda \in Nat
      /\ launch.m \in Nat \ {0} /\ launch.n \in Nat \ {0} /\ launch.k \in Nat \ {0}
  BY TallPlace
<1>3. /\ p.transposeAtLoad = launch.transA /\ p.ld = launch.lda
      /\ p.rows = IF launch.transA THEN T!TileK ELSE T!TileM
      /\ p.cols = IF launch.transA THEN T!TileM ELSE T!TileK
      /\ p.rowOffset = IF launch.transA THEN KOff ELSE MOff
      /\ p.colOffset = IF launch.transA THEN MOff ELSE KOff
      /\ p.sizeRows = IF launch.transA THEN launch.k ELSE launch.m
      /\ p.sizeCols = IF launch.transA THEN launch.m ELSE launch.k
  BY DEF T!LhsBlock, T!Block, MOff, KOff
<1>4. i % p.rows \in 0 .. p.rows - 1 /\ LoadCol(p, i, n) \in 0 .. p.cols - 1
  BY <1>1, LoadAt
<1>5. PICK x \in Nat, y \in Nat : x = i % p.rows /\ y = LoadCol(p, i, n)
  BY <1>4
<1>6. PICK tk \in Nat, u \in Nat : tk = T!TileK /\ u = t * tk /\ u = tk * t
  BY <1>1
<1>7. LoadT(i, t, p, n).to = CellT(p, t, At2(p, i, n))
  <2>1. T!BufferOffset(t, p.tileLd) = BufferOfTile(t) * (p.tileLd * T!TileK)
    BY <1>0, <1>1, BufferOffsetIs
  <2>2. CASE p.transposeAtLoad
    BY <1>5, <2>1, <2>2 DEF LoadT, CellT, At2, TileRow, TileCol
  <2>3. CASE ~p.transposeAtLoad
    BY <1>5, <2>1, <2>3 DEF LoadT, CellT, At2, TileRow, TileCol
  <2> QED
    BY <2>2, <2>3
<1>8. T!ChecksLimits(t) <=> \/ MOff + T!TileM > launch.m
                            \/ NOff + T!TileN > launch.n
                            \/ KOff + (t + 1) * T!TileK > launch.k
  BY DEF T!ChecksLimits, MOff, NOff, KOff
<1>9. (t + 1) * T!TileK = u + tk
  BY <1>6
<1>10. CASE launch.transA
  <2>1. /\ LoadT(i, t, p, n).address = (MOff + 0 * p.cols * t + y) * launch.lda
                                         + (KOff + 1 * p.rows * t + x)
        /\ LoadT(i, t, p, n).inRange <=>
              (T!ChecksLimits(t) => /\ KOff + 1 * p.rows * t + x < launch.k
                                    /\ MOff + 0 * p.cols * t + y < launch.m)
    BY <1>3, <1>5, <1>10 DEF LoadT, T!Bit
  <2>2. MOff + 0 * p.cols * t + y = MOff + y /\ KOff + 1 * p.rows * t + x = KOff + u + x
    BY <1>1, <1>2, <1>3, <1>6, <1>10
  <2>3. TileRow(p, i, n) = y /\ TileCol(p, i, n) = x
    BY <1>3, <1>5, <1>10 DEF TileRow, TileCol
  <2>4. x <= tk - 1 /\ y <= T!TileM - 1
    BY <1>1, <1>3, <1>4, <1>5, <1>6, <1>10
  <2>5. LoadT(i, t, p, n).inRange <=> KOff + u + x < launch.k /\ MOff + y < launch.m
    BY <1>1, <1>2, <1>6, <1>8, <1>9, <2>1, <2>2, <2>4
  <2>6. T!AddressA(MOff + y, KOff + u + x) = (KOff + u + x) + (MOff + y) * launch.lda
    BY <1>10 DEF T!AddressA, T!Address
  <2>7. (MOff + y) * launch.lda + (KOff + u + x) = (KOff + u + x) + (MOff + y) * launch.lda
    <3>1. PICK l \in Nat : l = (MOff + y) * launch.lda
      BY <1>2
    <3> QED
      BY <1>2, <3>1
  <2> QED
    BY <1>6, <1>7, <2>1, <2>2, <2>3, <2>5, <2>6, <2>7 DEF IsInA, At2
<1>11. CASE ~launch.transA
  <2>1. /\ LoadT(i, t, p, n).address = (KOff + 1 * p.cols * t + y) * launch.lda
                                         + (MOff + 0 * p.rows * t + x)
        /\ LoadT(i, t, p, n).inRange <=>
              (T!ChecksLimits(t) => /\ MOff + 0 * p.rows * t + x < launch.m
                                    /\ KOff + 1 * p.cols * t + y < launch.k)
    BY <1>3, <1>5, <1>11 DEF LoadT, T!Bit
  <2>2. MOff + 0 * p.rows * t + x = MOff + x /\ KOff + 1 * p.cols * t + y = KOff + u + y
    BY <1>1, <1>2, <1>3, <1>6, <1>11
  <2>3. TileRow(p, i, n) = x /\ TileCol(p, i, n) = y
    BY <1>3, <1>5, <1>11 DEF TileRow, TileCol
  <2>4. y <= tk - 1 /\ x <= T!TileM - 1
    BY <1>1, <1>3, <1>4, <1>5, <1>6, <1>11
  <2>5. LoadT(i, t, p, n).inRange <=> KOff + u + y < launch.k /\ MOff + x < launch.m
    BY <1>1, <1>2, <1>6, <1>8, <1>9, <2>1, <2>2, <2>4
  <2>6. T!AddressA(MOff + x, KOff + u + y) = (MOff + x) + (KOff + u + y) * launch.lda
    BY <1>11 DEF T!AddressA, T!Address
  <2>7. (KOff + u + y) * launch.lda + (MOff + x) = (MOff + x) + (KOff + u + y) * launch.lda
    <3>1. PICK l \in Nat : l = (KOff + u + y) * launch.lda
      BY <1>2
    <3> QED
      BY <1>2, <3>1
  <2> QED
    BY <1>6, <1>7, <2>1, <2>2, <2>3, <2>5, <2>6, <2>7 DEF IsInA, At2
<1> QED
  BY <1>10, <1>11
LEMMA LoadIsB ==
    ASSUME TallLaunch, NEW i \in T!Item, NEW t \in Nat, NEW p, p = T!RhsBlock,
           NEW n \in 0 .. p.loads - 1
    PROVE  /\ LoadT(i, t, p, n).to = CellT(p, t, At2(p, i, n))
           /\ LoadT(i, t, p, n).inRange <=> IsInB(t, At2(p, i, n))
           /\ LoadT(i, t, p, n).address
                = T!AddressB(KOff + t * T!TileK + TileCol(p, i, n), NOff + TileRow(p, i, n))
<1>0. launch \in TallSkinnyLaunches
  BY DEF TallLaunch
<1>1. /\ SharedOut(p) /\ p.base \in Nat /\ p.tileLd \in Nat \ {0} /\ T!TileK \in Nat \ {0}
      /\ T!TileM \in Nat \ {0} /\ T!TileN \in Nat \ {0} /\ p.rows \in Nat \ {0}
      /\ p.cols \in Nat \ {0}
  BY <1>0, TallBlocks, SharedTypes
<1>2. /\ MOff \in Nat /\ NOff \in Nat /\ KOff \in Nat /\ launch.ldb \in Nat
      /\ launch.m \in Nat \ {0} /\ launch.n \in Nat \ {0} /\ launch.k \in Nat \ {0}
  BY TallPlace
<1>3. /\ p.transposeAtLoad = ~launch.transB /\ p.ld = launch.ldb
      /\ p.rows = IF launch.transB THEN T!TileN ELSE T!TileK
      /\ p.cols = IF launch.transB THEN T!TileK ELSE T!TileN
      /\ p.rowOffset = IF launch.transB THEN NOff ELSE KOff
      /\ p.colOffset = IF launch.transB THEN KOff ELSE NOff
      /\ p.sizeRows = IF launch.transB THEN launch.n ELSE launch.k
      /\ p.sizeCols = IF launch.transB THEN launch.k ELSE launch.n
  BY DEF T!RhsBlock, T!Block, NOff, KOff
<1>4. i % p.rows \in 0 .. p.rows - 1 /\ LoadCol(p, i, n) \in 0 .. p.cols - 1
  BY <1>1, LoadAt
<1>5. PICK x \in Nat, y \in Nat : x = i % p.rows /\ y = LoadCol(p, i, n)
  BY <1>4
<1>6. PICK tk \in Nat, u \in Nat : tk = T!TileK /\ u = t * tk /\ u = tk * t
  BY <1>1
<1>7. LoadT(i, t, p, n).to = CellT(p, t, At2(p, i, n))
  <2>1. T!BufferOffset(t, p.tileLd) = BufferOfTile(t) * (p.tileLd * T!TileK)
    BY <1>0, <1>1, BufferOffsetIs
  <2>2. CASE p.transposeAtLoad
    BY <1>5, <2>1, <2>2 DEF LoadT, CellT, At2, TileRow, TileCol
  <2>3. CASE ~p.transposeAtLoad
    BY <1>5, <2>1, <2>3 DEF LoadT, CellT, At2, TileRow, TileCol
  <2> QED
    BY <2>2, <2>3
<1>8. T!ChecksLimits(t) <=> \/ MOff + T!TileM > launch.m
                            \/ NOff + T!TileN > launch.n
                            \/ KOff + (t + 1) * T!TileK > launch.k
  BY DEF T!ChecksLimits, MOff, NOff, KOff
<1>9. (t + 1) * T!TileK = u + tk
  BY <1>6
<1>10. CASE ~launch.transB
  <2>1. /\ LoadT(i, t, p, n).address = (NOff + 0 * p.cols * t + y) * launch.ldb
                                         + (KOff + 1 * p.rows * t + x)
        /\ LoadT(i, t, p, n).inRange <=>
              (T!ChecksLimits(t) => /\ KOff + 1 * p.rows * t + x < launch.k
                                    /\ NOff + 0 * p.cols * t + y < launch.n)
    BY <1>3, <1>5, <1>10 DEF LoadT, T!Bit
  <2>2. NOff + 0 * p.cols * t + y = NOff + y /\ KOff + 1 * p.rows * t + x = KOff + u + x
    BY <1>1, <1>2, <1>3, <1>6, <1>10
  <2>3. TileRow(p, i, n) = y /\ TileCol(p, i, n) = x
    BY <1>3, <1>5, <1>10 DEF TileRow, TileCol
  <2>4. x <= tk - 1 /\ y <= T!TileN - 1
    BY <1>1, <1>3, <1>4, <1>5, <1>6, <1>10
  <2>5. LoadT(i, t, p, n).inRange <=> KOff + u + x < launch.k /\ NOff + y < launch.n
    BY <1>1, <1>2, <1>6, <1>8, <1>9, <2>1, <2>2, <2>4
  <2>6. T!AddressB(KOff + u + x, NOff + y) = (KOff + u + x) + (NOff + y) * launch.ldb
    BY <1>10 DEF T!AddressB, T!Address
  <2>7. (NOff + y) * launch.ldb + (KOff + u + x) = (KOff + u + x) + (NOff + y) * launch.ldb
    <3>1. PICK l \in Nat : l = (NOff + y) * launch.ldb
      BY <1>2
    <3> QED
      BY <1>2, <3>1
  <2> QED
    BY <1>6, <1>7, <2>1, <2>2, <2>3, <2>5, <2>6, <2>7 DEF IsInB, At2
<1>11. CASE launch.transB
  <2>1. /\ LoadT(i, t, p, n).address = (KOff + 1 * p.cols * t + y) * launch.ldb
                                         + (NOff + 0 * p.rows * t + x)
        /\ LoadT(i, t, p, n).inRange <=>
              (T!ChecksLimits(t) => /\ NOff + 0 * p.rows * t + x < launch.n
                                    /\ KOff + 1 * p.cols * t + y < launch.k)
    BY <1>3, <1>5, <1>11 DEF LoadT, T!Bit
  <2>2. NOff + 0 * p.rows * t + x = NOff + x /\ KOff + 1 * p.cols * t + y = KOff + u + y
    BY <1>1, <1>2, <1>3, <1>6, <1>11
  <2>3. TileRow(p, i, n) = x /\ TileCol(p, i, n) = y
    BY <1>3, <1>5, <1>11 DEF TileRow, TileCol
  <2>4. y <= tk - 1 /\ x <= T!TileN - 1
    BY <1>1, <1>3, <1>4, <1>5, <1>6, <1>11
  <2>5. LoadT(i, t, p, n).inRange <=> KOff + u + y < launch.k /\ NOff + x < launch.n
    BY <1>1, <1>2, <1>6, <1>8, <1>9, <2>1, <2>2, <2>4
  <2>6. T!AddressB(KOff + u + y, NOff + x) = (NOff + x) + (KOff + u + y) * launch.ldb
    BY <1>11 DEF T!AddressB, T!Address
  <2>7. (KOff + u + y) * launch.ldb + (NOff + x) = (NOff + x) + (KOff + u + y) * launch.ldb
    <3>1. PICK l \in Nat : l = (KOff + u + y) * launch.ldb
      BY <1>2
    <3> QED
      BY <1>2, <3>1
  <2> QED
    BY <1>6, <1>7, <2>1, <2>2, <2>3, <2>5, <2>6, <2>7 DEF IsInB, At2
<1> QED
  BY <1>10, <1>11

-------------------------------------------------------------------------------
\* What an item loads of a tile: its elements, each to the cell of its own.
LEMMA TileLoads ==
    ASSUME TallLaunch, NEW i \in T!Item, NEW t \in Nat
    PROVE  /\ \A x \in T!Loads(i, t, T!LhsBlock) :
                 \E e \in PartOf(T!LhsBlock, i) :
                    /\ x.to = CellT(T!LhsBlock, t, e)
                    /\ (IF x.inRange THEN FromA(x.address) ELSE Zero) = ValueA(t, e)
           /\ \A e \in PartOf(T!LhsBlock, i) :
                 \E x \in T!Loads(i, t, T!LhsBlock) : x.to = CellT(T!LhsBlock, t, e)
           /\ \A x \in T!Loads(i, t, T!RhsBlock) :
                 \E e \in PartOf(T!RhsBlock, i) :
                    /\ x.to = CellT(T!RhsBlock, t, e)
                    /\ (IF x.inRange THEN FromB(x.address) ELSE Zero) = ValueB(t, e)
           /\ \A e \in PartOf(T!RhsBlock, i) :
                 \E x \in T!Loads(i, t, T!RhsBlock) : x.to = CellT(T!RhsBlock, t, e)
<1>1. PICK p, q : p = T!LhsBlock /\ q = T!RhsBlock
  OBVIOUS
<1>2. /\ T!Loads(i, t, p) = {LoadT(i, t, p, n) : n \in 0 .. p.loads - 1}
      /\ T!Loads(i, t, q) = {LoadT(i, t, q, n) : n \in 0 .. q.loads - 1}
  BY LoadsAreT
<1>3. ASSUME NEW n \in 0 .. p.loads - 1
      PROVE  /\ At2(p, i, n) \in PartOf(p, i)
             /\ LoadT(i, t, p, n).to = CellT(p, t, At2(p, i, n))
             /\ (IF LoadT(i, t, p, n).inRange THEN FromA(LoadT(i, t, p, n).address) ELSE Zero)
                  = ValueA(t, At2(p, i, n))
  <2>1. At2(p, i, n) \in PartOf(p, i)
    BY DEF At2, PartOf
  <2>2. /\ LoadT(i, t, p, n).to = CellT(p, t, At2(p, i, n))
        /\ LoadT(i, t, p, n).inRange <=> IsInA(t, At2(p, i, n))
        /\ LoadT(i, t, p, n).address
             = T!AddressA(MOff + TileRow(p, i, n), KOff + t * T!TileK + TileCol(p, i, n))
    BY <1>1, LoadIsA
  <2>3. At2(p, i, n)[1] = TileRow(p, i, n) /\ At2(p, i, n)[2] = TileCol(p, i, n)
    BY DEF At2
  <2> QED
    BY <2>1, <2>2, <2>3 DEF ValueA
<1>4. ASSUME NEW n \in 0 .. q.loads - 1
      PROVE  /\ At2(q, i, n) \in PartOf(q, i)
             /\ LoadT(i, t, q, n).to = CellT(q, t, At2(q, i, n))
             /\ (IF LoadT(i, t, q, n).inRange THEN FromB(LoadT(i, t, q, n).address) ELSE Zero)
                  = ValueB(t, At2(q, i, n))
  <2>1. At2(q, i, n) \in PartOf(q, i)
    BY DEF At2, PartOf
  <2>2. /\ LoadT(i, t, q, n).to = CellT(q, t, At2(q, i, n))
        /\ LoadT(i, t, q, n).inRange <=> IsInB(t, At2(q, i, n))
        /\ LoadT(i, t, q, n).address
             = T!AddressB(KOff + t * T!TileK + TileCol(q, i, n), NOff + TileRow(q, i, n))
    BY <1>1, LoadIsB
  <2>3. At2(q, i, n)[1] = TileRow(q, i, n) /\ At2(q, i, n)[2] = TileCol(q, i, n)
    BY DEF At2
  <2> QED
    BY <2>1, <2>2, <2>3 DEF ValueB
<1>5. /\ \A e \in PartOf(p, i) : \E n \in 0 .. p.loads - 1 : e = At2(p, i, n)
      /\ \A e \in PartOf(q, i) : \E n \in 0 .. q.loads - 1 : e = At2(q, i, n)
  BY DEF At2, PartOf
<1>6. /\ \A x \in T!Loads(i, t, p) :
            \E e \in PartOf(p, i) :
               /\ x.to = CellT(p, t, e)
               /\ (IF x.inRange THEN FromA(x.address) ELSE Zero) = ValueA(t, e)
      /\ \A e \in PartOf(p, i) : \E x \in T!Loads(i, t, p) : x.to = CellT(p, t, e)
  BY <1>2, <1>3, <1>5
<1>7. /\ \A x \in T!Loads(i, t, q) :
            \E e \in PartOf(q, i) :
               /\ x.to = CellT(q, t, e)
               /\ (IF x.inRange THEN FromB(x.address) ELSE Zero) = ValueB(t, e)
      /\ \A e \in PartOf(q, i) : \E x \in T!Loads(i, t, q) : x.to = CellT(q, t, e)
  BY <1>2, <1>4, <1>5
<1> QED
  BY <1>1, <1>6, <1>7

\* Item i's part of tile t is in the memory f.
HasTile(f, i, t) ==
    /\ \A e \in PartOf(T!LhsBlock, i) : f[CellT(T!LhsBlock, t, e)] = ValueA(t, e)
    /\ \A e \in PartOf(T!RhsBlock, i) : f[CellT(T!RhsBlock, t, e)] = ValueB(t, e)

CellsOfT(i, t) ==
    {CellT(T!LhsBlock, t, e) : e \in PartOf(T!LhsBlock, i)}
      \cup {CellT(T!RhsBlock, t, e) : e \in PartOf(T!RhsBlock, i)}

\* What the proofs need of the two blocks.
LEMMA BlocksOfT ==
    ASSUME TallLaunch, NEW i \in T!Item
    PROVE  /\ launch \in TallSkinnyLaunches
           /\ SharedOut(T!LhsBlock) /\ SharedOut(T!RhsBlock)
           /\ PartOf(T!LhsBlock, i) \subseteq Tile(T!LhsBlock)
           /\ PartOf(T!RhsBlock, i) \subseteq Tile(T!RhsBlock)
           /\ \E e \in Tile(T!LhsBlock), f \in Tile(T!RhsBlock) : TRUE
<1>1. /\ launch \in TallSkinnyLaunches
      /\ SharedOut(T!LhsBlock) /\ SharedOut(T!RhsBlock)
  BY TallBlocks DEF TallLaunch
<1>2. /\ PartOf(T!LhsBlock, i) \subseteq Tile(T!LhsBlock)
      /\ PartOf(T!RhsBlock, i) \subseteq Tile(T!RhsBlock)
  BY <1>1, TileParts
<1>3. <<0, 0>> \in Tile(T!LhsBlock) /\ <<0, 0>> \in Tile(T!RhsBlock)
  <2>1. /\ RowsOf(T!LhsBlock) \in Nat \ {0} /\ RowsOf(T!RhsBlock) \in Nat \ {0}
        /\ T!TileK \in Nat \ {0}
    BY <1>1, SharedTypes
  <2> QED
    BY <2>1 DEF Tile
<1> QED
  BY <1>1, <1>2, <1>3

\* extract_input_blocks copies the item's part of a tile and nothing else.
LEMMA ExtractsTile ==
    ASSUME TallLaunch, NEW i \in T!Item, NEW t \in Nat, T!Extract(i, t),
           DOMAIN scratch = 0 .. T!LocalMemorySize - 1
    PROVE  /\ DOMAIN scratch' = DOMAIN scratch
           /\ HasTile(scratch', i, t)
           /\ \A a \in DOMAIN scratch : a \notin CellsOfT(i, t) => scratch'[a] = scratch[a]
<1> DEFINE f == T!Copies(T!Loads(i, t, T!LhsBlock), T!FromA)
           g == T!Copies(T!Loads(i, t, T!RhsBlock), T!FromB)
<1>1. scratch' = T!Over(f, T!Over(g, scratch))
  BY DEF T!Extract
<1>2. /\ launch \in TallSkinnyLaunches
      /\ SharedOut(T!LhsBlock) /\ SharedOut(T!RhsBlock)
      /\ PartOf(T!LhsBlock, i) \subseteq Tile(T!LhsBlock)
      /\ PartOf(T!RhsBlock, i) \subseteq Tile(T!RhsBlock)
  BY BlocksOfT
<1>3. /\ DOMAIN f = {CellT(T!LhsBlock, t, e) : e \in PartOf(T!LhsBlock, i)}
      /\ \A e \in PartOf(T!LhsBlock, i) : f[CellT(T!LhsBlock, t, e)] = ValueA(t, e)
  <2>1. DOMAIN f = {x.to : x \in T!Loads(i, t, T!LhsBlock)}
    BY DEF T!Copies
  <2>2. {x.to : x \in T!Loads(i, t, T!LhsBlock)}
          = {CellT(T!LhsBlock, t, e) : e \in PartOf(T!LhsBlock, i)}
    <3>1. \A x \in T!Loads(i, t, T!LhsBlock) :
              \E e \in PartOf(T!LhsBlock, i) : x.to = CellT(T!LhsBlock, t, e)
      BY TileLoads
    <3>2. \A e \in PartOf(T!LhsBlock, i) :
              \E x \in T!Loads(i, t, T!LhsBlock) : x.to = CellT(T!LhsBlock, t, e)
      BY TileLoads
    <3> QED
      BY <3>1, <3>2
  <2>3. ASSUME NEW e \in PartOf(T!LhsBlock, i)
        PROVE  f[CellT(T!LhsBlock, t, e)] = ValueA(t, e)
    <3> DEFINE load == CHOOSE x \in T!Loads(i, t, T!LhsBlock) : x.to = CellT(T!LhsBlock, t, e)
    <3>1. f[CellT(T!LhsBlock, t, e)] = IF load.inRange THEN T!FromA(load.address) ELSE T!Zero
      BY <2>2 DEF T!Copies
    <3>2. load \in T!Loads(i, t, T!LhsBlock) /\ load.to = CellT(T!LhsBlock, t, e)
      <4>1. \E x \in T!Loads(i, t, T!LhsBlock) : x.to = CellT(T!LhsBlock, t, e)
        BY TileLoads
      <4> QED
        BY <4>1
    <3> HIDE DEF load
    <3>3. PICK e2 \in PartOf(T!LhsBlock, i) :
              /\ load.to = CellT(T!LhsBlock, t, e2)
              /\ (IF load.inRange THEN FromA(load.address) ELSE Zero) = ValueA(t, e2)
      BY <3>2, TileLoads
    <3>4. e2 = e
      BY <1>2, <3>2, <3>3, CellsOfTile
    <3> QED
      BY <3>1, <3>3, <3>4 DEF T!FromA, FromA, T!Zero, Zero
  <2> QED
    BY <2>1, <2>2, <2>3
<1>4. /\ DOMAIN g = {CellT(T!RhsBlock, t, e) : e \in PartOf(T!RhsBlock, i)}
      /\ \A e \in PartOf(T!RhsBlock, i) : g[CellT(T!RhsBlock, t, e)] = ValueB(t, e)
  <2>1. DOMAIN g = {x.to : x \in T!Loads(i, t, T!RhsBlock)}
    BY DEF T!Copies
  <2>2. {x.to : x \in T!Loads(i, t, T!RhsBlock)}
          = {CellT(T!RhsBlock, t, e) : e \in PartOf(T!RhsBlock, i)}
    <3>1. \A x \in T!Loads(i, t, T!RhsBlock) :
              \E e \in PartOf(T!RhsBlock, i) : x.to = CellT(T!RhsBlock, t, e)
      BY TileLoads
    <3>2. \A e \in PartOf(T!RhsBlock, i) :
              \E x \in T!Loads(i, t, T!RhsBlock) : x.to = CellT(T!RhsBlock, t, e)
      BY TileLoads
    <3> QED
      BY <3>1, <3>2
  <2>3. ASSUME NEW e \in PartOf(T!RhsBlock, i)
        PROVE  g[CellT(T!RhsBlock, t, e)] = ValueB(t, e)
    <3> DEFINE load == CHOOSE x \in T!Loads(i, t, T!RhsBlock) : x.to = CellT(T!RhsBlock, t, e)
    <3>1. g[CellT(T!RhsBlock, t, e)] = IF load.inRange THEN T!FromB(load.address) ELSE T!Zero
      BY <2>2 DEF T!Copies
    <3>2. load \in T!Loads(i, t, T!RhsBlock) /\ load.to = CellT(T!RhsBlock, t, e)
      <4>1. \E x \in T!Loads(i, t, T!RhsBlock) : x.to = CellT(T!RhsBlock, t, e)
        BY TileLoads
      <4> QED
        BY <4>1
    <3> HIDE DEF load
    <3>3. PICK e2 \in PartOf(T!RhsBlock, i) :
              /\ load.to = CellT(T!RhsBlock, t, e2)
              /\ (IF load.inRange THEN FromB(load.address) ELSE Zero) = ValueB(t, e2)
      BY <3>2, TileLoads
    <3>4. e2 = e
      BY <1>2, <3>2, <3>3, CellsOfTile
    <3> QED
      BY <3>1, <3>3, <3>4 DEF T!FromB, FromB, T!Zero, Zero
  <2> QED
    BY <2>1, <2>2, <2>3
<1> HIDE DEF f, g
<1>5. /\ DOMAIN scratch' = DOMAIN f \cup (DOMAIN g \cup DOMAIN scratch)
      /\ \A a \in DOMAIN f : scratch'[a] = f[a]
      /\ \A a \in DOMAIN g : a \notin DOMAIN f => scratch'[a] = g[a]
      /\ \A a \in DOMAIN scratch : a \notin DOMAIN f \cup DOMAIN g => scratch'[a] = scratch[a]
  BY <1>1 DEF T!Over
<1>6. \A e \in Tile(T!LhsBlock), e2 \in Tile(T!RhsBlock) :
          /\ CellT(T!LhsBlock, t, e) # CellT(T!RhsBlock, t, e2)
          /\ CellT(T!LhsBlock, t, e) \in DOMAIN scratch
          /\ CellT(T!RhsBlock, t, e2) \in DOMAIN scratch
  BY <1>2, CellsOfTiles
<1>7. DOMAIN f \subseteq DOMAIN scratch /\ DOMAIN g \subseteq DOMAIN scratch
  <2>1. \E e \in Tile(T!LhsBlock), e2 \in Tile(T!RhsBlock) : TRUE
    BY BlocksOfT
  <2> QED
    BY <1>2, <1>3, <1>4, <1>6, <2>1
<1>8. HasTile(scratch', i, t)
  <2>1. \A e \in PartOf(T!LhsBlock, i) : scratch'[CellT(T!LhsBlock, t, e)] = ValueA(t, e)
    BY <1>3, <1>5
  <2>2. \A e \in PartOf(T!RhsBlock, i) : /\ CellT(T!RhsBlock, t, e) \in DOMAIN g
                                         /\ CellT(T!RhsBlock, t, e) \notin DOMAIN f
    BY <1>2, <1>3, <1>4, <1>6
  <2>3. \A e \in PartOf(T!RhsBlock, i) : scratch'[CellT(T!RhsBlock, t, e)] = ValueB(t, e)
    BY <1>4, <1>5, <2>2
  <2> QED
    BY <2>1, <2>3 DEF HasTile
<1>9. DOMAIN f \cup DOMAIN g = CellsOfT(i, t)
  BY <1>3, <1>4 DEF CellsOfT
<1>10. DOMAIN scratch' = DOMAIN scratch
  BY <1>5, <1>7
<1>11. \A a \in DOMAIN scratch : a \notin CellsOfT(i, t) => scratch'[a] = scratch[a]
  BY <1>5, <1>9
<1> QED
  BY <1>8, <1>10, <1>11

\* So the parts of other items, and those in the other buffer, stay.
LEMMA TilesStay ==
    ASSUME TallLaunch, NEW i \in T!Item, NEW u \in T!Item, NEW t \in Nat, NEW r \in Nat,
           i # u \/ BufferOfTile(t) # BufferOfTile(r),
           NEW f, NEW g, DOMAIN f = 0 .. T!LocalMemorySize - 1,
           \A a \in DOMAIN f : a \notin CellsOfT(i, t) => g[a] = f[a],
           HasTile(f, u, r)
    PROVE  HasTile(g, u, r)
<1>1. /\ launch \in TallSkinnyLaunches
      /\ SharedOut(T!LhsBlock) /\ SharedOut(T!RhsBlock)
      /\ PartOf(T!LhsBlock, i) \subseteq Tile(T!LhsBlock)
      /\ PartOf(T!RhsBlock, i) \subseteq Tile(T!RhsBlock)
      /\ PartOf(T!LhsBlock, u) \subseteq Tile(T!LhsBlock)
      /\ PartOf(T!RhsBlock, u) \subseteq Tile(T!RhsBlock)
  BY BlocksOfT
<1>2. i # u => /\ PartOf(T!LhsBlock, i) \cap PartOf(T!LhsBlock, u) = {}
               /\ PartOf(T!RhsBlock, i) \cap PartOf(T!RhsBlock, u) = {}
  BY <1>1, TileParts
<1>3. PICK e0 \in Tile(T!LhsBlock), f0 \in Tile(T!RhsBlock) : TRUE
  BY BlocksOfT
<1>4. ASSUME NEW p \in {T!LhsBlock, T!RhsBlock}, BufferOfTile(t) = BufferOfTile(r), NEW e
      PROVE  CellT(p, t, e) = CellT(p, r, e)
  BY <1>4 DEF CellT
<1>5. ASSUME NEW e \in PartOf(T!LhsBlock, u)
      PROVE  g[CellT(T!LhsBlock, r, e)] = f[CellT(T!LhsBlock, r, e)]
  <2>1. CellT(T!LhsBlock, r, e) \in DOMAIN f
    BY <1>1, <1>3, CellsOfTiles
  <2>2. ASSUME NEW e2 \in PartOf(T!LhsBlock, i)
        PROVE  CellT(T!LhsBlock, t, e2) # CellT(T!LhsBlock, r, e)
    <3>1. CASE BufferOfTile(t) # BufferOfTile(r)
      BY <1>1, <3>1, CellsOfTiles
    <3>2. CASE BufferOfTile(t) = BufferOfTile(r)
      <4>1. e # e2
        BY <1>2, <3>2
      <4>2. CellT(T!LhsBlock, t, e2) # CellT(T!LhsBlock, t, e)
        BY <1>1, <4>1, CellsOfTile
      <4> QED
        BY <1>4, <3>2, <4>2
    <3> QED
      BY <3>1, <3>2
  <2>3. ASSUME NEW e2 \in PartOf(T!RhsBlock, i)
        PROVE  CellT(T!RhsBlock, t, e2) # CellT(T!LhsBlock, r, e)
    BY <1>1, CellsOfTiles
  <2> QED
    BY <2>1, <2>2, <2>3 DEF CellsOfT
<1>6. ASSUME NEW e \in PartOf(T!RhsBlock, u)
      PROVE  g[CellT(T!RhsBlock, r, e)] = f[CellT(T!RhsBlock, r, e)]
  <2>1. CellT(T!RhsBlock, r, e) \in DOMAIN f
    BY <1>1, <1>3, CellsOfTiles
  <2>2. ASSUME NEW e2 \in PartOf(T!RhsBlock, i)
        PROVE  CellT(T!RhsBlock, t, e2) # CellT(T!RhsBlock, r, e)
    <3>1. CASE BufferOfTile(t) # BufferOfTile(r)
      BY <1>1, <3>1, CellsOfTiles
    <3>2. CASE BufferOfTile(t) = BufferOfTile(r)
      <4>1. e # e2
        BY <1>2, <3>2
      <4>2. CellT(T!RhsBlock, t, e2) # CellT(T!RhsBlock, t, e)
        BY <1>1, <4>1, CellsOfTile
      <4> QED
        BY <1>4, <3>2, <4>2
    <3> QED
      BY <3>1, <3>2
  <2>3. ASSUME NEW e2 \in PartOf(T!LhsBlock, i)
        PROVE  CellT(T!LhsBlock, t, e2) # CellT(T!RhsBlock, r, e)
    BY <1>1, CellsOfTiles
  <2> QED
    BY <2>1, <2>2, <2>3 DEF CellsOfT
<1> QED
  BY <1>5, <1>6 DEF HasTile

-------------------------------------------------------------------------------
\* The copies of an item that loads are in bounds.
LEMMA TallBounds ==
    ASSUME TallLaunch, DOMAIN scratch = 0 .. T!LocalMemorySize - 1
    PROVE  T!LoadsInBounds
<1> SUFFICES ASSUME NEW i \in T!Item, NEW t \in 0 .. T!NumTiles - 1
             PROVE  /\ \A x \in T!Loads(i, t, T!LhsBlock) \cup T!Loads(i, t, T!RhsBlock) :
                          x.to \in DOMAIN scratch
                    /\ \A x \in T!Loads(i, t, T!LhsBlock) : x.inRange =>
                          \E row \in 0 .. launch.m - 1, l \in 0 .. launch.k - 1 :
                             x.address = T!AddressA(row, l)
                    /\ \A x \in T!Loads(i, t, T!RhsBlock) : x.inRange =>
                          \E l \in 0 .. launch.k - 1, col \in 0 .. launch.n - 1 :
                             x.address = T!AddressB(l, col)
  BY DEF T!LoadsInBounds
<1>0. launch \in TallSkinnyLaunches
  BY DEF TallLaunch
<1>1. /\ MOff \in Nat /\ NOff \in Nat /\ KOff \in Nat /\ T!NumTiles \in Nat
      /\ launch.m \in Nat /\ launch.n \in Nat /\ launch.k \in Nat
  BY TallPlace
<1>2. t \in Nat
  OBVIOUS
<1>3. /\ SharedOut(T!LhsBlock) /\ SharedOut(T!RhsBlock) /\ T!TileK \in Nat
      /\ RowsOf(T!LhsBlock) \in Nat /\ RowsOf(T!RhsBlock) \in Nat
      /\ PartOf(T!LhsBlock, i) \subseteq Tile(T!LhsBlock)
      /\ PartOf(T!RhsBlock, i) \subseteq Tile(T!RhsBlock)
      /\ \E e \in Tile(T!LhsBlock), f \in Tile(T!RhsBlock) : TRUE
  BY <1>0, BlocksOfT, SharedTypes
<1>4. PICK u \in Nat : u = t * T!TileK
  BY <1>2, <1>3
<1>5. /\ \A e \in Tile(T!LhsBlock) : CellT(T!LhsBlock, t, e) \in DOMAIN scratch
      /\ \A e \in Tile(T!RhsBlock) : CellT(T!RhsBlock, t, e) \in DOMAIN scratch
  BY <1>0, <1>2, <1>3, CellsOfTiles
<1>6. \A x \in T!Loads(i, t, T!LhsBlock) \cup T!Loads(i, t, T!RhsBlock) :
         x.to \in DOMAIN scratch
  <2>1. /\ \A x \in T!Loads(i, t, T!LhsBlock) :
              \E e \in PartOf(T!LhsBlock, i) : x.to = CellT(T!LhsBlock, t, e)
        /\ \A x \in T!Loads(i, t, T!RhsBlock) :
              \E e \in PartOf(T!RhsBlock, i) : x.to = CellT(T!RhsBlock, t, e)
    BY <1>2, TileLoads
  <2> QED
    BY <1>3, <1>5, <2>1
<1>7. ASSUME NEW x \in T!Loads(i, t, T!LhsBlock), x.inRange
      PROVE  \E row \in 0 .. launch.m - 1, l \in 0 .. launch.k - 1 :
                x.address = T!AddressA(row, l)
  <2>1. PICK n \in 0 .. T!LhsBlock.loads - 1 : x = LoadT(i, t, T!LhsBlock, n)
    BY <1>7, LoadsAreT
  <2>2. PICK e : e = At2(T!LhsBlock, i, n)
    OBVIOUS
  <2>3. e \in Tile(T!LhsBlock)
    BY <1>3, <2>2 DEF At2, PartOf
  <2>4. e[1] \in Nat /\ e[2] \in Nat
    BY <1>3, <2>3 DEF Tile
  <2>5. /\ LoadT(i, t, T!LhsBlock, n).inRange <=> IsInA(t, At2(T!LhsBlock, i, n))
        /\ LoadT(i, t, T!LhsBlock, n).address
             = T!AddressA(MOff + TileRow(T!LhsBlock, i, n),
                          KOff + t * T!TileK + TileCol(T!LhsBlock, i, n))
    BY <1>2, LoadIsA
  <2>6. e[1] = TileRow(T!LhsBlock, i, n) /\ e[2] = TileCol(T!LhsBlock, i, n)
    BY <2>2 DEF At2
  <2>7. /\ MOff + e[1] < launch.m /\ KOff + u + e[2] < launch.k
        /\ x.address = T!AddressA(MOff + e[1], KOff + u + e[2])
    BY <1>4, <1>7, <2>1, <2>2, <2>5, <2>6 DEF IsInA
  <2>8. PICK y \in Nat, z \in Nat : y = e[1] /\ z = e[2]
    BY <2>4
  <2>9. MOff + y < launch.m /\ KOff + u + z < launch.k
    BY <2>7, <2>8
  <2>10. MOff + y \in 0 .. launch.m - 1 /\ KOff + u + z \in 0 .. launch.k - 1
    BY <1>1, <2>9
  <2> QED
    BY <2>7, <2>8, <2>10
<1>8. ASSUME NEW x \in T!Loads(i, t, T!RhsBlock), x.inRange
      PROVE  \E l \in 0 .. launch.k - 1, col \in 0 .. launch.n - 1 :
                x.address = T!AddressB(l, col)
  <2>1. PICK n \in 0 .. T!RhsBlock.loads - 1 : x = LoadT(i, t, T!RhsBlock, n)
    BY <1>8, LoadsAreT
  <2>2. PICK e : e = At2(T!RhsBlock, i, n)
    OBVIOUS
  <2>3. e \in Tile(T!RhsBlock)
    BY <1>3, <2>2 DEF At2, PartOf
  <2>4. e[1] \in Nat /\ e[2] \in Nat
    BY <1>3, <2>3 DEF Tile
  <2>5. /\ NOff + e[1] < launch.n /\ KOff + u + e[2] < launch.k
        /\ x.address = T!AddressB(KOff + u + e[2], NOff + e[1])
    BY <1>2, <1>4, <1>8, <2>1, <2>2, LoadIsB DEF IsInB, At2
  <2> QED
    BY <1>1, <2>4, <2>5
<1> QED
  BY <1>6, <1>7, <1>8

-------------------------------------------------------------------------------
(***************************************************************************)
(* GemmPartialLocal: tiles and barriers                                    *)
(***************************************************************************)

\* An item has reached as many barriers as the tiles it has done say, and loads
\* and multiplies tiles of the group only.
TallLoops ==
    /\ TallInv /\ TallLaunch
    /\ \A i \in T!Item :
          /\ barriers[i] = TallPhase[i]
          /\ pc[i] \in {"load", "compute"} => tile[i] < T!NumTiles
          /\ pc[i] \in {"store", "done"} => tile[i] = T!NumTiles
          /\ waiting[i] => pc[i] = "load" \/ (pc[i] = "compute" /\ ~launch.doubleBuffer)

LEMMA TallLoopsStart == T!Init => TallLoops
<1> SUFFICES ASSUME T!Init PROVE TallLoops
  OBVIOUS
<1>1. TallInv
  BY TallStart
<1>2. TallLaunch
  BY DEF T!Init, TallLaunch
<1>3. \A i \in T!Item : pc[i] = "start" /\ barriers[i] = 0 /\ waiting[i] = FALSE
  BY DEF T!Init
<1> QED
  BY <1>1, <1>2, <1>3 DEF TallLoops, TallPhase

LEMMA TallLoopsStep ==
    ASSUME TallLoops, NEW j \in T!Item, T!Step(j)
    PROVE  /\ TallLoops' /\ launch' = launch
           /\ TallPhase' = [TallPhase EXCEPT ![j] = TallPhase'[j]]
           /\ \A u \in T!Item \ {j} : /\ pc'[u] = pc[u] /\ tile'[u] = tile[u]
                                      /\ barriers'[u] = barriers[u]
                                      /\ waiting'[u] = waiting[u]
<1>0. TallInv /\ TallLaunch /\ launch \in TallSkinnyLaunches
  BY DEF TallLoops, TallLaunch
<1>1. TallInv'
  BY <1>0, TallStep
<1>2. launch' = launch /\ T!Item' = T!Item /\ T!NumTiles' = T!NumTiles /\ TallLaunch'
  BY <1>0 DEF T!Step, T!Start, T!LoadNext, T!Compute, T!Store, T!Item, T!WgSize, TallLaunch,
     T!NumTiles, T!TileK, T!Groups, T!GroupCountM, T!GroupCountN, T!TileM, T!TileN
<1>3. /\ pc \in [T!Item -> {"start", "load", "compute", "store", "done"}]
      /\ tile \in [T!Item -> Nat] /\ barriers \in [T!Item -> Nat]
      /\ waiting \in [T!Item -> BOOLEAN]
  BY <1>0 DEF TallInv, InStep
<1>4. T!NumTiles \in Nat \ {0}
  BY <1>0, TallPlace
<1>5. \A u \in T!Item : /\ barriers[u] = TallPhase[u]
                        /\ pc[u] \in {"load", "compute"} => tile[u] < T!NumTiles
                        /\ pc[u] \in {"store", "done"} => tile[u] = T!NumTiles
                        /\ waiting[u] => \/ pc[u] = "load"
                                         \/ pc[u] = "compute" /\ ~launch.doubleBuffer
  BY DEF TallLoops
<1>6. pc[j] = "start" => tile[j] = 0
  BY <1>0 DEF TallInv
<1>7. /\ \A u \in T!Item \ {j} : /\ pc'[u] = pc[u] /\ tile'[u] = tile[u]
                                 /\ barriers'[u] = barriers[u] /\ waiting'[u] = waiting[u]
      /\ barriers'[j] = TallPhase'[j]
      /\ pc'[j] \in {"load", "compute"} => tile'[j] < T!NumTiles
      /\ pc'[j] \in {"store", "done"} => tile'[j] = T!NumTiles
      /\ waiting'[j] => pc'[j] = "load" \/ (pc'[j] = "compute" /\ ~launch.doubleBuffer)
  <2>1. CASE T!Start(j)
    <3>1. /\ pc[j] = "start" /\ pc' = [pc EXCEPT ![j] = "load"] /\ tile' = tile
          /\ waiting' = [waiting EXCEPT ![j] = TRUE]
          /\ barriers' = [barriers EXCEPT ![j] = barriers[j] + 1]
      BY <2>1 DEF T!Start, T!At, T!BarrierThen
    <3>2. TallPhase[j] = 0 /\ TallPhase'[j] = 1
      BY <1>2, <1>3, <1>6, <3>1 DEF TallPhase
    <3> QED
      BY <1>2, <1>3, <1>4, <1>5, <1>6, <3>1, <3>2
  <2>2. CASE T!LoadNext(j) /\ launch.doubleBuffer
    <3>1. /\ pc[j] = "load" /\ pc' = [pc EXCEPT ![j] = "compute"] /\ tile' = tile
          /\ waiting' = [waiting EXCEPT ![j] = FALSE] /\ barriers' = barriers
      BY <2>2 DEF T!LoadNext, T!At, T!Goto
    <3>2. TallPhase[j] = tile[j] + 1 /\ TallPhase'[j] = tile[j] + 1
      BY <1>2, <1>3, <2>2, <3>1 DEF TallPhase
    <3> QED
      BY <1>2, <1>3, <1>4, <1>5, <3>1, <3>2
  <2>3. CASE T!LoadNext(j) /\ ~launch.doubleBuffer
    <3>1. /\ pc[j] = "load" /\ pc' = [pc EXCEPT ![j] = "compute"] /\ tile' = tile
          /\ waiting' = [waiting EXCEPT ![j] = TRUE]
          /\ barriers' = [barriers EXCEPT ![j] = barriers[j] + 1]
      BY <2>3 DEF T!LoadNext, T!At, T!BarrierThen
    <3>2. TallPhase[j] = 2 * tile[j] + 1 /\ TallPhase'[j] = 2 * tile[j] + 2
      BY <1>2, <1>3, <2>3, <3>1 DEF TallPhase
    <3> QED
      BY <1>2, <1>3, <1>4, <1>5, <2>3, <3>1, <3>2
  <2>4. CASE T!Compute(j) /\ tile[j] + 1 < T!NumTiles
    <3>1. /\ pc[j] = "compute" /\ pc' = [pc EXCEPT ![j] = "load"]
          /\ tile' = [tile EXCEPT ![j] = tile[j] + 1]
          /\ waiting' = [waiting EXCEPT ![j] = TRUE]
          /\ barriers' = [barriers EXCEPT ![j] = barriers[j] + 1]
      BY <2>4 DEF T!Compute, T!At, T!BarrierThen
    <3>2. TallPhase'[j] = TallPhase[j] + 1
      BY <1>2, <1>3, <3>1 DEF TallPhase
    <3> QED
      BY <1>2, <1>3, <1>4, <1>5, <2>4, <3>1, <3>2
  <2>5. CASE T!Compute(j) /\ ~(tile[j] + 1 < T!NumTiles)
    <3>1. /\ pc[j] = "compute" /\ pc' = [pc EXCEPT ![j] = "store"]
          /\ tile' = [tile EXCEPT ![j] = tile[j] + 1]
          /\ waiting' = [waiting EXCEPT ![j] = FALSE] /\ barriers' = barriers
      BY <2>5 DEF T!Compute, T!At, T!Goto
    <3>2. TallPhase'[j] = TallPhase[j]
      BY <1>2, <1>3, <3>1 DEF TallPhase
    <3> QED
      BY <1>2, <1>3, <1>4, <1>5, <2>5, <3>1, <3>2
  <2>6. CASE T!Store(j)
    <3>1. /\ pc[j] = "store" /\ pc' = [pc EXCEPT ![j] = "done"] /\ tile' = tile
          /\ waiting' = [waiting EXCEPT ![j] = FALSE] /\ barriers' = barriers
      BY <2>6 DEF T!Store, T!At, T!Goto
    <3>2. TallPhase'[j] = TallPhase[j]
      BY <1>2, <1>3, <3>1 DEF TallPhase
    <3> QED
      BY <1>2, <1>3, <1>4, <1>5, <3>1, <3>2
  <2> QED
    BY <2>1, <2>2, <2>3, <2>4, <2>5, <2>6 DEF T!Step
<1>8. \A u \in T!Item \ {j} : TallPhase'[u] = TallPhase[u]
  BY <1>2, <1>7 DEF TallPhase
<1>9. TallPhase' = [TallPhase EXCEPT ![j] = TallPhase'[j]]
  <2>1. /\ TallPhase = [u \in T!Item |-> TallPhase[u]]
        /\ TallPhase' = [u \in T!Item |-> TallPhase'[u]]
    BY <1>2 DEF TallPhase
  <2> QED
    BY <1>8, <2>1
<1>10. \A u \in T!Item : /\ barriers'[u] = TallPhase'[u]
                         /\ pc'[u] \in {"load", "compute"} => tile'[u] < T!NumTiles
                         /\ pc'[u] \in {"store", "done"} => tile'[u] = T!NumTiles
                         /\ waiting'[u] => \/ pc'[u] = "load"
                                           \/ pc'[u] = "compute" /\ ~launch.doubleBuffer
  BY <1>5, <1>7, <1>8
<1>11. TallLoops'
  BY <1>1, <1>2, <1>10 DEF TallLoops
<1> QED
  BY <1>2, <1>7, <1>9, <1>11

-------------------------------------------------------------------------------
(***************************************************************************)
(* GemmPartialLocal: what is in local memory                               *)
(***************************************************************************)

\* The items that have the tile they are at still to multiply, and all of it
\* copied by those that have reached as many barriers.
Needs(i) == pc[i] = "compute" \/ (pc[i] = "load" /\ launch.doubleBuffer)

TilesCopied ==
    \A i, u \in T!Item :
        Needs(i) /\ barriers[i] <= barriers[u] => HasTile(scratch, u, tile[i])

\* With two buffers an item that multiplies a tile has copied its part of the next.
TilesAhead ==
    \A i \in T!Item :
        pc[i] = "compute" /\ launch.doubleBuffer /\ tile[i] + 1 < T!NumTiles =>
            HasTile(scratch, i, tile[i] + 1)

TileMemory ==
    /\ DOMAIN scratch = 0 .. T!LocalMemorySize - 1
    /\ TilesCopied /\ TilesAhead

\* Where an item is, from the barriers it has reached.
TallAt(i) ==
    /\ tile[i] \in Nat /\ barriers[i] \in Nat
    /\ pc[i] \in {"start", "load", "compute", "store", "done"}
    /\ pc[i] = "start" => tile[i] = 0 /\ barriers[i] = 0
    /\ Needs(i) /\ launch.doubleBuffer => barriers[i] = tile[i] + 1
    /\ Needs(i) /\ ~launch.doubleBuffer => barriers[i] = 2 * tile[i] + 2
    /\ pc[i] = "load" /\ ~launch.doubleBuffer => barriers[i] = 2 * tile[i] + 1
    /\ waiting[i] => pc[i] = "load" \/ (pc[i] = "compute" /\ ~launch.doubleBuffer)

\* Item u is at most at the barrier that ends the phase of the free item j.
Close(j, u) ==
    /\ barriers[j] <= barriers[u] /\ barriers[u] <= barriers[j] + 1
    /\ barriers[u] = barriers[j] + 1 => waiting[u]

LEMMA TallIsAt ==
    ASSUME TallLoops, NEW i \in T!Item
    PROVE  TallAt(i)
<1>1. /\ pc \in [T!Item -> {"start", "load", "compute", "store", "done"}]
      /\ tile \in [T!Item -> Nat] /\ barriers \in [T!Item -> Nat]
      /\ pc[i] = "start" => tile[i] = 0
  BY DEF TallLoops, TallInv, InStep
<1>2. /\ barriers[i] = TallPhase[i]
      /\ waiting[i] => pc[i] = "load" \/ (pc[i] = "compute" /\ ~launch.doubleBuffer)
  BY DEF TallLoops
<1> QED
  BY <1>1, <1>2 DEF TallAt, TallPhase, Needs

LEMMA TallClose ==
    ASSUME TallLoops, NEW j \in T!Item, T!Runs(j), NEW u \in T!Item
    PROVE  Close(j, u)
<1>1. InStep(T!Item, barriers, waiting, TallPhase, TallNext)
  BY DEF TallLoops, TallInv
<1>2. /\ barriers[j] \in Nat /\ barriers[u] \in Nat
      /\ Passed(barriers, waiting, j) <= barriers[u]
      /\ Passed(barriers, waiting, u) <= barriers[j]
  BY <1>1 DEF InStep
<1>3. waiting[j] => barriers[u] >= barriers[j]
  BY DEF T!Runs
<1> QED
  BY <1>2, <1>3 DEF Passed, Close

\* What belongs where does not change.
LEMMA TilesSame ==
    ASSUME TallLaunch, launch' = launch
    PROVE  /\ T!Item' = T!Item /\ T!NumTiles' = T!NumTiles
           /\ T!LocalMemorySize' = T!LocalMemorySize
           /\ T!LhsBlock' = T!LhsBlock /\ T!RhsBlock' = T!RhsBlock
           /\ \A i, t : HasTile(scratch, i, t)' <=> HasTile(scratch', i, t)
<1>1. /\ T!Item' = T!Item /\ T!NumTiles' = T!NumTiles
      /\ T!LocalMemorySize' = T!LocalMemorySize /\ T!TileK' = T!TileK
  BY DEF T!Item, T!WgSize, T!NumTiles, T!LocalMemorySize, T!LhsTileLd, T!RhsTileLd, T!TileM,
     T!TileN, T!TileK
<1>2. MOff' = MOff /\ NOff' = NOff /\ KOff' = KOff
  BY DEF MOff, NOff, KOff, T!MOffset, T!NOffset, T!KOffset, T!KGroup, T!MnGroup, T!TileM,
     T!TileN, T!TileK, T!NumTiles, T!GroupCountM, T!GroupCountN
<1>3. T!LhsBlock' = T!LhsBlock /\ T!RhsBlock' = T!RhsBlock
  BY <1>2 DEF T!LhsBlock, T!RhsBlock, T!Block, T!TileM, T!TileN, T!TileK, T!LhsTileLd, T!RhsTileLd,
     T!RhsScratchOffset, MOff, NOff, KOff
<1>4. ASSUME NEW t, NEW p, NEW e PROVE CellT(p, t, e)' = CellT(p, t, e)
  BY <1>1 DEF CellT, BufferOfTile
<1>5. ASSUME NEW t, NEW e
      PROVE  ValueA(t, e)' = ValueA(t, e) /\ ValueB(t, e)' = ValueB(t, e)
  BY <1>1, <1>2 DEF ValueA, ValueB, IsInA, IsInB, T!AddressA, T!AddressB
<1>6. ASSUME NEW i, NEW t PROVE HasTile(scratch, i, t)' <=> HasTile(scratch', i, t)
  BY <1>3, <1>4, <1>5 DEF HasTile, PartOf, TileRow, TileCol
<1> QED
  BY <1>1, <1>3, <1>6

\* What a step that may copy tile t leaves in local memory.
Leaves(j, t) ==
    /\ DOMAIN scratch' = DOMAIN scratch
    /\ HasTile(scratch', j, t)
    /\ \A u \in T!Item, r \in Nat :
          /\ u # j \/ BufferOfTile(t) # BufferOfTile(r)
          /\ HasTile(scratch, u, r)
          => HasTile(scratch', u, r)

LEMMA ExtractLeaves ==
    ASSUME TallLaunch, NEW j \in T!Item, NEW t \in Nat, T!Extract(j, t),
           DOMAIN scratch = 0 .. T!LocalMemorySize - 1
    PROVE  Leaves(j, t)
<1>1. /\ DOMAIN scratch' = DOMAIN scratch /\ HasTile(scratch', j, t)
      /\ \A a \in DOMAIN scratch : a \notin CellsOfT(j, t) => scratch'[a] = scratch[a]
  BY ExtractsTile
<1>2. ASSUME NEW u \in T!Item, NEW r \in Nat, u # j \/ BufferOfTile(t) # BufferOfTile(r),
             HasTile(scratch, u, r)
      PROVE  HasTile(scratch', u, r)
  <2>1. PICK f, g : f = scratch /\ g = scratch'
    OBVIOUS
  <2>2. HasTile(g, u, r)
    BY <1>1, <1>2, <2>1, TilesStay
  <2> QED
    BY <2>1, <2>2
<1> QED
  BY <1>1, <1>2 DEF Leaves

LEMMA TileMemoryStart == T!Init => TileMemory
BY DEF T!Init, TileMemory, TilesCopied, TilesAhead, Needs

LEMMA TileMemoryStep ==
    ASSUME TallLoops, TileMemory, NEW j \in T!Item, T!Step(j)
    PROVE  TileMemory'
<1>0. TallLaunch /\ launch \in TallSkinnyLaunches
  BY DEF TallLoops, TallLaunch
<1>1. /\ launch' = launch
      /\ \A u \in T!Item \ {j} : /\ pc'[u] = pc[u] /\ tile'[u] = tile[u]
                                 /\ barriers'[u] = barriers[u]
  BY TallLoopsStep
<1>2. /\ DOMAIN scratch = 0 .. T!LocalMemorySize - 1
      /\ TilesCopied /\ TilesAhead
  BY DEF TileMemory
<1>3. T!Runs(j)
  BY DEF T!Step, T!Start, T!LoadNext, T!Compute, T!Store, T!At
<1>4. \A u \in T!Item : TallAt(u) /\ Close(j, u)
  BY <1>3, TallIsAt, TallClose
<1>5. \A i, u \in T!Item : Needs(i) /\ barriers[i] <= barriers[u] => HasTile(scratch, u, tile[i])
  BY <1>2 DEF TilesCopied
<1>6. \A i \in T!Item : pc[i] = "compute" /\ launch.doubleBuffer /\ tile[i] + 1 < T!NumTiles =>
                           HasTile(scratch, i, tile[i] + 1)
  BY <1>2 DEF TilesAhead
<1>7. /\ T!Item' = T!Item /\ T!NumTiles' = T!NumTiles /\ T!LocalMemorySize' = T!LocalMemorySize
      /\ \A i, t : HasTile(scratch, i, t)' <=> HasTile(scratch', i, t)
  BY <1>0, <1>1, TilesSame
<1>8. T!NumTiles \in Nat \ {0}
  BY <1>0, TallPlace
<1>9. \A u \in T!Item \ {j} : Needs(u)' <=> Needs(u)
  BY <1>1 DEF Needs
<1>10. /\ pc \in [T!Item -> {"start", "load", "compute", "store", "done"}]
       /\ tile \in [T!Item -> Nat] /\ barriers \in [T!Item -> Nat]
  BY DEF TallLoops, TallInv, InStep
<1>11. SUFFICES /\ DOMAIN scratch' = 0 .. T!LocalMemorySize - 1
                /\ \A i \in T!Item \ {j}, u \in T!Item \ {j} :
                      Needs(i) /\ barriers[i] <= barriers[u] => HasTile(scratch', u, tile[i])
                /\ \A i \in T!Item \ {j} :
                      Needs(i) /\ barriers[i] <= barriers'[j] => HasTile(scratch', j, tile[i])
                /\ \A u \in T!Item \ {j} :
                      Needs(j)' /\ barriers'[j] <= barriers[u] => HasTile(scratch', u, tile'[j])
                /\ Needs(j)' => HasTile(scratch', j, tile'[j])
                /\ \A i \in T!Item \ {j} :
                      pc[i] = "compute" /\ launch.doubleBuffer /\ tile[i] + 1 < T!NumTiles =>
                          HasTile(scratch', i, tile[i] + 1)
                /\ pc'[j] = "compute" /\ launch.doubleBuffer /\ tile'[j] + 1 < T!NumTiles =>
                          HasTile(scratch', j, tile'[j] + 1)
  <2> SUFFICES ASSUME /\ DOMAIN scratch' = 0 .. T!LocalMemorySize - 1
                      /\ \A i \in T!Item \ {j}, u \in T!Item \ {j} :
                            Needs(i) /\ barriers[i] <= barriers[u] => HasTile(scratch', u, tile[i])
                      /\ \A i \in T!Item \ {j} :
                            Needs(i) /\ barriers[i] <= barriers'[j] => HasTile(scratch', j, tile[i])
                      /\ \A u \in T!Item \ {j} :
                            Needs(j)' /\ barriers'[j] <= barriers[u] => HasTile(scratch', u, tile'[j])
                      /\ Needs(j)' => HasTile(scratch', j, tile'[j])
                      /\ \A i \in T!Item \ {j} :
                            pc[i] = "compute" /\ launch.doubleBuffer /\ tile[i] + 1 < T!NumTiles =>
                                HasTile(scratch', i, tile[i] + 1)
                      /\ pc'[j] = "compute" /\ launch.doubleBuffer /\ tile'[j] + 1 < T!NumTiles =>
                                HasTile(scratch', j, tile'[j] + 1)
               PROVE  TileMemory'
    OBVIOUS
  <2>1. \A i, u \in T!Item : Needs(i)' /\ barriers'[i] <= barriers'[u] => HasTile(scratch', u, tile'[i])
    BY <1>1, <1>9
  <2>2. \A i \in T!Item : pc'[i] = "compute" /\ launch.doubleBuffer /\ tile'[i] + 1 < T!NumTiles =>
                             HasTile(scratch', i, tile'[i] + 1)
    BY <1>1
  <2>3. TilesCopied'
    BY <1>7, <2>1 DEF TilesCopied
  <2>4. TilesAhead'
    BY <1>1, <1>7, <2>2 DEF TilesAhead
  <2> QED
    BY <1>7, <2>3, <2>4 DEF TileMemory
<1>12. CASE scratch' = scratch /\ pc[j] \in {"compute", "store"}
  <2>1. \A i \in T!Item \ {j} :
           Needs(i) /\ barriers[i] <= barriers'[j] => HasTile(scratch, j, tile[i])
    <3> SUFFICES ASSUME NEW i \in T!Item \ {j}, Needs(i), barriers[i] <= barriers'[j]
                 PROVE  HasTile(scratch, j, tile[i])
      OBVIOUS
    <3>1. TallAt(i) /\ TallAt(j) /\ Close(j, i)
      BY <1>4
    <3>2. CASE barriers[i] <= barriers[j]
      BY <1>5, <3>2
    <3>3. CASE ~(barriers[i] <= barriers[j])
      <4>1. barriers[i] = barriers[j] + 1
        BY <3>1, <3>3 DEF Close, TallAt
      <4>2. CASE T!Compute(j)
        <5>1. pc[j] = "compute"
          BY <4>2 DEF T!Compute, T!At
        <5>2. tile[j] + 1 < T!NumTiles
          <6>1. ~(tile[j] + 1 < T!NumTiles) => barriers' = barriers
            BY <4>2 DEF T!Compute, T!Goto
          <6> QED
            BY <3>3, <6>1
        <5>3. CASE launch.doubleBuffer
          <6>1. tile[i] = tile[j] + 1
            BY <3>1, <4>1, <5>1, <5>3 DEF TallAt, Needs
          <6> QED
            BY <1>6, <5>1, <5>2, <5>3, <6>1
        <5>4. CASE ~launch.doubleBuffer
          BY <3>1, <4>1, <5>1, <5>4 DEF TallAt, Needs
        <5> QED
          BY <5>3, <5>4
      <4>3. CASE ~T!Compute(j)
        <5>1. T!Store(j)
          BY <1>12, <4>3 DEF T!Step, T!Start, T!LoadNext, T!At
        <5> QED
          BY <3>3, <5>1 DEF T!Store, T!Goto
      <4> QED
        BY <4>2, <4>3
    <3> QED
      BY <3>2, <3>3
  <2>2. ASSUME Needs(j)'
        PROVE  /\ HasTile(scratch, j, tile'[j])
               /\ \A u \in T!Item \ {j} :
                     barriers'[j] <= barriers[u] => HasTile(scratch, u, tile'[j])
    <3>1. T!Compute(j) /\ tile[j] + 1 < T!NumTiles /\ launch.doubleBuffer
      <4>1. CASE T!Compute(j)
        <5>1. tile[j] + 1 < T!NumTiles
          BY <1>1, <1>10, <2>2, <4>1 DEF T!Compute, T!Goto, Needs
        <5>2. launch.doubleBuffer
          BY <1>1, <1>10, <2>2, <4>1, <5>1 DEF T!Compute, T!BarrierThen, Needs
        <5> QED
          BY <4>1, <5>1, <5>2
      <4>2. CASE ~T!Compute(j)
        <5>1. T!Store(j)
          BY <1>12, <4>2 DEF T!Step, T!Start, T!LoadNext, T!At
        <5> QED
          BY <1>10, <2>2, <5>1 DEF T!Store, T!Goto, Needs
      <4> QED
        BY <4>1, <4>2
    <3>2. /\ pc[j] = "compute" /\ tile'[j] = tile[j] + 1
          /\ barriers'[j] = barriers[j] + 1
      BY <1>10, <3>1 DEF T!Compute, T!At, T!BarrierThen
    <3>3. HasTile(scratch, j, tile[j] + 1)
      BY <1>6, <3>1, <3>2
    <3>4. ASSUME NEW u \in T!Item \ {j}, barriers'[j] <= barriers[u]
          PROVE  HasTile(scratch, u, tile[j] + 1)
      <4>1. TallAt(u) /\ TallAt(j) /\ Close(j, u)
        BY <1>4
      <4>2. waiting[u] /\ barriers[u] = barriers[j] + 1
        BY <3>2, <3>4, <4>1 DEF TallAt, Close
      <4>3. Needs(u) /\ tile[u] = tile[j] + 1
        BY <3>1, <3>2, <4>1, <4>2 DEF TallAt, Needs
      <4> QED
        BY <1>5, <4>1, <4>3 DEF TallAt
    <3> QED
      BY <3>2, <3>3, <3>4
  <2>3. pc'[j] # "compute"
    BY <1>10, <1>12 DEF T!Step, T!Start, T!LoadNext, T!Compute, T!Store, T!At, T!Goto, T!BarrierThen
  <2> QED
    BY <1>2, <1>5, <1>6, <1>12, <2>1, <2>2, <2>3
<1>13. CASE T!Start(j)
  <2>1. /\ pc[j] = "start" /\ pc'[j] = "load" /\ tile'[j] = tile[j]
        /\ barriers'[j] = barriers[j] + 1
        /\ IF launch.doubleBuffer THEN T!Extract(j, 0) ELSE scratch' = scratch
    BY <1>10, <1>13 DEF T!Start, T!At, T!BarrierThen
  <2>2. tile[j] = 0 /\ barriers[j] = 0
    BY <1>4, <2>1 DEF TallAt
  <2>3. CASE launch.doubleBuffer
    <3>1. Leaves(j, 0)
      BY <1>0, <1>2, <2>1, <2>3, ExtractLeaves
    <3>2. \A i, u \in T!Item : i # j /\ u # j /\ Needs(i) /\ barriers[i] <= barriers[u] =>
                                  HasTile(scratch', u, tile[i])
      BY <1>5, <1>10, <3>1 DEF Leaves
    <3>3. ASSUME NEW i \in T!Item \ {j}, Needs(i), barriers[i] <= barriers'[j]
          PROVE  HasTile(scratch', j, tile[i])
      <4>1. TallAt(i) /\ barriers[i] <= 1
        BY <1>4, <2>1, <2>2, <3>3
      <4>2. tile[i] = 0
        BY <2>3, <3>3, <4>1 DEF TallAt
      <4> QED
        BY <3>1, <4>2 DEF Leaves
    <3>4. ASSUME NEW u \in T!Item \ {j}, barriers'[j] <= barriers[u]
          PROVE  HasTile(scratch', u, 0)
      <4>1. TallAt(u) /\ Close(j, u)
        BY <1>4
      <4>2. waiting[u] /\ barriers[u] = 1
        BY <2>1, <2>2, <3>4, <4>1 DEF Close, TallAt
      <4>3. Needs(u) /\ tile[u] = 0
        BY <2>3, <4>1, <4>2 DEF TallAt, Needs
      <4>4. HasTile(scratch, u, 0)
        BY <1>5, <4>1, <4>3 DEF TallAt
      <4> QED
        BY <3>1, <4>4 DEF Leaves
    <3>5. ASSUME NEW i \in T!Item \ {j}, pc[i] = "compute", tile[i] + 1 < T!NumTiles
          PROVE  HasTile(scratch', i, tile[i] + 1)
      <4>1. HasTile(scratch, i, tile[i] + 1) /\ tile[i] + 1 \in Nat
        BY <1>6, <1>10, <2>3, <3>5
      <4> QED
        BY <3>1, <4>1 DEF Leaves
    <3>6. DOMAIN scratch' = 0 .. T!LocalMemorySize - 1 /\ HasTile(scratch', j, 0)
      BY <1>2, <3>1 DEF Leaves
    <3> QED
      BY <2>1, <2>2, <3>2, <3>3, <3>4, <3>5, <3>6
  <2>4. CASE ~launch.doubleBuffer
    <3>1. ASSUME NEW i \in T!Item \ {j}, Needs(i) PROVE ~(barriers[i] <= barriers'[j])
      <4>1. TallAt(i)
        BY <1>4
      <4> QED
        BY <2>1, <2>2, <2>4, <3>1, <4>1 DEF TallAt
    <3>2. ~Needs(j)'
      BY <1>1, <2>1, <2>4 DEF Needs
    <3> QED
      BY <1>2, <1>5, <1>6, <2>1, <2>4, <3>1, <3>2
  <2> QED
    BY <2>3, <2>4
<1>14. CASE T!LoadNext(j) /\ launch.doubleBuffer
  <2>1. /\ pc[j] = "load" /\ pc'[j] = "compute" /\ tile'[j] = tile[j]
        /\ barriers'[j] = barriers[j]
        /\ IF tile[j] + 1 < T!NumTiles THEN T!Extract(j, tile[j] + 1) ELSE scratch' = scratch
    BY <1>10, <1>14 DEF T!LoadNext, T!At, T!Goto, T!NextTile
  <2>2. TallAt(j) /\ Needs(j)
    BY <1>4, <1>14, <2>1 DEF Needs
  <2>3. CASE tile[j] + 1 < T!NumTiles
    <3>1. Leaves(j, tile[j] + 1)
      <4>1. tile[j] + 1 \in Nat
        BY <1>10
      <4> QED
        BY <1>0, <1>2, <2>1, <2>3, <4>1, ExtractLeaves
    <3>2. \A i, u \in T!Item : u # j /\ Needs(i) /\ barriers[i] <= barriers[u] =>
                                  HasTile(scratch', u, tile[i])
      BY <1>5, <1>10, <3>1 DEF Leaves
    <3>3. HasTile(scratch', j, tile[j])
      <4>1. HasTile(scratch, j, tile[j])
        BY <1>5, <2>2 DEF TallAt
      <4>2. BufferOfTile(tile[j] + 1) # BufferOfTile(tile[j]) /\ tile[j] \in Nat
        BY <1>10, <1>14, TileBuffers
      <4> QED
        BY <3>1, <4>1, <4>2 DEF Leaves
    <3>4. ASSUME NEW i \in T!Item \ {j}, Needs(i), barriers[i] <= barriers[j]
          PROVE  HasTile(scratch', j, tile[i])
      <4>1. TallAt(i) /\ Close(j, i)
        BY <1>4
      <4>2. tile[i] = tile[j]
        BY <1>14, <2>2, <3>4, <4>1 DEF TallAt, Close
      <4> QED
        BY <3>3, <4>2
    <3>5. ASSUME NEW i \in T!Item \ {j}, pc[i] = "compute", tile[i] + 1 < T!NumTiles
          PROVE  HasTile(scratch', i, tile[i] + 1)
      <4>1. HasTile(scratch, i, tile[i] + 1) /\ tile[i] + 1 \in Nat
        BY <1>6, <1>10, <1>14, <3>5
      <4> QED
        BY <3>1, <4>1 DEF Leaves
    <3>6. DOMAIN scratch' = 0 .. T!LocalMemorySize - 1 /\ HasTile(scratch', j, tile[j] + 1)
      BY <1>2, <3>1 DEF Leaves
    <3> QED
      BY <2>1, <2>2, <3>2, <3>3, <3>4, <3>5, <3>6
  <2>4. CASE ~(tile[j] + 1 < T!NumTiles)
    <3>1. HasTile(scratch, j, tile[j])
      BY <1>5, <2>2 DEF TallAt
    <3> QED
      BY <1>2, <1>5, <1>6, <2>1, <2>2, <2>4, <3>1
  <2> QED
    BY <2>3, <2>4
<1>15. CASE T!LoadNext(j) /\ ~launch.doubleBuffer
  <2>1. /\ pc[j] = "load" /\ pc'[j] = "compute" /\ tile'[j] = tile[j]
        /\ barriers'[j] = barriers[j] + 1
        /\ tile[j] < T!NumTiles => T!Extract(j, tile[j])
    BY <1>10, <1>15 DEF T!LoadNext, T!At, T!BarrierThen, T!NextTile
  <2>2. TallAt(j)
    BY <1>4
  <2>3. tile[j] < T!NumTiles
    BY <2>1 DEF TallLoops
  <2>4. Leaves(j, tile[j])
    BY <1>0, <1>2, <1>10, <2>1, <2>3, ExtractLeaves
  <2>5. \A i, u \in T!Item : i # j /\ u # j /\ Needs(i) /\ barriers[i] <= barriers[u] =>
                                HasTile(scratch', u, tile[i])
    BY <1>5, <1>10, <2>4 DEF Leaves
  <2>6. ASSUME NEW i \in T!Item \ {j}, Needs(i), barriers[i] <= barriers'[j]
        PROVE  HasTile(scratch', j, tile[i])
    <3>1. TallAt(i) /\ Close(j, i)
      BY <1>4
    <3>2. tile[i] = tile[j]
      BY <1>15, <2>1, <2>2, <2>6, <3>1 DEF TallAt, Close
    <3> QED
      BY <2>4, <3>2 DEF Leaves
  <2>7. ASSUME NEW u \in T!Item \ {j}, barriers'[j] <= barriers[u]
        PROVE  HasTile(scratch', u, tile[j])
    <3>1. TallAt(u) /\ Close(j, u)
      BY <1>4
    <3>2. waiting[u] /\ barriers[u] = barriers[j] + 1
      BY <2>1, <2>2, <2>7, <3>1 DEF Close, TallAt
    <3>3. Needs(u) /\ tile[u] = tile[j]
      BY <1>15, <2>1, <2>2, <3>1, <3>2 DEF TallAt, Needs
    <3>4. HasTile(scratch, u, tile[j])
      BY <1>5, <3>1, <3>3 DEF TallAt
    <3> QED
      BY <1>10, <2>4, <3>4 DEF Leaves
  <2>8. DOMAIN scratch' = 0 .. T!LocalMemorySize - 1 /\ HasTile(scratch', j, tile[j])
    BY <1>2, <2>4 DEF Leaves
  <2> QED
    BY <1>15, <2>1, <2>5, <2>6, <2>7, <2>8
<1>16. CASE T!Compute(j) \/ T!Store(j)
  BY <1>12, <1>16 DEF T!Compute, T!Store, T!At
<1> QED
  BY <1>13, <1>14, <1>15, <1>16 DEF T!Step

-------------------------------------------------------------------------------
(***************************************************************************)
(* GemmPartialLocal: the registers                                         *)
(***************************************************************************)

\* The row and the column of a tile that a register of item i stands for.
PlaceRow(i, row) == (i % WgRows) + row * WgRows
PlaceCol(i, col) == i \div WgRows + col * WgCols

LEMMA TallPlaces ==
    ASSUME TallLaunch, NEW i \in T!Item, NEW row \in T!RegRows, NEW col \in T!RegCols
    PROVE  /\ PlaceRow(i, row) \in 0 .. T!TileM - 1 /\ PlaceCol(i, col) \in 0 .. T!TileN - 1
           /\ T!SliceRow(i, row) = MOff + PlaceRow(i, row)
           /\ T!SliceCol(i, col) = NOff + PlaceCol(i, col)
           /\ RowsOf(T!LhsBlock) = T!TileM /\ RowsOf(T!RhsBlock) = T!TileN
<1>0. launch \in TallSkinnyLaunches
  BY DEF TallLaunch
<1>1. /\ WgRows \in Nat \ {0} /\ WgCols \in Nat \ {0}
      /\ launch.itemRows \in Nat \ {0} /\ launch.itemCols \in Nat \ {0}
      /\ row \in 0 .. launch.itemRows - 1 /\ col \in 0 .. launch.itemCols - 1
      /\ T!TileM = WgRows * launch.itemRows /\ T!TileN = WgCols * launch.itemCols
      /\ MOff \in Nat /\ NOff \in Nat
  BY <1>0, TallSizes, TallPlace DEF T!RegRows, T!RegCols, T!TileM, T!TileN
<1>2. i % WgRows \in 0 .. WgRows - 1 /\ i \div WgRows \in 0 .. WgCols - 1
  BY <1>1, InGroup DEF T!Item, T!WgSize
<1>3. PlaceRow(i, row) \in 0 .. T!TileM - 1
  BY <1>1, <1>2, TileCell DEF PlaceRow
<1>4. PlaceCol(i, col) \in 0 .. T!TileN - 1
  BY <1>1, <1>2, TileCell DEF PlaceCol
<1>5. row * WgRows \in Nat /\ col * WgCols \in Nat
  BY <1>1
<1>6. T!SliceRow(i, row) = MOff + PlaceRow(i, row)
  <2>1. PICK x \in Nat, y \in Nat : x = i % WgRows /\ y = row * WgRows
    BY <1>2, <1>5
  <2>2. MOff + x + y = MOff + (x + y)
    BY <1>1
  <2> QED
    BY <2>1, <2>2 DEF T!SliceRow, PlaceRow, MOff
<1>7. T!SliceCol(i, col) = NOff + PlaceCol(i, col)
  <2>1. PICK x \in Nat, y \in Nat : x = i \div WgRows /\ y = col * WgCols
    BY <1>2, <1>5
  <2>2. NOff + x + y = NOff + (x + y)
    BY <1>1
  <2> QED
    BY <2>1, <2>2 DEF T!SliceCol, PlaceCol, NOff
<1>8. RowsOf(T!LhsBlock) = T!TileM /\ RowsOf(T!RhsBlock) = T!TileN
  BY DEF RowsOf, T!LhsBlock, T!RhsBlock, T!Block
<1> QED
  BY <1>3, <1>4, <1>6, <1>7, <1>8

\* The cells an item reads are those of the elements it multiplies.
LEMMA TallReads ==
    ASSUME TallLaunch, NEW i \in T!Item, NEW row \in T!RegRows, NEW col \in T!RegCols,
           NEW t \in Nat, NEW s \in 0 .. T!TileK - 1
    PROVE  /\ <<PlaceRow(i, row), s>> \in Tile(T!LhsBlock)
           /\ <<PlaceCol(i, col), s>> \in Tile(T!RhsBlock)
           /\ T!CellOfA(i, t, s, row) = CellT(T!LhsBlock, t, <<PlaceRow(i, row), s>>)
           /\ T!CellOfB(i, t, s, col) = CellT(T!RhsBlock, t, <<PlaceCol(i, col), s>>)
<1>0. launch \in TallSkinnyLaunches
  BY DEF TallLaunch
<1>1. /\ WgRows \in Nat \ {0} /\ WgCols \in Nat \ {0} /\ T!TileK \in Nat \ {0}
      /\ launch.itemRows \in Nat \ {0} /\ launch.itemCols \in Nat \ {0}
      /\ row \in 0 .. launch.itemRows - 1 /\ col \in 0 .. launch.itemCols - 1
      /\ T!LhsTileLd \in Nat \ {0} /\ T!RhsTileLd \in Nat \ {0}
      /\ T!LhsBlock.base = 0 /\ T!LhsBlock.tileLd = T!LhsTileLd
      /\ T!RhsBlock.tileLd = T!RhsTileLd /\ T!RhsBlock.base = T!RhsScratchOffset
      /\ T!RhsBlock.base \in Nat /\ BufferOfTile(t) \in Nat
  BY <1>0, TallSizes, TallBlocks, TileBuffers DEF T!RegRows, T!RegCols, SharedOut, T!RhsBlock, T!Block
<1>2. i % WgRows \in 0 .. WgRows - 1 /\ i \div WgRows \in 0 .. WgCols - 1
  BY <1>1, InGroup DEF T!Item, T!WgSize
<1>3. /\ T!BufferOffset(t, T!LhsTileLd) = BufferOfTile(t) * (T!LhsTileLd * T!TileK)
      /\ T!BufferOffset(t, T!RhsTileLd) = BufferOfTile(t) * (T!RhsTileLd * T!TileK)
  BY <1>0, <1>1, BufferOffsetIs
<1>4. PICK x \in Nat, y \in Nat, u \in Nat, v \in Nat :
         /\ x = i % WgRows /\ y = row * WgRows /\ u = s * T!LhsTileLd
         /\ v = BufferOfTile(t) * (T!LhsTileLd * T!TileK)
  <2>1. PICK w \in Nat, b \in Nat : w = T!LhsTileLd * T!TileK /\ b = BufferOfTile(t)
    BY <1>1
  <2>2. b * w \in Nat
    OBVIOUS
  <2>3. i % WgRows \in Nat /\ row * WgRows \in Nat /\ s * T!LhsTileLd \in Nat
    BY <1>1, <1>2
  <2> QED
    BY <2>1, <2>2, <2>3
<1>5. PICK x2 \in Nat, y2 \in Nat, u2 \in Nat, v2 \in Nat :
         /\ x2 = i \div WgRows /\ y2 = col * WgCols /\ u2 = s * T!RhsTileLd
         /\ v2 = BufferOfTile(t) * (T!RhsTileLd * T!TileK)
  <2>1. PICK w \in Nat, b \in Nat : w = T!RhsTileLd * T!TileK /\ b = BufferOfTile(t)
    BY <1>1
  <2>2. b * w \in Nat
    OBVIOUS
  <2>3. i \div WgRows \in Nat /\ col * WgCols \in Nat /\ s * T!RhsTileLd \in Nat
    BY <1>1, <1>2
  <2> QED
    BY <2>1, <2>2, <2>3
<1>6. T!CellOfA(i, t, s, row) = v + x + u + y
  BY <1>3, <1>4 DEF T!CellOfA
<1>7. T!CellOfB(i, t, s, col) = T!RhsBlock.base + v2 + x2 + u2 + y2
  BY <1>1, <1>3, <1>5 DEF T!CellOfB
<1>8. CellT(T!LhsBlock, t, <<PlaceRow(i, row), s>>) = 0 + v + ((x + y) + u)
  BY <1>1, <1>4 DEF CellT, PlaceRow
<1>9. CellT(T!RhsBlock, t, <<PlaceCol(i, col), s>>) = T!RhsBlock.base + v2 + ((x2 + y2) + u2)
  BY <1>1, <1>5 DEF CellT, PlaceCol
<1>10. /\ PlaceRow(i, row) \in 0 .. T!TileM - 1 /\ PlaceCol(i, col) \in 0 .. T!TileN - 1
       /\ RowsOf(T!LhsBlock) = T!TileM /\ RowsOf(T!RhsBlock) = T!TileN
  BY TallPlaces
<1>11. v + x + u + y = 0 + v + ((x + y) + u)
  OBVIOUS
<1>12. T!RhsBlock.base + v2 + x2 + u2 + y2 = T!RhsBlock.base + v2 + ((x2 + y2) + u2)
  BY <1>1
<1>13. /\ <<PlaceRow(i, row), s>> \in Tile(T!LhsBlock)
       /\ <<PlaceCol(i, col), s>> \in Tile(T!RhsBlock)
  BY <1>10 DEF Tile
<1>14. T!CellOfA(i, t, s, row) = CellT(T!LhsBlock, t, <<PlaceRow(i, row), s>>)
  BY <1>6, <1>8, <1>11
<1>15. T!CellOfB(i, t, s, col) = CellT(T!RhsBlock, t, <<PlaceCol(i, col), s>>)
  BY <1>7, <1>9, <1>12
<1> QED
  BY <1>13, <1>14, <1>15

\* An item that may multiply finds its whole tile.
LEMMA TileThere ==
    ASSUME TallLoops, TileMemory, NEW j \in T!Item, T!At(j, "compute")
    PROVE  /\ \A e \in Tile(T!LhsBlock) : scratch[CellT(T!LhsBlock, tile[j], e)] = ValueA(tile[j], e)
           /\ \A e \in Tile(T!RhsBlock) : scratch[CellT(T!RhsBlock, tile[j], e)] = ValueB(tile[j], e)
<1>1. TallLaunch /\ launch \in TallSkinnyLaunches
  BY DEF TallLoops, TallLaunch
<1>2. Needs(j) /\ T!Runs(j)
  BY DEF T!At, Needs
<1>3. ASSUME NEW u \in T!Item PROVE HasTile(scratch, u, tile[j])
  <2>1. Close(j, u)
    BY <1>2, TallClose
  <2> QED
    BY <1>2, <2>1 DEF Close, TileMemory, TilesCopied
<1>4. /\ SharedOut(T!LhsBlock) /\ SharedOut(T!RhsBlock)
  BY <1>1, TallBlocks
<1>5. /\ \A e \in Tile(T!LhsBlock) : \E u \in T!Item : e \in PartOf(T!LhsBlock, u)
      /\ \A e \in Tile(T!RhsBlock) : \E u \in T!Item : e \in PartOf(T!RhsBlock, u)
  BY <1>1, <1>4, TileParts
<1> QED
  BY <1>3, <1>5 DEF HasTile

\* The addresses of the factors of a register's products, one for each index of the
\* group's part of K, and how many of them are in the tiles before t.
TallA(i, x) == [l \in Nat |-> T!AddressA(T!SliceRow(i, x[2]), KOff + l)]
TallB(i, x) == [l \in Nat |-> T!AddressB(KOff + l, T!SliceCol(i, x[1]))]
Before(t) ==
    IF KOff >= launch.k THEN 0
    ELSE IF KOff + t * T!TileK <= launch.k THEN t * T!TileK ELSE launch.k - KOff

LEMMA BeforeIs ==
    ASSUME TallLaunch, NEW t \in Nat
    PROVE  /\ Before(t) \in Nat /\ Before(t + 1) \in Nat /\ Before(t) <= Before(t + 1)
           /\ Before(t + 1) <= Before(t) + T!TileK /\ Before(0) = 0
           /\ \A s \in 0 .. T!TileK - 1 :
                 /\ Before(t) + s < Before(t + 1) <=> KOff + t * T!TileK + s < launch.k
                 /\ KOff + t * T!TileK + s < launch.k => Before(t) = t * T!TileK
           /\ \A l \in Nat : l < Before(t) <=> KOff + l < launch.k /\ l < t * T!TileK
<1>1. KOff \in Nat /\ launch.k \in Nat \ {0} /\ T!TileK \in Nat \ {0}
  BY TallPlace, TallBlocks DEF TallLaunch
<1>2. PICK u \in Nat, e \in Nat \ {0}, o \in Nat, n \in Nat \ {0} :
         u = t * T!TileK /\ e = T!TileK /\ o = KOff /\ n = launch.k
  <2>1. t * T!TileK \in Nat
    BY <1>1
  <2> QED
    BY <1>1, <2>1
<1>3. (t + 1) * T!TileK = u + e /\ 0 * T!TileK = 0
  BY <1>1, <1>2
<1>4. /\ Before(t) = IF o >= n THEN 0 ELSE IF o + u <= n THEN u ELSE n - o
      /\ Before(t + 1) = IF o >= n THEN 0 ELSE IF o + (u + e) <= n THEN u + e ELSE n - o
      /\ Before(0) = IF o >= n THEN 0 ELSE IF o + 0 <= n THEN 0 ELSE n - o
  BY <1>2, <1>3 DEF Before
<1>5. PICK x \in Nat, y \in Nat : x = Before(t) /\ y = Before(t + 1)
  BY <1>4
<1>6. /\ x <= y /\ y <= x + e /\ Before(0) = 0
  BY <1>4, <1>5
<1>7. \A s \in 0 .. e - 1 : /\ x + s < y <=> o + u + s < n
                            /\ o + u + s < n => x = u
  BY <1>4, <1>5
<1>8. \A l \in Nat : l < x <=> o + l < n /\ l < u
  BY <1>4, <1>5
<1> QED
  BY <1>2, <1>5, <1>6, <1>7, <1>8

\* No two products of a register are the same.
LEMMA TallDiffer ==
    ASSUME TallLaunch, NEW i \in T!Item, NEW row \in T!RegRows, NEW col \in T!RegCols,
           NEW e \in Nat
    PROVE  Differ(TallA(i, <<col, row>>), e)
<1>1. /\ KOff \in Nat /\ MOff \in Nat /\ launch.lda \in Nat /\ (~launch.transA => launch.lda # 0)
  BY TallPlace
<1>2. PICK r \in Nat : r = T!SliceRow(i, row)
  BY <1>1, TallPlaces, TallBlocks DEF TallLaunch
<1>3. ASSUME NEW x \in 0 .. e - 1, NEW y \in 0 .. e - 1,
             TallA(i, <<col, row>>)[x] = TallA(i, <<col, row>>)[y]
      PROVE  x = y
  <2>1. T!AddressA(r, KOff + x) = T!AddressA(r, KOff + y)
    BY <1>2, <1>3 DEF TallA
  <2>2. CASE launch.transA
    <3>1. PICK z \in Nat : z = r * launch.lda
      BY <1>1
    <3>2. (KOff + x) + z = (KOff + y) + z
      BY <2>1, <2>2, <3>1 DEF T!AddressA, T!Address
    <3> QED
      BY <1>1, <3>1, <3>2
  <2>3. CASE ~launch.transA
    <3>1. PICK a \in Nat, f \in Nat, l \in Nat \ {0} :
              a = KOff + x /\ f = KOff + y /\ l = launch.lda
      BY <1>1, <2>3
    <3>2. r + a * l = r + f * l
      BY <2>1, <2>3, <3>1 DEF T!AddressA, T!Address
    <3>3. a * l = f * l
      BY <3>2
    <3>4. a = f
      BY <3>3
    <3> QED
      BY <1>1, <3>1, <3>4
  <2> QED
    BY <2>2, <2>3
<1> QED
  BY <1>3 DEF Differ

\* What an item multiplies for a register of tile t.
TallPairs(j, x) ==
    [s \in 0 .. T!TileK - 1 |->
        <<scratch[T!CellOfA(j, tile[j], s, x[2])], scratch[T!CellOfB(j, tile[j], s, x[1])]>>]

LEMMA TallFeeds ==
    ASSUME TallLoops, TileMemory, NEW j \in T!Item, T!At(j, "compute"), NEW x \in T!Stored(j)
    PROVE  Feeds(TallPairs(j, x), Before(tile[j]), TallA(j, x), TallB(j, x), Before(tile[j]),
                 Before(tile[j] + 1))
<1>1. TallLaunch /\ tile[j] \in Nat
  BY DEF TallLoops, TallInv
<1>2. PICK col \in T!RegCols, row \in T!RegRows : x = <<col, row>>
  BY DEF T!Stored
<1>3. T!SliceRow(j, row) < launch.m /\ T!SliceCol(j, col) < launch.n
  BY <1>2 DEF T!Stored
<1>4. PICK t \in Nat, n \in Nat, e \in Nat, cl \in Nat, u \in Nat :
          /\ t = tile[j] /\ n = Before(t) /\ e = Before(t + 1) /\ cl = T!TileK
          /\ u = t * T!TileK
  <2>1. T!TileK \in Nat
    BY <1>1, TallBlocks DEF TallLaunch
  <2> QED
    BY <1>1, <2>1, BeforeIs
<1>5. /\ n <= e /\ e <= n + cl
      /\ \A s \in 0 .. cl - 1 : /\ n + s < e <=> KOff + u + s < launch.k
                                /\ KOff + u + s < launch.k => n = u
  BY <1>1, <1>4, BeforeIs
<1>6. PICK p : p = TallPairs(j, x)
  OBVIOUS
<1>7. KOff \in Nat
  BY <1>1, TallPlace
<1>8. ASSUME NEW s \in 0 .. cl - 1
      PROVE  /\ s + n < e => p[s] = <<FromA(TallA(j, x)[s + n]), FromB(TallB(j, x)[s + n])>>
             /\ s + n >= e => p[s] = <<Zero, Zero>>
  <2>1. PICK f, g : f = <<PlaceRow(j, row), s>> /\ g = <<PlaceCol(j, col), s>>
    OBVIOUS
  <2>2. /\ f \in Tile(T!LhsBlock) /\ g \in Tile(T!RhsBlock)
        /\ T!CellOfA(j, t, s, row) = CellT(T!LhsBlock, t, f)
        /\ T!CellOfB(j, t, s, col) = CellT(T!RhsBlock, t, g)
    BY <1>1, <1>4, <2>1, TallReads
  <2>3. p[s] = <<ValueA(t, f), ValueB(t, g)>>
    <3>1. p[s] = <<scratch[T!CellOfA(j, t, s, row)], scratch[T!CellOfB(j, t, s, col)]>>
      BY <1>2, <1>4, <1>6 DEF TallPairs
    <3>2. scratch[CellT(T!LhsBlock, t, f)] = ValueA(t, f)
      BY <1>4, <2>2, TileThere
    <3>3. scratch[CellT(T!RhsBlock, t, g)] = ValueB(t, g)
      BY <1>4, <2>2, TileThere
    <3> QED
      BY <2>2, <3>1, <3>2, <3>3
  <2>4. /\ MOff + f[1] = T!SliceRow(j, row) /\ f[2] = s
        /\ NOff + g[1] = T!SliceCol(j, col) /\ g[2] = s
    BY <1>1, <2>1, TallPlaces
  <2>5. /\ ValueA(t, f) = IF KOff + u + s < launch.k
                          THEN FromA(T!AddressA(T!SliceRow(j, row), KOff + u + s)) ELSE Zero
        /\ ValueB(t, g) = IF KOff + u + s < launch.k
                          THEN FromB(T!AddressB(KOff + u + s, T!SliceCol(j, col))) ELSE Zero
    BY <1>3, <1>4, <2>4 DEF ValueA, ValueB, IsInA, IsInB
  <2>6. s + n = n + s /\ (n + s < e <=> KOff + u + s < launch.k)
    BY <1>5
  <2>7. ASSUME s + n < e
        PROVE  p[s] = <<FromA(TallA(j, x)[s + n]), FromB(TallB(j, x)[s + n])>>
    <3>1. KOff + u + s < launch.k /\ n = u
      BY <1>5, <2>6, <2>7
    <3>2. KOff + u + s = KOff + (s + n)
      BY <1>7, <3>1
    <3>3. /\ TallA(j, x)[s + n] = T!AddressA(T!SliceRow(j, row), KOff + (s + n))
          /\ TallB(j, x)[s + n] = T!AddressB(KOff + (s + n), T!SliceCol(j, col))
      BY <1>2 DEF TallA, TallB
    <3> QED
      BY <2>3, <2>5, <3>1, <3>2, <3>3
  <2>8. ASSUME s + n >= e PROVE p[s] = <<Zero, Zero>>
    <3>1. ~(KOff + u + s < launch.k)
      BY <2>6, <2>8
    <3> QED
      BY <2>3, <2>5, <3>1
  <2> QED
    BY <2>7, <2>8
<1>9. DOMAIN p = 0 .. cl - 1
  BY <1>4, <1>6 DEF TallPairs
<1>10. PICK a, b : a = TallA(j, x) /\ b = TallB(j, x)
  OBVIOUS
<1>11. \A s \in 0 .. cl - 1 :
          /\ s + n < e => p[s] = <<FromA(a[s + n]), FromB(b[s + n])>>
          /\ s + n >= e => p[s] = <<Zero, Zero>>
  BY <1>8, <1>10
<1>12. Feeds(p, n, a, b, n, e)
  BY <1>5, <1>9, <1>11, CellsFeed
<1> QED
  BY <1>4, <1>6, <1>10, <1>12

-------------------------------------------------------------------------------
\* Item i's registers f hold its products of the tiles before t.
TallHas(f, i, t) ==
    /\ \A col \in T!RegCols, row \in T!RegRows : IsAccumulator(f[col][row])
    /\ \A x \in T!Stored(i) : f[x[1]][x[2]] = Sum({}, TallA(i, x), TallB(i, x), Before(t))

TallRegs ==
    /\ regRes = [i \in T!Item |-> regRes[i]]
    /\ \A i \in T!Item : TallHas(regRes[i], i, tile[i])

LEMMA TallNumbers ==
    /\ \A p, r : T!Mad(p, r) = Mad(p, r)
    /\ \A f, g : T!Over(f, g) = Over(f, g)
    /\ T!Nothing = Nothing /\ T!Zero = Zero /\ T!Garbage = Garbage
    /\ \A x : T!FromA(x) = FromA(x) /\ T!FromB(x) = FromB(x)
    /\ \A r : T!IsAccumulator(r) <=> IsAccumulator(r)
BY DEF T!Mad, Mad, T!Over, Over, T!Nothing, Nothing, T!FromA, FromA, T!FromB, FromB,
   T!IsAccumulator, IsAccumulator, T!Zero, Zero, T!Garbage, Garbage

\* What depends on the launch alone does not change.
LEMMA TallSameNumbers ==
    ASSUME launch' = launch
    PROVE  /\ T!Item' = T!Item /\ T!RegRows' = T!RegRows /\ T!RegCols' = T!RegCols
           /\ T!NumTiles' = T!NumTiles
           /\ \A i : T!Stored(i)' = T!Stored(i)
           /\ \A f, i, t : TallHas(f, i, t)' <=> TallHas(f, i, t)
<1>1. /\ T!Item' = T!Item /\ T!RegRows' = T!RegRows /\ T!RegCols' = T!RegCols
      /\ T!NumTiles' = T!NumTiles /\ T!TileK' = T!TileK
  BY DEF T!Item, T!WgSize, T!RegRows, T!RegCols, T!NumTiles, T!TileK
<1>2. MOff' = MOff /\ NOff' = NOff /\ KOff' = KOff
  BY DEF MOff, NOff, KOff, T!MOffset, T!NOffset, T!KOffset, T!KGroup, T!MnGroup, T!TileM,
     T!TileN, T!TileK, T!NumTiles, T!GroupCountM, T!GroupCountN
<1>3. \A i, r : T!SliceRow(i, r)' = T!SliceRow(i, r) /\ T!SliceCol(i, r)' = T!SliceCol(i, r)
  BY <1>2 DEF T!SliceRow, T!SliceCol, MOff, NOff
<1>4. \A i : T!Stored(i)' = T!Stored(i)
  BY <1>1, <1>3 DEF T!Stored
<1>5. \A i, x : TallA(i, x)' = TallA(i, x) /\ TallB(i, x)' = TallB(i, x)
  BY <1>2, <1>3 DEF TallA, TallB, T!AddressA, T!AddressB
<1>6. \A t : Before(t)' = Before(t)
  BY <1>1, <1>2 DEF Before
<1>7. ASSUME NEW f, NEW i, NEW t PROVE TallHas(f, i, t)' <=> TallHas(f, i, t)
  BY <1>1, <1>4, <1>5, <1>6 DEF TallHas, IsAccumulator
<1> QED
  BY <1>1, <1>4, <1>7

LEMMA TallRegsStart == T!Init => TallRegs
<1> SUFFICES ASSUME T!Init PROVE TallRegs
  OBVIOUS
<1>1. TallLaunch
  BY DEF T!Init, TallLaunch
<1>2. /\ regRes = [i \in T!Item |-> [col \in T!RegCols |-> [row \in T!RegRows |-> Nothing]]]
      /\ tile = [i \in T!Item |-> 0]
  BY TallNumbers DEF T!Init
<1>3. Before(0) = 0
  BY <1>1, BeforeIs
<1>4. ASSUME NEW i \in T!Item PROVE TallHas(regRes[i], i, tile[i])
  <2>1. tile[i] = 0 /\ \A col \in T!RegCols, row \in T!RegRows : regRes[i][col][row] = Nothing
    BY <1>2
  <2>2. IsAccumulator(Nothing) /\ \A a, b : Nothing = Sum({}, a, b, 0)
    <3>1. IsAccumulator(Nothing)
      BY DEF IsAccumulator, Nothing
    <3>2. ASSUME NEW a, NEW b PROVE Nothing = Sum({}, a, b, 0)
      <4>1. {<<FromA(a[x]), FromB(b[x])>> : x \in 0 .. 0 - 1} = {}
        OBVIOUS
      <4> QED
        BY <4>1 DEF Nothing, Sum
    <3> QED
      BY <3>1, <3>2
  <2>3. \A x \in T!Stored(i) : x[1] \in T!RegCols /\ x[2] \in T!RegRows
    BY DEF T!Stored
  <2> QED
    BY <1>3, <2>1, <2>2, <2>3 DEF TallHas
<1> QED
  BY <1>2, <1>4 DEF TallRegs

\* What a step has to leave in the registers of its item.
LEMMA TallKept ==
    ASSUME TallRegs, launch' = launch, NEW j \in T!Item, NEW f, NEW t,
           regRes' = [regRes EXCEPT ![j] = f],
           \A u \in T!Item \ {j} : tile'[u] = tile[u],
           tile'[j] = t, TallHas(f, j, t)
    PROVE  TallRegs'
<1>1. T!Item' = T!Item
  BY TallSameNumbers
<1>2. regRes' = [u \in T!Item |-> regRes'[u]] /\ DOMAIN regRes = T!Item
  BY DEF TallRegs
<1>3. ASSUME NEW u \in T!Item PROVE TallHas(regRes[u], u, tile[u])'
  <2>1. PICK g, r : g = regRes'[u] /\ r = tile'[u]
    OBVIOUS
  <2>2. TallHas(g, u, r)
    <3>1. CASE u = j
      BY <1>2, <2>1, <3>1
    <3>2. CASE u # j
      <4>1. g = regRes[u] /\ r = tile[u]
        BY <1>2, <2>1, <3>2
      <4> QED
        BY <4>1 DEF TallRegs
    <3> QED
      BY <3>1, <3>2
  <2>3. TallHas(g, u, r)'
    BY <2>2, TallSameNumbers
  <2> QED
    BY <2>1, <2>3 DEF TallHas
<1> QED
  BY <1>1, <1>2, <1>3 DEF TallRegs

LEMMA TallComputes ==
    ASSUME TallLoops, TileMemory, TallRegs, NEW j \in T!Item, T!Compute(j)
    PROVE  TallRegs'
<1>1. /\ TallLaunch /\ tile \in [T!Item -> Nat] /\ T!At(j, "compute")
  BY DEF TallLoops, TallInv, T!Compute
<1>2. PICK f, t : f = regRes[j] /\ t = tile[j] /\ t \in Nat /\ TallHas(f, j, t)
  BY <1>1 DEF TallRegs
<1>3. PICK g : g = [col \in T!RegCols |-> [row \in T!RegRows |->
                       Mad(TallPairs(j, <<col, row>>), f[col][row])]]
  OBVIOUS
<1>4. regRes' = [regRes EXCEPT ![j] = g]
  <2>1. regRes' = [regRes EXCEPT ![j] = [col \in T!RegCols |-> [row \in T!RegRows |->
            T!Mad([s \in 0 .. T!TileK - 1 |->
                     <<scratch[T!CellOfA(j, tile[j], s, row)],
                       scratch[T!CellOfB(j, tile[j], s, col)]>>],
                  regRes[j][col][row])]]]
    BY DEF T!Compute, TallRegs
  <2>2. ASSUME NEW col \in T!RegCols, NEW row \in T!RegRows
        PROVE  T!Mad([s \in 0 .. T!TileK - 1 |->
                     <<scratch[T!CellOfA(j, tile[j], s, row)],
                       scratch[T!CellOfB(j, tile[j], s, col)]>>], regRes[j][col][row])
                 = Mad(TallPairs(j, <<col, row>>), f[col][row])
    BY <1>2, TallNumbers DEF TallPairs
  <2>3. [col \in T!RegCols |-> [row \in T!RegRows |->
            T!Mad([s \in 0 .. T!TileK - 1 |->
                     <<scratch[T!CellOfA(j, tile[j], s, row)],
                       scratch[T!CellOfB(j, tile[j], s, col)]>>],
                  regRes[j][col][row])]] = g
    BY <1>3, <2>2
  <2> QED
    BY <2>1, <2>3
<1>5. /\ \A u \in T!Item \ {j} : tile'[u] = tile[u]
      /\ tile'[j] = t + 1 /\ launch' = launch
  BY <1>1, <1>2 DEF T!Compute
<1>6. ASSUME NEW x \in T!Stored(j)
      PROVE  g[x[1]][x[2]] = Sum({}, TallA(j, x), TallB(j, x), Before(t + 1))
  <2>1. PICK col \in T!RegCols, row \in T!RegRows : x = <<col, row>>
    BY DEF T!Stored
  <2>2. PICK p, a, b, n, e : /\ p = TallPairs(j, x) /\ a = TallA(j, x) /\ b = TallB(j, x)
                             /\ n = Before(t) /\ e = Before(t + 1)
    OBVIOUS
  <2>3. n \in Nat /\ e \in Nat /\ n <= e /\ n \in Int
    BY <1>1, <1>2, <2>2, BeforeIs
  <2>4. Feeds(p, n, a, b, n, e)
    BY <1>1, <1>2, <2>2, TallFeeds
  <2>5. Differ(a, e)
    BY <1>1, <2>1, <2>2, <2>3, TallDiffer
  <2>6. f[x[1]][x[2]] = Sum({}, a, b, n)
    BY <1>2, <2>2 DEF TallHas
  <2>7. Mad(p, Sum({}, a, b, n)) = Sum({}, a, b, e)
    BY <2>3, <2>4, <2>5, MadFeeds
  <2>8. g[x[1]][x[2]] = Mad(p, f[x[1]][x[2]])
    BY <1>3, <2>1, <2>2
  <2> QED
    BY <2>2, <2>6, <2>7, <2>8
<1>7. ASSUME NEW col \in T!RegCols, NEW row \in T!RegRows
      PROVE  IsAccumulator(g[col][row])
  <2>1. PICK p, r : p = TallPairs(j, <<col, row>>) /\ r = f[col][row]
    OBVIOUS
  <2>2. IsAccumulator(r)
    BY <1>2, <2>1 DEF TallHas
  <2>3. g[col][row] = Mad(p, r)
    BY <1>3, <2>1
  <2> QED
    BY <2>2, <2>3, MadTyped
<1>8. PICK r : r = t + 1 /\ r = tile'[j]
  BY <1>5
<1>9. TallHas(g, j, r)
  BY <1>6, <1>7, <1>8 DEF TallHas
<1> QED
  BY <1>4, <1>5, <1>8, <1>9, TallKept

LEMMA TallRegsStep ==
    ASSUME TallLoops, TileMemory, TallRegs, NEW j \in T!Item, T!Step(j)
    PROVE  TallRegs'
<1>1. CASE T!Compute(j)
  BY <1>1, TallComputes
<1>2. CASE T!Start(j) \/ T!LoadNext(j) \/ T!Store(j)
  <2>1. launch' = launch /\ tile' = tile /\ regRes' = regRes
    BY <1>2 DEF T!Start, T!LoadNext, T!Store
  <2>2. PICK f, t : f = regRes[j] /\ t = tile[j]
    OBVIOUS
  <2>3. regRes' = [regRes EXCEPT ![j] = f]
    BY <2>1, <2>2 DEF TallRegs
  <2>4. TallHas(f, j, t)
    BY <2>2 DEF TallRegs
  <2>5. tile'[j] = t /\ \A u \in T!Item \ {j} : tile'[u] = tile[u]
    BY <2>1, <2>2
  <2> QED
    BY <2>1, <2>3, <2>4, <2>5, TallKept
<1> QED
  BY <1>1, <1>2 DEF T!Step

-------------------------------------------------------------------------------
(***************************************************************************)
(* What has been stored                                                    *)
(***************************************************************************)

\* f holds the values of the elements of S in their cells, and nothing else.
Filled(f, S, cell, val) ==
    /\ DOMAIN f = {cell[e] : e \in S}
    /\ \A e \in S : f[cell[e]] = val[e]

LEMMA FilledMore ==
    ASSUME NEW E, NEW S, NEW N, S \subseteq E, N \subseteq E, NEW cell, NEW val, NEW f, NEW w,
           \A e, g \in E : cell[e] = cell[g] => e = g,
           Filled(f, S, cell, val), Filled(w, N, cell, val)
    PROVE  Filled(Over(w, f), S \cup N, cell, val)
<1>1. DOMAIN Over(w, f) = {cell[e] : e \in S \cup N}
  BY DEF Over, Filled
<1>2. ASSUME NEW e \in S \cup N PROVE Over(w, f)[cell[e]] = val[e]
  <2>1. CASE e \in N
    BY <2>1 DEF Over, Filled
  <2>2. CASE e \notin N
    <3>1. e \in S /\ cell[e] \notin DOMAIN w
      BY <2>2 DEF Filled
    <3> QED
      BY <3>1 DEF Over, Filled
  <2> QED
    BY <2>1, <2>2
<1> QED
  BY <1>1, <1>2 DEF Filled

-------------------------------------------------------------------------------
(***************************************************************************)
(* GemmPartialLocal: the slice of the cube                                 *)
(***************************************************************************)

\* The elements of the slice, <<row, column>>, their cells, and what belongs there.
Slice == (0 .. launch.m - 1) \X (0 .. launch.n - 1)
CellC == [e \in Slice |-> KGrp * launch.ldc * launch.n + e[2] * launch.ldc + e[1]]
ValueC ==
    [e \in Slice |->
        Sum(IF launch.betaZero THEN {} ELSE {CellC[e]},
            [l \in Nat |-> T!AddressA(e[1], KOff + l)],
            [l \in Nat |-> T!AddressB(KOff + l, e[2])], Before(T!NumTiles))]

\* The elements of item i, and those that are stored.
ElementC(i, x) == <<T!SliceRow(i, x[2]), T!SliceCol(i, x[1])>>
OfItem(i) == {ElementC(i, x) : x \in T!Stored(i)}
TallDone == {e \in Slice : \E i \in T!Item : pc[i] = "done" /\ e \in OfItem(i)}

TallStored == Filled(c, TallDone, CellC, ValueC)

\* Every element has a cell of its own in the cube.
LEMMA CellsOfC ==
    ASSUME TallLaunch
    PROVE  /\ \A e \in Slice : CellC[e] \in 0 .. launch.depth * launch.ldc * launch.n - 1
           /\ \A e, f \in Slice : CellC[e] = CellC[f] => e = f
<1>1. PICK m \in Nat \ {0}, n \in Nat \ {0}, ld \in Nat \ {0}, d \in Nat \ {0}, x \in Nat :
          /\ m = launch.m /\ n = launch.n /\ ld = launch.ldc /\ d = launch.depth /\ x = KGrp
          /\ m <= ld /\ x \in 0 .. d - 1
  <2>1. /\ launch.m \in Nat \ {0} /\ launch.n \in Nat \ {0} /\ launch.ldc \in Nat \ {0}
        /\ launch.depth \in Nat \ {0} /\ KGrp \in 0 .. launch.depth - 1
        /\ launch.m <= launch.ldc
    BY TallPlace
  <2>2. KGrp \in Nat
    BY <2>1
  <2> QED
    BY <2>1, <2>2
<1>2. PICK dn \in Nat \ {0} : dn = d * n
  OBVIOUS
<1>3. ASSUME NEW e \in Slice
      PROVE  \E row \in 0 .. ld - 1, col \in 0 .. n - 1, q \in 0 .. dn - 1 :
                /\ e = <<row, col>> /\ q = n * x + col
                /\ CellC[e] = ld * q + row
  <2>1. PICK row \in 0 .. m - 1, col \in 0 .. n - 1 : e = <<row, col>>
    BY <1>1 DEF Slice
  <2>2. CellC[e] = x * ld * n + col * ld + row
    BY <1>1, <2>1 DEF CellC
  <2>3. PICK q \in 0 .. dn - 1 : q = n * x + col
    BY <1>1, <1>2, DigitsFit
  <2>4. ld * q + row = x * ld * n + col * ld + row
    <3>1. ld * (n * x + col) = ld * (n * x) + ld * col
      OBVIOUS
    <3>2. ld * (n * x) = x * ld * n /\ ld * col = col * ld
      OBVIOUS
    <3> QED
      BY <2>3, <3>1, <3>2
  <2>5. row \in 0 .. ld - 1
    BY <1>1
  <2> QED
    BY <2>1, <2>2, <2>3, <2>4, <2>5
<1>4. ASSUME NEW e \in Slice
      PROVE  CellC[e] \in 0 .. launch.depth * launch.ldc * launch.n - 1
  <2>1. PICK row \in 0 .. ld - 1, q \in 0 .. dn - 1 : CellC[e] = ld * q + row
    BY <1>3
  <2>2. ld * q + row \in 0 .. dn * ld - 1
    BY DigitsFit
  <2>3. dn * ld = d * ld * n
    <3>1. (d * n) * ld = d * ld * n
      OBVIOUS
    <3> QED
      BY <1>2, <3>1
  <2> QED
    BY <1>1, <2>1, <2>2, <2>3
<1>5. ASSUME NEW e \in Slice, NEW f \in Slice, CellC[e] = CellC[f]
      PROVE  e = f
  <2>1. PICK row \in 0 .. ld - 1, col \in 0 .. n - 1, q \in 0 .. dn - 1 :
            /\ e = <<row, col>> /\ q = n * x + col /\ CellC[e] = ld * q + row
    BY <1>3
  <2>2. PICK row2 \in 0 .. ld - 1, col2 \in 0 .. n - 1, q2 \in 0 .. dn - 1 :
            /\ f = <<row2, col2>> /\ q2 = n * x + col2 /\ CellC[f] = ld * q2 + row2
    BY <1>3
  <2>3. PICK z \in Nat : z = CellC[e] /\ z = ld * q + row /\ z = ld * q2 + row2
    <3>1. ld * q + row \in Nat
      OBVIOUS
    <3> QED
      BY <1>5, <2>1, <2>2, <3>1
  <2>4. q = q2 /\ row = row2
    <3>1. z \div ld = q /\ z % ld = row
      BY <2>3, DivModUnique
    <3>2. z \div ld = q2 /\ z % ld = row2
      BY <2>3, DivModUnique
    <3> QED
      BY <3>1, <3>2
  <2>5. col = col2
    <3>1. PICK w \in Nat : w = n * x
      OBVIOUS
    <3> QED
      BY <2>1, <2>2, <2>4, <3>1
  <2> QED
    BY <2>1, <2>2, <2>4, <2>5
<1> QED
  BY <1>4, <1>5

\* The elements of an item are in the slice, and it stores them in their cells.
LEMMA ElementIs ==
    ASSUME TallLaunch, NEW i \in T!Item, NEW x \in T!Stored(i)
    PROVE  /\ ElementC(i, x) \in Slice
           /\ T!WriteIdx(i, x) = CellC[ElementC(i, x)]
           /\ TallA(i, x) = [l \in Nat |-> T!AddressA(ElementC(i, x)[1], KOff + l)]
           /\ TallB(i, x) = [l \in Nat |-> T!AddressB(KOff + l, ElementC(i, x)[2])]
<1>1. PICK col \in T!RegCols, row \in T!RegRows : x = <<col, row>>
  BY DEF T!Stored
<1>2. T!SliceRow(i, row) < launch.m /\ T!SliceCol(i, col) < launch.n
  BY <1>1 DEF T!Stored
<1>3. /\ T!TileM \in Nat /\ T!TileN \in Nat /\ MOff \in Nat /\ NOff \in Nat
      /\ launch.m \in Nat /\ launch.n \in Nat
  BY TallBlocks, TallPlace DEF TallLaunch
<1>4. PICK y \in Nat, z \in Nat : y = PlaceRow(i, row) /\ z = PlaceCol(i, col)
                                  /\ T!SliceRow(i, row) = MOff + y
                                  /\ T!SliceCol(i, col) = NOff + z
  BY <1>3, TallPlaces
<1>5. T!SliceRow(i, row) \in 0 .. launch.m - 1 /\ T!SliceCol(i, col) \in 0 .. launch.n - 1
  BY <1>2, <1>3, <1>4
<1>6. ElementC(i, x) = <<T!SliceRow(i, row), T!SliceCol(i, col)>>
  BY <1>1 DEF ElementC
<1>7. ElementC(i, x) \in Slice
  BY <1>5, <1>6 DEF Slice
<1>8. T!WriteIdx(i, x) = CellC[ElementC(i, x)]
  <2>1. CellC[ElementC(i, x)]
          = KGrp * launch.ldc * launch.n + T!SliceCol(i, col) * launch.ldc + T!SliceRow(i, row)
    BY <1>6, <1>7 DEF CellC
  <2> QED
    BY <1>1, <2>1 DEF T!WriteIdx, KGrp
<1> QED
  BY <1>1, <1>6, <1>7, <1>8 DEF TallA, TallB

\* What an item stores.
TallWrite(i) ==
    [a \in {T!WriteIdx(i, r) : r \in T!Stored(i)} |->
        LET r == CHOOSE s \in T!Stored(i) : T!WriteIdx(i, s) = a
        IN [regRes[i][r[1]][r[2]] EXCEPT !.c = IF launch.betaZero THEN {} ELSE {a}]]

LEMMA TallWritten ==
    ASSUME TallLaunch, NEW i \in T!Item, TallHas(regRes[i], i, T!NumTiles)
    PROVE  Filled(TallWrite(i), OfItem(i), CellC, ValueC)
<1>1. \A e, f \in Slice : CellC[e] = CellC[f] => e = f
  BY CellsOfC
<1>2. \A x \in T!Stored(i) : /\ ElementC(i, x) \in Slice
                             /\ T!WriteIdx(i, x) = CellC[ElementC(i, x)]
  BY ElementIs
<1>3. DOMAIN TallWrite(i) = {CellC[e] : e \in OfItem(i)}
  <2>1. DOMAIN TallWrite(i) = {T!WriteIdx(i, r) : r \in T!Stored(i)}
    BY DEF TallWrite
  <2> QED
    BY <1>2, <2>1 DEF OfItem
<1>4. ASSUME NEW e \in OfItem(i)
      PROVE  TallWrite(i)[CellC[e]] = ValueC[e]
  <2>1. PICK y \in T!Stored(i) : e = ElementC(i, y)
    BY <1>4 DEF OfItem
  <2>2. PICK a : a = CellC[e] /\ a = T!WriteIdx(i, y)
    BY <1>2, <2>1
  <2>3. PICK x \in T!Stored(i) : x = CHOOSE s \in T!Stored(i) : T!WriteIdx(i, s) = a
    BY <2>2
  <2>4. T!WriteIdx(i, x) = a
    BY <2>2, <2>3
  <2>5. ElementC(i, x) = e /\ e \in Slice
    BY <1>1, <1>2, <2>1, <2>2, <2>4
  <2>6. TallWrite(i)[a] = [regRes[i][x[1]][x[2]] EXCEPT !.c = IF launch.betaZero THEN {} ELSE {a}]
    BY <2>2, <2>3 DEF TallWrite
  <2>7. PICK f, b, n, s : /\ f = TallA(i, x) /\ b = TallB(i, x) /\ n = Before(T!NumTiles)
                          /\ s = IF launch.betaZero THEN {} ELSE {a}
    OBVIOUS
  <2>8. regRes[i][x[1]][x[2]] = Sum({}, f, b, n)
    BY <2>7 DEF TallHas
  <2>9. TallWrite(i)[a] = Sum(s, f, b, n)
    <3>1. [Sum({}, f, b, n) EXCEPT !.c = s] = Sum(s, f, b, n)
      BY SumWith
    <3>2. TallWrite(i)[a] = [regRes[i][x[1]][x[2]] EXCEPT !.c = s]
      BY <2>6, <2>7
    <3> QED
      BY <2>8, <3>1, <3>2
  <2>10. ValueC[e] = Sum(s, f, b, n)
    BY <2>2, <2>5, <2>7, ElementIs DEF ValueC
  <2> QED
    BY <2>2, <2>9, <2>10
<1> QED
  BY <1>3, <1>4 DEF Filled

LEMMA TallStoredStart == T!Init => TallStored
<1> SUFFICES ASSUME T!Init PROVE TallStored
  OBVIOUS
<1>1. TallDone = {}
  BY DEF T!Init, TallDone
<1>2. DOMAIN c = {}
  BY DEF T!Init
<1> QED
  BY <1>1, <1>2 DEF TallStored, Filled

\* The elements, the cells and the values depend on the launch alone.
LEMMA TallSameC ==
    ASSUME launch' = launch
    PROVE  /\ Slice' = Slice /\ CellC' = CellC /\ ValueC' = ValueC /\ T!Item' = T!Item
           /\ \A i : OfItem(i)' = OfItem(i)
<1>1. /\ T!Item' = T!Item /\ T!NumTiles' = T!NumTiles /\ T!TileK' = T!TileK
      /\ \A i : T!Stored(i)' = T!Stored(i)
  BY TallSameNumbers DEF T!TileK
<1>2. MOff' = MOff /\ NOff' = NOff /\ KOff' = KOff /\ KGrp' = KGrp
  BY DEF MOff, NOff, KOff, KGrp, T!MOffset, T!NOffset, T!KOffset, T!KGroup, T!MnGroup, T!TileM,
     T!TileN, T!TileK, T!NumTiles, T!GroupCountM, T!GroupCountN
<1>3. \A i, r : T!SliceRow(i, r)' = T!SliceRow(i, r) /\ T!SliceCol(i, r)' = T!SliceCol(i, r)
  BY <1>2 DEF T!SliceRow, T!SliceCol, MOff, NOff
<1>4. Slice' = Slice
  BY DEF Slice
<1>5. CellC' = CellC
  BY <1>2, <1>4 DEF CellC
<1>6. Before(T!NumTiles)' = Before(T!NumTiles)
  BY <1>1, <1>2 DEF Before
<1>7. ValueC' = ValueC
  BY <1>2, <1>4, <1>5, <1>6 DEF ValueC, T!AddressA, T!AddressB
<1>8. \A i : OfItem(i)' = OfItem(i)
  BY <1>1, <1>3 DEF OfItem, ElementC
<1> QED
  BY <1>1, <1>4, <1>5, <1>7, <1>8

LEMMA TallStoredStep ==
    ASSUME TallLoops, TallRegs, TallStored, NEW j \in T!Item, T!Step(j)
    PROVE  TallStored'
<1>1. TallLaunch /\ pc \in [T!Item -> {"start", "load", "compute", "store", "done"}]
  BY DEF TallLoops, TallInv
<1>2. launch' = launch
  BY TallLoopsStep
<1>3. /\ Slice' = Slice /\ CellC' = CellC /\ ValueC' = ValueC /\ T!Item' = T!Item
      /\ \A i : OfItem(i)' = OfItem(i)
  BY <1>2, TallSameC
<1>4. CASE T!Store(j)
  <2>1. pc[j] = "store" /\ pc' = [pc EXCEPT ![j] = "done"]
    BY <1>4 DEF T!Store, T!At, T!Goto
  <2>2. TallHas(regRes[j], j, T!NumTiles)
    <3>1. tile[j] = T!NumTiles
      BY <2>1 DEF TallLoops
    <3>2. TallHas(regRes[j], j, tile[j])
      BY DEF TallRegs
    <3> QED
      BY <3>1, <3>2
  <2>3. Filled(TallWrite(j), OfItem(j), CellC, ValueC)
    BY <1>1, <2>2, TallWritten
  <2>4. c' = Over(TallWrite(j), c)
    BY <1>4, TallNumbers DEF T!Store, TallWrite
  <2>5. OfItem(j) \subseteq Slice
    BY <1>1, ElementIs DEF OfItem
  <2>6. TallDone' = TallDone \cup OfItem(j)
    <3>1. \A i \in T!Item : pc'[i] = "done" <=> pc[i] = "done" \/ i = j
      BY <1>1, <2>1
    <3> QED
      BY <1>3, <2>5, <3>1 DEF TallDone
  <2>7. PICK E, S, N, cell, val, f, w :
           /\ E = Slice /\ S = TallDone /\ N = OfItem(j) /\ cell = CellC /\ val = ValueC
           /\ f = c /\ w = TallWrite(j)
    OBVIOUS
  <2>8. Filled(Over(w, f), S \cup N, cell, val)
    <3>1. \A e, g \in E : cell[e] = cell[g] => e = g
      BY <1>1, <2>7, CellsOfC
    <3>2. S \subseteq E /\ N \subseteq E
      BY <2>5, <2>7 DEF TallDone
    <3>3. Filled(f, S, cell, val) /\ Filled(w, N, cell, val)
      BY <2>3, <2>7 DEF TallStored
    <3> QED
      BY <3>1, <3>2, <3>3, FilledMore
  <2> QED
    BY <1>3, <2>4, <2>6, <2>7, <2>8 DEF TallStored, Filled
<1>5. CASE T!Start(j) \/ T!LoadNext(j) \/ T!Compute(j)
  <2>1. c' = c /\ \A i \in T!Item : pc'[i] = "done" <=> pc[i] = "done"
    BY <1>1, <1>5 DEF T!Start, T!LoadNext, T!Compute, T!At, T!Goto, T!BarrierThen
  <2>2. TallDone' = TallDone
    BY <1>3, <2>1 DEF TallDone
  <2> QED
    BY <1>3, <2>1, <2>2 DEF TallStored, Filled
<1> QED
  BY <1>4, <1>5 DEF T!Step

-------------------------------------------------------------------------------
\* The items of a group have the elements of its block between them.
LEMMA TallCovers ==
    ASSUME TallLaunch, NEW row \in 0 .. launch.m - 1, NEW col \in 0 .. launch.n - 1
    PROVE  (\E i \in T!Item : <<row, col>> \in OfItem(i))
              <=> /\ row \in MOff .. MOff + T!TileM - 1
                  /\ col \in NOff .. NOff + T!TileN - 1
<1>0. launch \in TallSkinnyLaunches
  BY DEF TallLaunch
<1>1. PICK wr \in Nat \ {0}, wc \in Nat \ {0}, ir \in Nat \ {0}, ic \in Nat \ {0},
           x \in Nat, y \in Nat :
          /\ wr = WgRows /\ wc = WgCols /\ ir = launch.itemRows /\ ic = launch.itemCols
          /\ x = MOff /\ y = NOff
          /\ T!TileM = wr * ir /\ T!TileN = wc * ic
  BY <1>0, TallSizes, TallPlace DEF T!TileM, T!TileN
<1>2. PICK tm \in Nat, tn \in Nat : tm = wr * ir /\ tn = wc * ic
  OBVIOUS
<1>3. row \in Nat /\ col \in Nat
  OBVIOUS
<1>4. ASSUME NEW i \in T!Item, <<row, col>> \in OfItem(i)
      PROVE  row \in x .. x + tm - 1 /\ col \in y .. y + tn - 1
  <2>1. PICK s \in T!Stored(i) : <<row, col>> = ElementC(i, s)
    BY <1>4 DEF OfItem
  <2>2. PICK jj \in T!RegCols, l \in T!RegRows : s = <<jj, l>>
    BY DEF T!Stored
  <2>3. row = T!SliceRow(i, l) /\ col = T!SliceCol(i, jj)
    BY <2>1, <2>2 DEF ElementC
  <2>4. PICK a, b : /\ a = PlaceRow(i, l) /\ b = PlaceCol(i, jj)
                    /\ a \in 0 .. tm - 1 /\ b \in 0 .. tn - 1
                    /\ row = x + a /\ col = y + b
    BY <1>1, <1>2, <2>3, TallPlaces
  <2> QED
    BY <2>4
<1>5. ASSUME row \in x .. x + tm - 1, col \in y .. y + tn - 1
      PROVE  \E i \in T!Item : <<row, col>> \in OfItem(i)
  <2>1. PICK r \in 0 .. tm - 1, s \in 0 .. tn - 1 : row = x + r /\ col = y + s
    <3>1. row - x \in 0 .. tm - 1 /\ col - y \in 0 .. tn - 1
      BY <1>3, <1>5
    <3>2. row = x + (row - x) /\ col = y + (col - y)
      BY <1>3
    <3> QED
      BY <3>1, <3>2
  <2>2. /\ r \div wr \in Nat /\ r % wr \in 0 .. wr - 1 /\ r = wr * (r \div wr) + (r % wr)
        /\ s \div wc \in Nat /\ s % wc \in 0 .. wc - 1 /\ s = wc * (s \div wc) + (s % wc)
    <3>1. r \in Nat /\ s \in Nat
      OBVIOUS
    <3> QED
      BY <3>1, DivMod
  <2>3. r \div wr \in 0 .. ir - 1 /\ s \div wc \in 0 .. ic - 1
    BY <1>2, SomeBlock
  <2>4. PICK a \in 0 .. wr - 1, l \in 0 .. ir - 1, b \in 0 .. wc - 1, jj \in 0 .. ic - 1 :
            r = wr * l + a /\ s = wc * jj + b
    BY <2>2, <2>3
  <2>5. PICK i \in T!Item : i = wr * b + a
    <3>1. wr * b + a \in 0 .. wc * wr - 1
      BY DigitsFit
    <3>2. wc * wr = wr * wc
      OBVIOUS
    <3> QED
      BY <1>1, <3>1, <3>2 DEF T!Item, T!WgSize
  <2>6. i \div wr = b /\ i % wr = a
    <3>1. i \in Nat /\ b \in Nat
      BY <1>1, <2>5 DEF T!Item, T!WgSize
    <3>2. wr \in Nat \ {0} /\ a \in 0 .. wr - 1
      BY <1>1
    <3>3. AtPlace(i, wr, b, a)
      BY <2>5 DEF AtPlace
    <3> QED
      BY <3>1, <3>2, <3>3, PlaceOfItem
  <2>7. l \in T!RegRows /\ jj \in T!RegCols
    BY <1>1, <2>4 DEF T!RegRows, T!RegCols
  <2>8. PlaceRow(i, l) = r /\ PlaceCol(i, jj) = s
    <3>1. a + l * wr = wr * l + a /\ b + jj * wc = wc * jj + b
      <4>1. PICK u \in Nat, v \in Nat : u = l * wr /\ v = jj * wc
        OBVIOUS
      <4>2. u = wr * l /\ v = wc * jj
        BY <4>1
      <4> QED
        BY <4>1, <4>2
    <3> QED
      BY <1>1, <2>4, <2>6, <3>1 DEF PlaceRow, PlaceCol
  <2>9. T!SliceRow(i, l) = row /\ T!SliceCol(i, jj) = col
    BY <1>1, <2>1, <2>7, <2>8, TallPlaces
  <2>10. row < launch.m /\ col < launch.n
    <3>1. launch.m \in Nat /\ launch.n \in Nat
      BY TallPlace
    <3> QED
      BY <3>1
  <2>11. <<jj, l>> \in T!Stored(i)
    BY <2>7, <2>9, <2>10 DEF T!Stored
  <2>12. ElementC(i, <<jj, l>>) = <<row, col>>
    BY <2>9 DEF ElementC
  <2> QED
    BY <2>11, <2>12 DEF OfItem
<1> QED
  BY <1>1, <1>2, <1>4, <1>5

LEMMA TallBlockExact ==
    ASSUME TallLaunch, TallStored
    PROVE  T!BlockExact
<1> DEFINE At3(e) == e[1] * launch.ldc * launch.n + e[3] * launch.ldc + e[2]
           share == T!GroupShare(launch.group)
           part == T!GroupK(launch.group)
<1> SUFFICES ASSUME \A i \in T!Item : pc[i] = "done"
             PROVE  /\ DOMAIN c = {At3(e) : e \in share}
                    /\ \A e \in share : c[At3(e)] =
                          [c |-> IF launch.betaZero THEN {} ELSE {At3(e)},
                           of |-> {<<T!FromA(T!AddressA(e[2], l)), T!FromB(T!AddressB(l, e[3]))>> :
                                      l \in part},
                           once |-> TRUE]
  BY DEF T!BlockExact
<1>1. /\ T!TileM \in Nat /\ T!TileN \in Nat /\ MOff \in Nat /\ NOff \in Nat /\ KOff \in Nat
      /\ launch.m \in Nat \ {0} /\ launch.n \in Nat \ {0} /\ launch.k \in Nat \ {0}
      /\ T!TileK \in Nat \ {0} /\ T!NumTiles \in Nat \ {0}
  BY TallBlocks, TallPlace DEF TallLaunch
<1>2. ASSUME NEW row, NEW col
      PROVE  <<row, col>> \in TallDone <=> <<KGrp, row, col>> \in share
  <2>1. <<KGrp, row, col>> \in share
           <=> /\ row \in MOff .. MOff + T!TileM - 1 /\ row < launch.m
               /\ col \in NOff .. NOff + T!TileN - 1 /\ col < launch.n
    BY DEF T!GroupShare, MOff, NOff, KGrp
  <2>2. <<row, col>> \in TallDone
           <=> /\ row \in 0 .. launch.m - 1 /\ col \in 0 .. launch.n - 1
               /\ \E i \in T!Item : <<row, col>> \in OfItem(i)
    BY DEF TallDone, Slice
  <2>3. CASE row \in 0 .. launch.m - 1 /\ col \in 0 .. launch.n - 1
    <3>1. row < launch.m /\ col < launch.n
      BY <1>1, <2>3
    <3> QED
      BY <2>1, <2>2, <2>3, <3>1, TallCovers
  <2>4. CASE ~(row \in 0 .. launch.m - 1 /\ col \in 0 .. launch.n - 1)
    <3>1. ~(/\ row \in MOff .. MOff + T!TileM - 1 /\ row < launch.m
            /\ col \in NOff .. NOff + T!TileN - 1 /\ col < launch.n)
      BY <1>1, <2>4
    <3> QED
      BY <2>1, <2>2, <2>4, <3>1
  <2> QED
    BY <2>3, <2>4
<1>3. /\ \A e \in share : \E row, col : e = <<KGrp, row, col>>
      /\ \A f \in TallDone : \E row, col : f = <<row, col>>
      /\ TallDone \subseteq Slice
  BY DEF T!GroupShare, KGrp, TallDone, Slice
<1>4. ASSUME NEW row, NEW col, <<row, col>> \in Slice
      PROVE  CellC[<<row, col>>] = At3(<<KGrp, row, col>>)
  BY <1>4 DEF CellC
<1>5. DOMAIN c = {CellC[f] : f \in TallDone} /\ \A f \in TallDone : c[CellC[f]] = ValueC[f]
  BY DEF TallStored, Filled
<1>6. PICK n \in Nat : n = Before(T!NumTiles)
  BY <1>1, BeforeIs
<1>7. part = {KOff + x : x \in 0 .. n - 1}
  <2>1. PICK tk \in Nat : tk = T!NumTiles * T!TileK
    BY <1>1
  <2>2. \A l \in Nat : l < n <=> KOff + l < launch.k /\ l < tk
    BY <1>1, <1>6, <2>1, BeforeIs
  <2>3. part = {l \in KOff .. KOff + tk - 1 : l < launch.k}
    BY <2>1 DEF T!GroupK, KOff
  <2>4. ASSUME NEW l \in part PROVE l \in {KOff + x : x \in 0 .. n - 1}
    <3>1. l \in KOff .. KOff + tk - 1 /\ l < launch.k
      BY <2>3
    <3>2. PICK x \in Nat : l = KOff + x /\ x < tk
      <4>1. l - KOff \in Nat /\ l = KOff + (l - KOff) /\ l - KOff < tk
        BY <1>1, <3>1
      <4> QED
        BY <4>1
    <3>3. x < n
      BY <2>2, <3>1, <3>2
    <3>4. x \in 0 .. n - 1
      BY <3>3
    <3> QED
      BY <3>2, <3>4
  <2>5. ASSUME NEW x \in 0 .. n - 1 PROVE KOff + x \in part
    <3>1. x \in Nat /\ x < n
      OBVIOUS
    <3>2. KOff + x < launch.k /\ x < tk
      BY <2>2, <3>1
    <3>3. KOff + x \in KOff .. KOff + tk - 1
      BY <1>1, <3>1, <3>2
    <3> QED
      BY <2>3, <3>2, <3>3
  <2> QED
    BY <2>4, <2>5
<1>8. ASSUME NEW row, NEW col
      PROVE  {<<FromA([l \in Nat |-> T!AddressA(row, KOff + l)][x]),
                FromB([l \in Nat |-> T!AddressB(KOff + l, col)][x])>> : x \in 0 .. n - 1}
               = {<<T!FromA(T!AddressA(row, l)), T!FromB(T!AddressB(l, col))>> : l \in part}
  <2>1. \A x \in 0 .. n - 1 :
           /\ FromA([l \in Nat |-> T!AddressA(row, KOff + l)][x]) = T!FromA(T!AddressA(row, KOff + x))
           /\ FromB([l \in Nat |-> T!AddressB(KOff + l, col)][x]) = T!FromB(T!AddressB(KOff + x, col))
    BY TallNumbers
  <2> QED
    BY <1>7, <2>1
<1>9. DOMAIN c = {At3(e) : e \in share}
  <2>1. ASSUME NEW e \in share PROVE \E f \in TallDone : At3(e) = CellC[f]
    <3>1. PICK row, col : e = <<KGrp, row, col>>
      BY <1>3
    <3>2. <<row, col>> \in TallDone /\ <<row, col>> \in Slice
      BY <1>2, <1>3, <3>1
    <3>3. CellC[<<row, col>>] = At3(<<KGrp, row, col>>)
      BY <1>4, <3>2
    <3> HIDE DEF At3
    <3> QED
      BY <3>1, <3>2, <3>3
  <2>2. ASSUME NEW f \in TallDone PROVE \E e \in share : At3(e) = CellC[f]
    <3>1. PICK row, col : f = <<row, col>>
      BY <1>3
    <3>2. <<KGrp, row, col>> \in share /\ <<row, col>> \in Slice
      BY <1>2, <1>3, <3>1
    <3>3. CellC[<<row, col>>] = At3(<<KGrp, row, col>>)
      BY <1>4, <3>2
    <3> HIDE DEF At3, share
    <3> QED
      BY <3>1, <3>2, <3>3
  <2> HIDE DEF At3, share
  <2> QED
    BY <1>5, <2>1, <2>2
<1>10. ASSUME NEW e \in share
       PROVE  c[At3(e)] =
                [c |-> IF launch.betaZero THEN {} ELSE {At3(e)},
                 of |-> {<<T!FromA(T!AddressA(e[2], l)), T!FromB(T!AddressB(l, e[3]))>> : l \in part},
                 once |-> TRUE]
  <2>1. PICK row, col : e = <<KGrp, row, col>>
    BY <1>3
  <2>2. PICK f : f = <<row, col>> /\ f \in TallDone /\ f \in Slice
    BY <1>2, <1>3, <2>1
  <2>3. PICK z : z = At3(e) /\ z = CellC[f]
    BY <1>4, <2>1, <2>2
  <2>4. c[z] = ValueC[f]
    BY <1>5, <2>2, <2>3
  <2>5. ValueC[f] = Sum(IF launch.betaZero THEN {} ELSE {z},
                        [l \in Nat |-> T!AddressA(row, KOff + l)],
                        [l \in Nat |-> T!AddressB(KOff + l, col)], n)
    BY <1>6, <2>2, <2>3 DEF ValueC
  <2>6. e[2] = row /\ e[3] = col
    BY <2>1
  <2>7. PICK fa, fb : /\ fa = [l \in Nat |-> T!AddressA(row, KOff + l)]
                      /\ fb = [l \in Nat |-> T!AddressB(KOff + l, col)]
    OBVIOUS
  <2>8. PICK ps : ps = {<<T!FromA(T!AddressA(row, l)), T!FromB(T!AddressB(l, col))>> : l \in part}
    OBVIOUS
  <2>9. {<<FromA(fa[x]), FromB(fb[x])>> : x \in 0 .. n - 1} = ps
    BY <1>8, <2>7, <2>8
  <2>10. c[z] = [c |-> IF launch.betaZero THEN {} ELSE {z}, of |-> ps, once |-> TRUE]
    BY <2>4, <2>5, <2>7, <2>9 DEF Sum
  <2>11. ps = {<<T!FromA(T!AddressA(e[2], l)), T!FromB(T!AddressB(l, e[3]))>> : l \in part}
    BY <2>6, <2>8
  <2> HIDE DEF At3, share, part
  <2> QED
    BY <2>3, <2>10, <2>11
<1> QED
  BY <1>9, <1>10

-------------------------------------------------------------------------------
(***************************************************************************)
(* GemmPartialLocal: all of it                                             *)
(***************************************************************************)

TallExact == TallLoops /\ TileMemory /\ TallRegs /\ TallStored

LEMMA TallExactStart == T!Init => TallExact
BY TallLoopsStart, TileMemoryStart, TallRegsStart, TallStoredStart DEF TallExact

LEMMA TallExactStep ==
    ASSUME TallExact, NEW j \in T!Item, T!Step(j)
    PROVE  TallExact' /\ launch' = launch
BY TallLoopsStep, TileMemoryStep, TallRegsStep, TallStoredStep DEF TallExact

LEMMA TallExactSame ==
    ASSUME TallExact,
           UNCHANGED <<launch, pc, barriers, waiting, tile, regRes, scratch, c>>
    PROVE  TallExact'
<1>1. /\ launch' = launch /\ pc' = pc /\ barriers' = barriers /\ waiting' = waiting
      /\ tile' = tile /\ regRes' = regRes /\ scratch' = scratch /\ c' = c
  OBVIOUS
<1>2. TallLoops /\ TileMemory /\ TallRegs /\ TallStored /\ TallLaunch
  BY DEF TallExact, TallLoops
<1>3. TallLoops'
  <2>1. TallInv'
    BY <1>1, <1>2, TallSame DEF TallLoops
  <2>2. T!Item' = T!Item /\ T!NumTiles' = T!NumTiles
    BY <1>1, TallSameNumbers
  <2>3. TallPhase' = TallPhase
    BY <1>1, <2>2 DEF TallPhase
  <2>4. TallLaunch'
    BY <1>1, <1>2 DEF TallLaunch, T!Groups, T!GroupCountM, T!GroupCountN, T!TileM, T!TileN
  <2> QED
    BY <1>1, <1>2, <2>1, <2>2, <2>3, <2>4 DEF TallLoops
<1>4. TileMemory'
  <2>1. /\ T!Item' = T!Item /\ T!NumTiles' = T!NumTiles
        /\ T!LocalMemorySize' = T!LocalMemorySize
        /\ \A i, t : HasTile(scratch, i, t)' <=> HasTile(scratch', i, t)
    BY <1>1, <1>2, TilesSame
  <2>2. TilesCopied'
    BY <1>1, <1>2, <2>1 DEF TileMemory, TilesCopied, Needs
  <2>3. TilesAhead'
    BY <1>1, <1>2, <2>1 DEF TileMemory, TilesAhead
  <2> QED
    BY <1>1, <1>2, <2>1, <2>2, <2>3 DEF TileMemory
<1>5. TallRegs'
  <2>1. T!Item' = T!Item /\ \A f, i, t : TallHas(f, i, t)' <=> TallHas(f, i, t)
    BY <1>1, TallSameNumbers
  <2>2. ASSUME NEW i \in T!Item PROVE TallHas(regRes[i], i, tile[i])'
    <3>1. PICK f, t : f = regRes[i] /\ t = tile[i]
      OBVIOUS
    <3>2. TallHas(f, i, t)'
      BY <1>2, <2>1, <3>1 DEF TallRegs
    <3> QED
      BY <1>1, <3>1, <3>2 DEF TallHas
  <2> QED
    BY <1>1, <1>2, <2>1, <2>2 DEF TallRegs
<1>6. TallStored'
  <2>1. /\ Slice' = Slice /\ CellC' = CellC /\ ValueC' = ValueC /\ T!Item' = T!Item
        /\ \A i : OfItem(i)' = OfItem(i)
    BY <1>1, TallSameC
  <2>2. TallDone' = TallDone
    BY <1>1, <2>1 DEF TallDone
  <2> QED
    BY <1>1, <1>2, <2>1, <2>2 DEF TallStored, Filled
<1> QED
  BY <1>3, <1>4, <1>5, <1>6 DEF TallExact

LEMMA TallTyped == TallExact => T!TypeOK
<1> SUFFICES ASSUME TallExact PROVE T!TypeOK
  OBVIOUS
<1>1. TallLoops /\ TileMemory /\ TallRegs /\ TallStored /\ TallLaunch /\ TallInv
  BY DEF TallExact, TallLoops
<1>2. /\ pc \in [T!Item -> {"start", "load", "compute", "store", "done"}]
      /\ barriers \in [T!Item -> Nat] /\ waiting \in [T!Item -> BOOLEAN]
      /\ tile \in [T!Item -> Nat]
  BY <1>1 DEF TallInv, InStep
<1>3. tile \in [T!Item -> 0 .. T!NumTiles]
  <2>1. T!NumTiles \in Nat \ {0}
    BY <1>1, TallPlace
  <2>2. ASSUME NEW i \in T!Item PROVE tile[i] \in 0 .. T!NumTiles
    <3>1. pc[i] = "start" => tile[i] = 0
      BY <1>1 DEF TallInv
    <3>2. /\ pc[i] \in {"load", "compute"} => tile[i] < T!NumTiles
          /\ pc[i] \in {"store", "done"} => tile[i] = T!NumTiles
      BY <1>1 DEF TallLoops
    <3> QED
      BY <1>2, <2>1, <3>1, <3>2
  <2> QED
    BY <1>2, <2>2
<1>4. \A i \in T!Item, col \in T!RegCols, row \in T!RegRows :
         T!IsAccumulator(regRes[i][col][row])
  BY <1>1, TallNumbers DEF TallRegs, TallHas
<1>5. DOMAIN c \subseteq 0 .. launch.depth * launch.ldc * launch.n - 1
  <2>1. \A e \in TallDone : e \in Slice
    BY DEF TallDone
  <2> QED
    BY <1>1, <2>1, CellsOfC DEF TallStored, Filled
<1> QED
  BY <1>1, <1>2, <1>3, <1>4, <1>5 DEF T!TypeOK, TileMemory

-------------------------------------------------------------------------------
(***************************************************************************)
(* GemmLocal: all of it                                                    *)
(***************************************************************************)

FirstBatch == L!WgBatchId(launch.group)

LocalExact ==
    /\ LoopsInv(FirstBatch, L!BatchStride) /\ LocalBlock
    /\ ScratchInv /\ RegsInv /\ LocalStored(FirstBatch, L!BatchStride)

LEMMA LocalExactStart == L!Init => LocalExact
BY LoopsInvStart, ScratchStart, RegsStart, LocalStoredStart DEF LocalExact, FirstBatch

LEMMA LocalExactStep ==
    ASSUME WholeTrips, LocalExact, NEW j \in L!Item, L!Step(j)
    PROVE  LocalExact' /\ launch' = launch
<1>1. PICK b0, d : b0 = FirstBatch /\ d = L!BatchStride
  OBVIOUS
<1>2. /\ LoopsInv(b0, d) /\ LocalBlock /\ ScratchInv /\ RegsInv /\ LocalStored(b0, d)
  BY <1>1 DEF LocalExact
<1>3. launch' = launch /\ block' = block
  BY DEF L!Step, L!Load, L!Compute, L!Store
<1>4. LocalBlock' /\ FirstBatch' = b0 /\ L!BatchStride' = d
  BY <1>1, <1>2, <1>3, LocalSameNumbers DEF FirstBatch
<1>5. LoopsInv(b0, d)'
  BY <1>1, <1>2, LoopsStep
<1>6. ScratchInv'
  BY <1>1, <1>2, ScratchStep
<1>7. RegsInv'
  BY <1>1, <1>2, RegsStep
<1>8. LocalStored(b0, d)'
  BY <1>1, <1>2, LocalStoredStep
<1> QED
  BY <1>3, <1>4, <1>5, <1>6, <1>7, <1>8 DEF LocalExact, LoopsInv, LocalStored, LocalDone, FirstBatch

LEMMA LocalExactSame ==
    ASSUME LocalExact,
           UNCHANGED <<launch, block, pc, barriers, waiting, batch, k, buffer, ofs, regRes,
                       scratch, c>>
    PROVE  LocalExact'
<1>1. /\ launch' = launch /\ block' = block /\ pc' = pc /\ barriers' = barriers
      /\ waiting' = waiting /\ batch' = batch /\ k' = k /\ buffer' = buffer /\ ofs' = ofs
      /\ regRes' = regRes /\ scratch' = scratch /\ c' = c
  OBVIOUS
<1>2. PICK b0, d : b0 = FirstBatch /\ d = L!BatchStride
  OBVIOUS
<1>3. /\ LoopsInv(b0, d) /\ LocalBlock /\ ScratchInv /\ RegsInv /\ LocalStored(b0, d)
  BY <1>2 DEF LocalExact
<1>4. LocalBlock' /\ FirstBatch' = b0 /\ L!BatchStride' = d /\ L!Item' = L!Item
  BY <1>1, <1>2, <1>3, LocalSameNumbers DEF FirstBatch
<1>5. LoopsInv(b0, d)'
  <2>1. LocalInv'
    BY <1>1, <1>3, LocalSame DEF LoopsInv
  <2>2. \A i \in L!Item : InLoops(b0, d, pc[i], batch[i], k[i], buffer[i], barriers[i],
                                  waiting[i])'
    <3>1. ASSUME NEW i \in L!Item
          PROVE  InLoops(b0, d, pc[i], batch[i], k[i], buffer[i], barriers[i], waiting[i])'
      <4>1. PICK p, b, kk, w, a, waits :
                /\ p = pc[i] /\ b = batch[i] /\ kk = k[i] /\ w = buffer[i]
                /\ a = barriers[i] /\ waits = waiting[i]
        OBVIOUS
      <4>2. InLoops(b0, d, p, b, kk, w, a, waits)
        BY <1>3, <4>1 DEF LoopsInv
      <4>3. InLoops(b0, d, p, b, kk, w, a, waits)'
        BY <1>1, <4>2, LoopsSame
      <4> QED
        BY <1>1, <4>1, <4>3 DEF InLoops, InPanel
    <3> QED
      BY <3>1
  <2> QED
    BY <1>1, <1>3, <1>4, <2>1, <2>2 DEF LoopsInv
<1>6. ScratchInv'
  <2>1. ASSUME ~block.outOfRange, NEW i \in L!Item, NEW u \in L!Item,
               pc'[i] = "compute" /\ barriers'[u] >= barriers'[i]
        PROVE  HasCopied(scratch', u, buffer'[i], batch'[i], k'[i])
    BY <1>1, <1>3, <2>1 DEF ScratchInv, PanelsIn
  <2>2. DOMAIN scratch' = 0 .. L!LocalMemorySize - 1
    BY <1>1, <1>3 DEF ScratchInv
  <2> QED
    BY <1>1, <2>1, <2>2, ScratchKept
<1>7. RegsInv'
  <2>1. ASSUME NEW i \in L!Item
        PROVE  (/\ Typed(regRes[i])
                /\ Sums(regRes[i], L!Stored(i), LocalRows(i), LocalCols(i), batch[i],
                        launch.k - k[i]))'
    <3>1. PICK g, S, rows, cols, b, n :
              /\ g = regRes[i] /\ S = L!Stored(i) /\ rows = LocalRows(i)
              /\ cols = LocalCols(i) /\ b = batch[i] /\ n = launch.k - k[i]
      OBVIOUS
    <3>2. Typed(g)' /\ Sums(g, S, rows, cols, b, n)'
      BY <1>1, <1>3, <3>1, LocalSameNumbers DEF RegsInv
    <3>3. S = L!Stored(i)' /\ rows = LocalRows(i)' /\ cols = LocalCols(i)'
      BY <1>1, <3>1, LocalSameNumbers
    <3> QED
      BY <1>1, <3>1, <3>2, <3>3 DEF Typed, Sums
  <2>2. (DOMAIN regRes = L!Item /\ regRes = [i \in L!Item |-> regRes[i]])'
    BY <1>1, <1>3, <1>4 DEF RegsInv
  <2> QED
    BY <1>4, <2>1, <2>2 DEF RegsInv
<1>8. LocalStored(b0, d)'
  BY <1>1, <1>3, LocalStoredSame
<1> QED
  BY <1>4, <1>5, <1>6, <1>7, <1>8 DEF LocalExact, LoopsInv, LocalStored, LocalDone, FirstBatch

\* What the invariant comes to.
LEMMA LocalTyped == LocalExact => L!TypeOK
<1> SUFFICES ASSUME LocalExact PROVE L!TypeOK
  OBVIOUS
<1>1. PICK b0, d : b0 = FirstBatch /\ d = L!BatchStride
  OBVIOUS
<1>2. /\ LoopsInv(b0, d) /\ LocalBlock /\ ScratchInv /\ RegsInv /\ LocalStored(b0, d)
  BY <1>1 DEF LocalExact
<1>3. /\ LocalInv /\ LocalLaunch /\ launch \in LocalLaunches /\ Sized
  BY <1>2, LocalSized DEF LoopsInv, LocalInv, LocalLaunch
<1>4. /\ pc \in [L!Item -> {"load", "compute", "done"}]
      /\ barriers \in [L!Item -> Nat] /\ waiting \in [L!Item -> BOOLEAN]
      /\ ofs \in [L!Item -> {1, -1}] /\ buffer \in [L!Item -> 0 .. L!Buffers - 1]
  <2>1. ofs \in [L!Item -> {1, -1}]
    BY <1>3 DEF LocalInv
  <2>2. barriers \in [L!Item -> Nat] /\ waiting \in [L!Item -> BOOLEAN]
    BY <1>3 DEF LocalInv, InStep
  <2>3. pc \in [L!Item -> {"load", "compute", "done"}]
    BY <1>3 DEF LocalInv
  <2> QED
    BY <1>3, <2>1, <2>2, <2>3 DEF LocalLaunch
<1>5. batch \in [L!Item -> Nat]
  BY <1>2 DEF LoopsInv
<1>6. k \in [L!Item -> 0 .. launch.k]
  <2>1. ASSUME NEW i \in L!Item PROVE k[i] \in 0 .. launch.k
    <3>1. PICK p, b, kk, w, a, waits :
              /\ p = pc[i] /\ b = batch[i] /\ kk = k[i] /\ w = buffer[i]
              /\ a = barriers[i] /\ waits = waiting[i]
              /\ InLoops(b0, d, p, b, kk, w, a, waits)
      BY <1>2 DEF LoopsInv
    <3> QED
      BY <1>3, <3>1, LoopsTyped
  <2> QED
    BY <1>2, <2>1 DEF LoopsInv
<1>7. ASSUME NEW i \in L!Item, NEW j \in L!RegCols, NEW l \in L!RegRows
      PROVE  L!IsAccumulator(regRes[i][j][l])
  <2>1. Typed(regRes[i]) /\ L!RegRows = Y!RegRows /\ L!RegCols = Y!RegCols
    BY <1>2, <1>3, LocalShape DEF RegsInv
  <2>2. IsAccumulator(regRes[i][j][l])
    BY <2>1 DEF Typed
  <2> QED
    BY <2>2, LocalNumbers
<1>8. DOMAIN c \subseteq 0 .. launch.batchSize * L!CSize - 1
  <2>1. DOMAIN c = {CellOf(e) : e \in LocalDone(b0, d)}
    BY <1>2 DEF LocalStored, Complete
  <2>2. \A e \in Y!Elements : CellOf(e) \in 0 .. launch.batchSize * Y!CSize - 1
    BY <1>3, OneCellEach
  <2>3. L!CSize = Y!CSize /\ LocalDone(b0, d) \subseteq Y!Elements
    BY DEF L!CSize, Y!CSize, LocalDone
  <2> QED
    BY <2>1, <2>2, <2>3
<1> QED
  BY <1>2, <1>4, <1>5, <1>6, <1>7, <1>8 DEF L!TypeOK, ScratchInv

LEMMA LocalIsExact ==
    ASSUME WholeTrips, LocalExact
    PROVE  L!BlockExact /\ L!LoadsInBounds
<1>1. PICK b0, d : b0 = FirstBatch /\ d = L!BatchStride
  OBVIOUS
<1>2. /\ LoopsInv(b0, d) /\ LocalBlock /\ ScratchInv /\ LocalStored(b0, d)
  BY <1>1 DEF LocalExact
<1>3. L!BlockExact
  BY <1>1, <1>2, LocalBlockExact DEF FirstBatch
<1>4. L!LoadsInBounds
  BY <1>2, LocalBounds
<1> QED
  BY <1>3, <1>4

-------------------------------------------------------------------------------
(***************************************************************************)
(* All the kernels                                                         *)
(***************************************************************************)

BlockInv ==
    /\ launch \in AllLaunches
    /\ Runs("local") => LocalExact
    /\ Runs("tallSkinny") => TallExact

LEMMA BlockStart == Init => BlockInv
<1> SUFFICES ASSUME Init PROVE BlockInv
  OBVIOUS
<1>1. CASE L!Init
  <2>1. launch \in LocalLaunches /\ launch.kernel = "local"
    BY <1>1, LocalSizes DEF L!Init
  <2> QED
    BY <1>1, <2>1, LocalExactStart DEF BlockInv, AllLaunches, Runs
<1>2. CASE T!Init
  <2>1. launch \in TallSkinnyLaunches /\ launch.kernel = "tallSkinny"
    BY <1>2, TallSizes DEF T!Init
  <2> QED
    BY <1>2, <2>1, TallExactStart DEF BlockInv, AllLaunches, Runs
<1>3. CASE F!Init \/ P!Init \/ I!Init \/ R!Init
  <2>1. /\ launch \in FullVecLaunches \cup PartialVecLaunches \cup InterleavedLaunches
                        \cup RefLaunches
        /\ launch.kernel # "local" /\ launch.kernel # "tallSkinny"
    BY <1>3, GemmKernelsAssumption
       DEF F!Init, P!Init, I!Init, R!Init, GemmKernelsAssumption, KernelsAssumption
  <2> QED
    BY <2>1 DEF BlockInv, AllLaunches, Runs
<1> QED
  BY <1>1, <1>2, <1>3 DEF Init

LEMMA BlockStep == WholeTrips /\ BlockInv /\ [Next]_vars => BlockInv'
<1> SUFFICES ASSUME WholeTrips, BlockInv, [Next]_vars PROVE BlockInv'
  OBVIOUS
<1>1. CASE \E i \in Item : Runs("local") /\ L!Step(i) /\ UNCHANGED tile
  <2>1. PICK i \in L!Item : L!Step(i)
    BY <1>1 DEF Item, L!Item, L!WgSize
  <2>2. LocalExact
    BY <1>1 DEF BlockInv
  <2>3. LocalExact' /\ launch' = launch
    BY <2>1, <2>2, LocalExactStep
  <2> QED
    BY <1>1, <2>3 DEF BlockInv, Runs, AllLaunches
<1>2. CASE \E i \in Item : /\ Runs("tallSkinny") /\ T!Step(i)
                           /\ UNCHANGED <<block, batch, k, buffer, ofs>>
  <2>1. PICK i \in T!Item : T!Step(i)
    BY <1>2 DEF Item, T!Item, T!WgSize
  <2>2. TallExact
    BY <1>2 DEF BlockInv
  <2>3. TallExact' /\ launch' = launch
    BY <2>1, <2>2, TallExactStep
  <2> QED
    BY <1>2, <2>3 DEF BlockInv, Runs, AllLaunches
<1>3. CASE ItemStep
  <2>1. launch' = launch /\ ~Runs("local") /\ ~Runs("tallSkinny")
    BY <1>3 DEF ItemStep, Runs, F!Next, F!Compute, F!Store, P!Next, P!Compute, P!Store,
      I!Next, I!Compute, I!Store, I!StoreOf, R!Next, R!Compute, R!Store
  <2> QED
    BY <2>1 DEF BlockInv, Runs, AllLaunches
<1>4. CASE UNCHANGED vars
  <2>1. UNCHANGED <<launch, block, pc, barriers, waiting, batch, k, buffer, ofs, regRes,
                    scratch, c>>
    BY <1>4 DEF vars
  <2>2. UNCHANGED <<launch, pc, barriers, waiting, tile, regRes, scratch, c>>
    BY <1>4 DEF vars
  <2> QED
    BY <2>1, <2>2, LocalExactSame, TallExactSame DEF BlockInv, Runs, AllLaunches
<1> QED
  BY <1>1, <1>2, <1>3, <1>4 DEF Next, GroupStep, Finished

\* Where each item of a group is in its loops, what local memory holds for the
\* items at its barrier, what is in their registers and what has been stored.
THEOREM BlockInvariant == WholeTrips => (Spec => []BlockInv)
<1> SUFFICES ASSUME WholeTrips PROVE Spec => []BlockInv
  OBVIOUS
<1>1. BlockInv /\ [Next]_vars => BlockInv'
  BY BlockStep
<1> QED
  BY BlockStart, <1>1, PTL DEF Spec

\* The kernels with local memory: a work-group that is done has stored its share
\* of C, or of the cube of partial products, and nothing else, each element with
\* every product once, whatever panels, buffers and batches they came through.
THEOREM BlocksExact == WholeTrips => (Spec => []BlockExact)
<1> SUFFICES ASSUME WholeTrips PROVE Spec => []BlockExact
  OBVIOUS
<1>1. BlockInv => BlockExact
  <2> SUFFICES ASSUME BlockInv PROVE BlockExact
    OBVIOUS
  <2>1. Runs("local") => L!BlockExact
    BY LocalIsExact DEF BlockInv
  <2>2. Runs("tallSkinny") => T!BlockExact
    BY TallBlockExact DEF BlockInv, TallExact, TallLoops
  <2> QED
    BY <2>1, <2>2 DEF BlockExact
<1> QED
  BY <1>1, BlockInvariant, PTL

\* No copy to local memory and no load of a packet leaves the matrices, nor local
\* memory.
THEOREM LoadsStayInBounds == WholeTrips => (Spec => []LoadsInBounds)
<1> SUFFICES ASSUME WholeTrips PROVE Spec => []LoadsInBounds
  OBVIOUS
<1>1. BlockInv /\ ItemInv => LoadsInBounds
  <2> SUFFICES ASSUME BlockInv, ItemInv PROVE LoadsInBounds
    OBVIOUS
  <2>1. Runs("local") => L!LoadsInBounds
    BY LocalIsExact DEF BlockInv
  <2>2. Runs("tallSkinny") => T!LoadsInBounds
    BY TallBounds DEF BlockInv, TallExact, TallLoops, TileMemory
  <2>3. Runs("partialVec") => P!LoadsInBounds
    BY PartBounds DEF ItemInv
  <2>4. Runs("interleaved") => I!LoadsInBounds
    BY InterExact DEF ItemInv
  <2> QED
    BY <2>1, <2>2, <2>3, <2>4 DEF LoadsInBounds
<1> QED
  BY <1>1, BlockInvariant, ItemInvariant, PTL

\* The type invariants of the six kernels.
THEOREM KernelsTyped == WholeTrips => (Spec => []TypeOK)
<1> SUFFICES ASSUME WholeTrips PROVE Spec => []TypeOK
  OBVIOUS
<1>1. BlockInv /\ ItemInv => TypeOK
  <2> SUFFICES ASSUME BlockInv, ItemInv PROVE TypeOK
    OBVIOUS
  <2>1. Runs("local") => L!TypeOK
    BY LocalTyped DEF BlockInv
  <2>2. Runs("tallSkinny") => T!TypeOK
    BY TallTyped DEF BlockInv
  <2>3. Runs("fullVec") => F!TypeOK
    BY FullExact DEF ItemInv
  <2>4. Runs("partialVec") => P!TypeOK
    BY PartExact DEF ItemInv
  <2>5. Runs("interleaved") => I!TypeOK
    BY InterExact DEF ItemInv
  <2>6. Runs("ref") => R!TypeOK
    BY RefExact DEF ItemInv
  <2> QED
    BY <2>1, <2>2, <2>3, <2>4, <2>5, <2>6 DEF TypeOK
<1> QED
  BY <1>1, BlockInvariant, ItemInvariant, PTL
================================================================================
