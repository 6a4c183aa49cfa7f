--------------------------- MODULE GemmKernelsProofs ---------------------------
(***************************************************************************)
(* Proofs about the kernels of GemmKernels, for every launch and every     *)
(* size of a work-group: those with local memory have no race on it, and   *)
(* the groups, or the items, that a launch starts share out C.             *)
(*                                                                         *)
(* The kernels with local memory keep a tile of A and one of B there, each *)
(* in one buffer or in two.  Items that no barrier holds are in the same   *)
(* phase, and in a phase no item reads the buffer that another fills; of a *)
(* buffer, each item fills cells of its own.                               *)
(*                                                                         *)
(* The shares of C follow from the numbers of the groups and of the items  *)
(* alone, read as digits: an element has one digit of each kind.           *)
(***************************************************************************)
EXTENDS GemmKernels, GridArithmetic, FiniteSetTheorems

-------------------------------------------------------------------------------
(***************************************************************************)
(* Tiles in local memory                                                   *)
(***************************************************************************)

\* Copy number b of a tile of the size given.
Area(base, size, b) == {base + b * size + x : x \in 0 .. size - 1}

\* Of n copies of one tile and then n of the other, copy b of either and copy d
\* of the other have no cell in common, nor have copies b and d of the same.
Apart(first, second, n, b, d) ==
    /\ Area(0, first, b) \cap Area(n * first, second, d) = {}
    /\ b # d => Area(0, first, b) \cap Area(0, first, d) = {}
    /\ b # d => Area(n * first, second, b) \cap Area(n * first, second, d) = {}

LEMMA AreasApart ==
    ASSUME NEW first \in Nat, NEW second \in Nat, NEW n \in {1, 2},
           NEW b \in 0 .. n - 1, NEW d \in 0 .. n - 1
    PROVE  Apart(first, second, n, b, d)
<1>1. ASSUME NEW x \in 0 .. first - 1, NEW y \in 0 .. second - 1
      PROVE  0 + b * first + x # n * first + d * second + y
  <2>1. n = 1 \/ n = 2
    OBVIOUS
  <2>2. CASE n = 1
    BY <2>2
  <2>3. CASE n = 2
    BY <2>3
  <2> QED
    BY <2>1, <2>2, <2>3
<1>2. ASSUME NEW base \in Nat, NEW size \in Nat, b # d, NEW x \in 0 .. size - 1,
             NEW y \in 0 .. size - 1
      PROVE  base + b * size + x # base + d * size + y
  <2>1. n = 2 /\ ((b = 0 /\ d = 1) \/ (b = 1 /\ d = 0))
    BY <1>2
  <2> QED
    BY <1>2, <2>1
<1>3. n * first \in Nat
  OBVIOUS
<1> QED
  BY <1>1, <1>2, <1>3 DEF Area, Apart

\* A cell of a tile that is kept column after column.
LEMMA TileCell ==
    ASSUME NEW rows \in Nat \ {0}, NEW cols \in Nat \ {0}, NEW ld \in Nat,
           rows <= ld, NEW r \in 0 .. rows - 1, NEW j \in 0 .. cols - 1
    PROVE  r + j * ld \in 0 .. ld * cols - 1
<1>1. ld * (j + 1) <= ld * cols
  BY MulMonotone
<1>2. j * ld = ld * j /\ ld * (j + 1) = ld * j + ld /\ ld * j \in Nat
  OBVIOUS
<1> QED
  BY <1>1, <1>2

\* Row r of column j, and row s of column m, when they are in the same cell.
OneCell(ld, r, j, s, m) ==
    /\ ld \in Nat \ {0} /\ j \in Nat /\ m \in Nat
    /\ r \in 0 .. ld - 1 /\ s \in 0 .. ld - 1
    /\ r + j * ld = s + m * ld

LEMMA OneCellOnly ==
    ASSUME NEW ld, NEW r, NEW j, NEW s, NEW m, OneCell(ld, r, j, s, m)
    PROVE  r = s /\ j = m
<1>1. ld * j + r = ld * m + s
  BY DEF OneCell
<1> QED
  BY <1>1, OnePlace DEF OneCell

\* An element of a block is in one row and one column of it.
LEMMA InTile ==
    ASSUME NEW rows \in Nat \ {0}, NEW cols \in Nat \ {0}, NEW e \in 0 .. rows * cols - 1
    PROVE  /\ e % rows \in 0 .. rows - 1 /\ e \div rows \in 0 .. cols - 1
           /\ e = rows * (e \div rows) + (e % rows)
<1>1. e \in Nat
  OBVIOUS
<1> DEFINE q == e \div rows
           r == e % rows
<1>2. q \in Nat /\ r \in 0 .. rows - 1 /\ e = rows * q + r
  BY <1>1, DivMod
<1> HIDE DEF q, r
<1>3. q < cols
  <2> SUFFICES ASSUME cols <= q PROVE FALSE
    BY <1>2
  <2>1. rows * cols <= rows * q
    BY <1>2, MulMonotone
  <2> QED
    BY <1>2, <2>1
<1>4. q \in 0 .. cols - 1 /\ r \in 0 .. rows - 1 /\ e = rows * q + r
  BY <1>2, <1>3
<1> QED
  BY <1>4 DEF q, r

-------------------------------------------------------------------------------
(***************************************************************************)
(* GemmLocal: where an item copies to                                      *)
(***************************************************************************)

\* A kernel that moves packets copies its blocks in whole trips of the group.
\* Only then is the check in extract_block, which does not count packets, not
\* needed, and it is compiled away (gemm_local.hpp:601, 630); the tiles of all
\* back-ends are such.
WholeTrips ==
    \A l \in LocalLaunches :
        \/ l.packet = 1
        \/ /\ ((WgRows * l.itemRows) * l.clElems) % ((WgRows * WgCols) * l.packet) = 0
           /\ (l.clElems * (WgCols * l.itemCols)) % ((WgRows * WgCols) * l.packet) = 0

\* In trip x, item i of s copies element v of packet i + x * s, of n elements in
\* packets of p.
Trip(s, p, n, i, x, v) ==
    /\ s \in Nat \ {0} /\ p \in Nat \ {0} /\ n \in Nat \ {0}
    /\ p = 1 \/ n % (s * p) = 0
    /\ i \in 0 .. s - 1 /\ v \in 0 .. p - 1
    /\ x \in 0 .. ((n - 1) \div (s * p) + 1) - 1
    /\ i + x * s * p < n

LEMMA TripCopies ==
    ASSUME NEW s, NEW p, NEW n, NEW i, NEW x, NEW v, Trip(s, p, n, i, x, v)
    PROVE  /\ i * p + x * s * p + v \in 0 .. n - 1
           /\ ((i * p + x * s * p + v) \div p) % s = i
<1> USE DEF Trip
<1> DEFINE y == i + s * x
           e == i * p + x * s * p + v
<1>1. /\ i \in Nat /\ x \in Nat /\ v \in Nat /\ y \in Nat
      /\ s * p \in Nat \ {0} /\ e = p * y + v
  <2>1. i \in Nat /\ v \in Nat /\ n - 1 \in Nat /\ s * p \in Nat \ {0}
    OBVIOUS
  <2>2. (n - 1) \div (s * p) \in Nat
    BY <2>1, DivMod
  <2>3. x \in Nat
    BY <2>2
  <2>4. s * x \in Nat
    BY <2>3
  <2>5. e = p * y + v
    BY <2>1, <2>3
  <2> QED
    BY <2>1, <2>3, <2>4, <2>5
<1>2. e \div p = y
  BY <1>1, DivModUnique
<1>3. y % s = i
  BY <1>1, DivModUnique
<1>4. e \in 0 .. n - 1
  <2>1. CASE p = 1
    BY <1>1, <2>1
  <2>2. CASE n % (s * p) = 0
    <3> DEFINE b == s * p
               q == n \div b
    <3>1. b \in Nat \ {0} /\ q \in Nat /\ n = b * q
      <4>1. q \in Nat /\ n = b * q + (n % b)
        BY <1>1, DivMod
      <4> QED
        BY <1>1, <2>2, <4>1
    <3>2. q >= 1
      <4> HIDE DEF q, b
      <4> QED
        BY <3>1
    <3>3. n - 1 = b * (q - 1) + (b - 1)
      <4> HIDE DEF q, b
      <4> QED
        BY <3>1, <3>2
    <3>4. (n - 1) \div b = q - 1
      <4> HIDE DEF q, b
      <4> QED
        BY <3>1, <3>2, <3>3, DivModUnique
    <3>5. x + 1 <= q
      BY <1>1, <3>1, <3>4
    <3>6. b * (x + 1) <= b * q
      <4> HIDE DEF q, b
      <4> QED
        BY <1>1, <3>1, <3>5, MulMonotone
    <3>7. p * (y + 1) <= b * (x + 1)
      <4>1. b * (x + 1) = p * (s * (x + 1)) /\ s * (x + 1) = s * x + s
        BY <1>1
      <4>2. y + 1 <= s * (x + 1)
        BY <1>1, <4>1
      <4> QED
        BY <1>1, <4>1, <4>2, MulMonotone
    <3>8. e < p * (y + 1) /\ e >= 0
      <4>1. p * (y + 1) = p * y + p /\ p * y >= 0
        BY <1>1
      <4> HIDE DEF y, e
      <4> QED
        BY <1>1, <4>1
    <3>9. /\ e \in Int /\ p * (y + 1) \in Int /\ b * (x + 1) \in Int /\ b * q \in Int
          /\ n = b * q
      BY <1>1, <3>1
    <3> HIDE DEF e, b, q, y
    <3> QED
      BY <3>6, <3>7, <3>8, <3>9
  <2> QED
    BY <2>1, <2>2
<1> QED
  BY <1>2, <1>3, <1>4

LEMMA LocalSizes ==
    ASSUME NEW l \in LocalLaunches
    PROVE  /\ l.kernel = "local"
           /\ WgRows \in Nat \ {0} /\ WgCols \in Nat \ {0}
           /\ l.itemRows \in Nat \ {0} /\ l.itemCols \in Nat \ {0}
           /\ l.clElems \in Nat \ {0} /\ l.packet \in Nat \ {0}
           /\ l.tlRows \in Nat \ {0} /\ l.tlCols \in Nat \ {0}
           /\ l.itemRows % l.packet = 0
           /\ l.k \in Nat \ {0}
BY GemmKernelsAssumption
   DEF GemmKernelsAssumption, KernelsAssumption, L!GemmLocalAssumption

\* The blocks and the tiles of a launch.
LEMMA LocalTiles ==
    ASSUME launch \in LocalLaunches
    PROVE  /\ L!WgSize \in Nat \ {0}
           /\ L!BlockRows \in Nat \ {0} /\ L!BlockCols \in Nat \ {0}
           /\ L!Ldsa \in Nat \ {0} /\ L!BlockRows <= L!Ldsa
           /\ L!Ldsb \in Nat \ {0} /\ launch.clElems <= L!Ldsb
           /\ L!Buffers \in {1, 2}
<1>1. WgRows * WgCols \in Nat \ {0} /\ WgRows * launch.itemRows \in Nat \ {0}
      /\ WgCols * launch.itemCols \in Nat \ {0}
  BY LocalSizes
<1> QED
  BY <1>1, LocalSizes
     DEF L!WgSize, L!BlockRows, L!BlockCols, L!Ldsa, L!Ldsb, L!Buffers, L!Bit

\* An item copies elements of the block, and no other item copies them.
LEMMA CopiedAt ==
    ASSUME WholeTrips, launch \in LocalLaunches, block.vectorOffset \in {1, launch.packet},
           NEW i \in L!Item, NEW rows \in Nat \ {0}, NEW cols \in Nat \ {0},
           \/ rows = L!BlockRows /\ cols = launch.clElems
           \/ rows = launch.clElems /\ cols = L!BlockCols,
           NEW e \in L!Copied(i, rows, cols)
    PROVE  /\ e \in 0 .. rows * cols - 1
           /\ (e \div block.vectorOffset) % L!WgSize = i
<1> DEFINE p == block.vectorOffset
           s == L!WgSize
           n == rows * cols
<1>1. /\ s \in Nat \ {0} /\ p \in Nat \ {0} /\ n \in Nat \ {0} /\ i \in 0 .. s - 1
  BY LocalSizes, LocalTiles DEF L!Item
<1>2. p = 1 \/ n % (s * p) = 0
  BY DEF WholeTrips, L!WgSize, L!BlockRows, L!BlockCols
<1>3. PICK x \in 0 .. ((n - 1) \div (s * p) + 1) - 1, v \in 0 .. p - 1 :
          i + x * s * p < n /\ e = i * p + x * s * p + v
  BY DEF L!Copied, L!VectorOffset, L!DivUp
<1> HIDE DEF p, s, n
<1>4. /\ i * p + x * s * p + v \in 0 .. n - 1
      /\ ((i * p + x * s * p + v) \div p) % s = i
  <2>1. Trip(s, p, n, i, x, v)
    BY <1>1, <1>2, <1>3 DEF Trip
  <2> QED
    BY <2>1, TripCopies
<1> QED
  BY <1>3, <1>4 DEF p, s, n

\* The row and the column of op(A) that element e of a block of A is in, and its
\* place in the tile; and the same for B.
RowA(e) == IF launch.transA THEN e \div launch.clElems ELSE e % L!BlockRows
ColA(e) == IF launch.transA THEN e % launch.clElems ELSE e \div L!BlockRows
PlaceA(e) == RowA(e) + ColA(e) * L!Ldsa

RowB(e) == IF launch.transB THEN e \div L!BlockCols ELSE e % launch.clElems
ColB(e) == IF launch.transB THEN e % L!BlockCols ELSE e \div launch.clElems
PlaceB(e) == RowB(e) + ColB(e) * L!Ldsb

SizeA == L!Ldsa * launch.clElems
SizeB == L!BlockCols * L!Ldsb

LEMMA InBlockA ==
    ASSUME launch \in LocalLaunches,
           NEW e \in 0 .. L!BlockRows * launch.clElems - 1
    PROVE  /\ RowA(e) \in 0 .. L!BlockRows - 1 /\ ColA(e) \in 0 .. launch.clElems - 1
           /\ e = IF launch.transA THEN launch.clElems * RowA(e) + ColA(e)
                  ELSE L!BlockRows * ColA(e) + RowA(e)
<1>1. launch.clElems \in Nat \ {0} /\ L!BlockRows \in Nat \ {0}
  BY LocalSizes, LocalTiles
<1>2. e \in 0 .. launch.clElems * L!BlockRows - 1
  BY <1>1
<1> QED
  BY <1>1, <1>2, InTile DEF RowA, ColA

LEMMA InBlockB ==
    ASSUME launch \in LocalLaunches,
           NEW e \in 0 .. launch.clElems * L!BlockCols - 1
    PROVE  /\ RowB(e) \in 0 .. launch.clElems - 1 /\ ColB(e) \in 0 .. L!BlockCols - 1
           /\ e = IF launch.transB THEN L!BlockCols * RowB(e) + ColB(e)
                  ELSE launch.clElems * ColB(e) + RowB(e)
<1>1. launch.clElems \in Nat \ {0} /\ L!BlockCols \in Nat \ {0}
  BY LocalSizes, LocalTiles
<1>2. e \in 0 .. L!BlockCols * launch.clElems - 1
  BY <1>1
<1> QED
  BY <1>1, <1>2, InTile DEF RowB, ColB

\* What the proofs need of a launch under way.
LocalLaunch ==
    /\ launch \in LocalLaunches
    /\ block.vectorOffset \in {1, launch.packet}
    /\ buffer \in [L!Item -> 0 .. L!Buffers - 1]

\* An item fills cells of the buffer it is at ...
LEMMA FillsA ==
    ASSUME WholeTrips, LocalLaunch, NEW i \in L!Item, NEW x \in L!LoadsOfA(i)
    PROVE  /\ x.to \in Area(L!Buffers * SizeB, SizeA, buffer[i])
           /\ \E e \in L!Copied(i, L!BlockRows, launch.clElems) :
                 /\ e \in 0 .. L!BlockRows * launch.clElems - 1
                 /\ x.to = L!SA(buffer[i]) + PlaceA(e)
<1> USE DEF LocalLaunch
<1>1. PICK e \in L!Copied(i, L!BlockRows, launch.clElems) :
          x.to = L!SA(buffer[i]) + RowA(e) + ColA(e) * L!Ldsa
  BY DEF L!LoadsOfA, RowA, ColA
<1>2. /\ launch.clElems \in Nat \ {0} /\ L!BlockRows \in Nat \ {0}
      /\ L!BlockCols \in Nat \ {0} /\ L!BlockRows <= L!Ldsa /\ L!Ldsb \in Nat \ {0}
      /\ L!Ldsa \in Nat \ {0} /\ L!Buffers \in {1, 2}
      /\ buffer[i] \in 0 .. L!Buffers - 1
  BY LocalSizes, LocalTiles
<1>3. e \in 0 .. L!BlockRows * launch.clElems - 1
  BY <1>1, <1>2, CopiedAt
<1>4. RowA(e) \in 0 .. L!BlockRows - 1 /\ ColA(e) \in 0 .. launch.clElems - 1
  BY <1>3, InBlockA
<1>5. PlaceA(e) \in 0 .. SizeA - 1
  BY <1>2, <1>4, TileCell DEF PlaceA, SizeA
<1>6. L!SA(buffer[i]) \in Nat
      /\ L!SA(buffer[i]) = L!Buffers * SizeB + buffer[i] * SizeA
  BY <1>2 DEF L!SA, SizeA, SizeB
<1>7. x.to = L!SA(buffer[i]) + PlaceA(e)
  <2>1. RowA(e) \in Nat /\ ColA(e) * L!Ldsa \in Nat
    BY <1>2, <1>4
  <2> QED
    BY <1>1, <1>6, <2>1 DEF PlaceA
<1> QED
  BY <1>1, <1>3, <1>5, <1>6, <1>7 DEF Area

LEMMA FillsB ==
    ASSUME WholeTrips, LocalLaunch, NEW i \in L!Item, NEW x \in L!LoadsOfB(i)
    PROVE  /\ x.to \in Area(0, SizeB, buffer[i])
           /\ \E e \in L!Copied(i, launch.clElems, L!BlockCols) :
                 /\ e \in 0 .. launch.clElems * L!BlockCols - 1
                 /\ x.to = L!SB(buffer[i]) + PlaceB(e)
<1> USE DEF LocalLaunch
<1>1. PICK e \in L!Copied(i, launch.clElems, L!BlockCols) :
          x.to = L!SB(buffer[i]) + RowB(e) + ColB(e) * L!Ldsb
  BY DEF L!LoadsOfB, RowB, ColB
<1>2. /\ launch.clElems \in Nat \ {0} /\ launch.clElems <= L!Ldsb
      /\ L!BlockCols \in Nat \ {0} /\ L!Ldsb \in Nat \ {0} /\ L!Buffers \in {1, 2}
      /\ buffer[i] \in 0 .. L!Buffers - 1
  BY LocalSizes, LocalTiles
<1>3. e \in 0 .. launch.clElems * L!BlockCols - 1
  BY <1>1, <1>2, CopiedAt
<1>4. RowB(e) \in 0 .. launch.clElems - 1 /\ ColB(e) \in 0 .. L!BlockCols - 1
  BY <1>3, InBlockB
<1>5. PlaceB(e) \in 0 .. SizeB - 1
  <2>1. PlaceB(e) \in 0 .. L!Ldsb * L!BlockCols - 1
    BY <1>2, <1>4, TileCell DEF PlaceB
  <2> QED
    BY <1>2, <2>1 DEF SizeB
<1>6. L!SB(buffer[i]) \in Nat /\ L!SB(buffer[i]) = 0 + buffer[i] * SizeB
  BY <1>2 DEF L!SB, SizeB
<1>7. x.to = L!SB(buffer[i]) + PlaceB(e)
  <2>1. RowB(e) \in Nat /\ ColB(e) * L!Ldsb \in Nat
    BY <1>2, <1>4
  <2> QED
    BY <1>1, <1>6, <2>1 DEF PlaceB
<1> QED
  BY <1>1, <1>3, <1>5, <1>6, <1>7 DEF Area

\* ... which are its own.
LEMMA FillsOwn ==
    ASSUME WholeTrips, LocalLaunch, NEW i \in L!Item, NEW u \in L!Item,
           buffer[i] = buffer[u]
    PROVE  /\ \A x \in L!LoadsOfA(i), y \in L!LoadsOfA(u) : x.to = y.to => i = u
           /\ \A x \in L!LoadsOfB(i), y \in L!LoadsOfB(u) : x.to = y.to => i = u
<1>0. /\ launch \in LocalLaunches /\ block.vectorOffset \in {1, launch.packet}
      /\ launch.clElems \in Nat \ {0} /\ L!BlockRows \in Nat \ {0}
      /\ L!BlockCols \in Nat \ {0} /\ L!Ldsb \in Nat \ {0} /\ L!Ldsa \in Nat \ {0}
      /\ L!BlockRows <= L!Ldsa /\ launch.clElems <= L!Ldsb
      /\ buffer[i] \in Nat /\ L!Buffers \in Nat
  BY LocalSizes, LocalTiles DEF LocalLaunch
<1>1. ASSUME NEW x \in L!LoadsOfA(i), NEW y \in L!LoadsOfA(u), x.to = y.to
      PROVE  i = u
  <2>1. PICK e \in L!Copied(i, L!BlockRows, launch.clElems) :
            /\ e \in 0 .. L!BlockRows * launch.clElems - 1
            /\ x.to = L!SA(buffer[i]) + PlaceA(e)
    BY FillsA
  <2>2. PICK f \in L!Copied(u, L!BlockRows, launch.clElems) :
            /\ f \in 0 .. L!BlockRows * launch.clElems - 1
            /\ y.to = L!SA(buffer[i]) + PlaceA(f)
    BY FillsA
  <2>3. /\ RowA(e) \in 0 .. L!Ldsa - 1 /\ RowA(f) \in 0 .. L!Ldsa - 1
        /\ ColA(e) \in Nat /\ ColA(f) \in Nat
    BY <1>0, <2>1, <2>2, InBlockA
  <2>4. PlaceA(e) = PlaceA(f)
    <3>1. PlaceA(e) \in Nat /\ PlaceA(f) \in Nat
      BY <1>0, <2>3 DEF PlaceA
    <3>2. L!SA(buffer[i]) \in Nat
      BY <1>0 DEF L!SA
    <3>3. L!SA(buffer[i]) + PlaceA(e) = L!SA(buffer[i]) + PlaceA(f)
      BY <1>1, <2>1, <2>2
    <3> QED
      BY <3>1, <3>2, <3>3
  <2>5. RowA(e) = RowA(f) /\ ColA(e) = ColA(f)
    <3>1. OneCell(L!Ldsa, RowA(e), ColA(e), RowA(f), ColA(f))
      BY <1>0, <2>3, <2>4 DEF OneCell, PlaceA
    <3> QED
      BY <3>1, OneCellOnly
  <2>6. e = f
    BY <1>0, <2>1, <2>2, <2>5, InBlockA
  <2> QED
    BY <1>0, <2>1, <2>2, <2>6, CopiedAt
<1>2. ASSUME NEW x \in L!LoadsOfB(i), NEW y \in L!LoadsOfB(u), x.to = y.to
      PROVE  i = u
  <2>1. PICK e \in L!Copied(i, launch.clElems, L!BlockCols) :
            /\ e \in 0 .. launch.clElems * L!BlockCols - 1
            /\ x.to = L!SB(buffer[i]) + PlaceB(e)
    BY FillsB
  <2>2. PICK f \in L!Copied(u, launch.clElems, L!BlockCols) :
            /\ f \in 0 .. launch.clElems * L!BlockCols - 1
            /\ y.to = L!SB(buffer[i]) + PlaceB(f)
    BY FillsB
  <2>3. /\ RowB(e) \in 0 .. L!Ldsb - 1 /\ RowB(f) \in 0 .. L!Ldsb - 1
        /\ ColB(e) \in Nat /\ ColB(f) \in Nat
    BY <1>0, <2>1, <2>2, InBlockB
  <2>4. PlaceB(e) = PlaceB(f)
    <3>1. PlaceB(e) \in Nat /\ PlaceB(f) \in Nat
      BY <1>0, <2>3 DEF PlaceB
    <3>2. L!SB(buffer[i]) \in Nat
      BY <1>0 DEF L!SB
    <3>3. L!SB(buffer[i]) + PlaceB(e) = L!SB(buffer[i]) + PlaceB(f)
      BY <1>2, <2>1, <2>2
    <3> QED
      BY <3>1, <3>2, <3>3
  <2>5. RowB(e) = RowB(f) /\ ColB(e) = ColB(f)
    <3>1. OneCell(L!Ldsb, RowB(e), ColB(e), RowB(f), ColB(f))
      BY <1>0, <2>3, <2>4 DEF OneCell, PlaceB
    <3> QED
      BY <3>1, OneCellOnly
  <2>6. e = f
    BY <1>0, <2>1, <2>2, <2>5, InBlockB
  <2> QED
    BY <1>0, <2>1, <2>2, <2>6, CopiedAt
<1> QED
  BY <1>1, <1>2

\* The rows of the block that an item computes, in packets of p.
LEMMA PacketRow ==
    ASSUME NEW w \in Nat \ {0}, NEW p \in Nat \ {0}, NEW n \in Nat \ {0}, n % p = 0,
           NEW a \in 0 .. w - 1, NEW l \in 0 .. n - 1
    PROVE  a * p + (l \div p) * w * p + (l % p) \in 0 .. w * n - 1
<1> DEFINE q == n \div p
           d == l \div p
           r == l % p
<1>1. q \in Nat \ {0} /\ n = p * q
  BY Divides
<1>2. d \in 0 .. q - 1 /\ r \in 0 .. p - 1
  <2>1. l \in 0 .. p * q - 1
    BY <1>1
  <2> HIDE DEF q
  <2> QED
    BY <1>1, <2>1, InTile
<1> HIDE DEF q, d, r
<1>3. a + d * w \in 0 .. w * q - 1
  BY <1>1, <1>2, TileCell
<1>4. r + (a + d * w) * p \in 0 .. p * (w * q) - 1
  <2>1. w * q \in Nat \ {0}
    BY <1>1
  <2> QED
    BY <1>2, <1>3, <2>1, TileCell
<1>5. p * (w * q) = w * n
  BY <1>1
<1>6. a * p + d * w * p + r = r + (a + d * w) * p
  BY <1>2
<1>7. a * p + d * w * p + r \in 0 .. w * n - 1
  BY <1>4, <1>5, <1>6
<1> QED
  BY <1>7 DEF d, r

\* An item reads cells of the buffer it is at.
LEMMA ReadsA ==
    ASSUME LocalLaunch, NEW i \in L!Item, NEW t \in 0 .. launch.clElems - 1,
           NEW l \in L!RegRows
    PROVE  L!CellOfA(i, t, l) \in Area(L!Buffers * SizeB, SizeA, buffer[i])
<1> USE DEF LocalLaunch
<1>1. /\ launch.clElems \in Nat \ {0} /\ L!BlockRows \in Nat \ {0}
      /\ L!BlockCols \in Nat \ {0} /\ L!BlockRows <= L!Ldsa /\ L!Ldsb \in Nat \ {0}
      /\ L!Ldsa \in Nat \ {0} /\ L!Buffers \in {1, 2}
      /\ buffer[i] \in 0 .. L!Buffers - 1
  BY LocalSizes, LocalTiles
<1>2. L!RegRow(i, l) \in 0 .. L!BlockRows - 1
  <2>1. /\ WgRows \in Nat \ {0} /\ launch.itemRows \in Nat \ {0}
        /\ launch.packet \in Nat \ {0} /\ l \in 0 .. launch.itemRows - 1
        /\ block.vectorOffset \in Nat \ {0}
    BY LocalSizes DEF L!RegRows
  <2>2. launch.itemRows % block.vectorOffset = 0
    BY <2>1, LocalSizes
  <2>3. i % WgRows \in 0 .. WgRows - 1
    <3>1. i \in Nat
      BY DEF L!Item
    <3> QED
      BY <2>1, <3>1, DivMod
  <2> QED
    BY <2>1, <2>2, <2>3, PacketRow DEF L!RegRow, L!VectorOffset, L!BlockRows
<1>3. L!RegRow(i, l) + t * L!Ldsa \in 0 .. SizeA - 1
  BY <1>1, <1>2, TileCell DEF SizeA
<1>4. /\ L!SA(buffer[i]) \in Nat /\ t * L!Ldsa \in Nat
      /\ L!SA(buffer[i]) = L!Buffers * SizeB + buffer[i] * SizeA
  BY <1>1 DEF L!SA, SizeA, SizeB
<1>5. L!CellOfA(i, t, l) = L!SA(buffer[i]) + (L!RegRow(i, l) + t * L!Ldsa)
  BY <1>2, <1>4 DEF L!CellOfA
<1> QED
  BY <1>3, <1>4, <1>5 DEF Area

LEMMA ReadsB ==
    ASSUME LocalLaunch, NEW i \in L!Item, NEW t \in 0 .. launch.clElems - 1,
           NEW j \in L!RegCols
    PROVE  L!CellOfB(i, t, j) \in Area(0, SizeB, buffer[i])
<1> USE DEF LocalLaunch
<1>1. /\ launch.clElems \in Nat \ {0} /\ launch.clElems <= L!Ldsb
      /\ L!BlockCols \in Nat \ {0} /\ L!Ldsb \in Nat \ {0} /\ L!Buffers \in {1, 2}
      /\ buffer[i] \in 0 .. L!Buffers - 1
  BY LocalSizes, LocalTiles
<1>2. L!RegCol(i, j) \in 0 .. L!BlockCols - 1
  <2>1. /\ WgRows \in Nat \ {0} /\ WgCols \in Nat \ {0}
        /\ launch.itemCols \in Nat \ {0} /\ j \in 0 .. launch.itemCols - 1
    BY LocalSizes DEF L!RegCols
  <2>2. i \div WgRows \in 0 .. WgCols - 1
    BY <2>1, InTile DEF L!Item, L!WgSize
  <2>3. j + (i \div WgRows) * launch.itemCols \in 0 .. launch.itemCols * WgCols - 1
    <3> HIDE DEF LocalLaunch
    <3> QED
      BY <2>1, <2>2, TileCell
  <2>4. launch.itemCols * WgCols = L!BlockCols
    BY <2>1 DEF L!BlockCols
  <2>5. L!RegCol(i, j) = j + (i \div WgRows) * launch.itemCols
    BY <2>1, <2>2 DEF L!RegCol
  <2> QED
    BY <2>3, <2>4, <2>5
<1>3. t + L!RegCol(i, j) * L!Ldsb \in 0 .. L!Ldsb * L!BlockCols - 1
  BY <1>1, <1>2, TileCell
<1>4. L!SB(buffer[i]) \in Nat /\ L!RegCol(i, j) * L!Ldsb \in Nat
      /\ L!SB(buffer[i]) = 0 + buffer[i] * SizeB /\ L!Ldsb * L!BlockCols = SizeB
  BY <1>1, <1>2 DEF L!SB, SizeB
<1>5. L!CellOfB(i, t, j) = L!SB(buffer[i]) + (t + L!RegCol(i, j) * L!Ldsb)
  BY <1>4 DEF L!CellOfB
<1> QED
  BY <1>3, <1>4, <1>5 DEF Area

-------------------------------------------------------------------------------
(***************************************************************************)
(* GemmLocal: phases                                                       *)
(***************************************************************************)

\* With two buffers a phase is named for the buffer that is filled in it, while
\* the items that come later in their loop read the other; with one, filling and
\* reading are phases of their own.
LocalPhase ==
    [i \in L!Item |->
        IF ~launch.doubleBuffer THEN IF pc[i] = "compute" THEN 1 ELSE 0
        ELSE IF pc[i] = "compute" THEN 1 - buffer[i] ELSE buffer[i]]

LocalNext == [p \in {0, 1} |-> 1 - p]

LocalInv ==
    /\ LocalLaunch
    /\ pc \in [L!Item -> {"load", "compute", "done"}]
    /\ ofs = [i \in L!Item |-> IF buffer[i] = 0 THEN 1 ELSE -1]
    /\ InStep(L!Item, barriers, waiting, LocalPhase, LocalNext)

LEMMA LocalStart == L!Init => LocalInv
<1> SUFFICES ASSUME L!Init PROVE LocalInv
  OBVIOUS
<1>1. /\ launch \in LocalLaunches
      /\ block.vectorOffset \in {1, launch.packet}
      /\ \/ pc = [i \in L!Item |-> "load"]
         \/ pc = [i \in L!Item |-> "done"]
      /\ barriers = [i \in L!Item |-> 0] /\ waiting = [i \in L!Item |-> FALSE]
      /\ buffer = [i \in L!Item |-> 0] /\ ofs = [i \in L!Item |-> 1]
  BY DEF L!Init, L!BlockOf
<1>2. LocalLaunch
  BY <1>1, LocalTiles DEF LocalLaunch
<1>3. \A i, u \in L!Item : LocalPhase[i] = LocalPhase[u]
  BY <1>1 DEF LocalPhase
<1>4. InStep(L!Item, barriers, waiting, LocalPhase, LocalNext)
  BY <1>1, <1>3, StartsInStep
<1> QED
  BY <1>1, <1>2, <1>4 DEF LocalInv

LEMMA LocalRaceFree == WholeTrips /\ LocalInv => L!NoLocalRace
<1> SUFFICES ASSUME WholeTrips, LocalInv,
                    NEW i \in L!Item, NEW u \in L!Item, i # u,
                    NEW a \in L!Writes(i), a \in L!Reads(u) \cup L!Writes(u)
             PROVE  FALSE
  BY DEF L!NoLocalRace
<1> USE DEF LocalInv
<1>1. /\ pc[i] = "load" /\ Free(L!Item, barriers, waiting, i)
      /\ a \in {x.to : x \in L!LoadsOfA(i) \cup L!LoadsOfB(i)}
  BY DEF L!Writes, L!At, L!Runs, Free
<1>2. Free(L!Item, barriers, waiting, u)
  BY DEF L!Writes, L!Reads, L!At, L!Runs, Free
<1>3. LocalPhase[i] = LocalPhase[u]
  BY <1>1, <1>2, SamePhase
<1>4. /\ buffer[i] \in 0 .. L!Buffers - 1 /\ buffer[u] \in 0 .. L!Buffers - 1
      /\ L!Buffers \in {1, 2} /\ SizeA \in Nat /\ SizeB \in Nat
  <2>1. launch \in LocalLaunches
    BY DEF LocalLaunch
  <2> QED
    BY <2>1, LocalSizes, LocalTiles DEF LocalLaunch, SizeA, SizeB
<1>5. \/ a \in Area(L!Buffers * SizeB, SizeA, buffer[i])
      \/ a \in Area(0, SizeB, buffer[i])
  BY <1>1, FillsA, FillsB
<1>6. CASE a \in L!Writes(u)
  <2>1. pc[u] = "load" /\ a \in {x.to : x \in L!LoadsOfA(u) \cup L!LoadsOfB(u)}
    BY <1>6 DEF L!Writes, L!At
  <2>2. buffer[i] = buffer[u]
    <3>1. CASE launch.doubleBuffer
      BY <1>1, <1>3, <2>1, <3>1 DEF LocalPhase
    <3>2. CASE ~launch.doubleBuffer
      BY <1>4, <3>2 DEF L!Buffers, L!Bit
    <3> QED
      BY <3>1, <3>2
  <2>3. PICK x \in L!LoadsOfA(i) \cup L!LoadsOfB(i),
             y \in L!LoadsOfA(u) \cup L!LoadsOfB(u) : a = x.to /\ a = y.to
    BY <1>1, <2>1
  <2>4. /\ x \in L!LoadsOfA(i) /\ y \in L!LoadsOfA(u) => i = u
        /\ x \in L!LoadsOfB(i) /\ y \in L!LoadsOfB(u) => i = u
    BY <2>2, <2>3, FillsOwn
  <2>5. /\ x \in L!LoadsOfA(i) => a \in Area(L!Buffers * SizeB, SizeA, buffer[i])
        /\ y \in L!LoadsOfA(u) => a \in Area(L!Buffers * SizeB, SizeA, buffer[u])
        /\ x \in L!LoadsOfB(i) => a \in Area(0, SizeB, buffer[i])
        /\ y \in L!LoadsOfB(u) => a \in Area(0, SizeB, buffer[u])
    BY <2>3, FillsA, FillsB
  <2>6. /\ Apart(SizeB, SizeA, L!Buffers, buffer[i], buffer[u])
        /\ Apart(SizeB, SizeA, L!Buffers, buffer[u], buffer[i])
    BY <1>4, AreasApart
  <2> QED
    BY <2>2, <2>3, <2>4, <2>5, <2>6 DEF Apart
<1>7. CASE a \in L!Reads(u)
  <2>1. /\ pc[u] = "compute"
        /\ \/ \E t \in 0 .. launch.clElems - 1, l \in L!RegRows : a = L!CellOfA(u, t, l)
           \/ \E t \in 0 .. launch.clElems - 1, j \in L!RegCols : a = L!CellOfB(u, t, j)
    BY <1>7 DEF L!Reads, L!At
  <2>2. buffer[i] # buffer[u]
    BY <1>1, <1>3, <1>4, <2>1 DEF LocalPhase
  <2>3. \/ a \in Area(L!Buffers * SizeB, SizeA, buffer[u])
        \/ a \in Area(0, SizeB, buffer[u])
    BY <2>1, ReadsA, ReadsB
  <2>4. /\ Apart(SizeB, SizeA, L!Buffers, buffer[i], buffer[u])
        /\ Apart(SizeB, SizeA, L!Buffers, buffer[u], buffer[i])
    BY <1>4, AreasApart
  <2> QED
    BY <1>5, <2>2, <2>3, <2>4 DEF Apart
<1> QED
  BY <1>6, <1>7

LEMMA LocalStep ==
    ASSUME LocalInv, NEW i \in L!Item, L!Step(i)
    PROVE  LocalInv'
<1> USE DEF LocalInv
<1>1. /\ launch' = launch /\ block' = block
      /\ launch \in LocalLaunches /\ L!Buffers \in {1, 2}
      /\ Free(L!Item, barriers, waiting, i)
      /\ buffer \in [L!Item -> 0 .. L!Buffers - 1]
      /\ \A u \in L!Item : barriers[u] \in Nat
  BY LocalTiles DEF L!Step, L!Load, L!Compute, L!Store, L!At, L!Runs, Free, LocalLaunch,
                    InStep
<1>2. L!Item' = L!Item /\ L!Buffers' = L!Buffers /\ LocalNext' = LocalNext
  BY <1>1 DEF L!Item, L!WgSize, L!Buffers, L!Bit, LocalNext
<1>3. /\ LocalPhase \in [L!Item -> {0, 1}]
      /\ DOMAIN LocalNext = {0, 1} /\ \A p \in {0, 1} : LocalNext[p] = 1 - p
  <2>1. \A u \in L!Item : buffer[u] \in {0, 1}
    BY <1>1
  <2> QED
    BY <2>1 DEF LocalPhase, LocalNext
<1>4. CASE L!Load(i)
  <2>1. /\ pc[i] = "load" /\ pc' = [pc EXCEPT ![i] = "compute"]
        /\ barriers' = [barriers EXCEPT ![i] = barriers[i] + 1]
        /\ waiting' = [waiting EXCEPT ![i] = TRUE]
        /\ buffer' = buffer /\ ofs' = ofs
    BY <1>4 DEF L!Load, L!BarrierThen, L!At
  <2>2. LocalPhase'[i] = LocalNext[LocalPhase[i]]
        /\ \A u \in L!Item \ {i} : LocalPhase'[u] = LocalPhase[u]
    BY <1>1, <1>2, <1>3, <2>1 DEF LocalPhase
  <2>3. Arrival(L!Item, barriers, waiting, LocalPhase, LocalNext, i,
                barriers', waiting', LocalPhase')
    BY <1>1, <1>3, <2>1, <2>2 DEF Arrival
  <2>4. InStep(L!Item, barriers, waiting, LocalPhase, LocalNext)'
    BY <1>2, <2>3, Arrives
  <2> QED
    BY <1>1, <1>2, <2>1, <2>4 DEF LocalLaunch
<1>5. CASE L!Compute(i) /\ launch.doubleBuffer
  <2>1. /\ pc[i] = "compute" /\ pc' = [pc EXCEPT ![i] = "load"]
        /\ barriers' = barriers /\ waiting' = [waiting EXCEPT ![i] = FALSE]
        /\ buffer' = [buffer EXCEPT ![i] = buffer[i] + ofs[i]]
        /\ ofs' = [ofs EXCEPT ![i] = -ofs[i]]
    BY <1>5 DEF L!Compute, L!SyncSmem, L!Goto, L!At
  <2>2. L!Buffers = 2
    BY <1>5 DEF L!Buffers, L!Bit
  <2>3. /\ buffer[i] \in {0, 1} /\ buffer'[i] = 1 - buffer[i]
        /\ ofs'[i] = IF buffer'[i] = 0 THEN 1 ELSE -1
    BY <1>1, <2>1, <2>2
  <2>4. buffer' \in [L!Item -> 0 .. 1]
    BY <1>1, <2>1, <2>2, <2>3
  <2>5. LocalPhase' = LocalPhase
    BY <1>1, <1>2, <1>5, <2>1, <2>3 DEF LocalPhase
  <2>6. InStep(L!Item, barriers, waiting', LocalPhase, LocalNext)
    BY <1>1, <2>1, GoesOn
  <2>7. InStep(L!Item, barriers, waiting, LocalPhase, LocalNext)'
    BY <1>2, <2>1, <2>5, <2>6
  <2>8. ofs' = [u \in L!Item |-> IF buffer'[u] = 0 THEN 1 ELSE -1]
    BY <1>1, <2>1, <2>3
  <2> QED
    BY <1>1, <1>2, <2>1, <2>2, <2>4, <2>7, <2>8 DEF LocalLaunch
<1>6. CASE L!Compute(i) /\ ~launch.doubleBuffer
  <2>1. /\ pc[i] = "compute" /\ pc' = [pc EXCEPT ![i] = "load"]
        /\ barriers' = [barriers EXCEPT ![i] = barriers[i] + 1]
        /\ waiting' = [waiting EXCEPT ![i] = TRUE]
        /\ buffer' = buffer /\ ofs' = ofs
    BY <1>6 DEF L!Compute, L!SyncSmem, L!BarrierThen, L!At
  <2>2. LocalPhase'[i] = LocalNext[LocalPhase[i]]
        /\ \A u \in L!Item \ {i} : LocalPhase'[u] = LocalPhase[u]
    BY <1>1, <1>2, <1>3, <1>6, <2>1 DEF LocalPhase
  <2>3. Arrival(L!Item, barriers, waiting, LocalPhase, LocalNext, i,
                barriers', waiting', LocalPhase')
    BY <1>1, <1>3, <2>1, <2>2 DEF Arrival
  <2>4. InStep(L!Item, barriers, waiting, LocalPhase, LocalNext)'
    BY <1>2, <2>3, Arrives
  <2> QED
    BY <1>1, <1>2, <2>1, <2>4 DEF LocalLaunch
<1>7. CASE L!Store(i)
  <2>1. PICK l \in {"load", "done"} :
            /\ pc[i] = "load" /\ pc' = [pc EXCEPT ![i] = l]
            /\ barriers' = barriers /\ waiting' = [waiting EXCEPT ![i] = FALSE]
            /\ buffer' = buffer /\ ofs' = ofs
    BY <1>7 DEF L!Store, L!Goto, L!At
  <2>2. LocalPhase' = LocalPhase
    BY <1>1, <1>2, <2>1 DEF LocalPhase
  <2>3. InStep(L!Item, barriers, waiting', LocalPhase, LocalNext)
    BY <1>1, <2>1, GoesOn
  <2>4. InStep(L!Item, barriers, waiting, LocalPhase, LocalNext)'
    BY <1>2, <2>1, <2>2, <2>3
  <2> QED
    BY <1>1, <1>2, <2>1, <2>4 DEF LocalLaunch
<1> QED
  BY <1>4, <1>5, <1>6, <1>7 DEF L!Step

LEMMA LocalSame ==
    ASSUME LocalInv,
           UNCHANGED <<launch, block, pc, barriers, waiting, buffer, ofs>>
    PROVE  LocalInv'
<1>1. L!Item' = L!Item /\ L!Buffers' = L!Buffers
  BY DEF L!Item, L!WgSize, L!Buffers, L!Bit
<1>2. LocalPhase' = LocalPhase /\ LocalNext' = LocalNext
  BY <1>1 DEF LocalPhase, LocalNext
<1> QED
  BY <1>1, <1>2 DEF LocalInv, LocalLaunch

-------------------------------------------------------------------------------
(***************************************************************************)
(* GemmPartialLocal: where an item copies to                               *)
(***************************************************************************)

LEMMA TallSizes ==
    ASSUME NEW l \in TallSkinnyLaunches
    PROVE  /\ l.kernel = "tallSkinny"
           /\ WgRows \in Nat \ {0} /\ WgCols \in Nat \ {0}
           /\ l.itemRows \in Nat \ {0} /\ l.itemCols \in Nat \ {0}
           /\ l.clElems \in Nat \ {0}
           /\ l.clElems % WgRows = 0 /\ l.clElems % WgCols = 0
           /\ T!WgSize % (IF l.transA THEN l.clElems ELSE WgRows * l.itemRows) = 0
           /\ T!WgSize % (IF l.transB THEN WgCols * l.itemCols ELSE l.clElems) = 0
BY GemmKernelsAssumption
   DEF GemmKernelsAssumption, KernelsAssumption, T!GemmPartialAssumption

\* The copies of each tile in local memory, and the one of tile t.
TallBuffers == T!Bit(launch.doubleBuffer) + 1
BufferOfTile(t) == T!Bit(launch.doubleBuffer) * (t % 2)

\* A block that the items of a group can share out: each of them loads a part of
\* a row, or of a column, and all of them together load whole ones.
SharedOut(p) ==
    /\ p.rows \in Nat \ {0} /\ p.cols \in Nat \ {0} /\ p.loads \in Nat \ {0}
    /\ T!WgSize \in Nat \ {0}
    /\ T!WgSize % p.rows = 0 /\ p.rows * p.cols = T!WgSize * p.loads
    /\ p.tileLd \in Nat \ {0} /\ p.base \in Nat
    /\ IF p.transposeAtLoad THEN p.cols <= p.tileLd /\ p.rows = T!TileK
       ELSE p.rows <= p.tileLd /\ p.cols = T!TileK

\* What a group of w by v items loads of a tile of n rows to an item by e.
LoadsOfTile(w, v, e, n, x) ==
    /\ w \in Nat \ {0} /\ v \in Nat \ {0} /\ e \in Nat \ {0} /\ n \in Nat \ {0}
    /\ e % v = 0 /\ x = (e * n) \div v

LEMMA LoadsCover ==
    ASSUME NEW w, NEW v, NEW e, NEW n, NEW x, LoadsOfTile(w, v, e, n, x)
    PROVE  x \in Nat \ {0} /\ (w * n) * e = (w * v) * x
<1> USE DEF LoadsOfTile
<1> DEFINE h == e \div v
           a == e * n
<1>1. h \in Nat \ {0} /\ e = v * h
  BY Divides
<1> HIDE DEF h
<1>2. a = v * (h * n) + 0 /\ a \in Nat /\ h * n \in Nat \ {0} /\ 0 \in 0 .. v - 1
  BY <1>1
<1>3. x = h * n
  <2> DEFINE q == h * n
  <2>1. a \in Nat /\ q \in Nat /\ a = v * q + 0 /\ 0 \in 0 .. v - 1
    BY <1>2
  <2> HIDE DEF a, q
  <2>2. a \div v = q
    BY <2>1, DivModUnique
  <2> QED
    BY <2>2 DEF a, q
<1>4. (w * n) * e = (w * v) * (h * n)
  BY <1>1
<1> QED
  BY <1>2, <1>3, <1>4

LEMMA TallBlocks ==
    ASSUME launch \in TallSkinnyLaunches
    PROVE  /\ SharedOut(T!LhsBlock) /\ SharedOut(T!RhsBlock)
           /\ T!LhsBlock.base = 0 /\ T!LhsBlock.tileLd = T!LhsTileLd
           /\ T!RhsBlock.base = TallBuffers * (T!LhsTileLd * T!TileK)
           /\ T!RhsBlock.tileLd = T!RhsTileLd
           /\ T!TileM \in Nat \ {0} /\ T!TileN \in Nat \ {0} /\ T!TileK \in Nat \ {0}
           /\ T!LhsTileLd \in Nat \ {0} /\ T!TileM <= T!LhsTileLd
           /\ T!RhsTileLd \in Nat \ {0} /\ T!TileN <= T!RhsTileLd
           /\ TallBuffers \in {1, 2}
<1> DEFINE cl == launch.clElems
           n == launch.itemRows
           m == launch.itemCols
<1>1. /\ WgRows \in Nat \ {0} /\ WgCols \in Nat \ {0} /\ cl \in Nat \ {0}
      /\ n \in Nat \ {0} /\ m \in Nat \ {0} /\ cl % WgRows = 0 /\ cl % WgCols = 0
  BY TallSizes
<1>2. /\ T!WgSize = WgRows * WgCols /\ T!WgSize \in Nat \ {0} /\ T!TileK = cl
      /\ T!TileM = WgRows * n /\ T!TileM \in Nat \ {0}
      /\ T!TileN = WgCols * m /\ T!TileN \in Nat \ {0}
  BY <1>1 DEF T!WgSize, T!TileK, T!TileM, T!TileN
<1>3. /\ T!LhsTileLd \in Nat \ {0} /\ T!TileM <= T!LhsTileLd
      /\ T!RhsTileLd \in Nat \ {0} /\ T!TileN <= T!RhsTileLd
      /\ TallBuffers \in {1, 2}
  BY <1>2 DEF T!LhsTileLd, T!RhsTileLd, T!Bit, TallBuffers
<1>4. /\ T!RhsScratchOffset = TallBuffers * (T!LhsTileLd * T!TileK)
      /\ T!RhsScratchOffset \in Nat
  <2>1. T!TileK \in Nat
    BY <1>1, <1>2
  <2> QED
    BY <1>3, <2>1 DEF T!RhsScratchOffset, TallBuffers
<1>5. /\ (cl * n) \div WgCols \in Nat \ {0}
      /\ T!TileM * T!TileK = T!WgSize * ((cl * n) \div WgCols)
  <2>1. /\ (cl * n) \div WgCols \in Nat \ {0}
        /\ (WgRows * n) * cl = (WgRows * WgCols) * ((cl * n) \div WgCols)
    <3>1. LoadsOfTile(WgRows, WgCols, cl, n, (cl * n) \div WgCols)
      BY <1>1 DEF LoadsOfTile
    <3> QED
      BY <3>1, LoadsCover
  <2> QED
    BY <1>2, <2>1
<1>6. /\ (cl * m) \div WgRows \in Nat \ {0}
      /\ T!TileN * T!TileK = T!WgSize * ((cl * m) \div WgRows)
  <2>1. /\ (cl * m) \div WgRows \in Nat \ {0}
        /\ (WgCols * m) * cl = (WgCols * WgRows) * ((cl * m) \div WgRows)
    <3>1. LoadsOfTile(WgCols, WgRows, cl, m, (cl * m) \div WgRows)
      BY <1>1 DEF LoadsOfTile
    <3> QED
      BY <3>1, LoadsCover
  <2>2. WgCols * WgRows = WgRows * WgCols
    BY <1>1
  <2> QED
    BY <1>2, <2>1, <2>2
<1>7. T!TileK * T!TileM = T!TileM * T!TileK /\ T!TileK * T!TileN = T!TileN * T!TileK
  BY <1>1, <1>2
<1>8. /\ T!LhsBlock.base = 0 /\ T!LhsBlock.tileLd = T!LhsTileLd
      /\ T!LhsBlock.transposeAtLoad = launch.transA
      /\ T!LhsBlock.loads = (cl * n) \div WgCols
      /\ T!LhsBlock.rows = IF launch.transA THEN T!TileK ELSE T!TileM
      /\ T!LhsBlock.cols = IF launch.transA THEN T!TileM ELSE T!TileK
  BY <1>2 DEF T!LhsBlock, T!Block
<1>9. /\ T!RhsBlock.base = T!RhsScratchOffset /\ T!RhsBlock.tileLd = T!RhsTileLd
      /\ T!RhsBlock.transposeAtLoad = ~launch.transB
      /\ T!RhsBlock.loads = (cl * m) \div WgRows
      /\ T!RhsBlock.rows = IF launch.transB THEN T!TileN ELSE T!TileK
      /\ T!RhsBlock.cols = IF launch.transB THEN T!TileK ELSE T!TileN
  BY <1>2 DEF T!RhsBlock, T!Block
<1>10. SharedOut(T!LhsBlock)
  <2>1. T!WgSize % T!LhsBlock.rows = 0
    BY <1>2, <1>8, TallSizes
  <2> QED
    BY <1>1, <1>2, <1>3, <1>5, <1>7, <1>8, <2>1 DEF SharedOut
<1>11. SharedOut(T!RhsBlock)
  <2>1. T!WgSize % T!RhsBlock.rows = 0
    BY <1>2, <1>9, TallSizes
  <2> QED
    BY <1>1, <1>2, <1>3, <1>4, <1>6, <1>7, <1>9, <2>1 DEF SharedOut
<1> QED
  BY <1>1, <1>2, <1>3, <1>4, <1>8, <1>9, <1>10, <1>11

\* The column of the block, and the place in the tile, of load number n of item i.
LoadCol(p, i, n) == i \div p.rows + n * (p.cols \div p.loads)
LoadPlace(p, i, n) ==
    IF p.transposeAtLoad THEN LoadCol(p, i, n) + (i % p.rows) * p.tileLd
    ELSE (i % p.rows) + LoadCol(p, i, n) * p.tileLd

\* How many items load a row of the block side by side.
LEMMA RowItems ==
    ASSUME NEW p, SharedOut(p)
    PROVE  /\ p.cols \div p.loads \in Nat \ {0}
           /\ p.cols = (p.cols \div p.loads) * p.loads
           /\ T!WgSize = p.rows * (p.cols \div p.loads)
<1> DEFINE q == T!WgSize \div p.rows
<1>1. q \in Nat \ {0} /\ T!WgSize = p.rows * q
  BY Divides DEF SharedOut
<1> HIDE DEF q
<1>2. /\ p.rows \in Nat \ {0} /\ p.cols \in Nat \ {0} /\ p.loads \in Nat \ {0}
      /\ p.rows * p.cols = T!WgSize * p.loads
  BY DEF SharedOut
<1>3. p.cols = q * p.loads
  <2>1. p.rows * p.cols + 0 = p.rows * (q * p.loads) + 0 /\ q * p.loads \in Nat
    BY <1>1, <1>2
  <2> DEFINE x == p.cols
             y == q * p.loads
             r == p.rows
  <2>2. x \in Nat /\ y \in Nat /\ r \in Nat \ {0} /\ 0 \in 0 .. r - 1
        /\ r * x + 0 = r * y + 0
    BY <1>2, <2>1
  <2> HIDE DEF x, y, r
  <2>3. x = y
    BY <2>2, OnePlace
  <2> QED
    BY <2>3 DEF x, y
<1>4. p.cols \div p.loads = q
  <2> DEFINE a == p.cols
             b == p.loads
  <2>1. a = b * q + 0 /\ b \in Nat \ {0} /\ a \in Nat /\ q \in Nat /\ 0 \in 0 .. b - 1
    BY <1>1, <1>2, <1>3
  <2> HIDE DEF a, b
  <2>2. a \div b = q
    BY <2>1, DivModUnique
  <2> QED
    BY <2>2 DEF a, b
<1> QED
  BY <1>1, <1>3, <1>4

LEMMA LoadAt ==
    ASSUME NEW p, SharedOut(p), NEW i \in T!Item, NEW n \in 0 .. p.loads - 1
    PROVE  /\ i % p.rows \in 0 .. p.rows - 1
           /\ i \div p.rows \in 0 .. (p.cols \div p.loads) - 1
           /\ i = p.rows * (i \div p.rows) + (i % p.rows)
           /\ LoadCol(p, i, n) \in 0 .. p.cols - 1
<1> DEFINE q == p.cols \div p.loads
<1>1. /\ q \in Nat \ {0} /\ p.cols = q * p.loads /\ T!WgSize = p.rows * q
      /\ p.rows \in Nat \ {0} /\ p.loads \in Nat \ {0}
  BY RowItems DEF SharedOut
<1> HIDE DEF q
<1>2. i \in 0 .. p.rows * q - 1
  BY <1>1 DEF T!Item
<1>3. /\ i % p.rows \in 0 .. p.rows - 1 /\ i \div p.rows \in 0 .. q - 1
      /\ i = p.rows * (i \div p.rows) + (i % p.rows)
  BY <1>1, <1>2, InTile
<1>4. i \div p.rows + n * q \in 0 .. q * p.loads - 1
  <2> DEFINE a == i \div p.rows
             b == p.loads
  <2>1. a \in 0 .. q - 1 /\ b \in Nat \ {0} /\ n \in 0 .. b - 1 /\ q <= q
    BY <1>1, <1>3
  <2> HIDE DEF a, b
  <2>2. a + n * q \in 0 .. q * b - 1
    BY <1>1, <2>1, TileCell
  <2> QED
    BY <2>2 DEF a, b
<1> QED
  BY <1>1, <1>3, <1>4 DEF LoadCol, q

LEMMA TileBuffers ==
    ASSUME NEW t \in Nat
    PROVE  /\ BufferOfTile(t) \in 0 .. TallBuffers - 1 /\ BufferOfTile(t) \in Nat
           /\ launch.doubleBuffer => BufferOfTile(t + 1) # BufferOfTile(t)
<1>1. t % 2 \in {0, 1} /\ (t + 1) % 2 # t % 2 /\ (t + 1) % 2 \in {0, 1}
  OBVIOUS
<1>2. T!Bit(launch.doubleBuffer) \in {0, 1}
  BY DEF T!Bit
<1>3. launch.doubleBuffer => T!Bit(launch.doubleBuffer) = 1
  BY DEF T!Bit
<1>4. BufferOfTile(t) \in 0 .. TallBuffers - 1
  BY <1>1, <1>2 DEF BufferOfTile, TallBuffers
<1>5. BufferOfTile(t) \in Nat
  BY <1>1, <1>2 DEF BufferOfTile
<1> QED
  BY <1>1, <1>3, <1>4, <1>5 DEF BufferOfTile

LEMMA BufferOffsetIs ==
    ASSUME launch \in TallSkinnyLaunches, NEW t \in Nat, NEW ld \in Nat
    PROVE  T!BufferOffset(t, ld) = BufferOfTile(t) * (ld * T!TileK)
<1>1. T!Bit(launch.doubleBuffer) \in {0, 1} /\ t % 2 \in {0, 1} /\ T!TileK \in Nat
  BY TallBlocks DEF T!Bit
<1> QED
  BY <1>1 DEF T!BufferOffset, BufferOfTile

\* An item fills cells of the buffer of the tile it copies ...
LEMMA TileFills ==
    ASSUME launch \in TallSkinnyLaunches, NEW p, SharedOut(p), NEW i \in T!Item,
           NEW t \in Nat, NEW x \in T!Loads(i, t, p)
    PROVE  /\ x.to \in Area(p.base, p.tileLd * T!TileK, BufferOfTile(t))
           /\ \E n \in 0 .. p.loads - 1 :
                 /\ LoadPlace(p, i, n) \in Nat
                 /\ x.to = p.base + BufferOfTile(t) * (p.tileLd * T!TileK)
                             + LoadPlace(p, i, n)
<1>0. /\ p.rows \in Nat \ {0} /\ p.cols \in Nat \ {0} /\ p.tileLd \in Nat \ {0}
      /\ p.base \in Nat /\ T!TileK \in Nat \ {0}
  BY TallBlocks DEF SharedOut
<1>1. PICK n \in 0 .. p.loads - 1 :
          x.to = p.base + T!BufferOffset(t, p.tileLd)
                   + (IF p.transposeAtLoad
                      THEN LoadCol(p, i, n) + (i % p.rows) * p.tileLd
                      ELSE (i % p.rows) + LoadCol(p, i, n) * p.tileLd)
  BY DEF T!Loads, LoadCol
<1>2. x.to = p.base + BufferOfTile(t) * (p.tileLd * T!TileK) + LoadPlace(p, i, n)
  BY <1>0, <1>1, BufferOffsetIs DEF LoadPlace
<1>3. i % p.rows \in 0 .. p.rows - 1 /\ LoadCol(p, i, n) \in 0 .. p.cols - 1
  BY LoadAt
<1>4. LoadPlace(p, i, n) \in 0 .. p.tileLd * T!TileK - 1
  <2>1. CASE p.transposeAtLoad
    <3>1. p.cols <= p.tileLd /\ p.rows = T!TileK
      BY <2>1 DEF SharedOut
    <3>2. LoadCol(p, i, n) + (i % p.rows) * p.tileLd \in 0 .. p.tileLd * p.rows - 1
      BY <1>0, <1>3, <3>1, TileCell
    <3> QED
      BY <2>1, <3>1, <3>2 DEF LoadPlace
  <2>2. CASE ~p.transposeAtLoad
    <3>1. p.rows <= p.tileLd /\ p.cols = T!TileK
      BY <2>2 DEF SharedOut
    <3>2. (i % p.rows) + LoadCol(p, i, n) * p.tileLd \in 0 .. p.tileLd * p.cols - 1
      BY <1>0, <1>3, <3>1, TileCell
    <3> QED
      BY <2>2, <3>1, <3>2 DEF LoadPlace
  <2> QED
    BY <2>1, <2>2
<1> QED
  BY <1>2, <1>4 DEF Area

\* ... which are its own.
LEMMA TileFillsOwn ==
    ASSUME launch \in TallSkinnyLaunches, NEW p, SharedOut(p),
           NEW i \in T!Item, NEW u \in T!Item, NEW t \in Nat,
           NEW x \in T!Loads(i, t, p), NEW y \in T!Loads(u, t, p), x.to = y.to
    PROVE  i = u
<1>0. /\ p.rows \in Nat \ {0} /\ p.cols \in Nat \ {0} /\ p.tileLd \in Nat \ {0}
      /\ p.base \in Nat /\ T!TileK \in Nat \ {0}
      /\ IF p.transposeAtLoad THEN p.cols <= p.tileLd ELSE p.rows <= p.tileLd
      /\ BufferOfTile(t) \in Nat
  BY TallBlocks, TileBuffers DEF SharedOut
<1> DEFINE base == p.base + BufferOfTile(t) * (p.tileLd * T!TileK)
<1>1. PICK n \in 0 .. p.loads - 1 :
          LoadPlace(p, i, n) \in Nat /\ x.to = base + LoadPlace(p, i, n)
  BY TileFills
<1>2. PICK m \in 0 .. p.loads - 1 :
          LoadPlace(p, u, m) \in Nat /\ y.to = base + LoadPlace(p, u, m)
  BY TileFills
<1>3. base \in Nat
  BY <1>0
<1>4. LoadPlace(p, i, n) = LoadPlace(p, u, m)
  <2> HIDE DEF base
  <2>1. base + LoadPlace(p, i, n) = base + LoadPlace(p, u, m)
    BY <1>1, <1>2
  <2> QED
    BY <1>1, <1>2, <1>3, <2>1
<1>5. /\ i % p.rows \in 0 .. p.rows - 1 /\ LoadCol(p, i, n) \in 0 .. p.cols - 1
      /\ i = p.rows * (i \div p.rows) + (i % p.rows)
      /\ i \div p.rows \in 0 .. (p.cols \div p.loads) - 1
  BY LoadAt
<1>6. /\ u % p.rows \in 0 .. p.rows - 1 /\ LoadCol(p, u, m) \in 0 .. p.cols - 1
      /\ u = p.rows * (u \div p.rows) + (u % p.rows)
      /\ u \div p.rows \in 0 .. (p.cols \div p.loads) - 1
  BY LoadAt
<1>7. i % p.rows = u % p.rows /\ LoadCol(p, i, n) = LoadCol(p, u, m)
  <2>1. CASE p.transposeAtLoad
    <3>1. OneCell(p.tileLd, LoadCol(p, i, n), i % p.rows, LoadCol(p, u, m), u % p.rows)
      BY <1>0, <1>4, <1>5, <1>6, <2>1 DEF OneCell, LoadPlace
    <3> QED
      BY <3>1, OneCellOnly
  <2>2. CASE ~p.transposeAtLoad
    <3>1. OneCell(p.tileLd, i % p.rows, LoadCol(p, i, n), u % p.rows, LoadCol(p, u, m))
      BY <1>0, <1>4, <1>5, <1>6, <2>2 DEF OneCell, LoadPlace
    <3> QED
      BY <3>1, OneCellOnly
  <2> QED
    BY <2>1, <2>2
<1>8. i \div p.rows = u \div p.rows
  <2>1. p.cols \div p.loads \in Nat \ {0} /\ n \in Nat /\ m \in Nat
    BY RowItems
  <2>2. OneCell(p.cols \div p.loads, i \div p.rows, n, u \div p.rows, m)
    BY <1>5, <1>6, <1>7, <2>1 DEF OneCell, LoadCol
  <2> QED
    BY <2>2, OneCellOnly
<1> QED
  BY <1>5, <1>6, <1>7, <1>8

\* An item reads cells of the buffer of the tile it multiplies.
LEMMA TileReadsA ==
    ASSUME launch \in TallSkinnyLaunches, NEW i \in T!Item, NEW t \in Nat,
           NEW s \in 0 .. T!TileK - 1, NEW row \in T!RegRows
    PROVE  T!CellOfA(i, t, s, row) \in Area(0, T!LhsTileLd * T!TileK, BufferOfTile(t))
<1>1. /\ WgRows \in Nat \ {0} /\ launch.itemRows \in Nat \ {0}
      /\ row \in 0 .. launch.itemRows - 1
      /\ T!TileK \in Nat \ {0} /\ T!TileM = WgRows * launch.itemRows
      /\ T!TileM \in Nat \ {0} /\ T!LhsTileLd \in Nat \ {0} /\ T!TileM <= T!LhsTileLd
      /\ BufferOfTile(t) \in Nat
  BY TallSizes, TallBlocks, TileBuffers DEF T!RegRows, T!TileM
<1>2. i % WgRows \in 0 .. WgRows - 1
  <2>1. i \in Nat
    BY DEF T!Item
  <2> QED
    BY <1>1, <2>1, DivMod
<1>3. (i % WgRows) + row * WgRows \in 0 .. T!TileM - 1
  BY <1>1, <1>2, TileCell
<1>4. ((i % WgRows) + row * WgRows) + s * T!LhsTileLd \in 0 .. T!LhsTileLd * T!TileK - 1
  BY <1>1, <1>3, TileCell
<1>5. T!CellOfA(i, t, s, row)
        = 0 + BufferOfTile(t) * (T!LhsTileLd * T!TileK)
            + (((i % WgRows) + row * WgRows) + s * T!LhsTileLd)
  <2>1. T!BufferOffset(t, T!LhsTileLd) = BufferOfTile(t) * (T!LhsTileLd * T!TileK)
    BY <1>1, BufferOffsetIs
  <2> QED
    BY <1>1, <1>2, <2>1 DEF T!CellOfA
<1> QED
  BY <1>4, <1>5 DEF Area

LEMMA TileReadsB ==
    ASSUME launch \in TallSkinnyLaunches, NEW i \in T!Item, NEW t \in Nat,
           NEW s \in 0 .. T!TileK - 1, NEW col \in T!RegCols
    PROVE  T!CellOfB(i, t, s, col)
               \in Area(T!RhsBlock.base, T!RhsTileLd * T!TileK, BufferOfTile(t))
<1>1. /\ WgRows \in Nat \ {0} /\ WgCols \in Nat \ {0} /\ launch.itemCols \in Nat \ {0}
      /\ col \in 0 .. launch.itemCols - 1
      /\ T!TileK \in Nat \ {0} /\ T!TileN = WgCols * launch.itemCols
      /\ T!TileN \in Nat \ {0} /\ T!RhsTileLd \in Nat \ {0} /\ T!TileN <= T!RhsTileLd
      /\ BufferOfTile(t) \in Nat
  BY TallSizes, TallBlocks, TileBuffers DEF T!RegCols, T!TileN
<1>2. i \div WgRows \in 0 .. WgCols - 1
  BY <1>1, InTile DEF T!Item, T!WgSize
<1>3. (i \div WgRows) + col * WgCols \in 0 .. T!TileN - 1
  BY <1>1, <1>2, TileCell
<1>4. ((i \div WgRows) + col * WgCols) + s * T!RhsTileLd \in 0 .. T!RhsTileLd * T!TileK - 1
  BY <1>1, <1>3, TileCell
<1>5. T!RhsBlock.base = T!RhsScratchOffset /\ T!RhsBlock.base \in Nat
  BY TallBlocks DEF T!RhsBlock, T!Block, SharedOut
<1>6. T!CellOfB(i, t, s, col)
        = T!RhsBlock.base + BufferOfTile(t) * (T!RhsTileLd * T!TileK)
            + (((i \div WgRows) + col * WgCols) + s * T!RhsTileLd)
  <2>1. T!BufferOffset(t, T!RhsTileLd) = BufferOfTile(t) * (T!RhsTileLd * T!TileK)
    BY <1>1, BufferOffsetIs
  <2> QED
    BY <1>1, <1>2, <1>5, <2>1 DEF T!CellOfB
<1> QED
  BY <1>4, <1>6 DEF Area

-------------------------------------------------------------------------------
(***************************************************************************)
(* GemmPartialLocal: phases                                                *)
(***************************************************************************)

\* The phases are numbered.  With two buffers an item loads the next tile and
\* multiplies this one in the same phase; with one, in two.
TallPhase ==
    [i \in T!Item |->
        IF pc[i] = "start" THEN 0
        ELSE IF launch.doubleBuffer
        THEN IF pc[i] \in {"load", "compute"} THEN tile[i] + 1 ELSE tile[i]
        ELSE IF pc[i] = "load" THEN 2 * tile[i] + 1
        ELSE IF pc[i] = "compute" THEN 2 * tile[i] + 2 ELSE 2 * tile[i]]

TallNext == [p \in Nat |-> p + 1]

TallInv ==
    /\ launch \in TallSkinnyLaunches
    /\ pc \in [T!Item -> {"start", "load", "compute", "store", "done"}]
    /\ tile \in [T!Item -> Nat]
    /\ \A i \in T!Item : pc[i] = "start" => tile[i] = 0
    /\ InStep(T!Item, barriers, waiting, TallPhase, TallNext)

LEMMA TallStart == T!Init => TallInv
<1> SUFFICES ASSUME T!Init PROVE TallInv
  OBVIOUS
<1>1. /\ launch \in TallSkinnyLaunches /\ pc = [i \in T!Item |-> "start"]
      /\ barriers = [i \in T!Item |-> 0] /\ waiting = [i \in T!Item |-> FALSE]
      /\ tile = [i \in T!Item |-> 0]
  BY DEF T!Init
<1>2. \A i, u \in T!Item : TallPhase[i] = TallPhase[u]
  BY <1>1 DEF TallPhase
<1>3. InStep(T!Item, barriers, waiting, TallPhase, TallNext)
  BY <1>1, <1>2, StartsInStep
<1> QED
  BY <1>1, <1>3 DEF TallInv

\* The tiles that two items without a barrier between them may copy and read.
LEMMA TilesInStep ==
    ASSUME TallInv, NEW i \in T!Item, NEW u \in T!Item,
           Free(T!Item, barriers, waiting, i), Free(T!Item, barriers, waiting, u),
           NEW t \in T!TilesLoaded(i)
    PROVE  /\ \A r \in T!TilesLoaded(u) : r = t
           /\ pc[u] = "compute" => launch.doubleBuffer /\ t = tile[u] + 1
<1> USE DEF TallInv
<1>1. TallPhase[i] = TallPhase[u]
  BY SamePhase
<1>2. tile[i] \in Nat /\ tile[u] \in Nat
  OBVIOUS
<1>3. \/ pc[i] = "start" /\ launch.doubleBuffer /\ t = 0
      \/ pc[i] = "load" /\ t = T!NextTile(i)
  BY DEF T!TilesLoaded, T!At
<1>4. \A r \in T!TilesLoaded(u) :
          \/ pc[u] = "start" /\ launch.doubleBuffer /\ r = 0
          \/ pc[u] = "load" /\ r = T!NextTile(u)
  BY DEF T!TilesLoaded, T!At
<1> QED
  BY <1>1, <1>2, <1>3, <1>4 DEF TallPhase, T!NextTile

LEMMA TallRaceFree == TallInv => T!NoLocalRace
<1> SUFFICES ASSUME TallInv, NEW i \in T!Item, NEW u \in T!Item, i # u,
                    NEW a \in T!Writes(i), a \in T!Reads(u) \cup T!Writes(u)
             PROVE  FALSE
  BY DEF T!NoLocalRace
<1> DEFINE Lhs(t) == Area(0, T!LhsTileLd * T!TileK, BufferOfTile(t))
           Rhs(t) == Area(T!RhsBlock.base, T!RhsTileLd * T!TileK, BufferOfTile(t))
<1>0. launch \in TallSkinnyLaunches
  BY DEF TallInv
<1>1. PICK t \in T!TilesLoaded(i) :
          a \in {x.to : x \in T!Loads(i, t, T!LhsBlock) \cup T!Loads(i, t, T!RhsBlock)}
  BY DEF T!Writes
<1>2. t \in Nat /\ Free(T!Item, barriers, waiting, i)
  BY DEF T!TilesLoaded, T!At, T!Runs, Free
<1>3. PICK x \in T!Loads(i, t, T!LhsBlock) \cup T!Loads(i, t, T!RhsBlock) : a = x.to
  BY <1>1
<1>4. /\ x \in T!Loads(i, t, T!LhsBlock) => a \in Lhs(t)
      /\ x \in T!Loads(i, t, T!RhsBlock) => a \in Rhs(t)
  BY <1>0, <1>2, <1>3, TallBlocks, TileFills
<1>5. \A r \in Nat, q \in Nat :
          /\ Lhs(r) \cap Rhs(q) = {}
          /\ BufferOfTile(r) # BufferOfTile(q)
                => Lhs(r) \cap Lhs(q) = {} /\ Rhs(r) \cap Rhs(q) = {}
  <2> TAKE r \in Nat, q \in Nat
  <2> DEFINE first == T!LhsTileLd * T!TileK
             second == T!RhsTileLd * T!TileK
             n == TallBuffers
             b == BufferOfTile(r)
             d == BufferOfTile(q)
  <2>1. /\ first \in Nat /\ second \in Nat /\ n \in {1, 2}
        /\ b \in 0 .. n - 1 /\ d \in 0 .. n - 1 /\ T!RhsBlock.base = n * first
    BY <1>0, TallBlocks, TileBuffers
  <2>2. /\ Lhs(r) = Area(0, first, b) /\ Lhs(q) = Area(0, first, d)
        /\ Rhs(r) = Area(n * first, second, b) /\ Rhs(q) = Area(n * first, second, d)
    BY <2>1
  <2> HIDE DEF first, second, n, b, d
  <2>3. Apart(first, second, n, b, d)
    BY <2>1, AreasApart
  <2> HIDE DEF Lhs, Rhs
  <2> QED
    BY <2>2, <2>3 DEF Apart, b, d
<1> HIDE DEF Lhs, Rhs
<1>6. CASE a \in T!Writes(u)
  <2>1. PICK r \in T!TilesLoaded(u) :
            a \in {y.to : y \in T!Loads(u, r, T!LhsBlock) \cup T!Loads(u, r, T!RhsBlock)}
    BY <1>6 DEF T!Writes
  <2>2. Free(T!Item, barriers, waiting, u)
    BY <2>1 DEF T!TilesLoaded, T!At, T!Runs, Free
  <2>3. r = t
    BY <1>2, <2>1, <2>2, TilesInStep
  <2>4. PICK y \in T!Loads(u, t, T!LhsBlock) \cup T!Loads(u, t, T!RhsBlock) : a = y.to
    BY <2>1, <2>3
  <2>5. /\ y \in T!Loads(u, t, T!LhsBlock) => a \in Lhs(t)
        /\ y \in T!Loads(u, t, T!RhsBlock) => a \in Rhs(t)
    BY <1>0, <1>2, <2>4, TallBlocks, TileFills DEF Lhs, Rhs
  <2>6. /\ x \in T!Loads(i, t, T!LhsBlock) /\ y \in T!Loads(u, t, T!LhsBlock) => i = u
        /\ x \in T!Loads(i, t, T!RhsBlock) /\ y \in T!Loads(u, t, T!RhsBlock) => i = u
    BY <1>0, <1>2, <1>3, <2>4, TallBlocks, TileFillsOwn
  <2> QED
    BY <1>2, <1>3, <1>4, <1>5, <2>4, <2>5, <2>6
<1>7. CASE a \in T!Reads(u)
  <2>1. /\ pc[u] = "compute" /\ Free(T!Item, barriers, waiting, u)
        /\ \/ \E s \in 0 .. T!TileK - 1, row \in T!RegRows :
                 a = T!CellOfA(u, tile[u], s, row)
           \/ \E s \in 0 .. T!TileK - 1, col \in T!RegCols :
                 a = T!CellOfB(u, tile[u], s, col)
    BY <1>7 DEF T!Reads, T!At, T!Runs, Free
  <2>2. tile[u] \in Nat
    BY DEF TallInv
  <2>3. launch.doubleBuffer /\ t = tile[u] + 1
    BY <1>2, <2>1, TilesInStep
  <2>4. BufferOfTile(t) # BufferOfTile(tile[u])
    BY <2>2, <2>3, TileBuffers
  <2>5. a \in Lhs(tile[u]) \/ a \in Rhs(tile[u])
    BY <1>0, <2>1, <2>2, TileReadsA, TileReadsB DEF Lhs, Rhs
  <2> QED
    BY <1>2, <1>3, <1>4, <1>5, <2>2, <2>4, <2>5
<1> QED
  BY <1>6, <1>7

LEMMA TallStep ==
    ASSUME TallInv, NEW i \in T!Item, T!Step(i)
    PROVE  TallInv'
<1> USE DEF TallInv
<1>1. /\ launch' = launch /\ Free(T!Item, barriers, waiting, i)
      /\ T!Item' = T!Item /\ TallNext' = TallNext
      /\ \A u \in T!Item : barriers[u] \in Nat /\ tile[u] \in Nat
  BY DEF T!Step, T!Start, T!LoadNext, T!Compute, T!Store, T!At, T!Runs, Free,
         InStep, T!Item, T!WgSize, TallNext
<1>2. /\ \A u \in T!Item : TallPhase[u] \in Nat
      /\ DOMAIN TallNext = Nat /\ \A p \in Nat : TallNext[p] = p + 1
  BY <1>1 DEF TallPhase, TallNext
<1>3. ASSUME NEW l \in {"load", "compute"}, pc' = [pc EXCEPT ![i] = l],
             T!BarrierThen(i, l), tile' \in [T!Item -> Nat],
             \A u \in T!Item \ {i} : tile'[u] = tile[u],
             TallPhase'[i] = TallPhase[i] + 1
      PROVE  TallInv'
  <2>1. /\ barriers' = [barriers EXCEPT ![i] = barriers[i] + 1]
        /\ waiting' = [waiting EXCEPT ![i] = TRUE]
    BY <1>3 DEF T!BarrierThen
  <2>2. \A u \in T!Item \ {i} : TallPhase'[u] = TallPhase[u]
    BY <1>1, <1>3 DEF TallPhase
  <2>3. Arrival(T!Item, barriers, waiting, TallPhase, TallNext, i,
                barriers', waiting', TallPhase')
    BY <1>1, <1>2, <1>3, <2>1, <2>2 DEF Arrival
  <2>4. InStep(T!Item, barriers, waiting, TallPhase, TallNext)'
    BY <1>1, <2>3, Arrives
  <2> QED
    BY <1>1, <1>3, <2>4
<1>4. ASSUME NEW l \in {"compute", "store", "done"}, T!Goto(i, l),
             tile' \in [T!Item -> Nat],
             \A u \in T!Item \ {i} : tile'[u] = tile[u],
             TallPhase'[i] = TallPhase[i]
      PROVE  TallInv'
  <2>1. /\ pc' = [pc EXCEPT ![i] = l] /\ barriers' = barriers
        /\ waiting' = [waiting EXCEPT ![i] = FALSE]
    BY <1>4 DEF T!Goto
  <2>2. TallPhase' = TallPhase
    BY <1>1, <1>4, <2>1 DEF TallPhase
  <2>3. InStep(T!Item, barriers, waiting', TallPhase, TallNext)
    BY <1>1, <2>1, GoesOn
  <2>4. InStep(T!Item, barriers, waiting, TallPhase, TallNext)'
    BY <1>1, <2>1, <2>2, <2>3
  <2> QED
    BY <1>1, <1>4, <2>1, <2>4
<1>5. CASE T!Start(i)
  <2>1. pc[i] = "start" /\ T!BarrierThen(i, "load") /\ tile' = tile
    BY <1>5 DEF T!Start, T!At
  <2>2. pc' = [pc EXCEPT ![i] = "load"] /\ TallPhase'[i] = TallPhase[i] + 1
    BY <1>1, <2>1 DEF T!BarrierThen, TallPhase
  <2> QED
    BY <1>3, <2>1, <2>2
<1>6. CASE T!LoadNext(i)
  <2>1. /\ pc[i] = "load" /\ tile' = tile
        /\ IF launch.doubleBuffer THEN T!Goto(i, "compute")
           ELSE T!BarrierThen(i, "compute")
    BY <1>6 DEF T!LoadNext, T!At
  <2>2. pc' = [pc EXCEPT ![i] = "compute"]
    BY <2>1 DEF T!BarrierThen, T!Goto
  <2>3. IF launch.doubleBuffer THEN TallPhase'[i] = TallPhase[i]
        ELSE TallPhase'[i] = TallPhase[i] + 1
    BY <1>1, <2>1, <2>2 DEF TallPhase
  <2> QED
    BY <1>3, <1>4, <2>1, <2>2, <2>3
<1>7. CASE T!Compute(i)
  <2>1. /\ pc[i] = "compute" /\ tile' = [tile EXCEPT ![i] = tile[i] + 1]
        /\ T!BarrierThen(i, "load") \/ T!Goto(i, "store")
    BY <1>7 DEF T!Compute, T!At
  <2>2. tile' \in [T!Item -> Nat] /\ \A u \in T!Item \ {i} : tile'[u] = tile[u]
        /\ tile'[i] = tile[i] + 1
    BY <2>1
  <2>3. CASE T!BarrierThen(i, "load")
    <3>1. pc' = [pc EXCEPT ![i] = "load"]
      BY <2>3 DEF T!BarrierThen
    <3>2. TallPhase'[i] = TallPhase[i] + 1
      BY <1>1, <2>1, <2>2, <3>1 DEF TallPhase
    <3> QED
      BY <1>3, <2>2, <2>3, <3>1, <3>2
  <2>4. CASE T!Goto(i, "store")
    <3>1. pc' = [pc EXCEPT ![i] = "store"]
      BY <2>4 DEF T!Goto
    <3>2. TallPhase'[i] = TallPhase[i]
      BY <1>1, <2>1, <2>2, <3>1 DEF TallPhase
    <3> QED
      BY <1>4, <2>2, <2>4, <3>2
  <2> QED
    BY <2>1, <2>3, <2>4
<1>8. CASE T!Store(i)
  <2>1. pc[i] = "store" /\ T!Goto(i, "done") /\ tile' = tile
    BY <1>8 DEF T!Store, T!At
  <2>2. TallPhase'[i] = TallPhase[i]
    BY <1>1, <2>1 DEF T!Goto, TallPhase
  <2> QED
    BY <1>4, <2>1, <2>2
<1> QED
  BY <1>5, <1>6, <1>7, <1>8 DEF T!Step

LEMMA TallSame ==
    ASSUME TallInv, UNCHANGED <<launch, pc, barriers, waiting, tile>>
    PROVE  TallInv'
<1>1. T!Item' = T!Item
  BY DEF T!Item, T!WgSize
<1>2. TallPhase' = TallPhase /\ TallNext' = TallNext
  BY <1>1 DEF TallPhase, TallNext
<1> QED
  BY <1>1, <1>2 DEF TallInv

-------------------------------------------------------------------------------
(***************************************************************************)
(* The kernels together                                                    *)
(***************************************************************************)

AllLaunches ==
    LocalLaunches \cup TallSkinnyLaunches \cup FullVecLaunches
      \cup PartialVecLaunches \cup InterleavedLaunches \cup RefLaunches

TileInv ==
    /\ launch \in AllLaunches
    /\ Runs("local") => LocalInv
    /\ Runs("tallSkinny") => TallInv

LEMMA TileStart == Init => TileInv
<1> SUFFICES ASSUME Init PROVE TileInv
  OBVIOUS
<1>1. CASE L!Init
  <2>1. launch \in LocalLaunches /\ launch.kernel = "local"
    BY <1>1, LocalSizes DEF L!Init
  <2> QED
    BY <1>1, <2>1, LocalStart DEF TileInv, AllLaunches, Runs
<1>2. CASE T!Init
  <2>1. launch \in TallSkinnyLaunches /\ launch.kernel = "tallSkinny"
    BY <1>2, TallSizes DEF T!Init
  <2> QED
    BY <1>2, <2>1, TallStart DEF TileInv, AllLaunches, Runs
<1>3. CASE F!Init \/ P!Init \/ I!Init \/ R!Init
  <2>1. /\ launch \in FullVecLaunches \cup PartialVecLaunches \cup InterleavedLaunches
                        \cup RefLaunches
        /\ launch.kernel # "local" /\ launch.kernel # "tallSkinny"
    BY <1>3, GemmKernelsAssumption
       DEF F!Init, P!Init, I!Init, R!Init, GemmKernelsAssumption, KernelsAssumption
  <2> QED
    BY <2>1 DEF TileInv, AllLaunches, Runs
<1> QED
  BY <1>1, <1>2, <1>3 DEF Init

LEMMA TileStep == TileInv /\ [Next]_vars => TileInv'
<1> SUFFICES ASSUME TileInv, [Next]_vars PROVE TileInv'
  OBVIOUS
<1>1. CASE \E i \in Item : Runs("local") /\ L!Step(i) /\ UNCHANGED tile
  <2>1. PICK i \in L!Item : L!Step(i)
    BY <1>1 DEF Item, L!Item, L!WgSize
  <2>2. LocalInv' /\ launch' = launch
    BY <1>1, <2>1, LocalStep
       DEF TileInv, L!Step, L!Load, L!Compute, L!Store
  <2> QED
    BY <1>1, <2>2 DEF TileInv, Runs, AllLaunches
<1>2. CASE \E i \in Item : /\ Runs("tallSkinny") /\ T!Step(i)
                           /\ UNCHANGED <<block, batch, k, buffer, ofs>>
  <2>1. PICK i \in T!Item : T!Step(i)
    BY <1>2 DEF Item, T!Item, T!WgSize
  <2>2. TallInv' /\ launch' = launch
    BY <1>2, <2>1, TallStep
       DEF TileInv, T!Step, T!Start, T!LoadNext, T!Compute, T!Store
  <2> QED
    BY <1>2, <2>2 DEF TileInv, Runs, AllLaunches
<1>3. CASE ItemStep
  <2>1. launch' = launch /\ ~Runs("local") /\ ~Runs("tallSkinny")
    BY <1>3 DEF ItemStep, Runs, F!Next, F!Compute, F!Store, P!Next, P!Compute, P!Store,
      I!Next, I!Compute, I!Store, I!StoreOf, R!Next, R!Compute, R!Store
  <2> QED
    BY <2>1 DEF TileInv, Runs, AllLaunches
<1>4. CASE UNCHANGED vars
  <2>1. UNCHANGED <<launch, block, pc, barriers, waiting, tile, buffer, ofs>>
    BY <1>4 DEF vars
  <2> QED
    BY <2>1, LocalSame, TallSame DEF TileInv, Runs, AllLaunches
<1> QED
  BY <1>1, <1>2, <1>3, <1>4 DEF Next, GroupStep, Finished

\* The items of a group stay together at the barriers of its kernel.
THEOREM TileInvariant == Spec => []TileInv
BY TileStart, TileStep, PTL DEF Spec

\* The kernels with local memory, with one buffer or with two: no work-item
\* copies an element to a cell that another may be reading or writing.
THEOREM TilesRaceFree == WholeTrips => (Spec => []NoLocalRace)
<1> SUFFICES ASSUME WholeTrips PROVE Spec => []NoLocalRace
  OBVIOUS
<1>1. TileInv => NoLocalRace
  BY LocalRaceFree, TallRaceFree DEF TileInv, NoLocalRace
<1> QED
  BY <1>1, TileInvariant, PTL

-------------------------------------------------------------------------------
(***************************************************************************)
(* Shares of C: the kernels without local memory                           *)
(***************************************************************************)

ItemLaunches ==
    FullVecLaunches \cup PartialVecLaunches \cup InterleavedLaunches \cup RefLaunches

LEMMA ItemSizes ==
    ASSUME NEW l \in ItemLaunches
    PROVE  /\ l.wgRows \in Nat \ {0} /\ l.wgCols \in Nat \ {0}
           /\ l.itemRows \in Nat \ {0} /\ l.itemCols \in Nat \ {0}
           /\ l.packet \in Nat \ {0} /\ l.m \in Nat \ {0} /\ l.n \in Nat \ {0}
           /\ l.batchSize \in Nat \ {0} /\ l.computeUnits \in Nat \ {0}
           /\ 4 * l.computeUnits \in Nat \ {0}
BY GemmKernelsAssumption
   DEF ItemLaunches, GemmKernelsAssumption, F!GemmItemAssumption,
       P!GemmItemAssumption, I!GemmItemAssumption, R!GemmItemAssumption

\* What item i of group g computes: its register in packets of v[g] by u[g].
Computes(wr, wc, ir, ic, v, u, a, d, n, b, r, l, g, i) ==
    /\ b >= g \div (a * d) /\ (b - (g \div (a * d))) % n = 0
    /\ HasRow(wr, v[g], ir, (g % (a * d)) % a, i % wr, r)
    /\ HasRow(wc, u[g], ic, (g % (a * d)) \div a, i \div wr, l)
OnlyOneComputes(wr, wc, ir, ic, v, u, a, d, n, b, r, l) ==
    \E o \in 0 .. (a * d) * n - 1, j \in 0 .. wr * wc - 1 :
       \A g \in 0 .. (a * d) * n - 1, i \in 0 .. wr * wc - 1 :
          Computes(wr, wc, ir, ic, v, u, a, d, n, b, r, l, g, i) <=> g = o /\ i = j
Packets(v, n, groups) ==
    v \in [groups -> Nat \ {0}] /\ \A g \in groups : n % v[g] = 0
InGrid(wr, wc, ir, ic, v, u, a, d, n, r, l) ==
    /\ r < (wr * ir) * a /\ l < (wc * ic) * d
    /\ Packets(v, ir, 0 .. (a * d) * n - 1)
    /\ Packets(u, ic, 0 .. (a * d) * n - 1)

\* The coordinates of a group in its cluster, and of an item in its group.
LEMMA InCluster ==
    ASSUME NEW a \in Nat \ {0}, NEW d \in Nat \ {0}, NEW g \in Nat
    PROVE  (g % (a * d)) % a \in Nat /\ (g % (a * d)) \div a \in Nat
<1>1. PICK w \in Nat \ {0} : w = a * d
  OBVIOUS
<1>2. PICK h \in Nat : h = g % w
  OBVIOUS
<1>3. h % a \in Nat /\ h \div a \in Nat
  BY DivMod
<1> QED
  BY <1>1, <1>2, <1>3

LEMMA InGroup ==
    ASSUME NEW w \in Nat \ {0}, NEW v \in Nat \ {0}, NEW i \in 0 .. w * v - 1
    PROVE  i % w \in 0 .. w - 1 /\ i \div w \in 0 .. v - 1
<1>1. i \in Nat
  OBVIOUS
<1>2. i % w \in 0 .. w - 1
  BY <1>1
<1>3. i \div w \in 0 .. v - 1
  <2>1. PICK n \in Nat : n = w * v
    OBVIOUS
  <2> QED
    BY <2>1, SomeBlock
<1> QED
  BY <1>2, <1>3

\* Each element of C is in a register of one item of one group, in whatever
\* packets the groups work.
LEMMA OneComputes ==
    ASSUME NEW wr \in Nat \ {0}, NEW wc \in Nat \ {0}, NEW ir \in Nat \ {0},
           NEW ic \in Nat \ {0}, NEW a \in Nat \ {0}, NEW d \in Nat \ {0},
           NEW n \in Nat \ {0}, NEW b \in Nat, NEW r \in Nat, NEW l \in Nat,
           NEW v, NEW u, InGrid(wr, wc, ir, ic, v, u, a, d, n, r, l)
    PROVE  OnlyOneComputes(wr, wc, ir, ic, v, u, a, d, n, b, r, l)
<1>1. PICK s \in Nat \ {0}, t \in Nat \ {0}, h \in Nat \ {0}, w \in Nat \ {0} :
          s = wr * ir /\ t = wc * ic /\ h = (a * d) * n /\ w = wr * wc
  OBVIOUS
<1>2. PICK p \in 0 .. a - 1, q \in 0 .. d - 1 : p = r \div s /\ q = l \div t
  <2>1. r \div s \in 0 .. a - 1
    <3>1. PICK y \in Nat : y = s * a /\ r < y
      BY <1>1 DEF InGrid
    <3>2. r \in 0 .. y - 1 /\ y <= s * a
      BY <3>1
    <3> QED
      BY <3>2, SomeBlock
  <2>2. l \div t \in 0 .. d - 1
    <3>1. PICK y \in Nat : y = t * d /\ l < y
      BY <1>1 DEF InGrid
    <3>2. l \in 0 .. y - 1 /\ y <= t * d
      BY <3>1
    <3> QED
      BY <3>2, SomeBlock
  <2> QED
    BY <2>1, <2>2
<1> DEFINE G == 0 .. h - 1
           J == 0 .. w - 1
<1>3. PICK o \in G : \A g \in G : Serves(a, d, n, b, p, q, g) <=> g = o
  <2>1. OnlyOneServes(a, d, n, b, p, q)
    BY OneServes
  <2> QED
    BY <1>1, <2>1 DEF OnlyOneServes
<1>4. PICK e \in Nat, f \in Nat : e = r % s /\ f = l % t
  OBVIOUS
<1>5. ASSUME NEW g \in G, NEW i \in J
      PROVE  Computes(wr, wc, ir, ic, v, u, a, d, n, b, r, l, g, i)
                <=> /\ Serves(a, d, n, b, p, q, g)
                    /\ i % wr = (e \div v[g]) % wr /\ i \div wr = (f \div u[g]) % wc
  <2>1. PICK z \in Nat, y \in Nat : z = (g % (a * d)) % a /\ y = (g % (a * d)) \div a
    BY InCluster
  <2>2. PICK il \in 0 .. wr - 1, jl \in 0 .. wc - 1 : il = i % wr /\ jl = i \div wr
    BY <1>1, InGroup
  <2>3. PICK x \in Nat \ {0}, y2 \in Nat \ {0} :
            x = v[g] /\ y2 = u[g] /\ ir % x = 0 /\ ic % y2 = 0
    BY <1>1 DEF InGrid, Packets
  <2>4. HasRow(wr, x, ir, z, il, r) <=> r \div s = z /\ (e \div x) % wr = il
    <3>1. HasRow(wr, x, ir, z, il, r) <=> InRow(wr, x, ir, z, il, r)
      BY <2>3, RowIn
    <3> QED
      BY <1>1, <1>4, <3>1 DEF InRow
  <2>5. HasRow(wc, y2, ic, y, jl, l) <=> l \div t = y /\ (f \div y2) % wc = jl
    <3>1. HasRow(wc, y2, ic, y, jl, l) <=> InRow(wc, y2, ic, y, jl, l)
      BY <2>3, RowIn
    <3> QED
      BY <1>1, <1>4, <3>1 DEF InRow
  <2> QED
    BY <1>2, <2>1, <2>2, <2>3, <2>4, <2>5 DEF Computes, Serves
<1>6. PICK j \in J :
         \A i \in J :
            i % wr = (e \div v[o]) % wr /\ i \div wr = (f \div u[o]) % wc <=> i = j
  <2>1. PICK x \in Nat \ {0}, y2 \in Nat \ {0} : x = v[o] /\ y2 = u[o]
    BY <1>1 DEF InGrid, Packets
  <2>2. PICK e2 \in Nat, f2 \in Nat : e2 = e \div x /\ f2 = f \div y2
    BY DivMod
  <2>3. PICK g \in 0 .. wr - 1, y \in 0 .. wc - 1 :
            g = (e \div x) % wr /\ y = (f \div y2) % wc
    BY <2>2
  <2>4. OnlyOneItem(wr, wc, g, y)
    BY OneItem
  <2> QED
    BY <1>1, <2>1, <2>3, <2>4 DEF OnlyOneItem
<1>7. ASSUME NEW g \in G, NEW i \in J
      PROVE  Computes(wr, wc, ir, ic, v, u, a, d, n, b, r, l, g, i) <=> g = o /\ i = j
  BY <1>3, <1>5, <1>6
<1> QED
  BY <1>1, <1>7 DEF OnlyOneComputes

LEMMA FullVecCard == \A x : F!Cardinality({x}) = 1
BY FS_Singleton DEF F!Cardinality, Cardinality

\* The grid of the kernel with full vectorisation.
LEMMA FullVecGrid ==
    ASSUME launch \in FullVecLaunches
    PROVE  /\ F!BlocksPerRow \in Nat \ {0} /\ F!WorkgroupCluster \in Nat \ {0}
           /\ launch.m <= (launch.wgRows * launch.itemRows) * F!BlocksPerRow
           /\ \E d \in Nat \ {0}, n \in Nat \ {0} :
                 /\ launch.n <= (launch.wgCols * launch.itemCols) * d
                 /\ F!WorkgroupCluster = F!BlocksPerRow * d
                 /\ F!BatchStride = n
                 /\ F!Groups = 0 .. (F!BlocksPerRow * d) * n - 1
<1>1. launch \in ItemLaunches
  BY DEF ItemLaunches
<1>2. PICK s \in Nat \ {0}, t \in Nat \ {0}, units \in Nat \ {0} :
          /\ s = launch.wgRows * launch.itemRows /\ t = launch.wgCols * launch.itemCols
          /\ units = 4 * launch.computeUnits
  BY <1>1, ItemSizes
<1>3. PICK a \in Nat \ {0}, d \in Nat \ {0}, n \in Nat \ {0} :
          GridOver(launch.m, launch.n, s, t, units, a, d, n)
  <2>1. launch.m \in Nat \ {0} /\ launch.n \in Nat \ {0}
    BY <1>1, ItemSizes
  <2> QED
    BY <2>1, Grid
<1>4. /\ F!BlocksPerRow = a /\ F!WorkgroupCluster = a * d /\ F!BatchStride = n
      /\ F!Groups = 0 .. (a * d) * n - 1
  BY <1>2, <1>3 DEF GridOver, F!DivUp, F!BlocksPerRow, F!BlockRows, F!BlockCols, F!WorkgroupCluster,
     F!NumWorkgroupCluster, F!BatchStride, F!Groups
<1>5. a * d \in Nat \ {0}
  OBVIOUS
<1> QED
  BY <1>2, <1>3, <1>4, <1>5 DEF GridOver

\* What an item of a group computes, in whole packets or in single elements.
LEMMA FullVecShare ==
    ASSUME launch \in FullVecLaunches,
           NEW g \in F!Groups, NEW i \in F!Items, NEW x \in F!Elements,
           NEW v, v = F!Place(g, i).packet,
           NEW u, u = IF F!Place(g, i).internal /\ launch.transB THEN launch.itemCols ELSE 1
    PROVE  x \in F!ItemShare(g, i)
              <=> /\ x[1] >= F!WgBatchId(g) /\ (x[1] - F!WgBatchId(g)) % F!BatchStride = 0
                  /\ HasRow(launch.wgRows, v, launch.itemRows,
                            (g % F!WorkgroupCluster) % F!BlocksPerRow,
                            i % launch.wgRows, x[2])
                  /\ HasRow(launch.wgCols, u, launch.itemCols,
                            (g % F!WorkgroupCluster) \div F!BlocksPerRow,
                            i \div launch.wgRows, x[3])
<1> DEFINE p == F!Place(g, i)
<1>1. /\ launch \in ItemLaunches
      /\ launch.packet = 1 \/ launch.itemCols = launch.packet
  BY GemmKernelsAssumption DEF ItemLaunches, GemmKernelsAssumption, F!FullVecAssumption
<1>2. PICK a \in Nat, d \in Nat, il \in Nat, jl \in Nat :
          /\ a = (g % F!WorkgroupCluster) % F!BlocksPerRow
          /\ d = (g % F!WorkgroupCluster) \div F!BlocksPerRow
          /\ il = i % launch.wgRows /\ jl = i \div launch.wgRows
  <2>1. /\ F!BlocksPerRow \in Nat \ {0} /\ F!WorkgroupCluster \in Nat \ {0}
        /\ launch.wgRows \in Nat \ {0} /\ g \in Nat /\ i \in Nat
    BY <1>1, FullVecGrid, ItemSizes DEF F!Groups, F!Items
  <2>2. PICK e \in Nat \ {0}, h \in Nat \ {0}, w \in Nat \ {0} :
            e = F!BlocksPerRow /\ h = F!WorkgroupCluster /\ w = launch.wgRows
    BY <2>1
  <2>0. g \in Nat /\ i \in Nat
    BY <2>1
  <2>3. PICK z \in Nat : z = g % h
    BY <2>0
  <2>4. z % e \in Nat /\ z \div e \in Nat
    BY DivMod
  <2>5. PICK j \in Nat : j = i
    BY <2>0
  <2>6. j % w \in Nat /\ j \div w \in Nat
    BY DivMod
  <2> QED
    BY <2>2, <2>3, <2>4, <2>5, <2>6
<1>3. PICK s \in Nat \ {0}, t \in Nat \ {0} :
          s = launch.wgRows * launch.itemRows /\ t = launch.wgCols * launch.itemCols
  BY <1>1, ItemSizes
<1>4. /\ p.packet = v /\ v \in {1, launch.packet}
      /\ p.internal => v = launch.packet /\ launch.packet # 1
      /\ ~p.internal => v = 1
      /\ p.row = a * s + il * v
      /\ p.col = d * t + jl * (IF launch.transB THEN v ELSE 1)
  BY <1>2, <1>3 DEF F!Place, F!BlockRows, F!BlockCols
<1>5. v \in Nat \ {0} /\ p.row \in Nat /\ p.col \in Nat
  <2>1. v \in Nat \ {0}
    BY <1>1, <1>4, ItemSizes
  <2>2. a * s + il * v \in Nat /\ d * t + jl * v \in Nat /\ d * t + jl * 1 \in Nat
    BY <2>1
  <2> QED
    BY <1>4, <2>1, <2>2
<1> HIDE DEF p
<1>6. ASSUME NEW y \in F!RegRows
      PROVE  /\ F!RowOf(p, y) = a * s + il * v + (y \div v) * launch.wgRows * v + (y % v)
             /\ F!RowOf(p, y) >= p.row
  <2>1. (y \div v) * launch.wgRows * v \in Nat /\ y % v \in Nat
    <3>1. y \in Nat
      BY <1>1, ItemSizes DEF F!RegRows
    <3>2. PICK z \in Nat : z = y \div v
      BY <1>5, <3>1, DivMod
    <3>3. y % v \in Nat
      BY <1>5, <3>1, DivMod
    <3>4. z * launch.wgRows * v \in Nat
      BY <1>1, <1>5, ItemSizes
    <3> QED
      BY <3>2, <3>3, <3>4
  <2> QED
    BY <1>4, <1>5, <2>1 DEF F!RowOf
<1>7. ASSUME NEW y \in F!RegCols
      PROVE  /\ F!ColOf(p, y) = IF p.internal /\ launch.transB
                                THEN d * t + jl * launch.itemCols + y
                                ELSE d * t + jl + y * launch.wgCols
             /\ F!ColOf(p, y) >= p.col
  <2>1. y \in Nat /\ launch.wgCols \in Nat
    BY <1>1, ItemSizes DEF F!RegCols
  <2>2. y * 1 \in Nat /\ y * launch.wgCols \in Nat
    BY <2>1
  <2>3. CASE p.internal /\ launch.transB
    <3>1. v = launch.itemCols
      BY <1>1, <1>4, <2>3
    <3>2. F!ColOf(p, y) = p.col + y * 1 /\ y * 1 = y
      BY <2>1, <2>3 DEF F!ColOf
    <3>3. p.col = d * t + jl * launch.itemCols
      BY <1>4, <2>3, <3>1
    <3> QED
      BY <1>5, <2>1, <2>3, <3>2, <3>3
  <2>4. CASE ~(p.internal /\ launch.transB)
    <3>1. F!ColOf(p, y) = p.col + y * launch.wgCols
      BY <2>4 DEF F!ColOf
    <3>2. p.col = d * t + jl
      BY <1>4, <2>4
    <3> QED
      BY <1>5, <2>2, <2>4, <3>1, <3>2
  <2> QED
    BY <2>3, <2>4
<1>8. PICK b \in 0 .. launch.batchSize - 1, r \in 0 .. launch.m - 1,
           l \in 0 .. launch.n - 1 : x = <<b, r, l>>
  BY DEF F!Elements
<1>9. HasRow(launch.wgRows, v, launch.itemRows, a, il, r)
        <=> \E y \in F!RegRows : r = F!RowOf(p, y)
  BY <1>3, <1>6 DEF HasRow, F!RegRows
<1>10. HasRow(launch.wgCols, u, launch.itemCols, d, jl, l)
         <=> \E y \in F!RegCols : l = F!ColOf(p, y)
  <2>1. PICK w \in Nat \ {0}, n \in Nat \ {0} : w = launch.wgCols /\ n = launch.itemCols
    BY <1>1, ItemSizes
  <2>2. /\ HasRow(w, 1, n, d, jl, l)
             <=> \E y \in 0 .. n - 1 : l = d * t + jl + y * w
        /\ HasRow(w, n, n, d, jl, l)
             <=> \E y \in 0 .. n - 1 : l = d * t + jl * n + y
    <3>1. /\ HasRow(w, 1, n, d, jl, l) <=> RowSpread(w, n, d, jl, l)
          /\ HasRow(w, n, n, d, jl, l) <=> RowTogether(w, n, d, jl, l)
      BY SpreadOrTogether
    <3>2. t = w * n
      BY <1>3, <2>1
    <3> QED
      BY <3>1, <3>2 DEF RowSpread, RowTogether
  <2>3. CASE p.internal /\ launch.transB
    BY <1>7, <2>1, <2>2, <2>3 DEF F!RegCols, p
  <2>4. CASE ~(p.internal /\ launch.transB)
    BY <1>7, <2>1, <2>2, <2>4 DEF F!RegCols, p
  <2> QED
    BY <2>3, <2>4
<1>11. ASSUME NEW y \in F!RegRows, NEW z \in F!RegCols,
              r = F!RowOf(p, y), l = F!ColOf(p, z)
       PROVE  /\ p.row < launch.m /\ p.col < launch.n
              /\ <<z, y>> \in F!StoredAt(g, i)
  <2>1. r < launch.m /\ l < launch.n
    BY <1>1, ItemSizes
  <2>2. p.row <= r /\ p.col <= l
    BY <1>5, <1>6, <1>7, <1>11
  <2>3. <<z, y>> \in F!StoredAt(g, i)
    BY <1>11, <2>1 DEF F!StoredAt, p
  <2> QED
    BY <1>1, <1>5, <2>1, <2>2, <2>3, ItemSizes
<1>12. ASSUME NEW w \in F!StoredAt(g, i)
       PROVE  w[1] \in F!RegCols /\ w[2] \in F!RegRows
  BY DEF F!StoredAt
<1>13. x \in F!ItemShare(g, i)
         <=> /\ b >= F!WgBatchId(g) /\ (b - F!WgBatchId(g)) % F!BatchStride = 0
             /\ p.row < launch.m /\ p.col < launch.n
             /\ \E w \in F!StoredAt(g, i) : r = F!RowOf(p, w[2]) /\ l = F!ColOf(p, w[1])
  BY <1>8 DEF F!ItemShare, p
<1>14. (/\ p.row < launch.m /\ p.col < launch.n
        /\ \E w \in F!StoredAt(g, i) : r = F!RowOf(p, w[2]) /\ l = F!ColOf(p, w[1]))
         <=> /\ \E y \in F!RegRows : r = F!RowOf(p, y)
             /\ \E y \in F!RegCols : l = F!ColOf(p, y)
  <2>1. ASSUME NEW y \in F!RegRows, NEW z \in F!RegCols,
               r = F!RowOf(p, y), l = F!ColOf(p, z)
        PROVE  /\ p.row < launch.m /\ p.col < launch.n
               /\ \E w \in F!StoredAt(g, i) : r = F!RowOf(p, w[2]) /\ l = F!ColOf(p, w[1])
    <3>1. <<z, y>>[1] = z /\ <<z, y>>[2] = y
      OBVIOUS
    <3> QED
      BY <1>11, <2>1, <3>1
  <2> QED
    BY <1>12, <2>1
<1> QED
  BY <1>2, <1>8, <1>9, <1>10, <1>13, <1>14

LEMMA FullVecShares == launch \in FullVecLaunches => F!SharesPartitionC
<1> SUFFICES ASSUME launch \in FullVecLaunches, NEW x \in F!Elements
             PROVE  F!Cardinality({y \in F!Groups \X F!Items :
                                      x \in F!ItemShare(y[1], y[2])}) = 1
  BY DEF F!SharesPartitionC
<1>1. /\ launch \in ItemLaunches
      /\ launch.itemRows % launch.packet = 0
  BY GemmKernelsAssumption DEF ItemLaunches, GemmKernelsAssumption, F!FullVecAssumption
<1>2. PICK wr \in Nat \ {0}, wc \in Nat \ {0}, ir \in Nat \ {0}, ic \in Nat \ {0},
           packet \in Nat \ {0}, m \in Nat, h \in Nat :
          /\ wr = launch.wgRows /\ wc = launch.wgCols
          /\ ir = launch.itemRows /\ ic = launch.itemCols /\ packet = launch.packet
          /\ h = launch.m /\ m = launch.n
  BY <1>1, ItemSizes
<1>3. PICK a \in Nat \ {0}, d \in Nat \ {0}, n \in Nat \ {0} :
          /\ h <= (wr * ir) * a /\ m <= (wc * ic) * d
          /\ F!BlocksPerRow = a /\ F!WorkgroupCluster = a * d /\ F!BatchStride = n
          /\ F!Groups = 0 .. (a * d) * n - 1
  BY <1>2, FullVecGrid
<1>4. F!Items = 0 .. wr * wc - 1
  BY <1>2 DEF F!Items
<1>5. PICK b \in Nat, r \in Nat, l \in Nat : x = <<b, r, l>> /\ r < h /\ l < m
  BY <1>1, <1>2, ItemSizes DEF F!Elements
<1> DEFINE v == [g \in F!Groups |-> F!Place(g, 0).packet]
           u == [g \in F!Groups |-> IF F!Place(g, 0).internal /\ launch.transB
                                    THEN ic ELSE 1]
<1>6. Packets(v, ir, F!Groups) /\ Packets(u, ic, F!Groups)
  <2>1. \A g \in F!Groups : v[g] \in {1, packet} /\ u[g] \in {1, ic}
    BY <1>2 DEF F!Place
  <2>2. ir % 1 = 0 /\ ic % 1 = 0 /\ ic % ic = 0 /\ ir % packet = 0
    BY <1>1, <1>2
  <2> QED
    BY <2>1, <2>2 DEF Packets
<1>7. ASSUME NEW g \in F!Groups, NEW i \in F!Items
      PROVE  x \in F!ItemShare(g, i)
                <=> Computes(wr, wc, ir, ic, v, u, a, d, n, b, r, l, g, i)
  <2>1. /\ F!Place(g, i).packet = v[g]
        /\ (IF F!Place(g, i).internal /\ launch.transB THEN launch.itemCols ELSE 1) = u[g]
    BY <1>2 DEF F!Place
  <2> HIDE DEF v, u
  <2>2. x \in F!ItemShare(g, i)
           <=> /\ b >= g \div (a * d) /\ (b - (g \div (a * d))) % n = 0
               /\ HasRow(wr, v[g], ir, (g % (a * d)) % a, i % wr, r)
               /\ HasRow(wc, u[g], ic, (g % (a * d)) \div a, i \div wr, l)
    <3>1. x \in F!ItemShare(g, i)
             <=> /\ x[1] >= F!WgBatchId(g) /\ (x[1] - F!WgBatchId(g)) % F!BatchStride = 0
                 /\ HasRow(launch.wgRows, v[g], launch.itemRows,
                           (g % F!WorkgroupCluster) % F!BlocksPerRow,
                           i % launch.wgRows, x[2])
                 /\ HasRow(launch.wgCols, u[g], launch.itemCols,
                           (g % F!WorkgroupCluster) \div F!BlocksPerRow,
                           i \div launch.wgRows, x[3])
      BY <2>1, FullVecShare
    <3> QED
      BY <1>2, <1>3, <1>5, <3>1 DEF F!WgBatchId
  <2> QED
    BY <2>2 DEF Computes
<1> HIDE DEF v, u
<1>8. OnlyOneComputes(wr, wc, ir, ic, v, u, a, d, n, b, r, l)
  <2>1. InGrid(wr, wc, ir, ic, v, u, a, d, n, r, l)
    BY <1>3, <1>5, <1>6 DEF InGrid
  <2> QED
    BY <1>3, <1>5, <1>6, <2>1, OneComputes
<1>9. PICK o \in F!Groups, j \in F!Items :
          \A g \in F!Groups, i \in F!Items : x \in F!ItemShare(g, i) <=> g = o /\ i = j
  <2>1. PICK o \in F!Groups, j \in F!Items :
            \A g \in F!Groups, i \in F!Items :
               Computes(wr, wc, ir, ic, v, u, a, d, n, b, r, l, g, i) <=> g = o /\ i = j
    BY <1>3, <1>4, <1>8 DEF OnlyOneComputes
  <2> QED
    BY <1>7, <2>1
<1>10. {y \in F!Groups \X F!Items : x \in F!ItemShare(y[1], y[2])} = {<<o, j>>}
  BY <1>9
<1> QED
  BY <1>10, FullVecCard

\* The grid of the kernel with partial vectorisation.
LEMMA PartialVecGrid ==
    ASSUME launch \in PartialVecLaunches
    PROVE  /\ P!BlocksPerRow \in Nat \ {0} /\ P!WorkgroupCluster \in Nat \ {0}
           /\ launch.m <= (launch.wgRows * launch.itemRows) * P!BlocksPerRow
           /\ \E d \in Nat \ {0}, n \in Nat \ {0} :
                 /\ launch.n <= (launch.wgCols * launch.itemCols) * d
                 /\ P!WorkgroupCluster = P!BlocksPerRow * d
                 /\ P!BatchStride = n
                 /\ P!Groups = 0 .. (P!BlocksPerRow * d) * n - 1
<1>1. launch \in ItemLaunches
  BY DEF ItemLaunches
<1>2. PICK s \in Nat \ {0}, t \in Nat \ {0}, units \in Nat \ {0} :
          /\ s = launch.wgRows * launch.itemRows /\ t = launch.wgCols * launch.itemCols
          /\ units = 4 * launch.computeUnits
  BY <1>1, ItemSizes
<1>3. PICK a \in Nat \ {0}, d \in Nat \ {0}, n \in Nat \ {0} :
          GridOver(launch.m, launch.n, s, t, units, a, d, n)
  <2>1. launch.m \in Nat \ {0} /\ launch.n \in Nat \ {0}
    BY <1>1, ItemSizes
  <2> QED
    BY <2>1, Grid
<1>4. /\ P!BlocksPerRow = a /\ P!WorkgroupCluster = a * d /\ P!BatchStride = n
      /\ P!Groups = 0 .. (a * d) * n - 1
  BY <1>2, <1>3 DEF GridOver, P!DivUp, P!BlocksPerRow, P!BlockRows, P!BlockCols, P!WorkgroupCluster,
     P!NumWorkgroupCluster, P!BatchStride, P!Groups
<1>5. a * d \in Nat \ {0}
  OBVIOUS
<1> QED
  BY <1>2, <1>3, <1>4, <1>5 DEF GridOver

LEMMA PartialVecCard == \A x : P!Cardinality({x}) = 1
BY FS_Singleton DEF P!Cardinality, Cardinality

\* What an item of a group computes, in the packets of A and of B.
LEMMA PartialVecShare ==
    ASSUME launch \in PartialVecLaunches,
           NEW g \in P!Groups, NEW i \in P!Items, NEW x \in P!Elements,
           NEW v, v = P!Place(g, i).aPacket, NEW u, u = P!Place(g, i).bPacket
    PROVE  x \in P!ItemShare(g, i)
              <=> /\ x[1] >= P!WgBatchId(g) /\ (x[1] - P!WgBatchId(g)) % P!BatchStride = 0
                  /\ HasRow(launch.wgRows, v, launch.itemRows,
                            (g % P!WorkgroupCluster) % P!BlocksPerRow,
                            i % launch.wgRows, x[2])
                  /\ HasRow(launch.wgCols, u, launch.itemCols,
                            (g % P!WorkgroupCluster) \div P!BlocksPerRow,
                            i \div launch.wgRows, x[3])
<1> DEFINE p == P!Place(g, i)
<1>1. launch \in ItemLaunches
  BY DEF ItemLaunches
<1>2. PICK a \in Nat, d \in Nat, il \in Nat, jl \in Nat :
          /\ a = (g % P!WorkgroupCluster) % P!BlocksPerRow
          /\ d = (g % P!WorkgroupCluster) \div P!BlocksPerRow
          /\ il = i % launch.wgRows /\ jl = i \div launch.wgRows
  <2>1. /\ P!BlocksPerRow \in Nat \ {0} /\ P!WorkgroupCluster \in Nat \ {0}
        /\ launch.wgRows \in Nat \ {0} /\ g \in Nat /\ i \in Nat
    BY <1>1, PartialVecGrid, ItemSizes DEF P!Groups, P!Items
  <2>2. PICK e \in Nat \ {0}, h \in Nat \ {0}, w \in Nat \ {0} :
            e = P!BlocksPerRow /\ h = P!WorkgroupCluster /\ w = launch.wgRows
    BY <2>1
  <2>0. g \in Nat /\ i \in Nat
    BY <2>1
  <2>3. PICK z \in Nat : z = g % h
    BY <2>0
  <2>4. z % e \in Nat /\ z \div e \in Nat
    BY DivMod
  <2>5. PICK j \in Nat : j = i
    BY <2>0
  <2>6. j % w \in Nat /\ j \div w \in Nat
    BY DivMod
  <2> QED
    BY <2>2, <2>3, <2>4, <2>5, <2>6
<1>3. PICK s \in Nat \ {0}, t \in Nat \ {0} :
          s = launch.wgRows * launch.itemRows /\ t = launch.wgCols * launch.itemCols
  BY <1>1, ItemSizes
<1>4. /\ p.aPacket = v /\ p.bPacket = u /\ {v, u} \subseteq {1, launch.packet}
      /\ p.row = a * s + il * v /\ p.col = d * t + jl * u
  BY <1>2, <1>3 DEF P!Place, P!BlockRows, P!BlockCols
<1>5. v \in Nat \ {0} /\ u \in Nat \ {0} /\ p.row \in Nat /\ p.col \in Nat
  <2>1. v \in Nat \ {0} /\ u \in Nat \ {0}
    BY <1>1, <1>4, ItemSizes
  <2>2. a * s + il * v \in Nat /\ d * t + jl * u \in Nat
    BY <2>1
  <2> QED
    BY <1>4, <2>1, <2>2
<1> HIDE DEF p
<1>6. ASSUME NEW w \in Nat, NEW e \in Nat \ {0}, NEW y \in Nat
      PROVE  (y \div e) * w * e \in Nat /\ y % e \in Nat
  <2>1. PICK z \in Nat : z = y \div e
    BY DivMod
  <2>2. y % e \in Nat
    BY DivMod
  <2> QED
    BY <2>1, <2>2
<1>7. /\ \A y \in P!RegRows :
            /\ P!RowOf(p, y) = a * s + il * v + (y \div v) * launch.wgRows * v + (y % v)
            /\ P!RowOf(p, y) >= p.row
      /\ \A y \in P!RegCols :
            /\ P!ColOf(p, y) = d * t + jl * u + (y \div u) * launch.wgCols * u + (y % u)
            /\ P!ColOf(p, y) >= p.col
  <2>1. ASSUME NEW y \in P!RegRows
        PROVE  /\ P!RowOf(p, y) = a * s + il * v + (y \div v) * launch.wgRows * v + (y % v)
               /\ P!RowOf(p, y) >= p.row
    <3>1. y \in Nat /\ launch.wgRows \in Nat
      BY <1>1, ItemSizes DEF P!RegRows
    <3>2. (y \div v) * launch.wgRows * v \in Nat /\ y % v \in Nat
      BY <1>5, <1>6, <3>1
    <3> QED
      BY <1>4, <1>5, <3>2 DEF P!RowOf, P!Spread
  <2>2. ASSUME NEW y \in P!RegCols
        PROVE  /\ P!ColOf(p, y) = d * t + jl * u + (y \div u) * launch.wgCols * u + (y % u)
               /\ P!ColOf(p, y) >= p.col
    <3>1. y \in Nat /\ launch.wgCols \in Nat
      BY <1>1, ItemSizes DEF P!RegCols
    <3>2. (y \div u) * launch.wgCols * u \in Nat /\ y % u \in Nat
      BY <1>5, <1>6, <3>1
    <3> QED
      BY <1>4, <1>5, <3>2 DEF P!ColOf, P!Spread
  <2> QED
    BY <2>1, <2>2
<1>8. PICK b \in 0 .. launch.batchSize - 1, r \in 0 .. launch.m - 1,
           l \in 0 .. launch.n - 1 : x = <<b, r, l>>
  BY DEF P!Elements
<1>9. HasRow(launch.wgRows, v, launch.itemRows, a, il, r)
        <=> \E y \in P!RegRows : r = P!RowOf(p, y)
  BY <1>3, <1>7 DEF HasRow, P!RegRows
<1>10. HasRow(launch.wgCols, u, launch.itemCols, d, jl, l)
         <=> \E y \in P!RegCols : l = P!ColOf(p, y)
  BY <1>3, <1>7 DEF HasRow, P!RegCols
<1>11. ASSUME NEW y \in P!RegRows, NEW z \in P!RegCols,
              r = P!RowOf(p, y), l = P!ColOf(p, z)
       PROVE  /\ p.row < launch.m /\ p.col < launch.n
              /\ <<z, y>> \in P!StoredAt(g, i)
  <2>1. r < launch.m /\ l < launch.n
    BY <1>1, ItemSizes
  <2>2. p.row <= r /\ p.col <= l
    BY <1>5, <1>7, <1>11
  <2>3. <<z, y>> \in P!StoredAt(g, i)
    BY <1>11, <2>1 DEF P!StoredAt, p
  <2> QED
    BY <1>1, <1>5, <2>1, <2>2, <2>3, ItemSizes
<1>12. ASSUME NEW w \in P!StoredAt(g, i)
       PROVE  w[1] \in P!RegCols /\ w[2] \in P!RegRows
  BY DEF P!StoredAt
<1>13. x \in P!ItemShare(g, i)
         <=> /\ b >= P!WgBatchId(g) /\ (b - P!WgBatchId(g)) % P!BatchStride = 0
             /\ p.row < launch.m /\ p.col < launch.n
             /\ \E w \in P!StoredAt(g, i) : r = P!RowOf(p, w[2]) /\ l = P!ColOf(p, w[1])
  BY <1>8 DEF P!ItemShare, p
<1>14. (/\ p.row < launch.m /\ p.col < launch.n
        /\ \E w \in P!StoredAt(g, i) : r = P!RowOf(p, w[2]) /\ l = P!ColOf(p, w[1]))
         <=> /\ \E y \in P!RegRows : r = P!RowOf(p, y)
             /\ \E y \in P!RegCols : l = P!ColOf(p, y)
  <2>1. ASSUME NEW y \in P!RegRows, NEW z \in P!RegCols,
               r = P!RowOf(p, y), l = P!ColOf(p, z)
        PROVE  /\ p.row < launch.m /\ p.col < launch.n
               /\ \E w \in P!StoredAt(g, i) : r = P!RowOf(p, w[2]) /\ l = P!ColOf(p, w[1])
    <3>1. <<z, y>>[1] = z /\ <<z, y>>[2] = y
      OBVIOUS
    <3> QED
      BY <1>11, <2>1, <3>1
  <2> QED
    BY <1>12, <2>1
<1> QED
  BY <1>2, <1>8, <1>9, <1>10, <1>13, <1>14

LEMMA PartialVecShares == launch \in PartialVecLaunches => P!SharesPartitionC
<1> SUFFICES ASSUME launch \in PartialVecLaunches, NEW x \in P!Elements
             PROVE  P!Cardinality({y \in P!Groups \X P!Items :
                                      x \in P!ItemShare(y[1], y[2])}) = 1
  BY DEF P!SharesPartitionC
<1>1. /\ launch \in ItemLaunches
      /\ launch.itemRows % launch.packet = 0 /\ launch.itemCols % launch.packet = 0
  BY GemmKernelsAssumption DEF ItemLaunches, GemmKernelsAssumption, P!PartialVecAssumption
<1>2. PICK wr \in Nat \ {0}, wc \in Nat \ {0}, ir \in Nat \ {0}, ic \in Nat \ {0},
           packet \in Nat \ {0}, m \in Nat, h \in Nat :
          /\ wr = launch.wgRows /\ wc = launch.wgCols
          /\ ir = launch.itemRows /\ ic = launch.itemCols /\ packet = launch.packet
          /\ h = launch.m /\ m = launch.n
  BY <1>1, ItemSizes
<1>3. PICK a \in Nat \ {0}, d \in Nat \ {0}, n \in Nat \ {0} :
          /\ h <= (wr * ir) * a /\ m <= (wc * ic) * d
          /\ P!BlocksPerRow = a /\ P!WorkgroupCluster = a * d /\ P!BatchStride = n
          /\ P!Groups = 0 .. (a * d) * n - 1
  BY <1>2, PartialVecGrid
<1>4. P!Items = 0 .. wr * wc - 1
  BY <1>2 DEF P!Items
<1>5. PICK b \in Nat, r \in Nat, l \in Nat : x = <<b, r, l>> /\ r < h /\ l < m
  BY <1>1, <1>2, ItemSizes DEF P!Elements
<1> DEFINE v == [g \in P!Groups |-> P!Place(g, 0).aPacket]
           u == [g \in P!Groups |-> P!Place(g, 0).bPacket]
<1>6. Packets(v, ir, P!Groups) /\ Packets(u, ic, P!Groups)
  <2>1. \A g \in P!Groups : v[g] \in {1, packet} /\ u[g] \in {1, packet}
    BY <1>2 DEF P!Place
  <2>2. ir % 1 = 0 /\ ic % 1 = 0 /\ ic % packet = 0 /\ ir % packet = 0
    BY <1>1, <1>2
  <2> QED
    BY <2>1, <2>2 DEF Packets
<1>7. ASSUME NEW g \in P!Groups, NEW i \in P!Items
      PROVE  x \in P!ItemShare(g, i)
                <=> Computes(wr, wc, ir, ic, v, u, a, d, n, b, r, l, g, i)
  <2>1. P!Place(g, i).aPacket = v[g] /\ P!Place(g, i).bPacket = u[g]
    BY <1>2 DEF P!Place
  <2> HIDE DEF v, u
  <2>2. x \in P!ItemShare(g, i)
           <=> /\ b >= g \div (a * d) /\ (b - (g \div (a * d))) % n = 0
               /\ HasRow(wr, v[g], ir, (g % (a * d)) % a, i % wr, r)
               /\ HasRow(wc, u[g], ic, (g % (a * d)) \div a, i \div wr, l)
    <3>1. x \in P!ItemShare(g, i)
             <=> /\ x[1] >= P!WgBatchId(g) /\ (x[1] - P!WgBatchId(g)) % P!BatchStride = 0
                 /\ HasRow(launch.wgRows, v[g], launch.itemRows,
                           (g % P!WorkgroupCluster) % P!BlocksPerRow,
                           i % launch.wgRows, x[2])
                 /\ HasRow(launch.wgCols, u[g], launch.itemCols,
                           (g % P!WorkgroupCluster) \div P!BlocksPerRow,
                           i \div launch.wgRows, x[3])
      BY <2>1, PartialVecShare
    <3> QED
      BY <1>2, <1>3, <1>5, <3>1 DEF P!WgBatchId
  <2> QED
    BY <2>2 DEF Computes
<1> HIDE DEF v, u
<1>8. OnlyOneComputes(wr, wc, ir, ic, v, u, a, d, n, b, r, l)
  <2>1. InGrid(wr, wc, ir, ic, v, u, a, d, n, r, l)
    BY <1>3, <1>5, <1>6 DEF InGrid
  <2> QED
    BY <1>3, <1>5, <1>6, <2>1, OneComputes
<1>9. PICK o \in P!Groups, j \in P!Items :
          \A g \in P!Groups, i \in P!Items : x \in P!ItemShare(g, i) <=> g = o /\ i = j
  <2>1. PICK o \in P!Groups, j \in P!Items :
            \A g \in P!Groups, i \in P!Items :
               Computes(wr, wc, ir, ic, v, u, a, d, n, b, r, l, g, i) <=> g = o /\ i = j
    BY <1>3, <1>4, <1>8 DEF OnlyOneComputes
  <2> QED
    BY <1>7, <2>1
<1>10. {y \in P!Groups \X P!Items : x \in P!ItemShare(y[1], y[2])} = {<<o, j>>}
  BY <1>9
<1> QED
  BY <1>10, PartialVecCard

LEMMA RefCard == \A x : R!Cardinality({x}) = 1
BY FS_Singleton DEF R!Cardinality, Cardinality

\* The reference kernel: item z of all items side by side computes element z.
Numbered(a, n, wg, h, b, r, l, g, i) ==
    /\ b >= g \div a /\ (b - (g \div a)) % n = 0
    /\ ((g % a) * wg + i) % h = r /\ ((g % a) * wg + i) \div h = l
OnlyOneNumbered(a, n, wg, h, b, r, l) ==
    \E o \in 0 .. a * n - 1, j \in 0 .. wg - 1 :
       \A g \in 0 .. a * n - 1, i \in 0 .. wg - 1 :
          Numbered(a, n, wg, h, b, r, l, g, i) <=> g = o /\ i = j

LEMMA OneNumbered ==
    ASSUME NEW a \in Nat \ {0}, NEW n \in Nat \ {0}, NEW wg \in Nat \ {0},
           NEW h \in Nat \ {0}, NEW b \in Nat, NEW r \in 0 .. h - 1, NEW l \in Nat,
           NEW t \in Nat, t <= wg * a, NEW e \in 0 .. t - 1, e = h * l + r
    PROVE  OnlyOneNumbered(a, n, wg, h, b, r, l)
<1>1. PICK y \in 0 .. a - 1, j \in 0 .. wg - 1 : y = e \div wg /\ j = e % wg
  <2>1. e \div wg \in 0 .. a - 1
    BY SomeBlock
  <2>2. e \in Nat
    OBVIOUS
  <2>3. e % wg \in 0 .. wg - 1
    BY <2>2
  <2> QED
    BY <2>1, <2>3
<1>2. PICK q \in 0 .. n - 1 : q = b % n
  OBVIOUS
<1>3. PICK s \in Nat \ {0} : s = a * n
  OBVIOUS
<1>4. PICK o \in 0 .. s - 1 : o = a * q + y
  <2>1. a * q + y \in 0 .. n * a - 1 /\ n * a = a * n
    BY DigitsFit
  <2> QED
    BY <1>3, <2>1
<1>5. ASSUME NEW g \in 0 .. s - 1, NEW i \in 0 .. wg - 1
      PROVE  Numbered(a, n, wg, h, b, r, l, g, i) <=> g = o /\ i = j
  <2>1. g \in Nat
    OBVIOUS
  <2>2. PICK d \in 0 .. n - 1 : d = g \div a
    <3>1. s \in Nat /\ s <= a * n
      BY <1>3
    <3> QED
      BY <3>1, SomeBlock
  <2>3. PICK z \in 0 .. a - 1 : z = g % a
    BY <2>1
  <2>4. PICK f \in Nat : f = z * wg + i /\ f = wg * z + i
    OBVIOUS
  <2>5. f % h = r /\ f \div h = l <=> f = e
    BY Digits
  <2>6. f = e <=> z = y /\ i = j
    <3>1. e \in Nat /\ z \in Nat
      OBVIOUS
    <3>2. e = wg * z + i <=> e \div wg = z /\ e % wg = i
      BY <3>1, Digits
    <3> QED
      BY <1>1, <2>4, <3>2
  <2>7. b >= d /\ (b - d) % n = 0 <=> d = q
    BY <1>2, BatchOf
  <2>8. g = o <=> d = q /\ z = y
    <3>1. g = a * q + y <=> g \div a = q /\ g % a = y
      <4>1. q \in Nat
        OBVIOUS
      <4> QED
        BY <2>1, <4>1, Digits
    <3> QED
      BY <1>4, <2>2, <2>3, <3>1
  <2> QED
    BY <2>2, <2>3, <2>4, <2>5, <2>6, <2>7, <2>8 DEF Numbered
<1> QED
  BY <1>3, <1>5 DEF OnlyOneNumbered

LEMMA RefShares == launch \in RefLaunches => R!SharesPartitionC
<1> SUFFICES ASSUME launch \in RefLaunches, NEW x \in R!Elements
             PROVE  R!Cardinality({y \in R!Groups \X R!Items :
                                      x \in R!ItemShare(y[1], y[2])}) = 1
  BY DEF R!SharesPartitionC
<1>1. launch \in ItemLaunches
  BY DEF ItemLaunches
<1>2. PICK wg \in Nat \ {0}, h \in Nat \ {0}, m \in Nat \ {0}, units \in Nat \ {0},
           batches \in Nat :
          /\ wg = launch.wgRows /\ h = launch.m /\ m = launch.n
          /\ units = 4 * launch.computeUnits /\ batches = launch.batchSize
  BY <1>1, ItemSizes
<1>3. PICK t \in Nat \ {0} : t = h * m
  OBVIOUS
<1>4. PICK a \in Nat \ {0} : a = (t - 1) \div wg + 1 /\ t <= wg * a
  BY RoundedUp
<1>5. PICK n \in Nat \ {0} : n = (units - 1) \div a + 1
  BY RoundedUp
<1>6. /\ R!WorkgroupCluster = a /\ R!BatchStride = n
      /\ R!Groups = 0 .. a * n - 1 /\ R!Items = 0 .. wg - 1
  BY <1>2, <1>3, <1>4, <1>5
     DEF R!WorkgroupCluster, R!DivUp, R!WgSize, R!BatchStride, R!NumWorkgroupCluster,
         R!Groups, R!Items
<1>7. PICK b \in Nat, r \in 0 .. h - 1, l \in 0 .. m - 1 : x = <<b, r, l>> /\ b < batches
  BY <1>2 DEF R!Elements
<1>8. PICK e \in 0 .. t - 1 : e = h * l + r
  <2>1. h * l + r \in 0 .. m * h - 1 /\ m * h = h * m
    BY DigitsFit
  <2> QED
    BY <1>3, <2>1
<1>9. OnlyOneNumbered(a, n, wg, h, b, r, l)
  <2>1. l \in Nat
    OBVIOUS
  <2> QED
    BY <1>4, <1>8, <2>1, OneNumbered
<1>10. ASSUME NEW g \in R!Groups, NEW i \in R!Items
       PROVE  x \in R!ItemShare(g, i) <=> Numbered(a, n, wg, h, b, r, l, g, i)
  <2>1. PICK f \in Nat, d \in Nat : f = (g % a) * wg + i /\ d = g \div a
    <3>1. g \in Nat /\ i \in Nat
      BY <1>6
    <3>2. PICK z \in Nat : z = g % a
      BY <3>1
    <3>3. g \div a \in Nat
      BY <3>1, DivMod
    <3>4. z * wg + i \in Nat
      BY <3>1
    <3> QED
      BY <3>2, <3>3, <3>4
  <2>2. x \in R!ItemShare(g, i)
           <=> /\ d < batches /\ f < h * m
               /\ b >= d /\ (b - d) % n = 0
               /\ r = f % h /\ l = f \div h
    BY <1>2, <1>6, <1>7, <2>1
       DEF R!ItemShare, R!Works, R!WgBatchId, R!ItemId, R!Row, R!Col, R!WgSize
  <2>3. r = f % h /\ l = f \div h => f = e
    <3>1. l \in Nat
      OBVIOUS
    <3> QED
      BY <1>8, <3>1, Digits
  <2>4. b >= d => d < batches
    BY <1>7
  <2>5. f = e => f < h * m
    BY <1>3
  <2> QED
    BY <2>1, <2>2, <2>3, <2>4, <2>5 DEF Numbered
<1>11. PICK o \in R!Groups, j \in R!Items :
          \A g \in R!Groups, i \in R!Items : x \in R!ItemShare(g, i) <=> g = o /\ i = j
  <2>1. PICK o \in R!Groups, j \in R!Items :
            \A g \in R!Groups, i \in R!Items :
               Numbered(a, n, wg, h, b, r, l, g, i) <=> g = o /\ i = j
    BY <1>6, <1>9 DEF OnlyOneNumbered
  <2> QED
    BY <1>10, <2>1
<1>12. {y \in R!Groups \X R!Items : x \in R!ItemShare(y[1], y[2])} = {<<o, j>>}
  BY <1>11
<1> QED
  BY <1>12, RefCard

LEMMA InterleavedCard == \A x : I!Cardinality({x}) = 1
BY FS_Singleton DEF I!Cardinality, Cardinality

\* The interleaved kernel: of a times d times u groups, or items, the one at f, p
\* and q.
At(a, u, f, p, q, g) == g % u = f /\ (g \div u) % a = p /\ (g \div u) \div a = q
OnlyOneAt(a, d, u, f, p, q) ==
    \E o \in 0 .. (a * d) * u - 1 :
       \A g \in 0 .. (a * d) * u - 1 : At(a, u, f, p, q, g) <=> g = o

LEMMA OneAt ==
    ASSUME NEW a \in Nat \ {0}, NEW d \in Nat \ {0}, NEW u \in Nat \ {0},
           NEW f \in 0 .. u - 1, NEW p \in 0 .. a - 1, NEW q \in 0 .. d - 1
    PROVE  OnlyOneAt(a, d, u, f, p, q)
<1>1. PICK w \in Nat \ {0}, s \in Nat \ {0} : w = a * d /\ s = (a * d) * u
  OBVIOUS
<1>2. PICK y \in 0 .. w - 1 : y = a * q + p
  <2>1. a * q + p \in 0 .. d * a - 1 /\ d * a = a * d
    BY DigitsFit
  <2> QED
    BY <1>1, <2>1
<1>3. PICK o \in 0 .. s - 1 : o = u * y + f
  <2>1. u * y + f \in 0 .. w * u - 1
    BY DigitsFit
  <2> QED
    BY <1>1, <2>1
<1>4. ASSUME NEW g \in 0 .. s - 1
      PROVE  At(a, u, f, p, q, g) <=> g = o
  <2>1. g \in Nat /\ y \in Nat /\ q \in Nat
    OBVIOUS
  <2>2. PICK z \in Nat : z = g \div u
    BY <2>1, DivMod
  <2>3. g = u * y + f <=> z = y /\ g % u = f
    BY <2>1, <2>2, Digits
  <2>4. z = a * q + p <=> z \div a = q /\ z % a = p
    BY <2>1, Digits
  <2> QED
    BY <1>2, <1>3, <2>2, <2>3, <2>4 DEF At
<1> QED
  BY <1>1, <1>4 DEF OnlyOneAt

\* The coordinates of a number.
Coordinated(a, d, u, g) ==
    /\ g % u \in 0 .. u - 1
    /\ (g \div u) % a \in 0 .. a - 1 /\ (g \div u) \div a \in 0 .. d - 1

LEMMA Coordinates ==
    ASSUME NEW a \in Nat \ {0}, NEW d \in Nat \ {0}, NEW u \in Nat \ {0},
           NEW g \in 0 .. (a * d) * u - 1
    PROVE  Coordinated(a, d, u, g)
<1>1. PICK w \in Nat \ {0}, s \in Nat \ {0} : w = a * d /\ s = (a * d) * u
  OBVIOUS
<1>2. g \in 0 .. s - 1 /\ g \in Nat
  BY <1>1
<1>3. PICK z \in 0 .. w - 1 : z = g \div u
  <2>1. s <= u * w
    BY <1>1
  <2> QED
    BY <1>2, <2>1, SomeBlock
<1>4. g % u \in 0 .. u - 1 /\ z % a \in 0 .. a - 1
  BY <1>2
<1>5. z \div a \in 0 .. d - 1
  <2>1. w <= a * d
    BY <1>1
  <2> QED
    BY <2>1, SomeBlock
<1> QED
  BY <1>3, <1>4, <1>5 DEF Coordinated

\* Registers and lanes that are next to each other.
LEMMA TogetherIn ==
    ASSUME NEW w \in Nat \ {0}, NEW n \in Nat \ {0},
           NEW q \in Nat, NEW i \in 0 .. w - 1, NEW x \in Nat
    PROVE  RowTogether(w, n, q, i, x) <=> InRow(w, n, n, q, i, x)
<1>1. n % n = 0 /\ i \in Nat
  OBVIOUS
<1>2. HasRow(w, n, n, q, i, x) <=> InRow(w, n, n, q, i, x)
  BY <1>1, RowIn
<1>3. HasRow(w, n, n, q, i, x) <=> RowTogether(w, n, q, i, x)
  BY <1>1, SpreadOrTogether
<1> QED
  BY <1>2, <1>3

\* The packets of an item.
LEMMA InterleavedPackets ==
    ASSUME launch \in InterleavedLaunches
    PROVE  /\ launch \in ItemLaunches
           /\ launch.wgBatchs \in Nat \ {0} /\ launch.packet \in Nat \ {0}
           /\ I!Packets \in Nat \ {0}
           /\ launch.itemBatchs = I!Packets * launch.packet
           /\ I!PacketStride = launch.wgBatchs * launch.packet
<1>1. launch \in ItemLaunches
  BY DEF ItemLaunches
<1>2. PICK w \in Nat \ {0}, v \in Nat \ {0}, z \in Nat \ {0} :
          /\ w = launch.wgBatchs /\ v = launch.packet /\ z = launch.itemBatchs
          /\ z % v = 0
  BY <1>1, GemmKernelsAssumption, ItemSizes
     DEF GemmKernelsAssumption, I!InterleavedAssumption
<1>3. PICK np \in Nat \ {0} : np = z \div v /\ z = v * np
  BY <1>2, Divides
<1>4. v * np = np * v
  OBVIOUS
<1> QED
  BY <1>1, <1>2, <1>3, <1>4 DEF I!Packets, I!PacketStride

\* The grid of the interleaved kernel.
LEMMA InterleavedGrid ==
    ASSUME launch \in InterleavedLaunches
    PROVE  /\ launch.wgBatchs \in Nat \ {0}
           /\ \E a \in Nat \ {0}, d \in Nat \ {0}, u \in Nat \ {0} :
                 /\ launch.m <= (launch.wgRows * launch.itemRows) * a
                 /\ launch.n <= (launch.wgCols * launch.itemCols) * d
                 /\ launch.batchSize <= (launch.wgBatchs * launch.itemBatchs) * u
                 /\ I!BlocksPerRow = a /\ I!BlocksPerBatch = u
                 /\ I!Groups = 0 .. (a * d) * u - 1
<1>1. launch \in ItemLaunches /\ launch.wgBatchs \in Nat \ {0}
  BY InterleavedPackets
<1>2. PICK m \in Nat \ {0}, n \in Nat \ {0}, batches \in Nat \ {0} :
          m = launch.m /\ n = launch.n /\ batches = launch.batchSize
  BY <1>1, ItemSizes
<1>3. PICK s \in Nat \ {0}, t \in Nat \ {0}, f \in Nat \ {0} :
          /\ s = launch.wgRows * launch.itemRows /\ t = launch.wgCols * launch.itemCols
          /\ f = launch.wgBatchs * launch.itemBatchs
  <2>1. launch.itemBatchs \in Nat \ {0}
    <3>1. PICK np \in Nat \ {0}, v \in Nat \ {0} :
              np = I!Packets /\ v = launch.packet /\ launch.itemBatchs = np * v
      BY InterleavedPackets
    <3> QED
      BY <3>1
  <2> QED
    BY <1>1, <2>1, ItemSizes
<1>4. PICK a \in Nat \ {0} : a = (m - 1) \div s + 1 /\ m <= s * a
  BY RoundedUp
<1>5. PICK d \in Nat \ {0} : d = (n - 1) \div t + 1 /\ n <= t * d
  BY RoundedUp
<1>6. PICK u \in Nat \ {0} : u = (batches - 1) \div f + 1 /\ batches <= f * u
  BY RoundedUp
<1>7. /\ I!BlocksPerRow = a /\ I!BlocksPerBatch = u
      /\ I!Groups = 0 .. (a * d) * u - 1
  BY <1>2, <1>3, <1>4, <1>5, <1>6
     DEF I!BlocksPerRow, I!BlocksPerBatch, I!Groups, I!DivUp, I!BlockRows, I!BlockCols
<1> QED
  BY <1>1, <1>2, <1>3, <1>4, <1>5, <1>6, <1>7

\* The batches of item i of a block of w items with p packets of n each: in
\* packet q of the block, the items' packets are next to each other.
HasPacket(p, w, n, block0, i, x) ==
    \E q \in 0 .. p - 1 : RowTogether(w, n, block0 * p + q, i, x)

\* A batch of an item that begins at s.
InLanes(p, w, n, s, x) ==
    \E q \in 0 .. p - 1, e \in 0 .. n - 1 : x = s + (q * (w * n) + e)

LEMMA PacketLanes ==
    ASSUME NEW w \in Nat \ {0}, NEW n \in Nat \ {0}, NEW p \in Nat \ {0},
           NEW o \in Nat, NEW i \in Nat, NEW x
    PROVE  HasPacket(p, w, n, o, i, x) <=> InLanes(p, w, n, i * n + (o * w) * (p * n), x)
<1>1. ASSUME NEW q \in Nat, NEW e \in Nat
      PROVE  (o * p + q) * (w * n) + i * n + e
               = (i * n + (o * w) * (p * n)) + (q * (w * n) + e)
  <2>1. (o * p + q) * (w * n) = (o * w) * (p * n) + q * (w * n)
    OBVIOUS
  <2>2. PICK f \in Nat, g \in Nat, h \in Nat :
            f = (o * w) * (p * n) /\ g = q * (w * n) /\ h = i * n
    OBVIOUS
  <2> QED
    BY <2>1, <2>2
<1>2. HasPacket(p, w, n, o, i, x)
        <=> \E q \in 0 .. p - 1, e \in 0 .. n - 1 : x = (o * p + q) * (w * n) + i * n + e
  BY DEF HasPacket, RowTogether
<1>3. PICK s : s = i * n + (o * w) * (p * n)
  OBVIOUS
<1>4. InLanes(p, w, n, s, x)
        <=> \E q \in 0 .. p - 1, e \in 0 .. n - 1 : x = (o * p + q) * (w * n) + i * n + e
  <2>1. ASSUME NEW q \in 0 .. p - 1, NEW e \in 0 .. n - 1
        PROVE  (o * p + q) * (w * n) + i * n + e = s + (q * (w * n) + e)
    BY <1>1, <1>3
  <2>2. InLanes(p, w, n, s, x)
          => \E q \in 0 .. p - 1, e \in 0 .. n - 1 : x = (o * p + q) * (w * n) + i * n + e
    <3> SUFFICES ASSUME NEW q \in 0 .. p - 1, NEW e \in 0 .. n - 1,
                        x = s + (q * (w * n) + e)
                 PROVE  x = (o * p + q) * (w * n) + i * n + e
      BY DEF InLanes
    <3> QED
      BY <2>1
  <2>3. ASSUME NEW q \in 0 .. p - 1, NEW e \in 0 .. n - 1,
               x = (o * p + q) * (w * n) + i * n + e
        PROVE  InLanes(p, w, n, s, x)
    <3>1. x = s + (q * (w * n) + e)
      BY <2>1, <2>3
    <3> QED
      BY <3>1 DEF InLanes
  <2> QED
    BY <2>2, <2>3
<1> QED
  BY <1>2, <1>3, <1>4

\* Which item has a batch: that of its packet, in the block of its packets.
LEMMA PacketIn ==
    ASSUME NEW w \in Nat \ {0}, NEW n \in Nat \ {0}, NEW p \in Nat \ {0},
           NEW o \in Nat, NEW i \in 0 .. w - 1, NEW x \in Nat
    PROVE  HasPacket(p, w, n, o, i, x)
              <=> /\ (x \div (w * n)) \div p = o
                  /\ ((x % (w * n)) \div n) % w = i
<1>1. PICK f \in Nat \ {0} : f = w * n
  OBVIOUS
<1>2. PICK y \in Nat : y = x \div f
  BY DivMod
<1>3. ASSUME NEW q \in 0 .. p - 1
      PROVE  RowTogether(w, n, o * p + q, i, x)
                <=> y = o * p + q /\ ((x % f) \div n) % w = i
  <2>1. PICK z \in Nat : z = o * p + q
    OBVIOUS
  <2>2. RowTogether(w, n, z, i, x) <=> InRow(w, n, n, z, i, x)
    BY TogetherIn
  <2> QED
    BY <1>1, <1>2, <2>1, <2>2 DEF InRow
<1>4. (\E q \in 0 .. p - 1 : y = o * p + q) <=> y \div p = o
  <2>1. ASSUME NEW q \in 0 .. p - 1
        PROVE  y = p * o + q <=> y \div p = o /\ y % p = q
    BY Digits
  <2>2. y % p \in 0 .. p - 1
    BY DivMod
  <2>3. p * o = o * p
    OBVIOUS
  <2> QED
    BY <2>1, <2>2, <2>3
<1> QED
  BY <1>1, <1>2, <1>3, <1>4 DEF HasPacket

\* What an item of a group computes: registers and lanes next to each other.
LEMMA InterleavedShare ==
    ASSUME launch \in InterleavedLaunches,
           NEW g \in I!Groups, NEW i \in I!Items, NEW x \in I!Elements
    PROVE  x \in I!ItemShare(g, i)
              <=> /\ HasPacket(I!Packets, launch.wgBatchs, launch.packet,
                               g % I!BlocksPerBatch, i % launch.wgBatchs, x[1])
                  /\ RowTogether(launch.wgRows, launch.itemRows,
                                 (g \div I!BlocksPerBatch) % I!BlocksPerRow,
                                 (i \div launch.wgBatchs) % launch.wgRows, x[2])
                  /\ RowTogether(launch.wgCols, launch.itemCols,
                                 (g \div I!BlocksPerBatch) \div I!BlocksPerRow,
                                 (i \div launch.wgBatchs) \div launch.wgRows, x[3])
<1> DEFINE p == I!Place(g, i)
<1>1. launch \in ItemLaunches
  BY DEF ItemLaunches
<1>2. PICK wr \in Nat \ {0}, wc \in Nat \ {0}, wb \in Nat \ {0}, ir \in Nat \ {0},
           ic \in Nat \ {0}, packet \in Nat \ {0}, np \in Nat \ {0} :
          /\ wr = launch.wgRows /\ wc = launch.wgCols /\ wb = launch.wgBatchs
          /\ ir = launch.itemRows /\ ic = launch.itemCols /\ packet = launch.packet
          /\ np = I!Packets /\ launch.itemBatchs = np * packet
          /\ I!PacketStride = wb * packet
  BY <1>1, ItemSizes, InterleavedPackets
<1>3. PICK a \in Nat \ {0}, d \in Nat \ {0}, u \in Nat \ {0} :
          /\ I!BlocksPerRow = a /\ I!BlocksPerBatch = u
          /\ I!Groups = 0 .. (a * d) * u - 1
  BY InterleavedGrid
<1>4. PICK gb \in Nat, gr \in Nat, gc \in Nat :
          gb = g % u /\ gr = (g \div u) % a /\ gc = (g \div u) \div a
  <2>1. Coordinated(a, d, u, g)
    BY <1>3, Coordinates
  <2> QED
    BY <2>1 DEF Coordinated
<1>5. PICK lb \in Nat, lr \in Nat, lc \in Nat :
          lb = i % wb /\ lr = (i \div wb) % wr /\ lc = (i \div wb) \div wr
  <2>1. i \in 0 .. (wr * wc) * wb - 1
    BY <1>2 DEF I!Items
  <2>2. Coordinated(wr, wc, wb, i)
    BY <2>1, Coordinates
  <2> QED
    BY <2>2 DEF Coordinated
<1>6. /\ p.batch = lb * packet + (gb * wb) * (np * packet)
      /\ p.row = gr * (wr * ir) + lr * ir
      /\ p.col = gc * (wc * ic) + lc * ic
  BY <1>2, <1>3, <1>4, <1>5 DEF I!Place, I!BlockRows, I!BlockCols
<1>7. p.batch \in Nat /\ p.row \in Nat /\ p.col \in Nat
  <2>1. /\ lb * packet \in Nat /\ (gb * wb) * (np * packet) \in Nat
        /\ gr * (wr * ir) \in Nat /\ lr * ir \in Nat
        /\ gc * (wc * ic) \in Nat /\ lc * ic \in Nat
    OBVIOUS
  <2> QED
    BY <1>6, <2>1
<1>8. PICK pb \in Nat, pr \in Nat, pc2 \in Nat : pb = p.batch /\ pr = p.row /\ pc2 = p.col
  BY <1>7
<1> HIDE DEF p
<1>9. PICK b \in Nat, r \in Nat, l \in Nat :
          /\ x = <<b, r, l>>
          /\ b < launch.batchSize /\ r < launch.m /\ l < launch.n
  BY <1>1, ItemSizes DEF I!Elements
<1>10. x \in I!ItemShare(g, i)
         <=> \E y \in I!RegCols, z \in I!RegRows, w \in I!Lanes :
                b = pb + w /\ r = pr + z /\ l = pc2 + y
  <2>1. ASSUME x \in I!ItemShare(g, i)
        PROVE  \E y \in I!RegCols, z \in I!RegRows, w \in I!Lanes :
                  b = pb + w /\ r = pr + z /\ l = pc2 + y
    <3>1. PICK e \in I!StoredAt(g, i) :
              x = <<p.batch + e[3], p.row + e[2], p.col + e[1]>>
      BY <2>1 DEF I!ItemShare, p
    <3>2. e[1] \in I!RegCols /\ e[2] \in I!RegRows /\ e[3] \in I!Lanes
      BY <3>1 DEF I!StoredAt
    <3> QED
      BY <1>8, <1>9, <3>1, <3>2
  <2>2. ASSUME NEW y \in I!RegCols, NEW z \in I!RegRows, NEW w \in I!Lanes,
               b = pb + w, r = pr + z, l = pc2 + y
        PROVE  x \in I!ItemShare(g, i)
    <3>1. y \in Nat /\ z \in Nat /\ w \in Nat
      <4>1. PICK q \in Nat, e \in Nat : w = q * (wb * packet) + e
        BY <1>2 DEF I!Lanes
      <4>2. q * (wb * packet) \in Nat
        OBVIOUS
      <4> QED
        BY <1>1, <4>1, <4>2, ItemSizes DEF I!RegCols, I!RegRows
    <3>2. pb < launch.batchSize /\ pr < launch.m /\ pc2 < launch.n
      BY <1>1, <1>9, <2>2, <3>1, ItemSizes
    <3>3. ~I!OutOfRange(p)
      BY <1>1, <1>8, <3>2, ItemSizes DEF I!OutOfRange
    <3>4. <<y, z, w>> \in I!StoredAt(g, i)
      BY <1>8, <1>9, <2>2 DEF I!StoredAt, p
    <3>5. x = <<p.batch + w, p.row + z, p.col + y>>
      BY <1>8, <1>9, <2>2
    <3>6. <<y, z, w>>[1] = y /\ <<y, z, w>>[2] = z /\ <<y, z, w>>[3] = w
      OBVIOUS
    <3> QED
      BY <3>3, <3>4, <3>5, <3>6 DEF I!ItemShare, p
  <2> QED
    BY <2>1, <2>2
<1>11. /\ RowTogether(wr, ir, gr, lr, r) <=> \E z \in I!RegRows : r = pr + z
       /\ RowTogether(wc, ic, gc, lc, l) <=> \E y \in I!RegCols : l = pc2 + y
  BY <1>2, <1>6, <1>7, <1>8 DEF RowTogether, I!RegRows, I!RegCols
<1>12. HasPacket(np, wb, packet, gb, lb, b) <=> \E w \in I!Lanes : b = pb + w
  <2>1. HasPacket(np, wb, packet, gb, lb, b) <=> InLanes(np, wb, packet, pb, b)
    <3>1. pb = lb * packet + (gb * wb) * (np * packet)
      BY <1>6, <1>8
    <3> QED
      BY <3>1, PacketLanes
  <2>2. I!Lanes = {q * (wb * packet) + e : q \in 0 .. np - 1, e \in 0 .. packet - 1}
    BY <1>2 DEF I!Lanes
  <2>3. ASSUME NEW w \in I!Lanes, b = pb + w PROVE InLanes(np, wb, packet, pb, b)
    <3>1. PICK q \in 0 .. np - 1, e \in 0 .. packet - 1 : w = q * (wb * packet) + e
      BY <2>2
    <3> QED
      BY <2>3, <3>1 DEF InLanes
  <2>4. ASSUME InLanes(np, wb, packet, pb, b) PROVE \E w \in I!Lanes : b = pb + w
    <3>1. PICK q \in 0 .. np - 1, e \in 0 .. packet - 1 : b = pb + (q * (wb * packet) + e)
      BY <2>4 DEF InLanes
    <3>2. q * (wb * packet) + e \in I!Lanes
      <4>1. PICK f : f = wb * packet
        OBVIOUS
      <4>2. q * f + e \in {z * f + y : z \in 0 .. np - 1, y \in 0 .. packet - 1}
        OBVIOUS
      <4> QED
        BY <2>2, <4>1, <4>2
    <3> QED
      BY <3>1, <3>2
  <2> QED
    BY <2>1, <2>3, <2>4
<1> QED
  BY <1>2, <1>3, <1>4, <1>5, <1>9, <1>10, <1>11, <1>12

LEMMA InterleavedShares == launch \in InterleavedLaunches => I!SharesPartitionC
<1> SUFFICES ASSUME launch \in InterleavedLaunches, NEW x \in I!Elements
             PROVE  I!Cardinality({y \in I!Groups \X I!Items :
                                      x \in I!ItemShare(y[1], y[2])}) = 1
  BY DEF I!SharesPartitionC
<1>1. launch \in ItemLaunches
  BY DEF ItemLaunches
<1>2. PICK wr \in Nat \ {0}, wc \in Nat \ {0}, wb \in Nat \ {0}, ir \in Nat \ {0},
           ic \in Nat \ {0}, packet \in Nat \ {0}, np \in Nat \ {0}, batches \in Nat,
           m \in Nat, h \in Nat :
          /\ wr = launch.wgRows /\ wc = launch.wgCols /\ wb = launch.wgBatchs
          /\ ir = launch.itemRows /\ ic = launch.itemCols /\ packet = launch.packet
          /\ np = I!Packets /\ launch.itemBatchs = np * packet
          /\ batches = launch.batchSize /\ h = launch.m /\ m = launch.n
  BY <1>1, ItemSizes, InterleavedPackets
<1>3. PICK s \in Nat \ {0}, t \in Nat \ {0}, f \in Nat \ {0} :
          s = wr * ir /\ t = wc * ic /\ f = wb * packet
  OBVIOUS
<1>4. PICK a \in Nat \ {0}, d \in Nat \ {0}, u \in Nat \ {0} :
          /\ h <= s * a /\ m <= t * d /\ batches <= f * (np * u)
          /\ I!BlocksPerRow = a /\ I!BlocksPerBatch = u
          /\ I!Groups = 0 .. (a * d) * u - 1
  <2>1. PICK a \in Nat \ {0}, d \in Nat \ {0}, u \in Nat \ {0} :
            /\ h <= s * a /\ m <= t * d /\ batches <= (wb * (np * packet)) * u
            /\ I!BlocksPerRow = a /\ I!BlocksPerBatch = u
            /\ I!Groups = 0 .. (a * d) * u - 1
    BY <1>2, <1>3, InterleavedGrid
  <2>2. (wb * (np * packet)) * u = f * (np * u)
    BY <1>3
  <2> QED
    BY <2>1, <2>2
<1>5. I!Items = 0 .. (wr * wc) * wb - 1
  BY <1>2 DEF I!Items
<1>6. PICK b \in 0 .. batches - 1, r \in 0 .. h - 1, l \in 0 .. m - 1 : x = <<b, r, l>>
  BY <1>2 DEF I!Elements
<1>7. PICK gb \in 0 .. u - 1, gr \in 0 .. a - 1, gc \in 0 .. d - 1 :
          gb = (b \div f) \div np /\ gr = r \div s /\ gc = l \div t
  <2>1. (b \div f) \div np \in 0 .. u - 1
    <3>1. PICK z \in Nat : z = np * u
      OBVIOUS
    <3>2. PICK y \in 0 .. z - 1 : y = b \div f
      BY <1>4, <3>1, SomeBlock
    <3>3. y \div np \in 0 .. u - 1
      <4>1. z <= np * u
        BY <3>1
      <4> QED
        BY <4>1, SomeBlock
    <3> QED
      BY <3>2, <3>3
  <2>2. r \div s \in 0 .. a - 1
    BY <1>4, SomeBlock
  <2>3. l \div t \in 0 .. d - 1
    BY <1>4, SomeBlock
  <2> QED
    BY <2>1, <2>2, <2>3
<1>8. PICK lb \in 0 .. wb - 1, lr \in 0 .. wr - 1, lc \in 0 .. wc - 1 :
          /\ lb = ((b % f) \div packet) % wb
          /\ lr = ((r % s) \div ir) % wr
          /\ lc = ((l % t) \div ic) % wc
  <2>1. PICK b2 \in Nat, r2 \in Nat, l2 \in Nat : b2 = b % f /\ r2 = r % s /\ l2 = l % t
    <3>1. b \in Nat /\ r \in Nat /\ l \in Nat
      OBVIOUS
    <3>2. b % f \in Nat
      BY <3>1
    <3>3. r % s \in Nat
      BY <3>1
    <3>4. l % t \in Nat
      BY <3>1
    <3> QED
      BY <3>2, <3>3, <3>4
  <2>2. PICK b3 \in Nat, r3 \in Nat, l3 \in Nat :
            b3 = b2 \div packet /\ r3 = r2 \div ir /\ l3 = l2 \div ic
    BY DivMod
  <2>3. b3 % wb \in 0 .. wb - 1 /\ r3 % wr \in 0 .. wr - 1 /\ l3 % wc \in 0 .. wc - 1
    BY DivMod
  <2> QED
    BY <2>1, <2>2, <2>3
<1>9. PICK o \in I!Groups : \A g \in I!Groups : At(a, u, gb, gr, gc, g) <=> g = o
  <2>1. OnlyOneAt(a, d, u, gb, gr, gc)
    BY OneAt
  <2> QED
    BY <1>4, <2>1 DEF OnlyOneAt
<1>10. PICK j \in I!Items : \A i \in I!Items : At(wr, wb, lb, lr, lc, i) <=> i = j
  <2>1. OnlyOneAt(wr, wc, wb, lb, lr, lc)
    BY OneAt
  <2> QED
    BY <1>5, <2>1 DEF OnlyOneAt
<1>11. ASSUME NEW g \in I!Groups, NEW i \in I!Items
       PROVE  x \in I!ItemShare(g, i)
                 <=> At(a, u, gb, gr, gc, g) /\ At(wr, wb, lb, lr, lc, i)
  <2>1. PICK yb \in Nat, yr \in Nat, yc \in Nat :
            yb = g % u /\ yr = (g \div u) % a /\ yc = (g \div u) \div a
    <3>1. Coordinated(a, d, u, g)
      BY <1>4, Coordinates
    <3> QED
      BY <3>1 DEF Coordinated
  <2>2. PICK zb \in 0 .. wb - 1, zr \in 0 .. wr - 1, zc \in 0 .. wc - 1 :
            zb = i % wb /\ zr = (i \div wb) % wr /\ zc = (i \div wb) \div wr
    <3>1. Coordinated(wr, wc, wb, i)
      BY <1>5, Coordinates
    <3> QED
      BY <3>1 DEF Coordinated
  <2>3. x \in I!ItemShare(g, i)
           <=> /\ HasPacket(np, wb, packet, yb, zb, b)
               /\ RowTogether(wr, ir, yr, zr, r)
               /\ RowTogether(wc, ic, yc, zc, l)
    BY <1>2, <1>4, <1>6, <2>1, <2>2, InterleavedShare
  <2>4. /\ HasPacket(np, wb, packet, yb, zb, b) <=> yb = gb /\ zb = lb
        /\ RowTogether(wr, ir, yr, zr, r) <=> InRow(wr, ir, ir, yr, zr, r)
        /\ RowTogether(wc, ic, yc, zc, l) <=> InRow(wc, ic, ic, yc, zc, l)
    <3>1. b \in Nat /\ r \in Nat /\ l \in Nat
      OBVIOUS
    <3>2. HasPacket(np, wb, packet, yb, zb, b) <=> yb = gb /\ zb = lb
      <4>1. HasPacket(np, wb, packet, yb, zb, b)
              <=> /\ (b \div (wb * packet)) \div np = yb
                  /\ ((b % (wb * packet)) \div packet) % wb = zb
        BY <3>1, PacketIn
      <4> QED
        BY <1>3, <1>7, <1>8, <4>1
    <3> QED
      BY <3>1, <3>2, TogetherIn
  <2>5. /\ InRow(wr, ir, ir, yr, zr, r) <=> yr = gr /\ zr = lr
        /\ InRow(wc, ic, ic, yc, zc, l) <=> yc = gc /\ zc = lc
    BY <1>3, <1>7, <1>8 DEF InRow
  <2> QED
    BY <2>1, <2>2, <2>3, <2>4, <2>5 DEF At
<1>12. {y \in I!Groups \X I!Items : x \in I!ItemShare(y[1], y[2])} = {<<o, j>>}
  BY <1>9, <1>10, <1>11
<1> QED
  BY <1>12, InterleavedCard

-------------------------------------------------------------------------------
(***************************************************************************)
(* Shares of C: the kernels with local memory                              *)
(***************************************************************************)

LEMMA LocalCard == \A x : L!Cardinality({x}) = 1
BY FS_Singleton DEF L!Cardinality, Cardinality

\* The column of a group's block is computed with the rows of a block
\* (gemm_local.hpp:279), so that the blocks have to be square.
SquareBlocks == \A l \in LocalLaunches : WgRows * l.itemRows = WgCols * l.itemCols

\* The grid of the kernel with local memory: n clusters of w groups, which are a
\* by d tiles of u by v blocks of s by s elements.
LocalGridIs(a, d, u, v, s, w, n) ==
    /\ launch.tlRows = u /\ launch.tlCols = v
    /\ L!BlockRows = s /\ L!BlockCols = s
    /\ L!TilesPerCol = a /\ L!TileSize = u * v
    /\ w = (a * d) * (u * v) /\ L!WorkgroupCluster = w /\ L!NumWorkgroupCluster = n
    /\ L!Groups = 0 .. w * n - 1
LocalGridFits(a, d, u, v, s) ==
    launch.m <= s * (a * u) /\ launch.n <= s * (d * v)

LEMMA LocalTypes ==
    ASSUME launch \in LocalLaunches
    PROVE  /\ WgRows \in Nat \ {0} /\ WgCols \in Nat \ {0}
           /\ launch.itemRows \in Nat \ {0} /\ launch.itemCols \in Nat \ {0}
           /\ launch.tlRows \in Nat \ {0} /\ launch.tlCols \in Nat \ {0}
           /\ launch.m \in Nat \ {0} /\ launch.n \in Nat \ {0}
           /\ launch.computeUnits \in Nat \ {0} /\ launch.batchSize \in Nat \ {0}
BY GemmKernelsAssumption DEF GemmKernelsAssumption, L!GemmLocalAssumption

LEMMA LocalGrid ==
    ASSUME SquareBlocks, launch \in LocalLaunches
    PROVE  \E a, d, u, v, s, w, n \in Nat \ {0} :
              LocalGridIs(a, d, u, v, s, w, n) /\ LocalGridFits(a, d, u, v, s)
<1>1. PICK h \in Nat \ {0}, l \in Nat \ {0}, u \in Nat \ {0}, v \in Nat \ {0},
           y \in Nat \ {0} :
          /\ h = launch.m /\ l = launch.n /\ u = launch.tlRows /\ v = launch.tlCols
          /\ y = 4 * launch.computeUnits
  <2>1. PICK e \in Nat \ {0} : e = launch.computeUnits
    BY LocalTypes
  <2>2. 4 * e \in Nat \ {0}
    OBVIOUS
  <2> QED
    BY <2>1, <2>2, LocalTypes
<1>2. PICK s \in Nat \ {0} : s = L!BlockRows /\ s = L!BlockCols
  <2>1. L!BlockRows = L!BlockCols
    BY DEF SquareBlocks, L!BlockRows, L!BlockCols
  <2>2. L!BlockRows \in Nat \ {0}
    BY LocalTypes DEF L!BlockRows
  <2> QED
    BY <2>1, <2>2
<1>3. PICK us \in Nat \ {0}, vs \in Nat \ {0}, f \in Nat \ {0} :
          us = u * s /\ vs = v * s /\ f = u * v
  OBVIOUS
<1>4. PICK a \in Nat \ {0} : a = (h - 1) \div us + 1 /\ h <= us * a
  BY RoundedUp
<1>5. PICK d \in Nat \ {0} : d = (l - 1) \div vs + 1 /\ l <= vs * d
  BY RoundedUp
<1>6. PICK w \in Nat \ {0} : w = (a * d) * f
  OBVIOUS
<1>7. PICK n \in Nat \ {0} : n = (y - 1) \div w + 1
  BY RoundedUp
<1>8. L!TilesPerCol = a /\ L!DivUp(launch.n, launch.tlCols * L!BlockCols) = d
  BY <1>1, <1>2, <1>3, <1>4, <1>5 DEF L!TilesPerCol, L!DivUp
<1>9. L!TileSize = f
  BY <1>1, <1>3 DEF L!TileSize
<1>10. L!WorkgroupCluster = w
  <2>1. L!WorkgroupCluster = a * d * u * v
    BY <1>1, <1>8 DEF L!WorkgroupCluster, L!TilesPerCol
  <2>2. a * d * u * v = (a * d) * (u * v)
    OBVIOUS
  <2> QED
    BY <1>3, <1>6, <2>1, <2>2
<1>11. L!NumWorkgroupCluster = n
  BY <1>1, <1>7, <1>10 DEF L!NumWorkgroupCluster, L!DivUp
<1>12. LocalGridIs(a, d, u, v, s, w, n)
  <2>1. f = u * v /\ w = (a * d) * (u * v)
    BY <1>3, <1>6
  <2> QED
    BY <1>1, <1>2, <1>8, <1>9, <1>10, <1>11, <2>1 DEF LocalGridIs, L!Groups
<1>13. LocalGridFits(a, d, u, v, s)
  <2>1. (u * s) * a = s * (a * u) /\ (v * s) * d = s * (d * v)
    OBVIOUS
  <2>2. h <= s * (a * u) /\ l <= s * (d * v)
    BY <1>3, <1>4, <1>5, <2>1
  <2> QED
    BY <1>1, <2>2 DEF LocalGridFits
<1> QED
  BY <1>12, <1>13

\* What a group computes.
LocalShareIs(a, u, v, s, w, n, g, x) ==
    x \in L!GroupShare(g)
      <=> /\ x[1] >= g \div w /\ (x[1] - (g \div w)) % n = 0
          /\ BlockAt(a, u, v, x[2] \div s, x[3] \div s, g % w)

\* The row and the column of a block, in blocks.
LEMMA BlockPlace ==
    ASSUME NEW a \in Nat \ {0}, NEW u \in Nat \ {0}, NEW v \in Nat \ {0}, NEW z \in Nat
    PROVE  /\ ((z \div (u * v)) % a) * u + ((z % (u * v)) % u) \in Nat
           /\ ((z \div (u * v)) \div a) * v + ((z % (u * v)) \div u) \in Nat
<1>1. PICK f \in Nat \ {0} : f = u * v
  OBVIOUS
<1>2. PICK i \in Nat : i = z \div f
  BY DivMod
<1>3. z % f \in 0 .. f - 1
  BY DivMod
<1>4. PICK j \in Nat : j = z % f
  BY <1>3
<1>5. i % a \in 0 .. a - 1 /\ j % u \in 0 .. u - 1 /\ i \div a \in Nat /\ j \div u \in Nat
  BY DivMod
<1>6. PICK i1 \in Nat, i2 \in Nat, j1 \in Nat, j2 \in Nat :
          i1 = i \div a /\ i2 = i % a /\ j1 = j \div u /\ j2 = j % u
  BY <1>5
<1>7. i2 * u + j2 \in Nat /\ i1 * v + j1 \in Nat
  OBVIOUS
<1> QED
  BY <1>1, <1>2, <1>4, <1>6, <1>7

LEMMA LocalShare ==
    ASSUME launch \in LocalLaunches,
           NEW a \in Nat \ {0}, NEW d \in Nat \ {0}, NEW u \in Nat \ {0},
           NEW v \in Nat \ {0}, NEW s \in Nat \ {0}, NEW w \in Nat \ {0},
           NEW n \in Nat \ {0}, LocalGridIs(a, d, u, v, s, w, n),
           NEW g \in Nat,
           NEW x \in (0 .. launch.batchSize - 1) \X (0 .. launch.m - 1)
                       \X (0 .. launch.n - 1)
    PROVE  LocalShareIs(a, u, v, s, w, n, g, x)
<1>1. g % w \in 0 .. w - 1
  BY DivMod
<1>2. PICK z \in Nat : z = g % w
  BY <1>1
<1>3. PICK p \in Nat, q \in Nat :
          /\ p = ((z \div (u * v)) % a) * u + ((z % (u * v)) % u)
          /\ q = ((z \div (u * v)) \div a) * v + ((z % (u * v)) \div u)
  BY BlockPlace
<1>4. L!WgRow(g) = p * s /\ L!WgCol(g) = q * s
  BY <1>2, <1>3 DEF LocalGridIs, L!WgRow, L!WgCol, L!TileId, L!TileLocalId
<1>5. PICK ro \in Nat, co \in Nat : ro = p * s /\ co = q * s
  OBVIOUS
<1>6. x[2] \in Nat /\ x[3] \in Nat
  BY LocalTypes
<1>7. x \in L!GroupShare(g)
        <=> /\ x[1] >= g \div w /\ (x[1] - (g \div w)) % n = 0
            /\ ro <= x[2] /\ x[2] < ro + s /\ co <= x[3] /\ x[3] < co + s
  <2>1. x \in L!GroupShare(g)
          <=> /\ x[1] >= L!WgBatchId(g) /\ (x[1] - L!WgBatchId(g)) % L!BatchStride = 0
              /\ x[2] - L!WgRow(g) \in 0 .. L!BlockRows - 1
              /\ x[3] - L!WgCol(g) \in 0 .. L!BlockCols - 1
    BY DEF L!GroupShare
  <2>2. L!WgBatchId(g) = g \div w /\ L!BatchStride = n
        /\ L!BlockRows = s /\ L!BlockCols = s
    BY DEF LocalGridIs, L!WgBatchId, L!BatchStride
  <2>3. /\ x[2] - ro \in 0 .. s - 1 <=> ro <= x[2] /\ x[2] < ro + s
        /\ x[3] - co \in 0 .. s - 1 <=> co <= x[3] /\ x[3] < co + s
    BY <1>5, <1>6
  <2> QED
    BY <1>4, <1>5, <2>1, <2>2, <2>3
<1>8. ro <= x[2] /\ x[2] < ro + s <=> x[2] \div s = p
  BY <1>5, <1>6, WholeBlock
<1>9. co <= x[3] /\ x[3] < co + s <=> x[3] \div s = q
  BY <1>5, <1>6, WholeBlock
<1>10. BlockAt(a, u, v, x[2] \div s, x[3] \div s, z)
         <=> p = x[2] \div s /\ q = x[3] \div s
  BY <1>3 DEF BlockAt
<1> QED
  BY <1>2, <1>7, <1>8, <1>9, <1>10 DEF LocalShareIs

LEMMA LocalShares == SquareBlocks /\ launch \in LocalLaunches => L!SharesPartitionC
<1> SUFFICES ASSUME SquareBlocks, launch \in LocalLaunches,
                    NEW x \in (0 .. launch.batchSize - 1) \X (0 .. launch.m - 1)
                                \X (0 .. launch.n - 1)
             PROVE  L!Cardinality({g \in L!Groups : x \in L!GroupShare(g)}) = 1
  BY DEF L!SharesPartitionC
<1>1. PICK a, d, u, v, s, w, n \in Nat \ {0} :
          LocalGridIs(a, d, u, v, s, w, n) /\ LocalGridFits(a, d, u, v, s)
  BY LocalGrid
<1>2. PICK b \in Nat, r \in Nat, l \in Nat :
          /\ x[1] = b /\ x[2] = r /\ x[3] = l
          /\ r \in 0 .. launch.m - 1 /\ l \in 0 .. launch.n - 1
  BY LocalTypes
<1>3. PICK p \in 0 .. a * u - 1, q \in 0 .. d * v - 1 : p = r \div s /\ q = l \div s
  <2>1. PICK m1 \in Nat, n1 \in Nat, e \in Nat, f \in Nat :
            /\ e = a * u /\ f = d * v
            /\ m1 = launch.m /\ n1 = launch.n /\ m1 <= s * e /\ n1 <= s * f
    BY <1>1, LocalTypes DEF LocalGridFits
  <2>2. r \div s \in 0 .. e - 1
    BY <1>2, <2>1, SomeBlock
  <2>3. l \div s \in 0 .. f - 1
    BY <1>2, <2>1, SomeBlock
  <2> QED
    BY <2>1, <2>2, <2>3
<1>4. w = (a * d) * (u * v) /\ L!Groups = 0 .. w * n - 1
  BY <1>1 DEF LocalGridIs
<1>5. PICK y \in 0 .. w - 1 : \A z \in 0 .. w - 1 : BlockAt(a, u, v, p, q, z) <=> z = y
  <2>1. OnlyOneBlockAt(a, d, u, v, p, q)
    BY OneBlockAt
  <2> QED
    BY <1>4, <2>1 DEF OnlyOneBlockAt
<1>6. OnlyOneHasBatch(w, n, b, y)
  BY OneHasBatch
<1>7. ASSUME NEW g \in L!Groups
      PROVE  x \in L!GroupShare(g) <=> HasBatch(w, n, b, y, g)
  <2>1. g \in Nat
    BY <1>4
  <2>2. LocalShareIs(a, u, v, s, w, n, g, x)
    BY <1>1, <2>1, LocalShare
  <2>3. g % w \in 0 .. w - 1
    BY <2>1, DivMod
  <2> QED
    BY <1>2, <1>3, <1>5, <2>2, <2>3 DEF LocalShareIs, HasBatch
<1>8. PICK o \in L!Groups : \A g \in L!Groups : HasBatch(w, n, b, y, g) <=> g = o
  BY <1>4, <1>6 DEF OnlyOneHasBatch
<1>9. {g \in L!Groups : x \in L!GroupShare(g)} = {o}
  BY <1>7, <1>8
<1> QED
  BY <1>9, LocalCard

LEMMA TallCard == \A x : T!Cardinality({x}) = 1
BY FS_Singleton DEF T!Cardinality, Cardinality

\* Of n slices of a by d groups, the group of slice x at p and q.
InSlice(a, d, x, p, q, g) ==
    /\ g \div (a * d) = x
    /\ (g % (a * d)) % a = p /\ (g % (a * d)) \div a = q
OnlyOneInSlice(a, d, n, x, p, q) ==
    \E o \in 0 .. (a * d) * n - 1 :
       \A g \in 0 .. (a * d) * n - 1 : InSlice(a, d, x, p, q, g) <=> g = o

LEMMA OneInSlice ==
    ASSUME NEW a \in Nat \ {0}, NEW d \in Nat \ {0}, NEW n \in Nat \ {0},
           NEW x \in 0 .. n - 1, NEW p \in 0 .. a - 1, NEW q \in 0 .. d - 1
    PROVE  OnlyOneInSlice(a, d, n, x, p, q)
<1>1. PICK w \in Nat \ {0}, s \in Nat \ {0} : w = a * d /\ s = (a * d) * n
  OBVIOUS
<1>2. ASSUME NEW g \in 0 .. s - 1
      PROVE  Serves(a, d, n, x, p, q, g) <=> InSlice(a, d, x, p, q, g)
  <2>1. PICK y \in 0 .. n - 1 : y = g \div w
    <3>1. s <= w * n /\ s \in Nat
      BY <1>1
    <3>2. g \div w \in 0 .. n - 1
      BY <3>1, SomeBlock
    <3> QED
      BY <3>2
  <2>2. x \in Nat /\ x % n = x
    <3>1. x \in Nat /\ x = n * 0 + x
      OBVIOUS
    <3> QED
      BY <3>1, Digits
  <2>3. x >= y /\ (x - y) % n = 0 <=> y = x
    BY <2>2, BatchOf
  <2> QED
    BY <1>1, <2>1, <2>3 DEF Serves, InSlice
<1>3. OnlyOneServes(a, d, n, x, p, q)
  <2>1. x \in Nat
    OBVIOUS
  <2> QED
    BY <2>1, OneServes
<1> QED
  BY <1>1, <1>2, <1>3 DEF OnlyOneServes, OnlyOneInSlice

\* The slice of a group, and its place in it.
HasPlace(a, d, h, g) ==
    \E w \in Nat \ {0}, x \in Nat, z \in Nat, p \in Nat, q \in Nat :
       /\ w = a * d /\ x = g \div w /\ z = g % w
       /\ p = z % a /\ q = z \div a
       /\ h = 1 => x = 0

LEMMA PlaceInSlice ==
    ASSUME NEW a \in Nat \ {0}, NEW d \in Nat \ {0}, NEW h \in Nat \ {0},
           NEW g \in 0 .. (a * d) * h - 1
    PROVE  HasPlace(a, d, h, g)
<1>1. PICK w \in Nat \ {0}, n \in Nat : w = a * d /\ n = w * h
  OBVIOUS
<1>2. g \in 0 .. n - 1
  BY <1>1
<1>3. g \in Nat
  BY <1>2
<1>4. PICK x \in Nat : x = g \div w
  BY <1>3, DivMod
<1>5. g % w \in 0 .. w - 1
  BY <1>3, DivMod
<1>6. PICK z \in Nat : z = g % w
  BY <1>5
<1>7. PICK p \in Nat : p = z % a
  <2>1. z % a \in 0 .. a - 1
    BY DivMod
  <2> QED
    BY <2>1
<1>8. PICK q \in Nat : q = z \div a
  BY DivMod
<1>9. h = 1 => x = 0
  <2>1. ASSUME h = 1 PROVE g \div w \in 0 .. 1 - 1
    <3>1. n <= w * 1
      BY <1>1, <2>1
    <3> QED
      BY <1>2, <3>1, SomeBlock
  <2> QED
    BY <1>4, <2>1
<1> QED
  BY <1>1, <1>4, <1>6, <1>7, <1>8, <1>9 DEF HasPlace

\* The grid of the tall and skinny kernel: a by d by h groups, with s by t
\* elements of C and v panels of e elements of K each.
TallGridIs(a, d, h, s, t, e, v) ==
    /\ T!GroupCountM = a /\ T!GroupCountN = d /\ launch.depth = h
    /\ T!TileM = s /\ T!TileN = t /\ T!TileK = e /\ T!NumTiles = v
    /\ T!Groups = 0 .. (a * d) * h - 1
TallGridFits(a, d, h, s, t, e, v) ==
    launch.m <= s * a /\ launch.n <= t * d /\ launch.k <= (v * e) * h

LEMMA TallTypes ==
    ASSUME launch \in TallSkinnyLaunches
    PROVE  /\ launch.m \in Nat \ {0} /\ launch.n \in Nat \ {0}
           /\ launch.k \in Nat \ {0} /\ launch.depth \in Nat \ {0}
           /\ launch.final => launch.depth = 1
BY GemmKernelsAssumption DEF GemmKernelsAssumption, T!GemmPartialAssumption

LEMMA TallGrid ==
    ASSUME launch \in TallSkinnyLaunches
    PROVE  \E a, d, h, s, t, e, v \in Nat \ {0} :
              TallGridIs(a, d, h, s, t, e, v) /\ TallGridFits(a, d, h, s, t, e, v)
<1>1. PICK m \in Nat \ {0}, n \in Nat \ {0}, q \in Nat \ {0}, h \in Nat \ {0} :
          m = launch.m /\ n = launch.n /\ q = launch.k /\ h = launch.depth
  BY TallTypes
<1>2. PICK s \in Nat \ {0}, t \in Nat \ {0}, e \in Nat \ {0} :
          s = T!TileM /\ t = T!TileN /\ e = T!TileK
  BY TallSizes DEF T!TileM, T!TileN, T!TileK
<1>3. PICK a \in Nat \ {0} : a = (m - 1) \div s + 1 /\ m <= s * a
  BY RoundedUp
<1>4. PICK d \in Nat \ {0} : d = (n - 1) \div t + 1 /\ n <= t * d
  BY RoundedUp
<1>5. PICK w \in Nat \ {0} : w = e * h
  OBVIOUS
<1>6. PICK v \in Nat \ {0} : v = (q - 1) \div w + 1 /\ q <= w * v
  BY RoundedUp
<1>7. (e * h) * v = (v * e) * h
  OBVIOUS
<1>8. TallGridIs(a, d, h, s, t, e, v)
  <2>1. T!GroupCountM = a
    BY <1>1, <1>2, <1>3 DEF T!GroupCountM, T!DivUp
  <2>2. T!GroupCountN = d
    BY <1>1, <1>2, <1>4 DEF T!GroupCountN, T!DivUp
  <2>3. T!NumTiles = v
    BY <1>1, <1>2, <1>5, <1>6 DEF T!NumTiles, T!DivUp
  <2> QED
    BY <1>1, <1>2, <2>1, <2>2, <2>3 DEF TallGridIs, T!Groups
<1>9. TallGridFits(a, d, h, s, t, e, v)
  <2>1. q <= (v * e) * h
    BY <1>5, <1>6, <1>7
  <2> QED
    BY <1>1, <1>3, <1>4, <2>1 DEF TallGridFits
<1> QED
  BY <1>8, <1>9

\* The rows, the columns and the part of K of a group.
TallShareIs(a, d, s, t, u, g, row, col) ==
    /\ T!KGroup(g) = g \div (a * d)
    /\ \A x : <<x, row, col>> \in T!GroupShare(g)
                 <=> InSlice(a, d, x, row \div s, col \div t, g)
    /\ \A l \in 0 .. launch.k - 1 :
          l \in T!GroupK(g) <=> l \div u = g \div (a * d)

LEMMA TallShare ==
    ASSUME launch \in TallSkinnyLaunches,
           NEW a \in Nat \ {0}, NEW d \in Nat \ {0}, NEW h \in Nat \ {0},
           NEW s \in Nat \ {0}, NEW t \in Nat \ {0},
           NEW e \in Nat \ {0}, NEW v \in Nat \ {0},
           TallGridIs(a, d, h, s, t, e, v),
           NEW g \in 0 .. (a * d) * h - 1,
           NEW row \in 0 .. launch.m - 1, NEW col \in 0 .. launch.n - 1
    PROVE  TallShareIs(a, d, s, t, v * e, g, row, col)
<1>1. PICK w \in Nat \ {0}, x \in Nat, z \in Nat, p \in Nat, q \in Nat :
          /\ w = a * d /\ x = g \div w /\ z = g % w
          /\ p = z % a /\ q = z \div a
          /\ h = 1 => x = 0
  <2>1. HasPlace(a, d, h, g)
    BY PlaceInSlice
  <2> QED
    BY <2>1 DEF HasPlace
<1>2. g \in Nat
  OBVIOUS
<1>3. T!KGroup(g) = x
  <2>1. CASE launch.final
    BY <1>1, <2>1, TallTypes DEF T!KGroup, TallGridIs
  <2>2. CASE ~launch.final
    BY <1>1, <2>2 DEF T!KGroup, TallGridIs
  <2> QED
    BY <2>1, <2>2
<1>4. T!MnGroup(g) = z
  <2>1. g - x * w = z
    BY <1>1, <1>2, Remainder
  <2>2. x * a * d = x * w
    <3>1. x * a * d = x * (a * d)
      OBVIOUS
    <3> QED
      BY <1>1, <3>1
  <2> QED
    BY <1>3, <2>1, <2>2 DEF T!MnGroup, TallGridIs
<1>5. PICK ro \in Nat, co \in Nat : ro = p * s /\ co = q * t
  OBVIOUS
<1>6. T!MOffset(g) = ro /\ T!NOffset(g) = co
  BY <1>1, <1>4, <1>5 DEF T!MOffset, T!NOffset, TallGridIs
<1>7. row \in Nat /\ row < launch.m /\ col \in Nat /\ col < launch.n
  BY TallTypes
<1>8. ro <= row /\ row < ro + s <=> row \div s = p
  BY <1>5, <1>7, WholeBlock
<1>9. co <= col /\ col < co + t <=> col \div t = q
  BY <1>5, <1>7, WholeBlock
<1>10. ASSUME NEW y
       PROVE  <<y, row, col>> \in T!GroupShare(g)
                 <=> InSlice(a, d, y, row \div s, col \div t, g)
  <2>1. <<y, row, col>> \in T!GroupShare(g)
          <=> y = x /\ ro <= row /\ row < ro + s /\ co <= col /\ col < co + t
    BY <1>3, <1>6, <1>7, TallTypes DEF T!GroupShare, TallGridIs
  <2> QED
    BY <1>1, <1>8, <1>9, <2>1 DEF InSlice
<1>11. ASSUME NEW l \in 0 .. launch.k - 1
       PROVE  l \in T!GroupK(g) <=> l \div (v * e) = x
  <2>1. l \in Nat /\ l < launch.k
    BY TallTypes
  <2>2. PICK u \in Nat \ {0} : u = v * e
    OBVIOUS
  <2>3. PICK f \in Nat : f = x * u
    OBVIOUS
  <2>4. x * e * v = f
    BY <2>2, <2>3
  <2>5. T!KOffset(g) = f
    BY <1>3, <2>4 DEF T!KOffset, TallGridIs
  <2>6. l \in T!GroupK(g) <=> f <= l /\ l < f + u
    BY <2>1, <2>2, <2>5, TallTypes DEF T!GroupK, TallGridIs
  <2>7. f <= l /\ l < f + u <=> l \div u = x
    BY <2>1, <2>3, WholeBlock
  <2> QED
    BY <2>2, <2>6, <2>7
<1> QED
  BY <1>1, <1>3, <1>10, <1>11 DEF TallShareIs

LEMMA TallShares == launch \in TallSkinnyLaunches => T!SharesPartitionC
<1> SUFFICES ASSUME launch \in TallSkinnyLaunches,
                    NEW row \in 0 .. launch.m - 1, NEW col \in 0 .. launch.n - 1
             PROVE  /\ \A l \in 0 .. launch.k - 1 :
                          T!Cardinality({g \in T!Groups :
                             /\ <<T!KGroup(g), row, col>> \in T!GroupShare(g)
                             /\ l \in T!GroupK(g)}) = 1
                    /\ \A slice \in 0 .. launch.depth - 1 :
                          T!Cardinality({g \in T!Groups :
                             <<slice, row, col>> \in T!GroupShare(g)}) = 1
  BY DEF T!SharesPartitionC
<1>1. PICK a, d, n, s, t, e, v \in Nat \ {0} :
          TallGridIs(a, d, n, s, t, e, v) /\ TallGridFits(a, d, n, s, t, e, v)
  BY TallGrid
<1>2. T!Groups = 0 .. (a * d) * n - 1
  BY <1>1 DEF TallGridIs
<1>3. PICK p \in 0 .. a - 1, q \in 0 .. d - 1 : p = row \div s /\ q = col \div t
  <2>1. PICK m \in Nat, h \in Nat :
            m = launch.m /\ h = launch.n /\ m <= s * a /\ h <= t * d
    BY <1>1, TallTypes DEF TallGridFits
  <2>2. row \div s \in 0 .. a - 1
    BY <2>1, SomeBlock
  <2>3. col \div t \in 0 .. d - 1
    BY <2>1, SomeBlock
  <2> QED
    BY <2>2, <2>3
<1>4. ASSUME NEW x \in 0 .. n - 1
      PROVE  \E o \in T!Groups : {g \in T!Groups : InSlice(a, d, x, p, q, g)} = {o}
  <2>1. OnlyOneInSlice(a, d, n, x, p, q)
    BY OneInSlice
  <2> QED
    BY <1>2, <2>1 DEF OnlyOneInSlice
<1>5. ASSUME NEW g \in T!Groups
      PROVE  TallShareIs(a, d, s, t, v * e, g, row, col)
  BY <1>1, <1>2, TallShare
<1>6. ASSUME NEW l \in 0 .. launch.k - 1
      PROVE  T!Cardinality({g \in T!Groups :
                /\ <<T!KGroup(g), row, col>> \in T!GroupShare(g)
                /\ l \in T!GroupK(g)}) = 1
  <2>1. PICK x \in 0 .. n - 1 : x = l \div (v * e)
    <3>1. PICK u \in Nat \ {0} : u = v * e
      OBVIOUS
    <3>2. PICK f \in Nat : f = launch.k /\ f <= u * n
      BY <1>1, <3>1, TallTypes DEF TallGridFits
    <3>3. l \div u \in 0 .. n - 1
      BY <3>2, SomeBlock
    <3> QED
      BY <3>1, <3>3
  <2>2. ASSUME NEW g \in T!Groups
        PROVE  (/\ <<T!KGroup(g), row, col>> \in T!GroupShare(g)
                /\ l \in T!GroupK(g)) <=> InSlice(a, d, x, p, q, g)
    <3>1. /\ T!KGroup(g) = g \div (a * d)
          /\ <<T!KGroup(g), row, col>> \in T!GroupShare(g)
                <=> InSlice(a, d, T!KGroup(g), p, q, g)
          /\ l \in T!GroupK(g) <=> x = g \div (a * d)
      BY <1>3, <1>5, <2>1 DEF TallShareIs
    <3> QED
      BY <3>1 DEF InSlice
  <2>3. {g \in T!Groups : /\ <<T!KGroup(g), row, col>> \in T!GroupShare(g)
                          /\ l \in T!GroupK(g)}
           = {g \in T!Groups : InSlice(a, d, x, p, q, g)}
    BY <2>2
  <2> QED
    BY <1>4, <2>3, TallCard
<1>7. ASSUME NEW slice \in 0 .. launch.depth - 1
      PROVE  T!Cardinality({g \in T!Groups :
                <<slice, row, col>> \in T!GroupShare(g)}) = 1
  <2>1. {g \in T!Groups : <<slice, row, col>> \in T!GroupShare(g)}
           = {g \in T!Groups : InSlice(a, d, slice, p, q, g)}
    BY <1>3, <1>5 DEF TallShareIs
  <2>2. slice \in 0 .. n - 1
    BY <1>1 DEF TallGridIs
  <2> QED
    BY <1>4, <2>1, <2>2, TallCard
<1> QED
  BY <1>6, <1>7

-------------------------------------------------------------------------------
(***************************************************************************)
(* Shares of C: all kernels                                                *)
(***************************************************************************)

\* The groups, or the items, that a launch of any kernel starts share out every
\* element of every C, and of the tall and skinny kernel every product too, so
\* that each is the share of one of them and of no other, whatever the sizes.
THEOREM CSharedOut == SquareBlocks => (Spec => []SharesPartitionC)
<1> SUFFICES ASSUME SquareBlocks PROVE Spec => []SharesPartitionC
  OBVIOUS
<1>1. TileInv => SharesPartitionC
  <2> SUFFICES ASSUME TileInv PROVE SharesPartitionC
    OBVIOUS
  <2>1. /\ Runs("local") => launch \in LocalLaunches
        /\ Runs("tallSkinny") => launch \in TallSkinnyLaunches
        /\ Runs("fullVec") => launch \in FullVecLaunches
        /\ Runs("partialVec") => launch \in PartialVecLaunches
        /\ Runs("interleaved") => launch \in InterleavedLaunches
        /\ Runs("ref") => launch \in RefLaunches
    BY GemmKernelsAssumption
       DEF TileInv, AllLaunches, Runs, GemmKernelsAssumption, KernelsAssumption
  <2> QED
    BY <2>1, LocalShares, TallShares, FullVecShares, PartialVecShares,
       InterleavedShares, RefShares DEF SharesPartitionC
<1> QED
  BY <1>1, TileInvariant, PTL
================================================================================
