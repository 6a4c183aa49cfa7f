---------------------------- MODULE GemmPartialLocal ----------------------------
(***************************************************************************)
(* One work-group of the tall and skinny GEMM kernel                       *)
(* (src/operations/blas3/gemm_partial_local.hpp), work-item by work-item.  *)
(* The groups share out K as well: each one computes a block of one slice  *)
(* of the cube buffer from its own part of K, tile by tile, or, when the   *)
(* kernel is final, a block of C from all of it.                           *)
(*                                                                         *)
(* "launch" never changes: template arguments, sizes, wg_count_k and the   *)
(* group's id.                                                             *)
(***************************************************************************)
EXTENDS GemmProduct, TLC

CONSTANTS WgRows, WgCols,   \* the shape of a work-group
          Launches          \* the launches to consider

WgSize == WgRows * WgCols
Item == 0 .. WgSize - 1

\* The static_asserts of the kernel, and what its callers see to.
GemmPartialAssumption ==
    /\ WgRows \in Nat \ {0} /\ WgCols \in Nat \ {0}
    /\ \A l \in Launches :
          /\ {l.itemRows, l.itemCols, l.clElems} \subseteq Nat \ {0}
          /\ l.clElems % WgRows = 0 /\ l.clElems % WgCols = 0
          /\ WgSize % (IF l.transA THEN l.clElems ELSE WgRows * l.itemRows) = 0
          /\ WgSize % (IF l.transB THEN WgCols * l.itemCols ELSE l.clElems) = 0
          /\ {l.m, l.n, l.k, l.depth} \subseteq Nat \ {0}
          /\ l.final => l.depth = 1
          /\ {l.lda, l.ldb, l.ldc} \subseteq Nat
          /\ l.lda >= (IF l.transA THEN l.k ELSE l.m)
          /\ l.ldb >= (IF l.transB THEN l.n ELSE l.k)
          /\ l.ldc >= l.m

VARIABLES launch,
          pc,         \* the next thing a work-item does
          barriers,   \* how many barriers it has reached
          waiting,    \* whether it is inside the last of them
          tile,       \* the tile it works on
          regRes,     \* private_res, [column][row]
          scratch,    \* local memory
          c           \* the cells of the cube buffer that the group has stored

vars == <<launch, pc, barriers, waiting, tile, regRes, scratch, c>>

Bit(b) == IF b THEN 1 ELSE 0

TileM == WgRows * launch.itemRows
TileN == WgCols * launch.itemCols
TileK == launch.clElems
GroupCountM == DivUp(launch.m, TileM)
GroupCountN == DivUp(launch.n, TileN)

\* get_workgroup_cluster: the groups of a launch.
Groups == 0 .. GroupCountM * GroupCountN * launch.depth - 1

\* num_tiles: the tiles of K that each group works through.
NumTiles == DivUp(launch.k, TileK * launch.depth)

\* Where the block of a group is, in M, in N and in K.
KGroup(group) ==
    IF launch.final THEN 0 ELSE group \div (GroupCountM * GroupCountN)
MnGroup(group) == group - KGroup(group) * GroupCountM * GroupCountN
MOffset(group) == (MnGroup(group) % GroupCountM) * TileM
NOffset(group) == (MnGroup(group) \div GroupCountM) * TileN
KOffset(group) == KGroup(group) * TileK * NumTiles

-------------------------------------------------------------------------------
(***************************************************************************)
(* Local memory: both tiles are kept with K along their columns            *)
(***************************************************************************)

LhsTileLd == TileM + Bit(launch.nbcA /\ launch.transA)
RhsTileLd == TileN + Bit(launch.nbcB /\ ~launch.transB)
RhsScratchOffset == (Bit(launch.doubleBuffer) + 1) * LhsTileLd * TileK
LocalMemorySize ==
    (Bit(launch.doubleBuffer) + 1) * (LhsTileLd + RhsTileLd) * TileK

\* Where the tile numbered t is in its double buffer.
BufferOffset(t, tileLd) == Bit(launch.doubleBuffer) * (t % 2) * tileLd * TileK

\* BlockProperties, with what load_blocks passes along with them: the offsets
\* of the block in the matrix as it is stored, and the size of that matrix.
Block(trans, ld, tileMn, offsetMn, sizeMn, loads, tileLd, base, alongRows) ==
    [rows |-> IF alongRows THEN TileK ELSE tileMn,
     cols |-> IF alongRows THEN tileMn ELSE TileK,
     rowOffset |-> IF alongRows THEN KOffset(launch.group) ELSE offsetMn,
     colOffset |-> IF alongRows THEN offsetMn ELSE KOffset(launch.group),
     sizeRows |-> IF alongRows THEN launch.k ELSE sizeMn,
     sizeCols |-> IF alongRows THEN sizeMn ELSE launch.k,
     transposeAtLoad |-> alongRows,
     ld |-> ld, loads |-> loads, tileLd |-> tileLd, base |-> base]

LhsBlock ==
    Block(launch.transA, launch.lda, TileM, MOffset(launch.group), launch.m,
          (TileK * launch.itemRows) \div WgCols, LhsTileLd, 0, launch.transA)
RhsBlock ==
    Block(launch.transB, launch.ldb, TileN, NOffset(launch.group), launch.n,
          (TileK * launch.itemCols) \div WgRows, RhsTileLd, RhsScratchOffset,
          ~launch.transB)

\* Mutant: the end of K is looked for where the first group along K has it.
ChecksLimitsOfFirstGroup(t) ==
    \/ MOffset(launch.group) + TileM > launch.m
    \/ NOffset(launch.group) + TileN > launch.n
    \/ (t + 1) * TileK > launch.k

\* Whether extract_input_blocks has the limits checked: all of them or none.
ChecksLimits(t) ==
    \/ MOffset(launch.group) + TileM > launch.m
    \/ NOffset(launch.group) + TileN > launch.n
    \/ KOffset(launch.group) + (t + 1) * TileK > launch.k

\* load_block: what work-item i copies of tile t.  The tiles follow each other
\* along K.
Loads(i, t, p) ==
    {LET row == p.rowOffset + Bit(p.transposeAtLoad) * p.rows * t + (i % p.rows)
         localCol == i \div p.rows + lpt * (p.cols \div p.loads)
         col == p.colOffset + Bit(~p.transposeAtLoad) * p.cols * t + localCol
     IN [to |-> p.base + BufferOffset(t, p.tileLd)
                  + (IF p.transposeAtLoad
                     THEN localCol + (i % p.rows) * p.tileLd
                     ELSE (i % p.rows) + localCol * p.tileLd),
         address |-> col * p.ld + row,
         inRange |-> ChecksLimits(t) => row < p.sizeRows /\ col < p.sizeCols] :
       lpt \in 0 .. p.loads - 1}

\* What the copies of a block leave in local memory.
Copies(loads, From(_)) ==
    [a \in {x.to : x \in loads} |->
        LET x == CHOOSE y \in loads : y.to = a
        IN IF x.inRange THEN From(x.address) ELSE Zero]

\* extract_input_blocks: work-item i copies its part of tile t.
Extract(i, t) ==
    \E ofA \in {Loads(i, t, LhsBlock)}, ofB \in {Loads(i, t, RhsBlock)} :
        scratch' = Over(Copies(ofA, FromA), Over(Copies(ofB, FromB), scratch))

\* The cells that work-item i reads for step s of tile t.
CellOfA(i, t, s, row) ==
    BufferOffset(t, LhsTileLd) + (i % WgRows) + s * LhsTileLd + row * WgRows
CellOfB(i, t, s, col) ==
    RhsScratchOffset + BufferOffset(t, RhsTileLd)
      + i \div WgRows + s * RhsTileLd + col * WgCols

RegRows == 0 .. launch.itemRows - 1
RegCols == 0 .. launch.itemCols - 1

\* The row and the column of the matrix that a register stands for.
SliceRow(i, row) == MOffset(launch.group) + (i % WgRows) + row * WgRows
SliceCol(i, col) == NOffset(launch.group) + i \div WgRows + col * WgCols

\* The registers whose elements are in the matrix, <<column, row>>.
Stored(i) ==
    {r \in RegCols \X RegRows :
        SliceRow(i, r[2]) < launch.m /\ SliceCol(i, r[1]) < launch.n}

WriteIdx(i, r) ==
    KGroup(launch.group) * launch.ldc * launch.n
      + SliceCol(i, r[1]) * launch.ldc + SliceRow(i, r[2])

-------------------------------------------------------------------------------
(***************************************************************************)
(* The work-items                                                          *)
(***************************************************************************)

Init ==
    /\ launch \in Launches
    /\ launch.group \in Groups
    /\ pc = [i \in Item |-> "start"]
    /\ barriers = [i \in Item |-> 0]
    /\ waiting = [i \in Item |-> FALSE]
    /\ tile = [i \in Item |-> 0]
    /\ regRes = [i \in Item |-> [col \in RegCols |-> [row \in RegRows |-> Nothing]]]
    /\ scratch = [a \in 0 .. LocalMemorySize - 1 |-> Garbage]
    /\ c = [a \in {} |-> Nothing]

\* Whether a work-item is out of the last barrier it has reached, or may leave.
Runs(i) == waiting[i] => \A u \in Item : barriers[u] >= barriers[i]

At(i, l) == pc[i] = l /\ Runs(i)

Goto(i, l) ==
    /\ pc' = [pc EXCEPT ![i] = l]
    /\ waiting' = [waiting EXCEPT ![i] = FALSE]
    /\ UNCHANGED barriers

BarrierThen(i, l) ==
    /\ pc' = [pc EXCEPT ![i] = l]
    /\ waiting' = [waiting EXCEPT ![i] = TRUE]
    /\ barriers' = [barriers EXCEPT ![i] = @ + 1]

\* With two buffers the first tile is loaded before the loop.  The loop starts
\* with a barrier.
Start(i) ==
    /\ At(i, "start")
    /\ IF launch.doubleBuffer THEN Extract(i, 0) ELSE UNCHANGED scratch
    /\ BarrierThen(i, "load")
    /\ UNCHANGED <<launch, tile, regRes, c>>

\* The next tile, if there is one, or this one and a second barrier.
NextTile(i) == IF launch.doubleBuffer THEN tile[i] + 1 ELSE tile[i]

\* Mutant: one barrier a tile with a single buffer as well.
LoadNextOneBarrier(i) ==
    /\ At(i, "load")
    /\ IF NextTile(i) < NumTiles THEN Extract(i, NextTile(i))
       ELSE UNCHANGED scratch
    /\ Goto(i, "compute")
    /\ UNCHANGED <<launch, tile, regRes, c>>

LoadNext(i) ==
    /\ At(i, "load")
    /\ IF NextTile(i) < NumTiles THEN Extract(i, NextTile(i))
       ELSE UNCHANGED scratch
    /\ IF launch.doubleBuffer THEN Goto(i, "compute")
       ELSE BarrierThen(i, "compute")
    /\ UNCHANGED <<launch, tile, regRes, c>>

\* The product of one tile, and the barrier at the top of the next iteration.
Compute(i) ==
    /\ At(i, "compute")
    /\ regRes' = [regRes EXCEPT ![i] = [col \in RegCols |-> [row \in RegRows |->
          Mad([s \in 0 .. TileK - 1 |->
                 <<scratch[CellOfA(i, tile[i], s, row)],
                   scratch[CellOfB(i, tile[i], s, col)]>>],
              @[col][row])]]]
    /\ tile' = [tile EXCEPT ![i] = @ + 1]
    /\ IF tile[i] + 1 < NumTiles THEN BarrierThen(i, "load")
       ELSE Goto(i, "store")
    /\ UNCHANGED <<launch, scratch, c>>

\* alpha * private_res, with beta * C unless beta is zero.
Store(i) ==
    /\ At(i, "store")
    /\ c' = Over([a \in {WriteIdx(i, r) : r \in Stored(i)} |->
                    LET r == CHOOSE s \in Stored(i) : WriteIdx(i, s) = a
                    IN [regRes[i][r[1]][r[2]] EXCEPT
                          !.c = IF launch.betaZero THEN {} ELSE {a}]],
                  c)
    /\ Goto(i, "done")
    /\ UNCHANGED <<launch, tile, regRes, scratch>>

Step(i) == Start(i) \/ LoadNext(i) \/ Compute(i) \/ Store(i)

Finished == (\A i \in Item : pc[i] = "done") /\ UNCHANGED vars

Next == Finished \/ \E i \in Item : Step(i)

\* A device makes progress on every work-item of a group that has started.
Fairness == \A i \in Item : WF_vars(Step(i))

Spec == Init /\ [][Next]_vars /\ Fairness

-------------------------------------------------------------------------------
(***************************************************************************)
(* Properties                                                              *)
(***************************************************************************)

TypeOK ==
    /\ pc \in [Item -> {"start", "load", "compute", "store", "done"}]
    /\ barriers \in [Item -> Nat]
    /\ waiting \in [Item -> BOOLEAN]
    /\ tile \in [Item -> 0 .. NumTiles]
    /\ DOMAIN scratch = 0 .. LocalMemorySize - 1
    /\ \A i \in Item, col \in RegCols, row \in RegRows :
          IsAccumulator(regRes[i][col][row])
    /\ DOMAIN c \subseteq 0 .. launch.depth * launch.ldc * launch.n - 1

\* The tile that the next step of a work-item copies, if it copies one.
TilesLoaded(i) ==
    {t \in 0 .. NumTiles - 1 :
        \/ At(i, "start") /\ launch.doubleBuffer /\ t = 0
        \/ At(i, "load") /\ t = NextTile(i)}

Writes(i) ==
    UNION {{x.to : x \in Loads(i, t, LhsBlock) \cup Loads(i, t, RhsBlock)} :
              t \in TilesLoaded(i)}

Reads(i) ==
    IF ~At(i, "compute") THEN {}
    ELSE {CellOfA(i, tile[i], s, row) : s \in 0 .. TileK - 1, row \in RegRows}
           \cup {CellOfB(i, tile[i], s, col) : s \in 0 .. TileK - 1,
                                               col \in RegCols}

\* A work-item that is a tile ahead must not load over the cells that another
\* one has still to read, with two buffers or with two barriers.
NoLocalRace ==
    LET writes == [i \in Item |-> Writes(i)]
        reads == [i \in Item |-> Reads(i)]
    IN \A i, u \in Item :
          i # u => writes[i] \cap (reads[u] \cup writes[u]) = {}

AddressA(row, l) == Address(launch.transA, row, l, launch.lda)
AddressB(l, col) == Address(launch.transB, l, col, launch.ldb)

\* The limits, checked all together or not at all and against where the group's
\* own part of K is, keep every load inside A and B and local memory.
LoadsInBounds ==
    \A i \in Item, t \in 0 .. NumTiles - 1 : t \in TilesLoaded(i) =>
        LET ofA == Loads(i, t, LhsBlock)
            ofB == Loads(i, t, RhsBlock)
        IN /\ {x.to : x \in ofA \cup ofB} \subseteq DOMAIN scratch
           /\ {x.address : x \in {y \in ofA : y.inRange}}
                \subseteq {AddressA(row, l) : row \in 0 .. launch.m - 1,
                                              l \in 0 .. launch.k - 1}
           /\ {x.address : x \in {y \in ofB : y.inRange}}
                \subseteq {AddressB(l, col) : l \in 0 .. launch.k - 1,
                                              col \in 0 .. launch.n - 1}

\* The elements of the cube that are a group's, <<slice, row, column>>, and the
\* part of K it multiplies.
GroupShare(group) ==
    {<<KGroup(group), row, col>> :
        row \in {r \in MOffset(group) .. MOffset(group) + TileM - 1 :
                    r < launch.m},
        col \in {r \in NOffset(group) .. NOffset(group) + TileN - 1 :
                    r < launch.n}}
GroupK(group) ==
    {l \in KOffset(group) .. KOffset(group) + NumTiles * TileK - 1 :
        l < launch.k}

\* When the group is done it has stored its share, each element with every
\* product of its part of K once; that part may be empty, and the slice still
\* has to be written, with zeros, for the reduction of the cube that follows.
BlockExact ==
    (\A i \in Item : pc[i] = "done") =>
        LET At3(e) == e[1] * launch.ldc * launch.n + e[3] * launch.ldc + e[2]
            share == GroupShare(launch.group)
            part == GroupK(launch.group)
        IN /\ DOMAIN c = {At3(e) : e \in share}
           /\ \A e \in share : c[At3(e)] =
                 [c |-> IF launch.betaZero THEN {} ELSE {At3(e)},
                  of |-> {<<FromA(AddressA(e[2], l)), FromB(AddressB(l, e[3]))>> :
                             l \in part},
                  once |-> TRUE]

\* The groups share out the cube, and the slices of the cube share out K: every
\* product is in one slice and no other.
SharesPartitionC ==
    (\A i \in Item : pc[i] = "done") =>
        \A row \in 0 .. launch.m - 1, col \in 0 .. launch.n - 1 :
            /\ \A l \in 0 .. launch.k - 1 :
                  Cardinality({g \in Groups :
                     /\ <<KGroup(g), row, col>> \in GroupShare(g)
                     /\ l \in GroupK(g)}) = 1
            /\ \A slice \in 0 .. launch.depth - 1 :
                  Cardinality({g \in Groups :
                                  <<slice, row, col>> \in GroupShare(g)}) = 1

\* Every work-item returns.
Termination == <>(\A i \in Item : pc[i] = "done")
================================================================================
