# SYCL-BLAS in TLA+

A verification development of SYCL-BLAS: TLA+ modules of its kernels, of the
host code that launches them and of the programs that call it, TLC
configurations that check them on small instances, and proofs that the TLA+
proof system checks for every instance. Paths are relative to the repository;
`PROJECT.json` maps every definition to the lines it models.

## The system

SYCL-BLAS is a header library. A call such as `_dot(ex, N, x, incx, y, incy,
rs)` builds an *expression tree* out of views of buffers and operators, and an
*executor* turns the tree into one or more kernels submitted to a SYCL queue.
Submission returns at once with an event; the queue orders kernels by the
buffers they bind. Almost all state is therefore in buffers, in local memory
and registers of work-items, and in the queue.

| component | state | operations | hard behaviour | correct when |
|---|---|---|---|---|
| AssignReduction kernel (`src/operations/blas1_trees.hpp`) | registers, local memory, barriers of a work-group | grid loop, store, tree with barriers, write | work-items interleave; barriers in a loop; odd sizes | no race, barriers converge, each element counted once |
| reduction executor (`src/executors/executor_sycl.hpp`) | loop variables, two temporaries, events | one launch per round, ping-pong | host runs ahead of device; a submission may throw; uninitialised temporaries | waiting for the events gives the reduction of the whole input |
| BLAS 1 reductions (`src/interface/blas1_interface.hpp`) | result containers, host variables | reductions with `rs` passed or value returned | read before the copy has run; `rs` reused | the caller gets the result of its own call |
| element-wise BLAS 1 trees | vectors | `_axpy`, `_copy`, `_swap`, `_scal`, `_rot` | aliasing of operands inside one tree, strides of either sign | each element assigned from old values |
| partial row reduction (`src/operations/extension/reduction_partial_rows.hpp`, `execute(Reduction)`) | local memory, static group counts, a temporary | first pass per group of columns, second pass | early return before a barrier; statics of the first call | every row reduced over all its columns |
| GEMM with local memory (`gemm_local.hpp`, `gemm_partial_local.hpp`) | two local tiles, scratch pointers, registers | load block, barrier, compute, swap buffers, next batch | double buffering: loads race computes; edges, packets | block of C is alpha A B + beta C, each product once |
| GEMM without local memory (`gemm_ref.hpp`, `gemm_no_local_*.hpp`, `gemm_interleaved.hpp`) | registers of a work-item | load packets, compute, store, next batch | boundary tiles, batches, packets that shrink | as above, no access out of bounds |
| GEMM interface, launcher and tall-skinny executor | temporaries, events | argument checks, back-end choice, alpha or beta zero, a pipeline of kernels on temporaries | layouts of batches; order by buffers only | what the call leaves is what BLAS says |
| TRSM (`trsm_interface.hpp`, `trsm.hpp`) | inverse blocks, copy of B, events | invert diagonal blocks, solve and update block by block | order of solve and update; partial last block; events | every block solved from updated right-hand sides |
| BLAS 2 kernels (`gemv.hpp`, `ger.hpp`) | local memory, a temporary of partial dot products | tiles of the matrix, blocks of x, trees | several fills of one tile; whose cells; edges | each product once; no cell of the temporary unwritten |
| BLAS 2 interface (`blas2_interface.hpp`) | temporaries, events | `_gemv`, `_trmv`, `_symv`, `_ger`, `_syr`, `_syr2` | kernels of several shapes fill one temporary; in-place results | as BLAS says, whatever runs when |
| views and iterators | size, displacement, stride | slicing, negative stride, offsets | bounds | view stays within its buffer |
| policy handler | queue | copy to device and to host, fill, wait | copies in flight | copies are ordered with kernels |
| back-end tables (`src/interface/blas*/backend`) | - | which kernel, with which sizes | sizes that a kernel cannot work with | a launch that covers the call |
| operators, quantization, generator, auto-tuner, benchmarks | - | - | - | not modelled |

How they interact. A program calls the interface; the interface makes views and
trees and calls the executor; the executor submits kernels, which bind their
buffers; the queue runs a kernel when the kernels before it that conflict over a
buffer are complete. Nothing else is shared: there are no callbacks and no locks,
and the host waits only when the program asks for it. Inside a kernel,
work-groups share nothing but buffers, and the work-items of a group share local
memory and meet at barriers.

This gives the project its two levels. A *kernel module* has the work-items of
one work-group, interleaved between their barriers. A *host module* has the
sequence of submissions and the queue, and takes a work-group, a reduction, a
GEMM or a copy for one step, which is what the kernel modules show of it.

## Modules

Values and memory:

| module | models | definitions |
|---|---|---|
| `Partial` | the values of a reduction | a partial result is the set of the input positions that went into it, with a flag that says whether one did so twice; uninitialised memory is a pseudo position |
| `GemmProduct` | the values of a matrix product | an accumulator is the set of the products (address in one operand, address in the other) added to it |
| `PrimeField` | numbers for linear algebra | integers modulo a prime, and `Undefined`, which spoils what it meets |
| `CommandQueue` | a SYCL queue over buffers (external: from how the code uses it) | the commands submitted and the events that are complete; a command may run when every earlier one that conflicts with it is complete |

Kernels, one work-group or one work-item:

| module | models | state and actions |
|---|---|---|
| `AssignReduction` | `AssignReduction::eval(scratch, nd_item)` | per work-item a place in the code, the registers `k`, `val` and `offset`, a count of barriers; local memory; the cell written. `GridStep`, `PutScratch`, `Arrive`, `Leave`, `LoadPair`, `StoreSum`, `WriteBack`, `Return` follow the source line by line |
| `GroupReduction` | what a group of it promises | the cell gets the reduction of the group's share in one step |
| `PartialRows` | `ReductionPartialRows::eval` | as `AssignReduction`, over a block of rows by columns, with early returns and one barrier a level |
| `DiagonalBlocksInverter` | `DiagonalBlocksInverter::eval` | per work-item its column, sum and place; the block in local memory |
| `Blas2Group` | what the BLAS 2 kernels share | places, barriers, local memory, the cells written, and how races on them are seen |
| `Gemv`, `GemvRow`, `GemvCol`, `GerCol` | the kernels of those names (GER also as rank 2 update) | per work-item its position in its loops, its sums; tiles, blocks of x and trees in local memory |
| `GemmLocal` | `Gemm<local, standard>::eval` and `Packetize` | per work-item the batch, what is left of K, the buffer it is at and its accumulators; local memory; the part of C stored. `Load`, `Compute` (with `sync_smem`), `Store` (with the next trip of the batch loop) |
| `GemmPartialLocal` | `GemmPartial::eval`, the tall and skinny kernel | the same over the tiles of one slice of K; the cube of partial products |
| `GemmItem` | what the GEMM kernels without local memory share | one work-item: its block, registers, batch and place in K; `ItemExact`, the shares |
| `GemmRef`, `GemmFullVec`, `GemmPartialVec`, `GemmInterleaved` | those kernels | places, packets, checks, loads and stores, each as its source has them; in `GemmInterleaved` an item has several packets of batches (`Packets`, `PacketStride`), and its registers are those that the code has counted up to (`RegisterOf`, `LeftOut`) |

The host:

| module | models | state and actions |
|---|---|---|
| `ReductionExecutor` | `Executor::execute(AssignReduction)`, both overloads, over `execute_tree` | the variables of the `do`-`while` loop, events, the two temporaries; `Launch`, `LaunchThrows` (a failing submission is printed and gives a default event), `RunGroup` |
| `ReductionCall` | what that promises | the result of the whole input appears in one step |
| `RowReductionExecutor` | `execute(Reduction<partial_rows>)` | the static limits, temporaries, one or two steps for each of several calls |
| `Blas1Session` | a program that calls `_dot`, `_asum`, `_iamax`, `_iamin`, `_nrm2`, with `rs` or with a returned value | for each call the stage the host is in, its events and copy; device containers and host variables |
| `Trsm` | `_trsm`, with `_gemm`, copies and fills as commands | the host's stage, the block it is at, the events kept, the buffers; one action for each stage and one for each part of the block loops |
| `ExpressionTrees` | `BufferIterator`, vector and matrix views, and the trees of element-wise kernels over them | the address an index stands for; what one work-item reads and writes when it evaluates a tree, in the order of the code |
| `Blas2Launches` | what the BLAS 2 calls and their back-ends launch | the kernel, its sizes, groups and the shape of the temporary |
| `LibraryKernels` | the calls of BLAS 1 (element-wise), BLAS 2, GEMM with its tall-skinny executor, and the copies of the policy handler | argument checks, and for each call the kernels it submits in order (with the GEMM kernel that each back-end chooses), the buffers they bind, what they do |
| `BlasReference` | what a call promises | memory before and after a call, stated on vectors and matrices and not on kernels |
| `LibraryCalls` | a program that makes such calls and waits for none | the call it is in, kernels still to submit, events, work-items still to run, memory; `LibraryHost`, `LibraryDevice` |

Compositions, in which `Init` chooses one kernel, or one part of the host, and
whose actions and properties are those of its own module (`INSTANCE`):

| module | composes |
|---|---|
| `GroupKernels` | the four BLAS 2 kernels, `PartialRows`, `DiagonalBlocksInverter` |
| `GemmKernels` | the six GEMM kernels |
| `HostCalls` | `Trsm`, `RowReductionExecutor`, `Blas1Session`, `LibraryCalls` |

For TLC: `MCAssignReduction`, `MCReductionExecutor`, `MCGemmKernels`,
`MCGroupKernels` and `MCHostCalls` give their module its launches, calls and
programs.

For TLAPS: `GridArithmetic` (division and remainder, grids, barriers and finite sums),
`AssignReductionProofs`, `ReductionExecutorProofs`, `GroupKernelsProofs`,
`GemmKernelsProofs`, `GemmExactProofs`, `GemmBlockProofs` and `HostCallsProofs`.

Operators that are named as mutants in a comment are the plausible bugs with
which each property was tried: in its run, with the mutant in place of the
definition it follows, TLC finds the property violated.

Conventions of the kernel modules: `launch` holds what is constant in a launch
(template arguments, sizes, the group's id) and is chosen by `Init`, so that one
run covers all launches of a set. A barrier is a counter for each work-item: it
lets a work-item go when every other has reached as many. Reads and writes of
local memory that the source makes in a row without a barrier are one action
where no other work-item may touch those cells in between, which `NoLocalRace`
or `NoScratchRace` checks in the same run: it looks at the cells that the *next*
action of each work-item reads and writes, in every reachable state.

In the host modules a command has the buffers it reads and writes, in the order
of submission, and the queue runs it in any order that these allow. An
element-wise kernel of `LibraryCalls` runs work-item by work-item in any order,
because the tree may read what another item writes; a kernel that works in
groups is one step there, which is what `BlockExact` and
`SharesPartitionOutput`, or their GEMM counterparts, show of its groups
together: whatever their order, they write each cell once with all its products.
Interleaved GEMM calls are made with the Intel back-end only, whose items have
one packet of batches; for those of the ARM one a step that is exact would be
wrong (`gemm_interleaved_packets`).

## Runs, and what they show

| run | question | bounds |
|---|---|---|
| `reduction_kernel` | does a group of `AssignReduction` reduce its share, in every interleaving, and implement `GroupReduction` | 4 work-items, 1 or 2 groups, every size from 0 to 18 |
| `reduction_executor` | do the launches of `execute` reduce the whole input, also when submissions fail; do they stay in bounds and out of each other's way; do they implement `ReductionCall` | groups of 1, 2, 4 and 8; interface grids with 7 sizes each; 8 other grids of up to four launches |
| `group_kernels` | does a group of each BLAS 2 kernel, of the row reduction and of the inverter write its share, race free and to the end | groups of 2 to 4; shapes of up to 5 by 5; all regular triangles of up to 3 rows modulo 3 |
| `gemm_kernels` | the same for the GEMM kernels with local memory; and for an item of each one without, are loads in bounds and its elements of C exact | 2x2 work-items, blocks of 2 and 4, tiles of 1 and 4 blocks, panels of 2, up to 3 slices or 5 batches; packets of 1 and 2 |
| `host_calls` | does a program that waits for nothing but the end get what BLAS promises | four parts: triangular systems, row reductions, BLAS 1 sessions, 216 programs of other calls |
| `blas1_session_returned` | does a call that returns its value return its result (no: finding) | 2 calls |
| `partial_rows_busy` | does the output fit for every group launched (no: finding) | all groups of `get_nd_range` |
| `partial_rows_bottom` | do all work-items of a group reach its barriers (no: finding) | groups with a surplus row |
| `gemv_narrow_group` | does GEMV write its dot products for the sizes of the R-Car back-end (no: finding) | 8 work-items, 16 floats to a cache line, a column of 1024 |
| `gemm_interleaved_packets` | is an item with two packets of interleaved batches exact at the last rows of C (no: finding) | as `gemm_kernels`, the launches that it leaves out |
| `gemm_full_vec_loads` | does the kernel with full vectorisation load only what is there (no: finding) | as `gemm_kernels` |
| `gemm_alpha_zero_interleaved` | does `_gemm_batched` with alpha = 0 scale an interleaved C with a gap (no: finding) | one call |

Why these bounds are enough to be of interest:

* Four work-items give a tree of two levels, with a level in which some take no
  part. Two groups and 18 elements give a second trip of the grid loop that ends
  before, between and after its two elements, and groups without an element.
  The run uses a power of two because the kernel needs one: with three work-items
  the tail of local memory is dropped, which the theorem `ResultExact` makes an
  assumption (`LocalSzIsPowerOfTwo`).
* `InterfaceGrid` is `localSize * (2 * localSize)` work-items, what every
  reduction of `blas1_interface.hpp` asks for. The first launch then has
  `localSize` groups and the second one has one. `WaitedResultExact` and
  `CallSpec` are about these grids. For other grids `execute` may reduce cells of
  a temporary that nothing wrote (the comment at `executor_sycl.hpp:118` shows
  that the size of the temporaries was chosen for this one); no call of the
  library makes such a grid, so this is a limit of `execute` that `Supported`
  names, not a finding. Bounds and order hold for all grids.
* In `group_kernels` the launches come from `Blas2Launches`, the code of the
  interface on small numbers: `MaxGroup` = 24 groups at most, several in either
  direction, the last ones partial or empty. A local memory of `memory` = 2 or 8
  cells is less than a group's part of x, so that blocks are filled several
  times; rows of the tree kernel are stored in several blocks too. `BlockSize`
  is 3 (16 in the code), so that the last block is cut off after one row, after
  two, or is whole. Of the row reduction there are blocks of 2x2 and rows of 4
  items, up to `MaxRows` = 3 rows, up to `MaxCols` = 4 columns more than a block
  has, `MaxCount` = 2 block columns at most and `Units` = 1 compute unit.
  `gemv_narrow_group` has the real sizes of the back-end.
* In `gemm_kernels` three panels in sequence use a buffer twice, batches make a
  group go on with whatever buffer the batch before ended in, and M, N and K end
  inside a block, a panel and a packet; slices of K may start behind its end;
  there are more batches than groups side by side, and fewer. Items for
  interleaved batches have one packet of one or two, or two packets of two, with
  two items side by side over the batches; the launches with two packets are
  those of `SkipsFit`, the others are in `gemm_interleaved_packets`.
* `host_calls`, triangular systems: `BlockSize` 2 instead of 16 and A of up to
  `MaxK` = 5 rows, that is three blocks, the last whole or not; no path of
  `_trsm` depends on the value of the block size, only on whether the last block
  is whole and on which one comes first. All sides, triangles and transpositions.
* `host_calls`, row reductions: `TwoStepAbove` stands for 2048 and `WgCols` = 4
  for the columns of a work-group: one-step matrices, two-step ones below the
  limit of groups and above it, and a second call whose own limit would differ.
  `host_calls`, sessions: three calls on one container, in either form.
* `host_calls`, other calls: one or two calls and in some cases a copy in and
  out, so that the second reads what the first writes or overwrites what it
  reads; strides of either sign, aliased rows of one matrix, refused arguments.
  What a right call does not read (the other triangle, gaps, C when beta is
  zero) holds `Undefined`. Work-groups have `LocalSize` = 2 work-items;
  `TallSkinnyAbove` = 4 stands for 2048 and the tiles are 2 x 2 x 1, so that a
  tall and skinny product has a cube of several slices, and its reduction one
  step or two.
* A wrong operand, sign or order shows modulo 3 or 7 for almost all choices of
  the numbers; the inverter takes all triangles, `host_calls` numbers without a
  pattern. In the GEMM and BLAS 2 kernels nothing depends on numbers: the
  products themselves are compared.

Fairness. The host is a sequential program: weak fairness of its next step, and
of a program that asked to wait. The device runs what may run: weak fairness of
the device in host modules, of each work-item in `AssignReduction`, and of a step
of the group in the runs of the other kernels, since a work-group that has started
keeps its items making progress (otherwise no SYCL barrier would ever be passed). No module assumes strong
fairness, an order of the device's choices, or that a program waits when it need
not.

Deadlock is checked in all runs; the only state without another step is the one
that `Finished` describes.

## What is proved

About `AssignReduction` (`AssignReductionProofs`), for every number of
work-items, launch and input size, under the assumptions `LocalSzAssumption` and
`LaunchesAssumption` of the module:

1. `TypeCorrect`, `RaceFree`, `LevelsInStep`, `Converge`: types, no data race on
   local memory, cells read in the tree hold the previous level, and all
   work-items reach the same barriers. The properties are not inductive. The
   invariant `IInv` adds `PcInv`, which says what offset and barrier count a
   work-item has at each place of the kernel (no barrier passed and the whole
   `LocalSz` as offset in the grid loop, at most half of it in the tree), and
   `BarrierInv`, which says that no work-item has left a barrier that another has
   not reached, that work-items which left equally many have equal offsets, and
   that one barrier more halves the offset. `Invariance` proves it, with one lemma
   for each part and one step for each action.
2. `ResultExact`: for a power of two of work-items (`LocalSzIsPowerOfTwo`), what
   the group writes is the reduction of exactly its share. The invariant
   `ExactInv` has four parts: `OffsetInv` (an offset is zero or divides
   `LocalSz`), `GridInv` (the register holds the elements of the work-item's lane
   that lie before the loop variable), `TreeInv` (a cell below the level of the tree
   it is at holds the elements of the group's share whose position is congruent to
   it modulo that level, `Node`), and `ResultInv`. The arithmetic it needs is in
   `GridArithmetic`.
3. `ImplementsGroup`: every step of the work-items is the one step of
   `GroupReduction` or a stutter. It is what lets `ReductionExecutor` take a
   group for a step.

About `ReductionExecutor` (`ReductionExecutorProofs`), for every set of calls
that satisfies `CallsAssumption`, any of whose submissions may fail:

4. `TypeCorrect`, `InBounds` and `StableOperands`, for every grid: no work-group
   writes past the end of its vector, and nothing writes the operand of a launch
   under way. `IInv` adds to the types that the groups to come fit the
   temporaries (`LoopInv`, kept because a launch never has more groups than the
   one before), that memory keeps its shape (`MemInv`), that each launch reads one
   vector and writes another and binds both (`CommandOk`), and that a launch of
   which a group has run has every earlier one it conflicts with complete
   (`RanOk`). `StableOperands` follows since two launches of which one writes
   what the other reads conflict, so that they never run at once.
5. `WaitedExact` and `NeverPart`, for the grids of the BLAS 1 interface: what is
   waited for is the reduction of the whole input, and a lost submission leaves
   the result unwritten or uninitialised, never a plausible part. `ExactInv` adds
   the shapes of the queue and of the loop (`QueueShape`, `LoopShape`: one launch
   for one work-item and two for more, any of which may be missing when one failed),
   `NoneFailed`, which cells of the temporary hold which shares
   (`PartialResults`), and the result (`Result`). That the shares of
   `localSize` groups make up the input is the lemma `AllGroups`.
6. `ImplementsCall`: every step of the chain maps to the one step of
   `ReductionCall` or to a stutter, by `CallInv`, which adds that the result is
   as a whole there or not.

About the kernels of `GroupKernels` (`GroupKernelsProofs`), for every launch,
size of a work-group and size of local memory that `GroupKernelsAssumption`
allows:

7. `KernelInvariant` and `RaceFree`: no race on local memory in the four BLAS 2
   kernels, the row reduction and the inverter. A race is a statement about what
   two items do *next*, so it needs to know which places can be occupied
   together. Each kernel has a *phase*, what an item does between two barriers
   (its place and its loop variables), and a function from a phase to the one
   behind the barrier. The invariant `InStep` says that no item has passed a
   barrier that another has not reached, that items which reached equally many
   are in the same phase, and that one which reached one more is in the next
   phase. The lemmas on barriers in `GridArithmetic` prove its steps once for
   all kernels; a kernel then shows that cells conflict only between phases with a
   barrier between them, and that within a phase items keep to cells of their
   own. In `PartialRows` items return before the barriers of the others, so that
   its phases are told by how often an item has halved the stride (`Together`).
8. `CellsFit`: the groups that a row reduction needs write inside of the
   temporary, for every matrix. `UsefulGroups` says which groups these are; the
   finding `partial_rows_busy` shows that the property fails without it.
9. `CellsAreExact`: each cell that a group of the row reduction writes is the
   reduction of exactly its share of the row. The invariant `PartSums` says what
   every cell of local memory holds: the columns of its *lane*, those of the
   share congruent to it modulo the columns left, at the level its item is at,
   and, before the item has stored its sum, at the level above (`ItemSums`). It
   needs `KernelInvariant`, which tells that the cell an item reads is at the
   level it expects. `PowersOfTwo` is the assumption on the columns of a group:
   the tree drops a column of an odd number. They are `WgSize / cl_elems`
   (`extension_trees.h:69`), a power of two in all back-ends.
10. `OutputPartitioned`: the groups of a BLAS 2 launch share out the matrix and
    the columns of the temporary that the kernel fills, for every size. It is
    arithmetic of the launch: a block of a matrix edge that was cut and rounded up
    is the block of one group. `Blas2Grids` says what the calls make of the sizes
    (`Blas2Launches`); for a rank 1 update it includes that a matrix with fewer
    rows than a group has items gets as many group columns as it has blocks of
    columns.
11. `SharesAreExact`: when the items of a group of a BLAS 2 kernel have all
    returned, the group has written its share of the output and nothing else,
    every product in it once. As in the GEMM kernels below, a sum is a *set* of
    products. The invariant `BlockData` says, for each kernel, where an item can
    be, what local memory holds, and what is written:
    * `GemvCol` and `GerCol` (`ColData`, `GerData`): an item that has passed the
      barrier before it multiplies finds the whole block of the vector there,
      copied by all items in their phase before, and a row of the output has the
      products of all blocks of columns before the one its item is at;
    * `GemvRow` (`RowData`): a cell of a row holds the products of the columns that
      are congruent to it modulo the level of the tree its item is at, or, where its item
      has still to add, modulo the level above (`RowSum`); item 0 alone writes the
      sums, one block of rows after the other;
    * `Gemv` (`GemvData`): after the copies of x and of a tile, the cells that an item
      multiplies hold a row of the tile and the part of x that belongs to it,
      wherever `extract_input_block` has put them, or zeros past the edge, and the
      register of an item has the products of all tiles before.

    That what others copied is still there follows from `KernelInvariant`: nobody
    is two phases away. There are two hypotheses. `TreesHalve`: the items of
    `GemvRow`, halved down to one, are never an odd number, as the tree drops the
    last of these. The code takes the size of the device's work-groups
    (`sycl_policy.h:80`) without a test. `TilesFit`: a transposed matrix is
    tiled by groups of whole cache lines. Without it the property is false, which
    is the finding `gemv_narrow_group`. All launches of `group_kernels` satisfy
    both.
12. `InverseIsExact`: when the items of the inverter have returned, what they have
    written in the matrix is the inverse of the block, for every size of a block,
    upper and lower, at every modulus. There are two parts. The invariant
    `InvData` says what a row of local memory holds when its item is at column j:
    in the columns behind it the sum over the columns before, times the inverse of
    the diagonal (`InvRule`), and elsewhere what was loaded. The cell of another
    row that the item multiplies with is still as loaded, and the cell of the
    diagonal is inverted, because by `KernelInvariant` its item is in the same
    phase or the next one. Rows and columns past the matrix may hold anything on
    the diagonal, `Undefined` included; that none of it gets into a sum of the
    matrix is `InvRowNumbers`. The second part is linear algebra
    (`ColumnsInvert` in `GridArithmetic`): a triangle whose columns are computed
    that way is the inverse. It exchanges the order of two sums, and needs
    that finite sums are linear, which is induction. The library's theorems of
    induction cannot be used, but the order on the subsets of a finite set is well
    founded (`FS_StrictSubsetOrderingWellFounded`), and for a *set* of subsets in
    place of a predicate that is a first-order fact (`SubsetInduction`). With it
    `SumFunctionOnSet` is shown to be a fold (`SumSome`) that may take its elements
    in any order (`SumStep`). The hypothesis `RegularBlocks` says that the triangle
    is in memory, that its diagonal can be inverted, and that it is one where
    `UnitDiag` says so. All launches of `group_kernels` satisfy it.

About the kernels of `GemmKernels` (`GemmKernelsProofs`), for every launch, tile
and size of a work-group that `GemmKernelsAssumption` allows:

13. `TileInvariant` and `TilesRaceFree`: no race on local memory in the two
    kernels that use it, with one buffer and with two. A tile of A and one of B lie in local memory in one or two
    copies; that no cell is in two of these is `AreasApart`. With two buffers an
    item fills one of them and reads the other in the same phase, and the
    *next* phase has them the other way round; with one, filling and reading are
    phases of their own. By `InStep` an item that fills a buffer meets nobody
    who reads it. Two items that fill the same buffer keep to cells of their
    own: of the elements of a block, each is copied by one item (`TripCopies`),
    and two elements have two places. The standard kernel needs `WholeTrips`:
    packets of one element, or blocks that are whole numbers of trips of the
    group with its packets. Otherwise the check in `extract_block`, which counts
    items and not packets (`gemm_local.hpp:601, 630`), would let trips overlap.
    The tiles of all back-ends are such, and so are those of `gemm_kernels`.
14. `CSharedOut`: of all six kernels, each element of each C is the share of one
    group, or item, of the launch and of no other, and in the tall and skinny
    kernel each product is in one slice. The number of a group is read as digits
    (batch, tile, block within a tile), and so is that of an item and a register
    within a packet. In the interleaved kernel the packets of an item lie
    `wgBatchs * packet` batches apart, with those of the other items between
    them, so that a batch is three digits: the packet's turn, the item and the
    lane (`PacketLanes`, `PacketIn`). The lemmas of `GridArithmetic` (`Digits`, `OneHasBatch`,
    `OneBlockAt`, `RowIn`) say that an element fixes every digit. The kernel
    with local memory needs `SquareBlocks`: it computes the first column of a
    block with the *rows* of a block (`gemm_local.hpp:279`), while its
    `static_assert` (`:131`) only asks for square top-level tiles. The blocks of
    all back-ends are square, and so are those of `gemm_kernels`.
15. `ItemInvariant` and `ItemsExact` (`GemmExactProofs`): in the four kernels
    without local memory a work-item that has returned has stored its share of C
    in all its batches, each element with beta times what was there and every
    product of its row and column once. An accumulator is a *set* of products
    (`GemmProduct`), so that this needs no induction over data: the invariant says
    that after n values of K an accumulator holds the products 0 .. n - 1 of the
    row of A and the column of B at its place (`Sum`, `Sums`), and that the values
    loaded for the next step feed the next products and else zeros (`Feeds`,
    `FeedsAll`), whatever packets and edges they come from. `Mad` adds only
    products that are not there yet, which takes that different values of K are
    at different addresses (`RowDiffers`). `Holds` says which cells of C are
    stored after some batches: those of all the batches before. The interleaved
    kernel has a lane of one of its packets for each batch, and finds registers by
    counting, which `Matches` is about: where `store` and `scaling_c` count up to
    the registers that `compute_block` has for an element, these have its
    products. `RegistersMatch` shows that for the launches of the hypothesis
    `SkipsFit`, whose items have one packet, or rows that divide m, or one
    column. The property is false of the others, which is the finding
    `gemm_interleaved_packets`; types, bounds, and which cells are stored need no
    hypothesis. `ItemInv` adds the types
    that the steps need, among them that a register never holds `Garbage`
    where it is used.
16. `BlockInvariant` and `BlocksExact` (`GemmBlockProofs`): the same of the two
    kernels with local memory, where what an item multiplies was copied by the
    others, any number of steps ago. The invariant `BlockInv` has four parts for
    each kernel:
    * where every item is (`LoopsInv`, `TallLoops`): the number of its barriers
      and its phase tell its batch, its value of K and its buffer. Items which
      have reached equally many barriers are therefore at the same panel, and
      `InStep` of item 13 says that the others are one phase away at most;
    * what local memory holds (`ScratchInv`, `TileMemory`): for an item at its
      multiplication, the buffer it is about to read holds, at the places copied
      by the items that have reached as many barriers, the elements of A or B that
      belong there, or zero past the edge. When the item may go on these are all
      places of the panel, because every item's copies are there since *its* last
      `Load`, and they stay because those ahead fill the other buffer, or wait;
    * what the accumulators hold (`RegsInv`, `TallRegs`): the products of all
      panels before, as in item 15;
    * what is stored (`LocalStored`, `TallStored`): the elements of the items that
      have finished a batch, each in the cell of C, or of the cube, that is its own
      (`CellsOfC`).

    `LocalCovers` and `TallBlockExact` conclude that the items of a group have
    stored the whole block when all are done. It needs `WholeTrips` (item 13).
17. `LoadsStayInBounds` and `KernelsTyped` (`GemmBlockProofs`): of the six kernels,
    no load leaves the matrices, or local memory, where the kernel checks the
    index (`FullVecLoadsInBounds`, of the kernel with full vectorisation, is a
    finding), and the type invariant holds; items with any number of packets of
    interleaved batches are among them. Both follow from `BlockInv` and
    `ItemInv`. `WholeTrips` is needed: otherwise the copies of the standard
    kernel leave local memory.

About `HostCalls` (`HostCallsProofs`), for every set of calls that
`HostCallsAssumption` allows:

18. `PassedCallReads` and `EventsCover`: what a program of BLAS 1 reductions reads
    from the container it passed is the result of that call, and when the events
    of a call are complete its container holds the result, unless a later call
    has begun to use it. The invariant `SessionInv` ties the queue to the program
    (each command belongs to a call, in their order, with the kinds and events
    that the call submits), says which commands must be complete before which,
    and what the containers hold as a function of the last one that is. That a
    command on the container waits for all earlier ones comes from `Conflict`.
19. `RowsAreExact` and `RowsAppear`: a row reduction that has been waited for has
    every row exact, and a cell of its output is written once, with all of its
    row. `RowsInv` says what each kernel of the queue has written so far: a cell
    of the temporary is the reduction of the columns of its block column, or was
    never written; the second step conflicts with the first over the temporary,
    so that it reads only cells that are. That the block columns share out the
    columns is arithmetic (`BlockColumns`, `OnePlace`). The static limits are
    those of whichever call came first, as in the code.

About the views of `ExpressionTrees` (`HostCallsProofs`), for every buffer, offset, size and stride:

20. `VectorViewInBuffer`, `VectorViewIsBlasVector`, `MatrixViewInjective`: a vector
    view does not leave its buffer, has its elements where BLAS puts them in either
    direction, and no two indices of a matrix view have the same address.

Only model-checked, and why:

* Termination, `Termination` and `CallsComplete`, and with them the liveness half
  of both refinements: they need fairness and `ENABLED`, which these provers do
  not support.
* What recursive functions over sequences compute, and the whole of TRSM
  (`CopiedIsSolution`, `WaitedIsSolved`, `WaitedIsExpected`): that takes induction
  over data, and the library's theorems of induction take operators as
  parameters, which the provers cannot instantiate. The induction over finite
  sets of item 12 is the exception.
* The type invariants of `GroupKernels` and `HostCalls`: the proofs above carry the
  types they need in their own invariants.

## Findings

* `blas1_session_returned`: the overloads without `rs` read `res[0]` right after
  `copy_to_host` has *submitted* the copy (`blas1_interface.hpp:325`); nothing
  waits for it, so the value returned may be the initial one.
* `partial_rows_busy`: `get_nd_range` adds groups to keep the device busy, and
  the kernel has no test that keeps them from writing past the last column of its
  output (`reduction_partial_rows.hpp:199`).
* `partial_rows_bottom`: work-items of the bottom block return before the
  barriers that the rest of the group executes. SYCL leaves that undefined;
  `BarrierForgives` is the choice, and `group_kernels` shows that the result is
  exact on devices that count returned work-items as arrived.
* `gemm_interleaved_packets`: an item of the interleaved kernel has as many
  registers for an element as it has packets of batches, but of an element outside
  of C `scaling_c` and `store` skip one (`gemm_interleaved.hpp:370` and `434`).
  With two packets, as on ARM GPUs (`arm_gpu.hpp:42`: 4 batches, `VectorSize` 2,
  4 by 4 elements), and m no multiple of the rows of an item, all columns after
  the first come from registers that are not theirs. `load` skips in the same
  way (`327`): no row that is inside is affected, but registers of the rows outside
  are left as they were, and the accumulators that are stored by mistake
  may have been computed from them.
* `gemm_full_vec_loads`: `is_valid_row(work_per_load - 1)` is the same test for
  every row of an item (`gemm_no_local_full_vec.hpp:563`), so that items at the edge
  load rows that are not there. `ItemExact` shows that C is right all the same;
  the last of them may lie behind the end of the buffer.
* `gemv_narrow_group`: for a transposed matrix of 1024 rows or more the R-Car
  back-end launches groups of 8 work-items (`rcar.hpp:43`). A cache line has 16
  floats, so that `tile_c_loops` is 8 / 16 = 0 (`gemv.hpp:244`): no tile is ever
  multiplied, and y is only scaled.
* `gemm_alpha_zero_interleaved`: with alpha = 0 and a gap in C the columns are
  scaled where strided batches have them, also when batches are interleaved
  (`gemm_interface.hpp:99`).

## Not modelled

* Rounding, NaN and overflow: values are sets of positions, sets of products or
  numbers modulo a prime, and indices are unbounded. The code uses `int` for
  indices in most instances and does not check (the hazard at
  `blas1_trees.hpp:499`).
* The operators of `operators/`: a reduction is an uninterpreted combination, an
  assignment an exact one. Quantization converts between number formats, which
  these values do not tell apart.
* Values that `eval` returns: no caller of the library uses them.
* Code that is never instantiated: `GerRow`, the evaluations of `GemvRow`,
  `GemvCol` and `Ger` without local memory, `views/view.hpp`.
* Stride zero of a vector, by which the code divides; the letters of arguments
  that pass the checks without being valid; the optional size arguments of
  the BLAS 2 calls, which have their defaults in all public ones.
* `UnitDiag` of TRSM relies on ones stored on the diagonal, as README:276 asks.
  `_symv` reads y when beta is zero, unlike the reference BLAS.
* Local sizes that are no power of two, in the trees of `GemvRow` and of the
  reductions; the surplus groups of the row reduction in `host_calls`
  (`partial_rows_busy` has them).
* Back-ends: the tile sizes of the kernel instances, except those of GEMV that
  `gemv_narrow_group` is about, the presets for single networks on ARM,
  `NAIVE_GEMM`, the IMGDNN library, and the thresholds of AMD and Intel for long
  K, which no product of `MCHostCalls` is large enough for. The optional
  barrier of ARM builds in the GEMM kernels without local memory: every item of
  a group reaches it as often.
* The list of events that `_trsm` returns: on one of its four paths the event of
  an update of B is dropped (`trsm_interface.hpp:232`), although
  `doc/AddingBlas3Op.md:160` promises all of them. The events are part of `Trsm`, and
  `WaitedIsSolved` shows that who waits for the ones returned cannot notice.
* The lifetime of temporaries: the SYCL runtime keeps a buffer until the
  kernels that bind it are complete. Device queries of the policy handler are
  the constants `LocalSize` and `ComputeUnits`, and its virtual pointers stand
  for the iterators they resolve to.
* The Python generator, the auto-tuner, benchmarks, samples and tests, which
  are built around the library and not in it.

## What would come next

1. The type invariants of `GroupKernels` and `HostCalls` as theorems, from the
   invariants that are there.
2. Indices of fixed width in `AssignReduction` and in the launchers, for the
   sizes near 2^31 at which they overflow.
3. A program that mixes triangular systems, reductions and other calls on the
   same buffers; today each part of `host_calls` runs by itself, and what they
   share is the queue.
