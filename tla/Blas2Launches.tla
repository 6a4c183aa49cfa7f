----------------------------- MODULE Blas2Launches -----------------------------
(***************************************************************************)
(* What the BLAS 2 calls launch (src/interface/blas2_interface.hpp): the   *)
(* kernel with its template arguments, the numbers of its groups, and the  *)
(* shape of the temporary it fills.                                        *)
(*                                                                         *)
(* "s" holds the optional arguments _nColsWG and _scratchPadSize, zero for *)
(* the default.  The public calls leave all of them at the default: then a *)
(* work-group and its local memory are as large as the device has them.    *)
(***************************************************************************)
EXTENDS Integers, FiniteSetsExt

DivUp(a, b) == (a - 1) \div b + 1

(***************************************************************************)
(* _gemv.  Each back-end chooses a number of work-items and a cache line   *)
(* (src/interface/blas2/backend).                                          *)
(***************************************************************************)

Backends == {"rcar", "intel_gpu", "amd_gpu", "arm_gpu", "power_vr", "default_cpu"}

LocalRange(backend, trans, m) ==
    CASE backend = "rcar" ->
            IF trans /\ m >= 1024 THEN 8 ELSE IF trans /\ m >= 512 THEN 16 ELSE 32
      [] backend = "arm_gpu" -> 32
      [] backend = "power_vr" -> IF trans THEN 64 ELSE 256
      [] OTHER -> IF trans THEN 128 ELSE 256

CacheLine(backend) == IF backend \in {"rcar", "amd_gpu"} THEN 64 ELSE 32

\* _gemv_impl.
GemvLaunch(local, trans, m, n, lda, localRange, clElems) ==
    LET nc == IF trans THEN n ELSE m
        c == IF trans THEN m ELSE n
    IN [kernel |-> "gemv", local |-> local, trans |-> trans,
        m |-> m, n |-> n, lda |-> lda, localSz |-> localRange, clElems |-> clElems,
        wgsPerC |-> IF local THEN DivUp(c, localRange) ELSE 1,
        columns |-> IF local THEN DivUp(c, localRange) ELSE 1,
        groupRange |-> IF local THEN DivUp(c, localRange) * DivUp(nc, localRange)
                       ELSE DivUp(nc, localRange)]

BackendGemv(backend, trans, m, n, sizeofElement) ==
    GemvLaunch(TRUE, trans, m, n, m, LocalRange(backend, trans, m),
               CacheLine(backend) \div sizeofElement)

(***************************************************************************)
(* The triangles                                                           *)
(***************************************************************************)

\* The template arguments <Lower, Diag, Upper, Unit> and the sizes of a kernel
\* on an n x n matrix.
Triangle(kernel, lower, diag, upper, unit, n, localSz) ==
    [kernel |-> kernel, lower |-> lower, diag |-> diag, upper |-> upper,
     unit |-> unit, dimR |-> n, dimC |-> n, localSz |-> localSz]

NColsWG(s, n, default) == IF s.cols = 0 THEN default ELSE Min({n, s.cols})
ScratchPadSize(s, default) == IF s.memory = 0 THEN default ELSE s.memory

\* By columns: a group has localSz rows and as many columns.
ByColumns(n, localSz, s) ==
    LET nWGCol == DivUp(n, NColsWG(s, n, localSz))
    IN [nWGRow |-> DivUp(n, localSz), nWGCol |-> nWGCol, columns |-> nWGCol,
        localMemory |-> ScratchPadSize(s, localSz)]

\* By rows: a group has one row and all columns.
ByRows(n, localSz, s) ==
    LET nWGCol == DivUp(n, NColsWG(s, n, n))
    IN [nWGRow |-> n, nWGCol |-> nWGCol, columns |-> nWGCol,
        localMemory |-> ScratchPadSize(s, localSz)]

\* Fields of two records.
With(a, b) ==
    [f \in DOMAIN a \cup DOMAIN b |-> IF f \in DOMAIN b THEN b[f] ELSE a[f]]

\* _trmv_impl: a transposed matrix is read by rows, and its triangle is the
\* other one.
TrmvLaunch(upper, trans, unit, n, localSz, s) ==
    LET triangOpr == IF trans THEN ~upper ELSE upper
    IN IF trans
       THEN With(Triangle("gemvRow", ~triangOpr, TRUE, triangOpr, unit, n, localSz),
                 ByRows(n, localSz, s))
       ELSE With(Triangle("gemvCol", ~triangOpr, TRUE, triangOpr, unit, n, localSz),
                 ByColumns(n, localSz, s))

\* _symv_impl: the triangle by columns, and the rest, without the diagonal, by
\* rows of the transposed view.
SymvLaunches(upper, n, localSz, s) ==
    {With(Triangle("gemvCol", ~upper, TRUE, upper, FALSE, n, localSz),
          ByColumns(n, localSz, s)),
     With(Triangle("gemvRow", upper, FALSE, ~upper, FALSE, n, localSz),
          ByRows(n, localSz, s))}

(***************************************************************************)
(* Rank 1 and rank 2 updates                                               *)
(***************************************************************************)

UpdateLaunch(single, lower, upper, m, n, localSz, memory, s) ==
    LET nWGCol == DivUp(n, NColsWG(s, n, localSz))
    IN [kernel |-> "gerCol", single |-> single, lower |-> lower, diag |-> TRUE,
        upper |-> upper, unit |-> FALSE, dimR |-> m, dimC |-> n,
        localSz |-> localSz, nWGRow |-> DivUp(m, localSz), nWGCol |-> nWGCol,
        columns |-> n, localMemory |-> ScratchPadSize(s, memory)]

\* _ger_impl, _syr_impl and _syr2_impl: the last has two vectors in local memory.
GerLaunch(m, n, localSz, s) ==
    UpdateLaunch(TRUE, TRUE, TRUE, m, n, localSz, localSz, s)
SyrLaunch(upper, n, localSz, s) ==
    UpdateLaunch(TRUE, ~upper, upper, n, n, localSz, localSz, s)
Syr2Launch(upper, n, localSz, s) ==
    UpdateLaunch(FALSE, ~upper, upper, n, n, localSz, 2 * localSz, s)
================================================================================
