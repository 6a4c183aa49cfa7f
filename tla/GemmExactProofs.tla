---------------------------- MODULE GemmExactProofs ----------------------------
(***************************************************************************)
(* Proofs about what the GEMM kernels of GemmKernels compute: that every   *)
(* element of C which a work-item stores is one whole product.             *)
(*                                                                         *)
(* An accumulator is a set of products. That what it has after n of them   *)
(* and the next one make what it should have after n + 1 is a step of an   *)
(* invariant, so that no induction over the products is needed.            *)
(***************************************************************************)
EXTENDS GemmKernelsProofs, GemmProduct

-------------------------------------------------------------------------------
(***************************************************************************)
(* Accumulators                                                            *)
(***************************************************************************)

\* An accumulator that started with s, after the first n of the products of the
\* elements at the addresses a and b.
Sum(s, a, b, n) ==
    [c |-> s, of |-> {<<FromA(a[x]), FromB(b[x])>> : x \in 0 .. n - 1}, once |-> TRUE]

\* The pairs p are products n .. e - 1, product x at x - o, and zeros.
Feeds(p, o, a, b, n, e) ==
    /\ \A t \in DOMAIN p :
          /\ t \in Int
          /\ t + o \in n .. e - 1 => p[t] = <<FromA(a[t + o]), FromB(b[t + o])>>
          /\ t + o \notin n .. e - 1 =>
                Zero \in {p[t][1], p[t][2]} /\ Garbage \notin {p[t][1], p[t][2]}
    /\ \A x \in n .. e - 1 : x - o \in DOMAIN p

\* No two of the first e addresses are the same.
Differ(a, e) == \A x, y \in 0 .. e - 1 : a[x] = a[y] => x = y

LEMMA SumWith ==
    ASSUME NEW s, NEW s2, NEW a, NEW b, NEW n
    PROVE  [Sum(s, a, b, n) EXCEPT !.c = s2] = Sum(s2, a, b, n)
<1> DEFINE of == {<<FromA(a[x]), FromB(b[x])>> : x \in 0 .. n - 1}
<1>1. /\ Sum(s, a, b, n) = [c |-> s, of |-> of, once |-> TRUE]
      /\ Sum(s2, a, b, n) = [c |-> s2, of |-> of, once |-> TRUE]
  BY DEF Sum
<1> HIDE DEF of
<1>2. ASSUME NEW once
      PROVE  [[c |-> s, of |-> of, once |-> once] EXCEPT !.c = s2]
               = [c |-> s2, of |-> of, once |-> once]
  OBVIOUS
<1> QED
  BY <1>1, <1>2

\* One step of the products takes the accumulator on, with every product once.
LEMMA MadFeeds ==
    ASSUME NEW n \in Nat, NEW e \in Nat, n <= e, NEW o \in Int, NEW a, NEW b, NEW s,
           NEW p, Feeds(p, o, a, b, n, e), Differ(a, e)
    PROVE  Mad(p, Sum(s, a, b, n)) = Sum(s, a, b, e)
<1> DEFINE live == {t \in DOMAIN p : Zero \notin {p[t][1], p[t][2]}
                                     \/ Garbage \in {p[t][1], p[t][2]}}
           new == {p[t] : t \in live}
           Term(x) == <<FromA(a[x]), FromB(b[x])>>
           old == {Term(x) : x \in 0 .. n - 1}
<1>1. ASSUME NEW t \in DOMAIN p
      PROVE  t \in live <=> t + o \in n .. e - 1
  <2>1. CASE t + o \in n .. e - 1
    <3>1. p[t][1] = <<"A", a[t + o]>> /\ p[t][2] = <<"B", b[t + o]>>
      BY <2>1 DEF Feeds, FromA, FromB
    <3> QED
      BY <2>1, <3>1 DEF Zero, Garbage
  <2>2. CASE t + o \notin n .. e - 1
    BY <2>2 DEF Feeds
  <2> QED
    BY <2>1, <2>2
<1>2. new = {Term(x) : x \in n .. e - 1}
  <2>1. ASSUME NEW t \in live
        PROVE  t + o \in n .. e - 1 /\ p[t] = Term(t + o)
    BY <1>1 DEF Feeds
  <2>2. ASSUME NEW x \in n .. e - 1
        PROVE  x - o \in live /\ p[x - o] = Term(x)
    <3>1. x - o \in DOMAIN p /\ x - o + o = x
      BY DEF Feeds
    <3> QED
      BY <1>1, <3>1 DEF Feeds
  <2> QED
    BY <2>1, <2>2
<1>3. ASSUME NEW x \in 0 .. e - 1, NEW y \in 0 .. e - 1, Term(x) = Term(y)
      PROVE  x = y
  <2>1. a[x] = a[y]
    BY <1>3 DEF FromA
  <2> QED
    BY <2>1 DEF Differ
<1>4. new \cap old = {}
  <2> SUFFICES ASSUME NEW x \in n .. e - 1, NEW y \in 0 .. n - 1, Term(x) = Term(y)
               PROVE  FALSE
    BY <1>2
  <2>1. x \in 0 .. e - 1 /\ y \in 0 .. e - 1
    OBVIOUS
  <2>2. x = y
    BY <1>3, <2>1
  <2> QED
    BY <2>2
<1>5. \A t, u \in live : t # u => p[t] # p[u]
  <2> SUFFICES ASSUME NEW t \in live, NEW u \in live, p[t] = p[u]
               PROVE  t = u
    OBVIOUS
  <2>1. /\ t + o \in 0 .. e - 1 /\ u + o \in 0 .. e - 1 /\ t \in Int /\ u \in Int
        /\ p[t] = Term(t + o) /\ p[u] = Term(u + o)
    BY <1>1 DEF Feeds
  <2>2. t + o = u + o
    BY <1>3, <2>1
  <2> QED
    BY <2>1, <2>2
<1>6. old \cup new = {Term(x) : x \in 0 .. e - 1}
  <2>1. 0 .. e - 1 = (0 .. n - 1) \cup (n .. e - 1)
    OBVIOUS
  <2> QED
    BY <1>2, <2>1
<1> HIDE DEF live, new, old
<1>7. Mad(p, Sum(s, a, b, n)) = [c |-> s, of |-> old \cup new, once |-> TRUE]
  <2> DEFINE r == Sum(s, a, b, n)
  <2>1. r = [c |-> s, of |-> old, once |-> TRUE]
    BY DEF Sum, old
  <2>2. Mad(p, r) = [r EXCEPT !.of = @ \cup new,
                              !.once = /\ @
                                       /\ new \cap r.of = {}
                                       /\ \A t, u \in live : t # u => p[t] # p[u]]
    BY DEF Mad, live, new
  <2> HIDE DEF r
  <2>3. r.of = old /\ r.once = TRUE
    BY <2>1
  <2>4. Mad(p, r) = [[r EXCEPT !.of = old \cup new] EXCEPT !.once = TRUE]
    BY <2>2, <2>3, <1>4, <1>5
  <2>5. Mad(p, r) = [c |-> s, of |-> old \cup new, once |-> TRUE]
    BY <2>1, <2>4
  <2> QED
    BY <2>5 DEF r
<1> QED
  BY <1>6, <1>7 DEF Sum

-------------------------------------------------------------------------------
(***************************************************************************)
(* The elements of a call and their addresses                              *)
(***************************************************************************)

\* What the kernels without local memory have in common.
Y == INSTANCE GemmItem WITH Launches <- ItemLaunches

LEMMA StridedSizes ==
    ASSUME launch \in ItemLaunches
    PROVE  /\ launch.m \in Nat \ {0} /\ launch.n \in Nat \ {0} /\ launch.k \in Nat
           /\ launch.batchSize \in Nat \ {0}
           /\ launch.lda \in Nat /\ launch.ldb \in Nat
           /\ launch.ldc \in Nat \ {0} /\ launch.m <= launch.ldc
           /\ ~launch.transA => launch.lda # 0
           /\ Y!ASize \in Nat /\ Y!BSize \in Nat /\ Y!CSize \in Nat \ {0}
<1>1. /\ launch.m \in Nat \ {0} /\ launch.n \in Nat \ {0} /\ launch.k \in Nat
      /\ launch.batchSize \in Nat \ {0}
      /\ launch.lda \in Nat /\ launch.ldb \in Nat /\ launch.ldc \in Nat
      /\ launch.lda >= (IF launch.transA THEN launch.k ELSE launch.m)
      /\ launch.ldc >= launch.m
  BY GemmKernelsAssumption
     DEF ItemLaunches, GemmKernelsAssumption, F!GemmItemAssumption,
         P!GemmItemAssumption, I!GemmItemAssumption, R!GemmItemAssumption
<1>2. launch.ldc \in Nat \ {0} /\ (~launch.transA => launch.lda # 0)
  BY <1>1
<1>3. /\ launch.m * launch.lda \in Nat /\ launch.k * launch.lda \in Nat
      /\ launch.ldb * launch.k \in Nat /\ launch.n * launch.ldb \in Nat
      /\ launch.ldc * launch.n \in Nat \ {0}
  BY <1>1, <1>2
<1> QED
  BY <1>1, <1>2, <1>3 DEF Y!ASize, Y!BSize, Y!CSize

\* What the addresses and the accumulators of a kernel need of its launch.
Sized ==
    /\ launch.m \in Nat \ {0} /\ launch.n \in Nat \ {0} /\ launch.k \in Nat
    /\ launch.batchSize \in Nat \ {0}
    /\ launch.lda \in Nat /\ launch.ldb \in Nat
    /\ launch.ldc \in Nat \ {0} /\ launch.m <= launch.ldc
    /\ ~launch.transA => launch.lda # 0
    /\ Y!ASize \in Nat /\ Y!BSize \in Nat /\ Y!CSize \in Nat \ {0}

LEMMA SizedIs ==
    ASSUME Sized
    PROVE  /\ launch.m \in Nat \ {0} /\ launch.n \in Nat \ {0} /\ launch.k \in Nat
           /\ launch.batchSize \in Nat \ {0}
           /\ launch.lda \in Nat /\ launch.ldb \in Nat
           /\ launch.ldc \in Nat \ {0} /\ launch.m <= launch.ldc
           /\ ~launch.transA => launch.lda # 0
           /\ Y!ASize \in Nat /\ Y!BSize \in Nat /\ Y!CSize \in Nat \ {0}
BY DEF Sized

LEMMA ItemSized == launch \in ItemLaunches => Sized
BY StridedSizes DEF Sized

\* The cell of C that element e is in.
CellOf(e) == Y!StridedC(e[1], e[2], e[3])

\* Every element has a cell of its own, in the matrices of the call.
LEMMA OneCellEach ==
    ASSUME Sized, NEW e \in Y!Elements, NEW f \in Y!Elements
    PROVE  /\ CellOf(e) \in 0 .. launch.batchSize * Y!CSize - 1
           /\ CellOf(e) = CellOf(f) => e = f
<1>1. PICK m \in Nat \ {0}, n \in Nat \ {0}, z \in Nat \ {0}, ld \in Nat \ {0}, s \in Nat \ {0} :
          /\ m = launch.m /\ n = launch.n /\ z = launch.batchSize /\ ld = launch.ldc
          /\ m <= ld /\ s = n * ld /\ s = Y!CSize
  <2>1. launch.ldc * launch.n = launch.n * launch.ldc
    BY SizedIs
  <2> QED
    BY <2>1, SizedIs DEF Y!CSize
<1>2. ASSUME NEW x \in Y!Elements
      PROVE  \E p \in 0 .. z - 1, r \in 0 .. m - 1, q \in 0 .. n - 1 :
                 x = <<p, r, q>> /\ CellOf(x) = s * p + (ld * q + r)
  <2>1. PICK p \in 0 .. z - 1, r \in 0 .. m - 1, q \in 0 .. n - 1 : x = <<p, r, q>>
    BY <1>1 DEF Y!Elements
  <2>2. CellOf(x) = p * s + r + q * ld
    BY <1>1, <2>1 DEF CellOf, Y!StridedC
  <2>3. p * s + r + q * ld = s * p + (ld * q + r)
    OBVIOUS
  <2> QED
    BY <2>1, <2>2, <2>3
<1>3. PICK p \in 0 .. z - 1, r \in 0 .. m - 1, q \in 0 .. n - 1 :
          e = <<p, r, q>> /\ CellOf(e) = s * p + (ld * q + r)
  BY <1>2
<1>4. PICK p2 \in 0 .. z - 1, r2 \in 0 .. m - 1, q2 \in 0 .. n - 1 :
          f = <<p2, r2, q2>> /\ CellOf(f) = s * p2 + (ld * q2 + r2)
  BY <1>2
<1>5. r \in 0 .. ld - 1 /\ r2 \in 0 .. ld - 1
  BY <1>1
<1>6. PICK y \in 0 .. s - 1, y2 \in 0 .. s - 1 : y = ld * q + r /\ y2 = ld * q2 + r2
  <2>1. ld * q + r \in 0 .. n * ld - 1 /\ ld * q2 + r2 \in 0 .. n * ld - 1
    BY <1>5, DigitsFit
  <2> QED
    BY <1>1, <2>1
<1>7. CellOf(e) \in 0 .. launch.batchSize * Y!CSize - 1
  <2>1. s * p + y \in 0 .. z * s - 1
    BY DigitsFit
  <2> QED
    BY <1>1, <1>3, <1>6, <2>1
<1>8. ASSUME CellOf(e) = CellOf(f) PROVE e = f
  <2>1. s * p + y = s * p2 + y2
    BY <1>3, <1>4, <1>6, <1>8
  <2>2. p = p2 /\ y = y2
    BY <2>1, OnePlace
  <2>3. q = q2 /\ r = r2
    <3>1. ld * q + r = ld * q2 + r2
      BY <1>6, <2>2
    <3> QED
      BY <1>5, <3>1, OnePlace
  <2> QED
    BY <1>3, <1>4, <2>2, <2>3
<1> QED
  BY <1>7, <1>8

\* The addresses of a row of op(A) and of a column of op(B) of batch b.
AddressesA(b, r) == [x \in 0 .. launch.k - 1 |-> Y!StridedA(b, r, x)]
AddressesB(b, r) == [x \in 0 .. launch.k - 1 |-> Y!StridedB(b, x, r)]

LEMMA RowDiffers ==
    ASSUME Sized, NEW b \in Nat, NEW r \in Nat
    PROVE  Differ(AddressesA(b, r), launch.k)
<1> SUFFICES ASSUME NEW x \in 0 .. launch.k - 1, NEW y \in 0 .. launch.k - 1,
                    Y!StridedA(b, r, x) = Y!StridedA(b, r, y)
             PROVE  x = y
  BY DEF Differ, AddressesA
<1>1. PICK base \in Nat, ld \in Nat : base = b * Y!ASize /\ ld = launch.lda
  BY SizedIs
<1>2. CASE launch.transA
  <2>1. base + (x + r * ld) = base + (y + r * ld)
    BY <1>1, <1>2 DEF Y!StridedA, Y!Address
  <2>2. r * ld \in Nat /\ x \in Int /\ y \in Int
    BY SizedIs
  <2> QED
    BY <2>1, <2>2
<1>3. CASE ~launch.transA
  <2>1. base + (r + x * ld) = base + (r + y * ld)
    BY <1>1, <1>3 DEF Y!StridedA, Y!Address
  <2>2. x \in Nat /\ y \in Nat /\ ld \in Nat \ {0} /\ 0 \in 0 .. ld - 1
    BY <1>1, <1>3, SizedIs
  <2>3. x * ld \in Nat /\ y * ld \in Nat /\ x * ld = ld * x + 0 /\ y * ld = ld * y + 0
    BY <2>2
  <2>4. ld * x + 0 = ld * y + 0
    BY <2>1, <2>3
  <2> QED
    BY <2>2, <2>4, OnePlace
<1> QED
  BY <1>2, <1>3

\* The whole sum is the product.
LEMMA WholeSum ==
    ASSUME NEW b, NEW r, NEW q
    PROVE  Sum(IF launch.betaZero THEN {} ELSE {Y!StridedC(b, r, q)},
               AddressesA(b, r), AddressesB(b, q), launch.k)
             = Y!StridedProduct(<<b, r, q>>)
<1> DEFINE e == <<b, r, q>>
           pairs == {<<Y!StridedA(b, r, x), Y!StridedB(b, x, q)>> : x \in 0 .. launch.k - 1}
<1>1. {<<FromA(p[1]), FromB(p[2])>> : p \in pairs}
        = {<<FromA(AddressesA(b, r)[x]), FromB(AddressesB(b, q)[x])>> :
              x \in 0 .. launch.k - 1}
  <2>1. \A p \in pairs : \E x \in 0 .. launch.k - 1 :
            p[1] = AddressesA(b, r)[x] /\ p[2] = AddressesB(b, q)[x]
    BY DEF AddressesA, AddressesB
  <2>2. ASSUME NEW x \in 0 .. launch.k - 1
        PROVE  \E p \in pairs : p[1] = AddressesA(b, r)[x] /\ p[2] = AddressesB(b, q)[x]
    <3>1. <<Y!StridedA(b, r, x), Y!StridedB(b, x, q)>> \in pairs
      OBVIOUS
    <3> QED
      BY <3>1 DEF AddressesA, AddressesB
  <2> HIDE DEF pairs
  <2> QED
    BY <2>1, <2>2
<1>2. e[1] = b /\ e[2] = r /\ e[3] = q
  OBVIOUS
<1> HIDE DEF e
<1>3. Y!StridedProduct(e)
        = [c |-> IF launch.betaZero THEN {} ELSE {Y!StridedC(b, r, q)},
           of |-> {<<FromA(p[1]), FromB(p[2])>> : p \in pairs}, once |-> TRUE]
  BY <1>2 DEF Y!StridedProduct, Y!Product, Y!FromA, Y!FromB, FromA, FromB
<1> QED
  BY <1>1, <1>3 DEF Sum, e

-------------------------------------------------------------------------------
(***************************************************************************)
(* The batch loop of an item                                               *)
(***************************************************************************)

\* Batch b is b0 or a multiple of d after it.
Reached(b0, d, b) ==
    b0 \in Nat /\ d \in Nat \ {0} /\ b \in Nat /\ b >= b0 /\ (b - b0) % d = 0

LEMMA NextReached ==
    ASSUME NEW b0, NEW d, NEW b, Reached(b0, d, b)
    PROVE  /\ Reached(b0, d, b + d)
           /\ \A x \in Nat : Reached(b0, d, x) => (x < b + d <=> x < b \/ x = b)
<1> USE DEF Reached
<1>1. PICK y \in Nat : y = b - b0
  OBVIOUS
<1>2. PICK q \in Nat : q = y \div d /\ y = d * q + 0
  <2>1. y \div d \in Nat /\ y = d * (y \div d) + (y % d)
    BY DivMod
  <2> QED
    BY <1>1, <2>1
<1>3. (b + d - b0) % d = 0
  <2>1. PICK z \in Nat, p \in Nat : z = b + d - b0 /\ p = q + 1
    OBVIOUS
  <2>2. d * p = d * q + d /\ d * q \in Nat
    BY <2>1
  <2>3. z = d * p + 0 /\ 0 \in 0 .. d - 1
    BY <1>1, <1>2, <2>1, <2>2
  <2>4. z % d = 0
    BY <2>3, DivModUnique
  <2> QED
    BY <2>1, <2>4
<1>4. ASSUME NEW x \in Nat, Reached(b0, d, x)
      PROVE  x < b + d <=> x < b \/ x = b
  <2>1. PICK p \in Nat : x - b0 = d * p + 0
    <3>1. x - b0 \in Nat
      BY <1>4
    <3>2. (x - b0) \div d \in Nat /\ x - b0 = d * ((x - b0) \div d) + ((x - b0) % d)
      BY <3>1, DivMod
    <3> QED
      BY <1>4, <3>2
  <2>2. CASE p <= q
    <3>1. d * p <= d * q
      BY <2>2, MulMonotone
    <3>2. d * p \in Nat /\ d * q \in Nat
      OBVIOUS
    <3>3. p = q \/ d * (p + 1) <= d * q
      BY <2>2, MulMonotone
    <3> QED
      BY <1>1, <1>2, <2>1, <3>1, <3>2
  <2>3. CASE q + 1 <= p
    <3>1. d * (q + 1) <= d * p /\ d * (q + 1) = d * q + d
      BY <2>3, MulMonotone
    <3>2. d * p \in Nat /\ d * q \in Nat
      OBVIOUS
    <3> QED
      BY <1>1, <1>2, <2>1, <3>1, <3>2
  <2> QED
    BY <2>2, <2>3
<1> QED
  BY <1>3, <1>4

\* The elements at the places Q, in b0 and in every d-th batch after it.
ShareAt(Q, b0, d) ==
    {e \in Y!Elements : Reached(b0, d, e[1]) /\ <<e[2], e[3]>> \in Q}

Places(Q) == Q \subseteq (0 .. launch.m - 1) \X (0 .. launch.n - 1)

\* f holds the products of the elements of this share in the batches before b.
Holds(f, Q, b0, d, b) ==
    /\ DOMAIN f = {CellOf(e) : e \in {x \in ShareAt(Q, b0, d) : x[1] < b}}
    /\ \A e \in ShareAt(Q, b0, d) : e[1] < b => f[CellOf(e)] = Y!StridedProduct(e)

\* g is f with the products of one more batch.
OneMore(g, f, Q, b) ==
    /\ DOMAIN g = DOMAIN f \cup {Y!StridedC(b, q[1], q[2]) : q \in Q}
    /\ \A q \in Q : g[Y!StridedC(b, q[1], q[2])] = Y!StridedProduct(<<b, q[1], q[2]>>)
    /\ \A a \in DOMAIN f : \/ \E q \in Q : a = Y!StridedC(b, q[1], q[2])
                           \/ g[a] = f[a]

LEMMA HoldsNone ==
    ASSUME NEW Q, NEW b0, NEW d, Reached(b0, d, b0), NEW f, DOMAIN f = {}
    PROVE  Holds(f, Q, b0, d, b0)
<1>1. \A e \in ShareAt(Q, b0, d) : ~(e[1] < b0)
  BY DEF ShareAt, Reached
<1> QED
  BY <1>1 DEF Holds

LEMMA HoldsOneMore ==
    ASSUME launch \in ItemLaunches, NEW Q, Places(Q), NEW b0, NEW d, NEW b,
           Reached(b0, d, b), b < launch.batchSize,
           NEW f, NEW g, Holds(f, Q, b0, d, b), OneMore(g, f, Q, b)
    PROVE  Holds(g, Q, b0, d, b + d)
<1> DEFINE S == ShareAt(Q, b0, d)
           New(q) == <<b, q[1], q[2]>>
<1>1. ASSUME NEW e \in S
      PROVE  /\ e \in Y!Elements
             /\ e[1] \in Nat /\ Reached(b0, d, e[1]) /\ <<e[2], e[3]>> \in Q
             /\ e[1] < b + d <=> e[1] < b \/ e[1] = b
             /\ e[1] = b => e = New(<<e[2], e[3]>>)
  <2>1. e \in Y!Elements /\ Reached(b0, d, e[1]) /\ <<e[2], e[3]>> \in Q
    BY DEF ShareAt
  <2>2. e[1] \in Nat
    BY <2>1 DEF Reached
  <2>3. e[1] = b => e = New(<<e[2], e[3]>>)
    BY <2>1 DEF Y!Elements
  <2> QED
    BY <2>1, <2>2, <2>3, NextReached
<1>2. ASSUME NEW q \in Q
      PROVE  New(q) \in S /\ New(q)[1] = b /\ CellOf(New(q)) = Y!StridedC(b, q[1], q[2])
  <2>1. b \in 0 .. launch.batchSize - 1
    BY StridedSizes DEF Reached
  <2>2. PICK r \in 0 .. launch.m - 1, l \in 0 .. launch.n - 1 : q = <<r, l>>
    BY DEF Places
  <2>3. New(q) \in Y!Elements
    BY <2>1, <2>2 DEF Y!Elements
  <2> QED
    BY <2>2, <2>3 DEF ShareAt, CellOf
<1> DEFINE Cells == {CellOf(e) : e \in {x \in S : x[1] < b}}
           NewCells == {Y!StridedC(b, q[1], q[2]) : q \in Q}
<1>3. {CellOf(e) : e \in {x \in S : x[1] < b + d}} = Cells \cup NewCells
  <2>1. ASSUME NEW e \in S, e[1] < b + d PROVE CellOf(e) \in Cells \cup NewCells
    <3>1. CASE e[1] < b
      BY <3>1
    <3>2. CASE e[1] = b
      <4>1. CellOf(e) = Y!StridedC(b, e[2], e[3])
        BY <3>2 DEF CellOf
      <4>2. <<e[2], e[3]>> \in Q
        BY <1>1
      <4> QED
        BY <4>1, <4>2
    <3> QED
      BY <1>1, <2>1, <3>1, <3>2
  <2>2. ASSUME NEW e \in S, e[1] < b PROVE e[1] < b + d
    BY <1>1, <2>2
  <2>3. ASSUME NEW q \in Q
        PROVE  \E e \in S : e[1] < b + d /\ CellOf(e) = Y!StridedC(b, q[1], q[2])
    BY <1>1, <1>2
  <2> HIDE DEF S
  <2> QED
    BY <2>1, <2>2, <2>3
<1>4. DOMAIN g = {CellOf(e) : e \in {x \in S : x[1] < b + d}}
  BY <1>3 DEF OneMore, Holds
<1>5. ASSUME NEW e \in S, e[1] < b + d
      PROVE  g[CellOf(e)] = Y!StridedProduct(e)
  <2>1. CASE e[1] = b
    <3>1. <<e[2], e[3]>> \in Q /\ e = New(<<e[2], e[3]>>)
      BY <1>1, <2>1
    <3>2. CellOf(e) = Y!StridedC(b, e[2], e[3])
      BY <2>1 DEF CellOf
    <3> QED
      BY <3>1, <3>2 DEF OneMore
  <2>2. CASE e[1] < b
    <3>1. CellOf(e) \in DOMAIN f /\ f[CellOf(e)] = Y!StridedProduct(e)
      BY <2>2 DEF Holds
    <3>2. ASSUME NEW q \in Q PROVE CellOf(e) # Y!StridedC(b, q[1], q[2])
      <4>1. New(q) \in Y!Elements /\ New(q)[1] # e[1]
        <5>1. New(q) \in S /\ New(q)[1] = b
          BY <1>2
        <5>2. New(q) \in Y!Elements
          BY <5>1, <1>1
        <5> QED
          BY <1>1, <2>2, <5>1, <5>2 DEF Reached
      <4>2. CellOf(New(q)) # CellOf(e)
        BY <1>1, <4>1, OneCellEach, ItemSized
      <4> QED
        BY <1>2, <4>2
    <3> QED
      BY <3>1, <3>2 DEF OneMore
  <2> QED
    BY <1>1, <1>5, <2>1, <2>2
<1> QED
  BY <1>4, <1>5 DEF Holds

\* f holds the products of the elements of S and nothing else.
Complete(f, S) ==
    /\ DOMAIN f = {CellOf(e) : e \in S}
    /\ \A e \in S : f[CellOf(e)] = Y!StridedProduct(e)

\* At the end everything is there.
LEMMA HoldsAll ==
    ASSUME launch \in ItemLaunches, NEW Q, NEW b0, NEW d, NEW f, NEW b \in Nat,
           b >= launch.batchSize, Holds(f, Q, b0, d, b)
    PROVE  Complete(f, ShareAt(Q, b0, d))
<1>1. ASSUME NEW e \in ShareAt(Q, b0, d) PROVE e[1] < b
  <2>1. e[1] \in 0 .. launch.batchSize - 1
    BY DEF ShareAt, Y!Elements
  <2> QED
    BY <2>1, StridedSizes
<1>2. {x \in ShareAt(Q, b0, d) : x[1] < b} = ShareAt(Q, b0, d)
  BY <1>1
<1> QED
  BY <1>1, <1>2 DEF Holds, Complete

LEMMA HoldsWithin ==
    ASSUME launch \in ItemLaunches, NEW Q, NEW b0, NEW d, NEW b, NEW f, Holds(f, Q, b0, d, b)
    PROVE  DOMAIN f \subseteq 0 .. launch.batchSize * Y!CSize - 1
<1>1. ASSUME NEW e \in ShareAt(Q, b0, d)
      PROVE  CellOf(e) \in 0 .. launch.batchSize * Y!CSize - 1
  BY OneCellEach, ItemSized DEF ShareAt
<1> QED
  BY <1>1 DEF Holds

\* A product of one pair.
LEMMA MadOne ==
    ASSUME NEW n \in Nat, NEW a, NEW b, NEW s, Differ(a, n + 1)
    PROVE  Mad(<<<<FromA(a[n]), FromB(b[n])>>>>, Sum(s, a, b, n)) = Sum(s, a, b, n + 1)
<1> DEFINE p == <<<<FromA(a[n]), FromB(b[n])>>>>
<1>1. Feeds(p, n - 1, a, b, n, n + 1)
  <2>1. DOMAIN p = {1} /\ p[1] = <<FromA(a[n]), FromB(b[n])>>
    OBVIOUS
  <2>2. 1 + (n - 1) = n /\ n - (n - 1) = 1 /\ n .. n + 1 - 1 = {n}
    OBVIOUS
  <2> HIDE DEF p
  <2> QED
    BY <2>1, <2>2 DEF Feeds
<1> HIDE DEF p
<1>2. n + 1 \in Nat /\ n <= n + 1 /\ n - 1 \in Int
  OBVIOUS
<1>3. Mad(p, Sum(s, a, b, n)) = Sum(s, a, b, n + 1)
  BY <1>1, <1>2, MadFeeds
<1> QED
  BY <1>3 DEF p

LEMMA MadTyped ==
    ASSUME NEW p, NEW r, IsAccumulator(r)
    PROVE  IsAccumulator(Mad(p, r)) /\ Mad(p, r).c = r.c
<1> DEFINE live == {t \in DOMAIN p : Zero \notin {p[t][1], p[t][2]}
                                     \/ Garbage \in {p[t][1], p[t][2]}}
           new == {p[t] : t \in live}
           once == /\ r.once
                   /\ new \cap r.of = {}
                   /\ \A t, u \in live : t # u => p[t] # p[u]
<1>1. Mad(p, r) = [[r EXCEPT !.of = r.of \cup new] EXCEPT !.once = once]
  <2>1. Mad(p, r) = [r EXCEPT !.of = @ \cup new,
                              !.once = /\ @
                                       /\ new \cap r.of = {}
                                       /\ \A t, u \in live : t # u => p[t] # p[u]]
    BY DEF Mad
  <2>2. [r EXCEPT !.of = r.of \cup new].once = r.once
    OBVIOUS
  <2> QED
    BY <2>1, <2>2
<1>2. once \in BOOLEAN
  OBVIOUS
<1> HIDE DEF once, new, live
<1> QED
  BY <1>1, <1>2 DEF IsAccumulator

-------------------------------------------------------------------------------
(***************************************************************************)
(* The reference kernel                                                    *)
(***************************************************************************)

RefFirst == R!WgBatchId(launch.group)
RefPlaces == {<<R!Row(launch.group, launch.item), R!Col(launch.group, launch.item)>>}
RefWorks == R!Works(launch.group, launch.item)

LEMMA RefGrid ==
    ASSUME launch \in RefLaunches, launch.group \in R!Groups, launch.item \in R!Items
    PROVE  /\ launch \in ItemLaunches
           /\ R!RegCols = {0} /\ R!RegRows = {0}
           /\ Reached(RefFirst, R!BatchStride, RefFirst)
           /\ R!Row(launch.group, launch.item) \in Nat
           /\ R!Col(launch.group, launch.item) \in Nat
           /\ RefWorks => Places(RefPlaces)
<1>1. launch \in ItemLaunches
  BY DEF ItemLaunches
<1>2. PICK wg \in Nat \ {0}, h \in Nat \ {0}, m \in Nat \ {0}, units \in Nat \ {0} :
          /\ wg = launch.wgRows /\ h = launch.m /\ m = launch.n
          /\ units = 4 * launch.computeUnits
  BY <1>1, ItemSizes
<1>3. PICK t \in Nat \ {0} : t = h * m
  OBVIOUS
<1>4. PICK a \in Nat \ {0} : a = (t - 1) \div wg + 1 /\ t <= wg * a
  BY RoundedUp
<1>5. PICK n \in Nat \ {0} : n = (units - 1) \div a + 1
  BY RoundedUp
<1>6. /\ R!WorkgroupCluster = a /\ R!BatchStride = n
      /\ R!Groups = 0 .. a * n - 1 /\ R!Items = 0 .. wg - 1
  BY <1>2, <1>3, <1>4, <1>5
     DEF R!WorkgroupCluster, R!DivUp, R!WgSize, R!BatchStride, R!NumWorkgroupCluster,
         R!Groups, R!Items
<1>7. PICK g \in Nat, i \in Nat : g = launch.group /\ i = launch.item
  BY <1>6
<1>8. PICK z \in Nat : z = g % a
  OBVIOUS
<1>9. PICK e \in Nat : e = z * wg + i
  OBVIOUS
<1>10. R!ItemId(launch.group, launch.item) = e
  BY <1>2, <1>6, <1>7, <1>8, <1>9 DEF R!ItemId, R!WgSize
<1>11. RefFirst = g \div a /\ g \div a \in Nat
  BY <1>6, <1>7, DivMod DEF RefFirst, R!WgBatchId
<1>12. Reached(RefFirst, n, RefFirst)
  <2>1. PICK q \in Nat : q = RefFirst
    BY <1>11
  <2>2. (q - q) % n = 0
    <3>1. q - q = 0 /\ 0 = n * 0 + 0 /\ 0 \in 0 .. n - 1 /\ 0 \in Nat
      OBVIOUS
    <3> QED
      BY <3>1, DivModUnique
  <2> QED
    BY <2>1, <2>2 DEF Reached
<1>13. e % h \in 0 .. h - 1 /\ e \div h \in Nat
  BY DivMod
<1>14. e < t => e \div h \in 0 .. m - 1
  <2> SUFFICES ASSUME e < t PROVE e \div h \in 0 .. m - 1
    OBVIOUS
  <2>1. e \in 0 .. t - 1 /\ t <= h * m
    BY <1>3
  <2> QED
    BY <2>1, SomeBlock
<1>15. /\ R!Row(launch.group, launch.item) = e % h
       /\ R!Col(launch.group, launch.item) = e \div h
  BY <1>2, <1>10 DEF R!Row, R!Col
<1>16. RefWorks => Places(RefPlaces)
  <2>1. RefWorks => e < t
    BY <1>2, <1>3, <1>10 DEF RefWorks, R!Works
  <2> QED
    BY <1>2, <1>13, <1>14, <1>15, <2>1 DEF Places, RefPlaces
<1>17. R!RegCols = {0} /\ R!RegRows = {0}
  <2>1. launch.itemRows = 1 /\ launch.itemCols = 1
    BY GemmKernelsAssumption DEF GemmKernelsAssumption, R!RefAssumption
  <2> QED
    BY <2>1 DEF R!RegCols, R!RegRows
<1> QED
  BY <1>1, <1>6, <1>12, <1>13, <1>15, <1>16, <1>17

\* What the item has added up so far.
RefSum(n) ==
    Sum({}, AddressesA(batch, R!Row(launch.group, launch.item)),
        AddressesB(batch, R!Col(launch.group, launch.item)), n)

RefInv ==
    /\ launch \in RefLaunches /\ launch.group \in R!Groups /\ launch.item \in R!Items
    /\ block = [row |-> R!Row(launch.group, launch.item),
                col |-> R!Col(launch.group, launch.item)]
    /\ pc \in {"run", "done"} /\ k \in 0 .. launch.k
    /\ Reached(RefFirst, R!BatchStride, batch)
    /\ IsAccumulator(regRes[0][0]) /\ regRes = R!RegRes(regRes[0][0])
    /\ pc = "run" => /\ RefWorks /\ batch < launch.batchSize
                     /\ regRes[0][0] = RefSum(launch.k - k)
    /\ RefWorks => /\ Holds(c, RefPlaces, RefFirst, R!BatchStride, batch)
                   /\ pc = "done" => batch >= launch.batchSize
    /\ ~RefWorks => DOMAIN c = {}

LEMMA NoSum ==
    ASSUME NEW s, NEW a, NEW b
    PROVE  Sum(s, a, b, 0) = [c |-> s, of |-> {}, once |-> TRUE]
<1>1. 0 .. 0 - 1 = {}
  OBVIOUS
<1> QED
  BY <1>1 DEF Sum

LEMMA NoSumTyped ==
    ASSUME NEW s \in SUBSET Nat, NEW of, NEW once \in BOOLEAN
    PROVE  IsAccumulator([c |-> s, of |-> of, once |-> once])
BY DEF IsAccumulator

\* The numbers of the kernels are the same.
LEMMA SameNumbers ==
    /\ \A p, r : /\ R!Mad(p, r) = Mad(p, r) /\ F!Mad(p, r) = Mad(p, r)
                 /\ P!Mad(p, r) = Mad(p, r) /\ I!Mad(p, r) = Mad(p, r)
    /\ \A x : /\ R!FromA(x) = FromA(x) /\ F!FromA(x) = FromA(x)
              /\ P!FromA(x) = FromA(x) /\ I!FromA(x) = FromA(x)
              /\ R!FromB(x) = FromB(x) /\ F!FromB(x) = FromB(x)
              /\ P!FromB(x) = FromB(x) /\ I!FromB(x) = FromB(x)
    /\ F!Zero = Zero /\ P!Zero = Zero /\ I!Zero = Zero
    /\ F!Garbage = Garbage /\ P!Garbage = Garbage
BY DEF R!Mad, F!Mad, P!Mad, I!Mad, Mad, R!Zero, F!Zero, P!Zero, I!Zero, Zero,
       R!Garbage, F!Garbage, P!Garbage, I!Garbage, Garbage,
       R!FromA, F!FromA, P!FromA, I!FromA, FromA, R!FromB, F!FromB, P!FromB, I!FromB, FromB

\* What depends on the launch alone does not change.
LEMMA LaunchSame ==
    ASSUME launch' = launch
    PROVE  /\ Y!Elements' = Y!Elements
           /\ \A x : Y!StridedProduct(x)' = Y!StridedProduct(x) /\ CellOf(x)' = CellOf(x)
           /\ \A b, r : /\ AddressesA(b, r)' = AddressesA(b, r)
                       /\ AddressesB(b, r)' = AddressesB(b, r)
BY DEF Y!Elements, Y!StridedProduct, Y!Product, CellOf, Y!StridedC, Y!StridedA, Y!StridedB,
       Y!ASize, Y!BSize, Y!CSize, Y!Address, AddressesA, AddressesB

LEMMA RefStart == R!Init => RefInv
<1> SUFFICES ASSUME R!Init PROVE RefInv
  OBVIOUS
<1>1. launch \in RefLaunches /\ launch.group \in R!Groups /\ launch.item \in R!Items
  BY DEF R!Init
<1>2. launch.k \in Nat /\ R!RegCols = {0} /\ R!RegRows = {0} /\ launch.batchSize \in Nat
  BY <1>1, RefGrid, StridedSizes
<1>3. batch = RefFirst /\ Reached(RefFirst, R!BatchStride, batch)
  BY <1>1, RefGrid DEF R!Init, RefFirst
<1>4. /\ regRes[0][0] = [c |-> {}, of |-> {}, once |-> TRUE]
      /\ regRes = R!RegRes(regRes[0][0])
  BY <1>2 DEF R!Init, R!RegRes, R!Nothing
<1>5. IsAccumulator(regRes[0][0]) /\ regRes[0][0] = RefSum(0)
  <2>1. regRes[0][0] = RefSum(0)
    BY <1>4, NoSum DEF RefSum
  <2>2. {} \in SUBSET Nat /\ TRUE \in BOOLEAN
    OBVIOUS
  <2> QED
    BY <1>4, <2>1, <2>2, NoSumTyped
<1>6. k = launch.k /\ launch.k - k = 0
  BY <1>2 DEF R!Init
<1>7. pc = IF RefWorks THEN "run" ELSE "done"
  BY DEF R!Init, RefWorks
<1>8. RefWorks => batch < launch.batchSize
  BY <1>3 DEF RefWorks, R!Works, RefFirst
<1>9. DOMAIN c = {}
  BY DEF R!Init
<1>10. Holds(c, RefPlaces, RefFirst, R!BatchStride, batch)
  BY <1>3, <1>9, HoldsNone
<1>11. block = [row |-> R!Row(launch.group, launch.item),
                col |-> R!Col(launch.group, launch.item)]
  BY DEF R!Init
<1> QED
  BY <1>1, <1>2, <1>3, <1>4, <1>5, <1>6, <1>7, <1>8, <1>9, <1>10, <1>11 DEF RefInv

LEMMA RefStep == ASSUME RefInv, R!Next PROVE RefInv'
<1> DEFINE r == R!Row(launch.group, launch.item)
           q == R!Col(launch.group, launch.item)
<1>1. /\ launch \in RefLaunches /\ launch.group \in R!Groups /\ launch.item \in R!Items
      /\ launch \in ItemLaunches
      /\ block.row = r /\ block.col = q /\ r \in Nat /\ q \in Nat
      /\ R!RegCols = {0} /\ R!RegRows = {0}
      /\ launch.k \in Nat /\ batch \in Nat /\ Reached(RefFirst, R!BatchStride, batch)
      /\ k \in 0 .. launch.k
  BY RefGrid, StridedSizes DEF RefInv, Reached
<1>2. launch' = launch /\ block' = block
  BY DEF R!Next, R!Compute, R!Store
<1>3. /\ RefFirst' = RefFirst /\ R!BatchStride' = R!BatchStride /\ RefPlaces' = RefPlaces
      /\ RefWorks' = RefWorks /\ r' = r /\ q' = q /\ R!Groups' = R!Groups /\ R!Items' = R!Items
  BY <1>2 DEF RefFirst, RefPlaces, RefWorks, R!Row, R!Col, R!Works, R!WgBatchId, R!BatchStride,
     R!ItemId, R!WorkgroupCluster, R!NumWorkgroupCluster, R!WgSize, R!Groups, R!Items
<1>4. \A x : R!RegRes(x)' = R!RegRes(x) /\ R!RegRes(x)[0][0] = x
  BY <1>1, <1>2 DEF R!RegRes, R!RegCols, R!RegRows
<1>5. CASE R!Compute
  <2> DEFINE n == launch.k - k
             a == AddressesA(batch, r)
             b == AddressesB(batch, q)
             old == regRes[0][0]
             new == Mad(<<<<FromA(a[n]), FromB(b[n])>>>>, old)
  <2>1. n \in Nat /\ n + 1 \in 0 .. launch.k /\ launch.k - (k - 1) = n + 1
        /\ k - 1 \in 0 .. launch.k
    BY <1>1, <1>5 DEF R!Compute
  <2>2. a[n] = R!StridedA(batch, block.row, R!KDone)
        /\ b[n] = R!StridedB(batch, R!KDone, block.col)
    BY <1>1, <2>1 DEF AddressesA, AddressesB, R!KDone, Y!StridedA, R!StridedA, Y!StridedB,
       R!StridedB, Y!ASize, R!ASize, Y!BSize, R!BSize, Y!Address, R!Address
  <2> HIDE DEF n, a, b
  <2>3. regRes' = R!RegRes(new)
    BY <1>5, <2>2, SameNumbers DEF R!Compute
  <2>4. old = Sum({}, a, b, n)
    BY <1>5 DEF R!Compute, RefInv, RefSum, n, a, b
  <2>5. new = Sum({}, a, b, n + 1)
    <3>1. Differ(a, launch.k)
      BY <1>1, RowDiffers, ItemSized DEF a
    <3>2. Differ(a, n + 1)
      BY <2>1, <3>1, <1>1 DEF Differ
    <3> QED
      BY <2>1, <2>4, <3>2, MadOne
  <2>6. IsAccumulator(new)
    BY MadTyped DEF RefInv
  <2> HIDE DEF new, old
  <2>7. (regRes[0][0])' = new /\ regRes' = R!RegRes(regRes[0][0])'
    BY <1>4, <2>3
  <2>8. (regRes[0][0])' = RefSum(launch.k - k)'
    <3>1. k' = k - 1 /\ batch' = batch
      BY <1>5 DEF R!Compute
    <3>2. AddressesA(batch, r)' = a /\ AddressesB(batch, q)' = b
      BY <1>2, <1>3, <3>1 DEF a, b, AddressesA, AddressesB, Y!StridedA, Y!StridedB, Y!ASize,
         Y!BSize, Y!Address
    <3>3. (launch.k - k)' = n + 1
      BY <1>2, <3>1, <2>1
    <3>4. RefSum(launch.k - k)' = Sum({}, a, b, n + 1)
      BY <3>2, <3>3 DEF RefSum, Sum
    <3> QED
      BY <2>5, <2>7, <3>4
  <2>9. /\ pc' = pc /\ batch' = batch /\ k' = k - 1 /\ c' = c /\ pc = "run"
    BY <1>5 DEF R!Compute
  <2>10. Holds(c, RefPlaces, RefFirst, R!BatchStride, batch)'
           <=> Holds(c, RefPlaces, RefFirst, R!BatchStride, batch)
    BY <1>2, <1>3, <2>9, LaunchSame DEF Holds, ShareAt
  <2>11. IsAccumulator(regRes[0][0])'
    BY <2>6, <2>7 DEF IsAccumulator
  <2>12. Reached(RefFirst, R!BatchStride, batch)'
    BY <1>1, <1>3, <2>9 DEF Reached
  <2>13. (k \in 0 .. launch.k)' /\ (pc \in {"run", "done"})' /\ (batch < launch.batchSize)'
    BY <1>2, <2>1, <2>9 DEF RefInv
  <2>14. (block = [row |-> r, col |-> q])' /\ (launch \in RefLaunches)'
         /\ (launch.group \in R!Groups)' /\ (launch.item \in R!Items)' /\ RefWorks'
    BY <1>1, <1>2, <1>3, <2>9 DEF RefInv
  <2> HIDE DEF r, q
  <2> QED
    BY <2>7, <2>8, <2>9, <2>10, <2>11, <2>12, <2>13, <2>14 DEF RefInv, r, q
<1>6. CASE R!Store
  <2> DEFINE address == R!StridedC(batch, r, q)
             old == regRes[0][0]
             product == [old EXCEPT !.c = IF launch.betaZero THEN {} ELSE {address}]
             new == [x \in {address} |-> [old EXCEPT !.c = IF launch.betaZero THEN {} ELSE {x}]]
  <2>1. /\ pc = "run" /\ k = 0 /\ c' = R!Over(new, c)
        /\ batch' = batch + R!BatchStride /\ k' = launch.k
        /\ regRes' = R!RegRes(R!Nothing)
        /\ pc' = IF batch' < launch.batchSize THEN "run" ELSE "done"
    BY <1>1, <1>6 DEF R!Store
  <2>2. product = Y!StridedProduct(<<batch, r, q>>)
    <3>1. old = Sum({}, AddressesA(batch, r), AddressesB(batch, q), launch.k)
      <4>1. launch.k - k = launch.k
        BY <1>1, <2>1
      <4> QED
        BY <2>1, <4>1 DEF RefInv, RefSum
    <3>2. address = Y!StridedC(batch, r, q)
      BY DEF R!StridedC, Y!StridedC, R!CSize, Y!CSize
    <3> HIDE DEF address
    <3>3. product = Sum(IF launch.betaZero THEN {} ELSE {address},
                        AddressesA(batch, r), AddressesB(batch, q), launch.k)
      <4>1. PICK s2 : s2 = IF launch.betaZero THEN {} ELSE {address}
        OBVIOUS
      <4>2. product = [old EXCEPT !.c = s2]
        BY <4>1
      <4> HIDE DEF product, old
      <4>3. product = [Sum({}, AddressesA(batch, r), AddressesB(batch, q), launch.k)
                         EXCEPT !.c = s2]
        BY <3>1, <4>2
      <4> QED
        <5>1. PICK a, b, z : /\ a = AddressesA(batch, r) /\ b = AddressesB(batch, q)
                             /\ z = launch.k
          OBVIOUS
        <5>2. [Sum({}, a, b, z) EXCEPT !.c = s2] = Sum(s2, a, b, z)
          BY SumWith
        <5>3. product = [Sum({}, a, b, z) EXCEPT !.c = s2]
          BY <4>3, <5>1
        <5>4. product = Sum(s2, a, b, z)
          BY <5>2, <5>3
        <5> QED
          BY <4>1, <5>1, <5>4
    <3> HIDE DEF product, old
    <3> QED
      BY <1>1, <3>2, <3>3, WholeSum
  <2>3. OneMore(c', c, RefPlaces, batch)
    <3>1. address = Y!StridedC(batch, r, q)
      BY DEF R!StridedC, Y!StridedC, R!CSize, Y!CSize
    <3>2. DOMAIN new = {address} /\ new[address] = product
      OBVIOUS
    <3>3. RefPlaces = {<<r, q>>} /\ <<r, q>>[1] = r /\ <<r, q>>[2] = q
      BY DEF RefPlaces
    <3> HIDE DEF address, new, product, r, q
    <3>4. /\ DOMAIN c' = DOMAIN c \cup {address}
          /\ c'[address] = product
          /\ \A x \in DOMAIN c : x = address \/ c'[x] = c[x]
      BY <2>1, <3>2 DEF R!Over
    <3> QED
      BY <2>2, <3>1, <3>3, <3>4 DEF OneMore
  <2>4. RefWorks /\ Holds(c, RefPlaces, RefFirst, R!BatchStride, batch) /\ batch < launch.batchSize
    BY <2>1 DEF RefInv
  <2>5. Holds(c', RefPlaces, RefFirst, R!BatchStride, batch + R!BatchStride)
    <3>1. Places(RefPlaces)
      BY <1>1, <2>4, RefGrid
    <3> QED
      BY <1>1, <2>3, <2>4, <3>1, HoldsOneMore
  <2>6. Holds(c, RefPlaces, RefFirst, R!BatchStride, batch)'
    BY <1>2, <1>3, <2>1, <2>5, LaunchSame DEF Holds, ShareAt
  <2>7. Reached(RefFirst, R!BatchStride, batch)'
    <3>1. Reached(RefFirst, R!BatchStride, batch + R!BatchStride)
      BY <1>1, NextReached
    <3> QED
      BY <1>3, <2>1, <3>1 DEF Reached
  <2>8. /\ (regRes[0][0])' = [c |-> {}, of |-> {}, once |-> TRUE]
        /\ regRes' = R!RegRes(regRes[0][0])'
    BY <1>4, <2>1 DEF R!Nothing
  <2>9. IsAccumulator(regRes[0][0])'
    <3>1. {} \in SUBSET Nat /\ TRUE \in BOOLEAN
      OBVIOUS
    <3>2. IsAccumulator([c |-> {}, of |-> {}, once |-> TRUE])
      BY <3>1, NoSumTyped
    <3> QED
      BY <2>8, <3>2 DEF IsAccumulator
  <2>10. (regRes[0][0])' = RefSum(launch.k - k)'
    <3>1. (launch.k - k)' = 0
      BY <1>1, <1>2, <2>1
    <3>2. RefSum(launch.k - k)' = [c |-> {}, of |-> {}, once |-> TRUE]
      BY <3>1, NoSum DEF RefSum, Sum
    <3> QED
      BY <2>8, <3>2
  <2>11. /\ (k \in 0 .. launch.k)' /\ (pc \in {"run", "done"})'
         /\ pc' = "run" => (batch < launch.batchSize)'
         /\ pc' = "done" => (batch >= launch.batchSize)'
    <3>1. launch.batchSize \in Nat /\ batch' \in Nat
      BY <1>1, <2>7, StridedSizes DEF Reached
    <3> QED
      BY <1>1, <1>2, <2>1, <3>1
  <2>12. (block = [row |-> r, col |-> q])' /\ (launch \in RefLaunches)'
         /\ (launch.group \in R!Groups)' /\ (launch.item \in R!Items)' /\ RefWorks'
    BY <1>1, <1>2, <1>3, <2>4 DEF RefInv
  <2> HIDE DEF r, q
  <2> QED
    BY <2>6, <2>7, <2>8, <2>9, <2>10, <2>11, <2>12 DEF RefInv, r, q
<1> QED
  BY <1>5, <1>6 DEF R!Next

LEMMA RefExact ==
    ASSUME RefInv
    PROVE  R!TypeOK /\ R!ItemExact
<1>1. /\ launch \in ItemLaunches /\ batch \in Nat /\ Reached(RefFirst, R!BatchStride, batch)
      /\ RefFirst \in Nat /\ R!BatchStride \in Nat \ {0}
      /\ R!RegCols = {0} /\ R!RegRows = {0}
  BY RefGrid DEF RefInv, Reached
<1>2. DOMAIN c \subseteq 0 .. launch.batchSize * Y!CSize - 1
  BY <1>1, HoldsWithin DEF RefInv
<1>3. \A x \in DOMAIN regRes : \A y \in DOMAIN regRes[x] : IsAccumulator(regRes[x][y])
  BY <1>1 DEF RefInv, R!RegRes
<1>4. R!TypeOK
  BY <1>1, <1>2, <1>3 DEF RefInv, R!TypeOK, R!CSize, Y!CSize, R!IsAccumulator, IsAccumulator
<1>5. ASSUME pc = "done"
      PROVE  Complete(c, R!ItemShare(launch.group, launch.item))
  <2>1. CASE RefWorks
    <3>1. R!ItemShare(launch.group, launch.item) = ShareAt(RefPlaces, RefFirst, R!BatchStride)
      <4>1. ASSUME NEW e \in Y!Elements
            PROVE  e \in R!ItemShare(launch.group, launch.item)
                     <=> Reached(RefFirst, R!BatchStride, e[1]) /\ <<e[2], e[3]>> \in RefPlaces
        <5>1. e[1] \in Nat /\ e \in R!Elements
          BY DEF Y!Elements, R!Elements
        <5> QED
          BY <1>1, <2>1, <5>1 DEF R!ItemShare, RefWorks, RefFirst, RefPlaces, Reached
      <4>2. R!ItemShare(launch.group, launch.item) \subseteq Y!Elements
        BY DEF R!ItemShare, R!Elements, Y!Elements
      <4> QED
        BY <4>1, <4>2 DEF ShareAt
    <3>2. batch >= launch.batchSize /\ Holds(c, RefPlaces, RefFirst, R!BatchStride, batch)
      BY <1>5, <2>1 DEF RefInv
    <3>3. Complete(c, ShareAt(RefPlaces, RefFirst, R!BatchStride))
      BY <1>1, <3>2, HoldsAll
    <3> QED
      BY <3>1, <3>3
  <2>2. CASE ~RefWorks
    <3>1. R!ItemShare(launch.group, launch.item) = {}
      BY <2>2 DEF R!ItemShare, RefWorks
    <3> QED
      BY <2>2, <3>1 DEF RefInv, Complete
  <2> QED
    BY <2>1, <2>2
<1>6. \A e : /\ R!StridedC(e[1], e[2], e[3]) = CellOf(e)
             /\ R!StridedProduct(e) = Y!StridedProduct(e)
  BY DEF R!StridedC, Y!StridedC, CellOf, R!CSize, Y!CSize, R!StridedProduct, Y!StridedProduct,
         R!Product, Y!Product, R!StridedA, Y!StridedA, R!StridedB, Y!StridedB, R!ASize, Y!ASize,
         R!BSize, Y!BSize, R!Address, Y!Address, R!FromA, Y!FromA, R!FromB, Y!FromB
<1>7. R!ItemExact
  BY <1>5, <1>6 DEF R!ItemExact, Complete
<1> QED
  BY <1>4, <1>7

-------------------------------------------------------------------------------
(***************************************************************************)
(* The registers of an item                                                *)
(***************************************************************************)

\* The registers S of an item are in C, register r in row rows[r] and register
\* column j in column cols[j].
Shape(S, rows, cols) ==
    /\ S \subseteq Y!RegCols \X Y!RegRows
    /\ \A x \in S : rows[x[2]] \in 0 .. launch.m - 1 /\ cols[x[1]] \in 0 .. launch.n - 1

PlacesOf(S, rows, cols) == {<<rows[x[2]], cols[x[1]]>> : x \in S}

Cell(b, rows, cols, x) == Y!StridedC(b, rows[x[2]], cols[x[1]])

\* What a register holds after n of its products for batch b.
SumOf(b, r, q, n) ==
    Sum(IF launch.betaZero THEN {} ELSE {Y!StridedC(b, r, q)},
        AddressesA(b, r), AddressesB(b, q), n)

Sums(f, S, rows, cols, b, n) ==
    \A x \in S : f[x[1]][x[2]] = SumOf(b, rows[x[2]], cols[x[1]], n)

Typed(f) ==
    /\ DOMAIN f = Y!RegCols
    /\ \A j \in Y!RegCols : /\ DOMAIN f[j] = Y!RegRows
                            /\ \A r \in Y!RegRows : IsAccumulator(f[j][r])

\* scaling_c.
Scaling(S, rows, cols, b) ==
    [j \in Y!RegCols |-> [r \in Y!RegRows |->
        IF launch.betaZero THEN Nothing
        ELSE IF <<j, r>> \notin S THEN Uninitialised
        ELSE Scaled(Cell(b, rows, cols, <<j, r>>))]]

LEMMA NothingTyped ==
    /\ IsAccumulator(Nothing) /\ IsAccumulator(Uninitialised)
    /\ \A x \in Nat : IsAccumulator(Scaled(x))
BY DEF IsAccumulator, Nothing, Uninitialised, Scaled

LEMMA ScalingSums ==
    ASSUME Sized, NEW S, NEW rows, NEW cols, Shape(S, rows, cols),
           NEW b \in Nat
    PROVE  /\ Typed(Scaling(S, rows, cols, b))
           /\ Sums(Scaling(S, rows, cols, b), S, rows, cols, b, 0)
<1> DEFINE f == Scaling(S, rows, cols, b)
<1>1. ASSUME NEW x \in S PROVE Cell(b, rows, cols, x) \in Nat
  <2>1. PICK r \in Nat, q \in Nat : r = rows[x[2]] /\ q = cols[x[1]]
    BY SizedIs DEF Shape
  <2>2. PICK s \in Nat, ld \in Nat : s = Y!CSize /\ ld = launch.ldc
    BY SizedIs
  <2>3. b * s + r + q * ld \in Nat
    OBVIOUS
  <2> QED
    BY <2>1, <2>2, <2>3 DEF Cell, Y!StridedC
<1>2. Typed(f)
  <2>1. ASSUME NEW j \in Y!RegCols, NEW r \in Y!RegRows PROVE IsAccumulator(f[j][r])
    <3>1. <<j, r>> \in S => IsAccumulator(Scaled(Cell(b, rows, cols, <<j, r>>)))
      BY <1>1, NothingTyped
    <3> QED
      BY <3>1, NothingTyped DEF Scaling
  <2>2. DOMAIN f = Y!RegCols /\ \A j \in Y!RegCols : DOMAIN f[j] = Y!RegRows
    BY DEF Scaling
  <2> HIDE DEF f
  <2> QED
    BY <2>1, <2>2 DEF Typed
<1>3. ASSUME NEW x \in S
      PROVE  f[x[1]][x[2]] = SumOf(b, rows[x[2]], cols[x[1]], 0)
  <2>1. PICK j \in Y!RegCols, r \in Y!RegRows : x = <<j, r>>
    BY DEF Shape
  <2>2. f[j][r] = [c |-> IF launch.betaZero THEN {} ELSE {Y!StridedC(b, rows[r], cols[j])},
                   of |-> {}, once |-> TRUE]
    <3>1. CASE launch.betaZero
      BY <2>1, <3>1 DEF Scaling, Nothing
    <3>2. CASE ~launch.betaZero
      BY <2>1, <3>2 DEF Scaling, Scaled, Cell
    <3> QED
      BY <3>1, <3>2
  <2> HIDE DEF f
  <2> QED
    BY <2>1, <2>2, NoSum DEF SumOf
<1> QED
  BY <1>2, <1>3 DEF Sums

\* The pairs p[<<j, r>>] are products n .. e - 1 of register r of column j.
FeedsAll(p, o, S, rows, cols, b, n, e) ==
    \A x \in S :
        Feeds(p[x], o, AddressesA(b, rows[x[2]]), AddressesB(b, cols[x[1]]), n, e)

\* g holds what f does after one step of the products.
MadAll(g, p, f) ==
    /\ DOMAIN g = Y!RegCols
    /\ \A j \in Y!RegCols : DOMAIN g[j] = Y!RegRows
    /\ \A j \in Y!RegCols, r \in Y!RegRows : g[j][r] = Mad(p[<<j, r>>], f[j][r])

LEMMA MadSums ==
    ASSUME Sized, NEW S, NEW rows, NEW cols, Shape(S, rows, cols),
           NEW b \in Nat, NEW n \in Nat, NEW e \in 0 .. launch.k, n <= e, NEW o \in Int,
           NEW f, Typed(f), Sums(f, S, rows, cols, b, n),
           NEW p, FeedsAll(p, o, S, rows, cols, b, n, e), NEW g, MadAll(g, p, f)
    PROVE  Typed(g) /\ Sums(g, S, rows, cols, b, e)
<1> USE DEF MadAll
<1>1. Typed(g)
  <2>1. ASSUME NEW j \in Y!RegCols, NEW r \in Y!RegRows PROVE IsAccumulator(g[j][r])
    <3>1. IsAccumulator(Mad(p[<<j, r>>], f[j][r]))
      BY MadTyped DEF Typed
    <3> QED
      BY <3>1
  <2> QED
    BY <2>1 DEF Typed
<1>2. ASSUME NEW x \in S
      PROVE  g[x[1]][x[2]] = SumOf(b, rows[x[2]], cols[x[1]], e)
  <2>1. PICK j \in Y!RegCols, r \in Y!RegRows : x = <<j, r>>
    BY DEF Shape
  <2>2. PICK s, h, q : /\ h = AddressesA(b, rows[r]) /\ q = AddressesB(b, cols[j])
                       /\ s = IF launch.betaZero THEN {} ELSE {Y!StridedC(b, rows[r], cols[j])}
    OBVIOUS
  <2>3. f[j][r] = Sum(s, h, q, n) /\ SumOf(b, rows[r], cols[j], e) = Sum(s, h, q, e)
    BY <2>1, <2>2 DEF Sums, SumOf
  <2>4. Differ(h, e)
    <3>1. rows[r] \in Nat
      BY <2>1, SizedIs DEF Shape
    <3>2. Differ(h, launch.k)
      BY <2>2, <3>1, RowDiffers
    <3> QED
      BY <3>2, SizedIs DEF Differ
  <2>5. Feeds(p[x], o, h, q, n, e)
    BY <2>1, <2>2 DEF FeedsAll
  <2>6. Mad(p[x], Sum(s, h, q, n)) = Sum(s, h, q, e)
    <3>1. e \in Nat
      BY SizedIs
    <3> QED
      BY <2>4, <2>5, <3>1, MadFeeds
  <2> QED
    BY <2>1, <2>3, <2>6
<1> QED
  BY <1>1, <1>2 DEF Sums

\* w holds, at its cells of C, what the registers f hold.
Written(w, S, rows, cols, b, f) ==
    /\ DOMAIN w = {Cell(b, rows, cols, x) : x \in S}
    /\ \A a \in DOMAIN w : \E x \in S : Cell(b, rows, cols, x) = a /\ w[a] = f[x[1]][x[2]]

LEMMA StoreSums ==
    ASSUME Sized, NEW S, NEW rows, NEW cols, Shape(S, rows, cols),
           NEW b \in 0 .. launch.batchSize - 1,
           NEW f, Sums(f, S, rows, cols, b, launch.k),
           NEW w, Written(w, S, rows, cols, b, f), NEW g, NEW h, h = Over(w, g)
    PROVE  Places(PlacesOf(S, rows, cols)) /\ OneMore(h, g, PlacesOf(S, rows, cols), b)
<1> DEFINE Q == PlacesOf(S, rows, cols)
           At3(x) == <<b, rows[x[2]], cols[x[1]]>>
<1>1. Places(Q)
  BY DEF Places, PlacesOf, Shape
<1>2. ASSUME NEW x \in S
      PROVE  /\ At3(x) \in Y!Elements /\ CellOf(At3(x)) = Cell(b, rows, cols, x)
             /\ f[x[1]][x[2]] = Y!StridedProduct(At3(x))
  <2>1. At3(x) \in Y!Elements
    BY DEF Shape, Y!Elements
  <2>2. CellOf(At3(x)) = Cell(b, rows, cols, x)
    BY DEF CellOf, Cell
  <2>3. f[x[1]][x[2]] = SumOf(b, rows[x[2]], cols[x[1]], launch.k)
    BY DEF Sums
  <2>4. SumOf(b, rows[x[2]], cols[x[1]], launch.k) = Y!StridedProduct(At3(x))
    BY WholeSum DEF SumOf
  <2> QED
    BY <2>1, <2>2, <2>3, <2>4
<1> HIDE DEF At3
<1>3. ASSUME NEW x \in S
      PROVE  w[Cell(b, rows, cols, x)] = Y!StridedProduct(At3(x))
  <2>1. Cell(b, rows, cols, x) \in DOMAIN w
    BY DEF Written
  <2>2. PICK y \in S : /\ Cell(b, rows, cols, y) = Cell(b, rows, cols, x)
                       /\ w[Cell(b, rows, cols, x)] = f[y[1]][y[2]]
    BY <2>1 DEF Written
  <2>3. At3(y) = At3(x)
    BY <1>2, <2>2, OneCellEach
  <2> QED
    BY <1>2, <2>2, <2>3
<1>4. DOMAIN w = {Cell(b, rows, cols, x) : x \in S}
  BY DEF Written
<1>5. ASSUME NEW q \in Q
      PROVE  \E x \in S : /\ Cell(b, rows, cols, x) = Y!StridedC(b, q[1], q[2])
                          /\ At3(x) = <<b, q[1], q[2]>>
  BY DEF PlacesOf, Cell, At3
<1>6. ASSUME NEW x \in S
      PROVE  \E q \in Q : Cell(b, rows, cols, x) = Y!StridedC(b, q[1], q[2])
  <2>1. <<rows[x[2]], cols[x[1]]>> \in Q
    BY DEF PlacesOf
  <2> QED
    BY <2>1 DEF Cell
<1> HIDE DEF Q
<1>7. {Cell(b, rows, cols, x) : x \in S} = {Y!StridedC(b, q[1], q[2]) : q \in Q}
  BY <1>5, <1>6
<1>8. /\ DOMAIN h = DOMAIN g \cup DOMAIN w
      /\ \A a \in DOMAIN w : h[a] = w[a]
      /\ \A a \in DOMAIN g : a \in DOMAIN w \/ h[a] = g[a]
  BY DEF Over
<1>9. \A q \in Q : h[Y!StridedC(b, q[1], q[2])] = Y!StridedProduct(<<b, q[1], q[2]>>)
  <2> TAKE q \in Q
  <2>1. PICK x \in S : /\ Cell(b, rows, cols, x) = Y!StridedC(b, q[1], q[2])
                       /\ At3(x) = <<b, q[1], q[2]>>
    BY <1>5
  <2>2. Cell(b, rows, cols, x) \in DOMAIN w
    BY <1>4
  <2> QED
    BY <1>3, <1>8, <2>1, <2>2
<1>10. \A a \in DOMAIN g : (\E q \in Q : a = Y!StridedC(b, q[1], q[2])) \/ h[a] = g[a]
  BY <1>4, <1>7, <1>8
<1>11. OneMore(h, g, Q, b)
  BY <1>4, <1>7, <1>8, <1>9, <1>10 DEF OneMore
<1> QED
  BY <1>1, <1>11 DEF Q

-------------------------------------------------------------------------------
(***************************************************************************)
(* The loops of a vectorised kernel                                        *)
(***************************************************************************)

\* An item that goes through the batches from b0 on in steps of d.
LoopInv(S, rows, cols, b0, d) ==
    /\ launch \in ItemLaunches /\ Shape(S, rows, cols)
    /\ pc \in {"run", "done"} /\ k \in 0 .. launch.k
    /\ Reached(b0, d, batch)
    /\ pc = "run" <=> batch < launch.batchSize
    /\ Typed(regRes)
    /\ pc = "run" => Sums(regRes, S, rows, cols, batch, launch.k - k)
    /\ Holds(c, PlacesOf(S, rows, cols), b0, d, batch)

LEMMA LoopStarts ==
    ASSUME NEW S, NEW rows, NEW cols, NEW b0, NEW d, launch \in ItemLaunches,
           Shape(S, rows, cols), Reached(b0, d, b0),
           pc = IF b0 < launch.batchSize THEN "run" ELSE "done",
           batch = b0, k = launch.k, regRes = Scaling(S, rows, cols, b0), DOMAIN c = {}
    PROVE  LoopInv(S, rows, cols, b0, d)
<1>1. b0 \in Nat /\ launch.k \in Nat /\ launch.k - k = 0 /\ k \in 0 .. launch.k
  BY StridedSizes DEF Reached
<1>2. Typed(regRes) /\ Sums(regRes, S, rows, cols, b0, 0)
  BY <1>1, ScalingSums, ItemSized
<1>3. Holds(c, PlacesOf(S, rows, cols), b0, d, b0)
  BY HoldsNone
<1> QED
  BY <1>1, <1>2, <1>3 DEF LoopInv

\* What the invariant says that does not change with the launch.
LEMMA LoopSame ==
    ASSUME launch' = launch, NEW S, NEW rows, NEW cols
    PROVE  /\ Shape(S, rows, cols)' <=> Shape(S, rows, cols)
           /\ \A f : Typed(f)' <=> Typed(f)
           /\ \A f, b, n : Sums(f, S, rows, cols, b, n)' <=> Sums(f, S, rows, cols, b, n)
           /\ \A f, Q, b0, d, b : Holds(f, Q, b0, d, b)' <=> Holds(f, Q, b0, d, b)
<1>1. Y!RegCols' = Y!RegCols /\ Y!RegRows' = Y!RegRows
  BY DEF Y!RegCols, Y!RegRows
<1>2. Shape(S, rows, cols)' <=> Shape(S, rows, cols)
  BY <1>1 DEF Shape
<1>3. ASSUME NEW f PROVE Typed(f)' <=> Typed(f)
  BY <1>1 DEF Typed, IsAccumulator
<1>4. ASSUME NEW f, NEW b, NEW n
      PROVE  Sums(f, S, rows, cols, b, n)' <=> Sums(f, S, rows, cols, b, n)
  <2>1. ASSUME NEW r, NEW q PROVE SumOf(b, r, q, n)' = SumOf(b, r, q, n)
    BY DEF SumOf, Sum, AddressesA, AddressesB, Y!StridedA, Y!StridedB, Y!StridedC, Y!ASize,
       Y!BSize, Y!CSize, Y!Address
  <2> QED
    BY <2>1 DEF Sums
<1>5. ASSUME NEW f, NEW Q, NEW b0, NEW d, NEW b
      PROVE  Holds(f, Q, b0, d, b)' <=> Holds(f, Q, b0, d, b)
  BY LaunchSame DEF Holds, ShareAt
<1> QED
  BY <1>2, <1>3, <1>4, <1>5

\* A step of the products.
LEMMA LoopComputes ==
    ASSUME NEW S, NEW rows, NEW cols, NEW b0, NEW d, LoopInv(S, rows, cols, b0, d),
           pc = "run", NEW e \in 0 .. launch.k, launch.k - k <= e, NEW o \in Int, NEW p,
           FeedsAll(p, o, S, rows, cols, batch, launch.k - k, e), MadAll(regRes', p, regRes),
           k' = launch.k - e, UNCHANGED <<launch, pc, batch, c>>
    PROVE  LoopInv(S, rows, cols, b0, d)'
<1>1. /\ launch.k \in Nat /\ batch \in Nat /\ k \in 0 .. launch.k /\ launch.k - k \in Nat
      /\ launch \in ItemLaunches
  BY StridedSizes DEF LoopInv, Reached
<1>2. PICK b \in Nat, n \in Nat : b = batch /\ n = launch.k - k
  BY <1>1
<1>0. PICK f, g : f = regRes /\ g = regRes'
  OBVIOUS
<1>3. Typed(g) /\ Sums(g, S, rows, cols, b, e)
  <2>1. /\ Shape(S, rows, cols) /\ Typed(f) /\ Sums(f, S, rows, cols, b, n) /\ b \in Nat
        /\ n <= e
    BY <1>0, <1>1, <1>2 DEF LoopInv
  <2>2. FeedsAll(p, o, S, rows, cols, b, n, e)
    BY <1>0, <1>2
  <2>3. MadAll(g, p, f)
    BY <1>0, <1>2
  <2> QED
    BY <1>1, <2>1, <2>2, <2>3, MadSums, ItemSized
<1>4. Typed(regRes)' /\ Sums(regRes, S, rows, cols, batch, launch.k - k)'
  <2>1. Typed(g)' /\ Sums(g, S, rows, cols, b, e)'
    BY <1>3, LoopSame
  <2>2. (launch.k - k)' = e /\ g = regRes' /\ b = batch'
    BY <1>0, <1>1, <1>2
  <2> QED
    <3>1. Typed(regRes)'
      BY <2>1, <2>2 DEF Typed
    <3>2. Sums(regRes, S, rows, cols, batch, launch.k - k)'
      BY <2>1, <2>2 DEF Sums
    <3> QED
      BY <3>1, <3>2
<1>5. (k \in 0 .. launch.k)' /\ (launch \in ItemLaunches)' /\ Shape(S, rows, cols)'
  BY <1>1, LoopSame DEF LoopInv
<1>6. Holds(c, PlacesOf(S, rows, cols), b0, d, batch)'
  BY LaunchSame DEF LoopInv, Holds, ShareAt
<1> QED
  BY <1>4, <1>5, <1>6 DEF LoopInv, Reached

\* store, and the next batch.
LEMMA LoopStores ==
    ASSUME NEW S, NEW rows, NEW cols, NEW b0, NEW d, LoopInv(S, rows, cols, b0, d),
           pc = "run", k = 0,
           NEW w, Written(w, S, rows, cols, batch, regRes),
           c' = Over(w, c) \/ (S = {} /\ c' = c),
           batch' = batch + d, k' = launch.k, regRes' = Scaling(S, rows, cols, batch + d),
           pc' = IF batch' < launch.batchSize THEN "run" ELSE "done", launch' = launch
    PROVE  LoopInv(S, rows, cols, b0, d)'
<1>1. /\ launch.k \in Nat /\ batch \in Nat /\ launch.k - k = launch.k /\ d \in Nat
      /\ launch \in ItemLaunches /\ batch \in 0 .. launch.batchSize - 1
      /\ Shape(S, rows, cols) /\ Reached(b0, d, batch)
  BY StridedSizes DEF LoopInv, Reached
<1>2. PICK b \in Nat : b = batch
  BY <1>1
<1>0. PICK f, g, h : f = regRes /\ g = c /\ h = c'
  OBVIOUS
<1>3. Holds(h, PlacesOf(S, rows, cols), b0, d, b + d)
  <2>1. Sums(f, S, rows, cols, b, launch.k) /\ b \in 0 .. launch.batchSize - 1
    BY <1>0, <1>1, <1>2 DEF LoopInv
  <2>2. Written(w, S, rows, cols, b, f)
    BY <1>0, <1>2
  <2>3. Places(PlacesOf(S, rows, cols)) /\ OneMore(h, g, PlacesOf(S, rows, cols), b)
    <3>1. CASE h = Over(w, g)
      BY <1>1, <2>1, <2>2, <3>1, StoreSums, ItemSized
    <3>2. CASE S = {} /\ h = g
      <4>1. PlacesOf(S, rows, cols) = {}
        BY <3>2 DEF PlacesOf
      <4> QED
        BY <3>2, <4>1 DEF Places, OneMore
    <3> QED
      BY <1>0, <3>1, <3>2
  <2>4. Holds(g, PlacesOf(S, rows, cols), b0, d, b) /\ Reached(b0, d, b) /\ b < launch.batchSize
    BY <1>0, <1>1, <1>2 DEF LoopInv
  <2> QED
    BY <1>1, <2>3, <2>4, HoldsOneMore
<1>4. Holds(c, PlacesOf(S, rows, cols), b0, d, batch)'
  BY <1>0, <1>2, <1>3, LaunchSame DEF Holds, ShareAt
<1>5. PICK b2 \in Nat : b2 = batch + d
  BY <1>1
<1>9. PICK f2 : f2 = Scaling(S, rows, cols, b2)
  OBVIOUS
<1>6. Typed(regRes)' /\ Sums(regRes, S, rows, cols, batch, launch.k - k)'
  <2>1. Typed(f2) /\ Sums(f2, S, rows, cols, b2, 0)
    BY <1>1, <1>9, ScalingSums, ItemSized
  <2>2. Typed(f2)' /\ Sums(f2, S, rows, cols, b2, 0)'
    BY <2>1, LoopSame
  <2>3. (launch.k - k)' = 0 /\ f2 = regRes' /\ b2 = batch'
    BY <1>1, <1>5, <1>9
  <2> QED
    <3>1. Typed(regRes)'
      BY <2>2, <2>3 DEF Typed
    <3>2. Sums(regRes, S, rows, cols, batch, launch.k - k)'
      BY <2>2, <2>3 DEF Sums
    <3> QED
      BY <3>1, <3>2
<1>7. (k \in 0 .. launch.k)' /\ (launch \in ItemLaunches)' /\ Shape(S, rows, cols)'
  BY <1>1, LoopSame
<1>8. Reached(b0, d, batch)'
  <2>1. Reached(b0, d, batch + d)
    BY <1>1, NextReached
  <2> QED
    BY <2>1 DEF Reached
<1> QED
  BY <1>4, <1>6, <1>7, <1>8 DEF LoopInv

\* What the invariant comes to.
LEMMA LoopDone ==
    ASSUME NEW S, NEW rows, NEW cols, NEW b0, NEW d, LoopInv(S, rows, cols, b0, d)
    PROVE  /\ batch \in Nat /\ Typed(regRes)
           /\ DOMAIN c \subseteq 0 .. launch.batchSize * Y!CSize - 1
           /\ pc = "done" => Complete(c, ShareAt(PlacesOf(S, rows, cols), b0, d))
<1>1. /\ batch \in Nat /\ Typed(regRes) /\ launch \in ItemLaunches /\ launch.batchSize \in Nat
      /\ Holds(c, PlacesOf(S, rows, cols), b0, d, batch)
      /\ pc = "done" => batch >= launch.batchSize
  BY StridedSizes DEF LoopInv, Reached
<1> QED
  BY <1>1, HoldsWithin, HoldsAll

-------------------------------------------------------------------------------
(***************************************************************************)
(* The kernel with full vectorisation                                      *)
(***************************************************************************)

\* The coordinates of an item: those of its group in the grid, its own in the
\* group.
Coordinate(cluster, perRow, wr, group, item, a, d, x, y) ==
    /\ a = (group % cluster) % perRow /\ d = (group % cluster) \div perRow
    /\ x = item % wr /\ y = item \div wr

LEMMA ItemCoordinates ==
    ASSUME NEW cluster \in Nat \ {0}, NEW perRow \in Nat \ {0}, NEW wr \in Nat \ {0},
           NEW wc \in Nat \ {0}, NEW group \in Nat, NEW item \in 0 .. wr * wc - 1
    PROVE  \E a, d \in Nat, x \in 0 .. wr - 1, y \in 0 .. wc - 1 :
               Coordinate(cluster, perRow, wr, group, item, a, d, x, y)
<1>1. PICK z \in Nat : z = group % cluster
  OBVIOUS
<1>2. z % perRow \in Nat /\ z \div perRow \in Nat
  BY DivMod
<1>3. item % wr \in 0 .. wr - 1 /\ item \div wr \in 0 .. wc - 1
  BY InGroup
<1> QED
  BY <1>1, <1>2, <1>3 DEF Coordinate

\* A group starts with a batch of its own.
LEMMA FirstReached ==
    ASSUME NEW group \in Nat, NEW cluster \in Nat \ {0}, NEW d \in Nat \ {0}
    PROVE  Reached(group \div cluster, d, group \div cluster)
<1>1. PICK q \in Nat : q = group \div cluster
  BY DivMod
<1>2. (q - q) % d = 0
  <2>1. q - q = 0 /\ 0 = d * 0 + 0 /\ 0 \in 0 .. d - 1 /\ 0 \in Nat
    OBVIOUS
  <2> QED
    BY <2>1, DivModUnique
<1> QED
  BY <1>1, <1>2 DEF Reached

FullPlace == F!Place(launch.group, launch.item)
FullRows == [r \in Y!RegRows |-> F!RowOf(FullPlace, r)]
FullCols == [j \in Y!RegCols |-> F!ColOf(FullPlace, j)]

FullLaunch ==
    /\ launch \in FullVecLaunches
    /\ launch.group \in F!Groups /\ launch.item \in F!Items

\* Where the registers of an item are.
LEMMA FullVecPlace ==
    ASSUME FullLaunch
    PROVE  /\ launch \in ItemLaunches
           /\ FullPlace.packet \in Nat \ {0} /\ FullPlace.row \in Nat /\ FullPlace.col \in Nat
           /\ \A r \in Y!RegRows : FullRows[r] \in Nat /\ FullRows[r] >= FullPlace.row
           /\ \A j \in Y!RegCols : FullCols[j] \in Nat /\ FullCols[j] >= FullPlace.col
           /\ FullPlace.internal => /\ \A r \in Y!RegRows : FullRows[r] < launch.m
                                    /\ \A j \in Y!RegCols : FullCols[j] < launch.n
           /\ ~FullPlace.internal =>
                 /\ FullPlace.packet = 1
                 /\ \A r \in Y!RegRows : FullRows[r] = FullPlace.row + r * launch.wgRows
                 /\ \A j \in Y!RegCols : FullCols[j] = FullPlace.col + j * launch.wgCols
           /\ Reached(F!WgBatchId(launch.group), F!BatchStride, F!WgBatchId(launch.group))
<1> USE DEF FullLaunch
<1> DEFINE p == FullPlace
           v == p.packet
<1>1. /\ launch \in ItemLaunches
      /\ launch.packet = 1 \/ (launch.itemRows = launch.packet /\ launch.itemCols = launch.packet)
  BY GemmKernelsAssumption DEF ItemLaunches, GemmKernelsAssumption, F!FullVecAssumption
<1>2. /\ launch.wgRows \in Nat \ {0} /\ launch.wgCols \in Nat \ {0}
      /\ launch.itemRows \in Nat \ {0} /\ launch.itemCols \in Nat \ {0}
      /\ launch.packet \in Nat \ {0} /\ launch.m \in Nat /\ launch.n \in Nat
  BY <1>1, ItemSizes
<1>3. PICK wr \in Nat \ {0}, wc \in Nat \ {0}, ir \in Nat \ {0}, ic \in Nat \ {0},
           m \in Nat, n \in Nat :
          /\ wr = launch.wgRows /\ wc = launch.wgCols
          /\ ir = launch.itemRows /\ ic = launch.itemCols /\ m = launch.m /\ n = launch.n
  BY <1>2
<1>4. /\ launch.group \in Nat /\ F!WorkgroupCluster \in Nat \ {0} /\ F!BlocksPerRow \in Nat \ {0}
      /\ F!BatchStride \in Nat \ {0}
  BY FullVecGrid DEF F!Groups
<1>5. PICK a \in Nat, d \in Nat, il \in 0 .. wr - 1, jl \in 0 .. wc - 1 :
          Coordinate(F!WorkgroupCluster, F!BlocksPerRow, wr, launch.group, launch.item, a, d, il, jl)
  BY <1>3, <1>4, ItemCoordinates DEF F!Items
<1>6. PICK s \in Nat \ {0}, t \in Nat \ {0} : s = wr * ir /\ t = wc * ic
  OBVIOUS
<1>7. /\ p.internal => v = launch.packet /\ v = ir /\ v = ic /\ m >= a * s + s /\ n >= d * t + t
      /\ ~p.internal => v = 1
      /\ p.row = a * s + il * v
      /\ p.col = d * t + jl * (IF launch.transB THEN v ELSE 1)
      /\ p.internal \in BOOLEAN
  <2>1. PICK x \in Nat, y \in Nat : x = a * s /\ y = d * t
    BY <1>6
  <2>2. /\ p.internal <=> launch.packet # 1 /\ m - x >= s /\ n - y >= t
        /\ v = IF p.internal THEN launch.packet ELSE 1
        /\ p.row = x + il * v /\ p.col = y + jl * (IF launch.transB THEN v ELSE 1)
        /\ p.internal \in BOOLEAN
    BY <1>3, <1>5, <1>6, <2>1 DEF FullPlace, F!Place, F!BlockRows, F!BlockCols, Coordinate
  <2> QED
    BY <1>1, <1>3, <1>6, <2>1, <2>2
<1>8. v \in Nat \ {0}
  BY <1>2, <1>7
<1>9. p.row \in Nat /\ p.col \in Nat
  <2>1. a * s + il * v \in Nat /\ d * t + jl * v \in Nat /\ d * t + jl * 1 \in Nat
    BY <1>6, <1>8
  <2> QED
    BY <1>7, <2>1
<1>10. /\ \A r \in Y!RegRows : FullRows[r] = p.row + (r \div v) * wr * v + (r % v)
       /\ \A j \in Y!RegCols :
             FullCols[j] = p.col + j * (IF p.internal /\ launch.transB THEN 1 ELSE wc)
  BY <1>3 DEF FullRows, FullCols, F!RowOf, F!ColOf
<1>11. Y!RegRows = 0 .. ir - 1 /\ Y!RegCols = 0 .. ic - 1
  BY <1>3 DEF Y!RegRows, Y!RegCols
<1> HIDE DEF p
<1>12. CASE p.internal
  <2>1. ASSUME NEW r \in 0 .. ir - 1
        PROVE  FullRows[r] = p.row + r /\ FullRows[r] < m
    <3>1. r = v * 0 + r /\ r \in 0 .. v - 1 /\ r \in Nat
      BY <1>7, <1>8, <1>12
    <3>2. r \div v = 0 /\ r % v = r
      BY <1>8, <3>1, DivModUnique
    <3>3. FullRows[r] = p.row + r
      <4>1. 0 * wr * v = 0
        BY <1>8
      <4>2. FullRows[r] = p.row + (r \div v) * wr * v + (r % v)
        BY <1>10, <1>11
      <4>3. FullRows[r] = p.row + 0 * wr * v + r
        BY <3>2, <4>2
      <4> QED
        BY <1>9, <3>1, <4>1, <4>3
    <3>4. v * il + r \in 0 .. wr * v - 1
      BY <1>8, <3>1, DigitsFit
    <3>5. v * il = il * v /\ wr * v = s /\ a * s \in Nat /\ il * v \in Nat
      <4>1. wr * v = s
        BY <1>6, <1>7, <1>12
      <4>2. il \in Nat /\ v \in Nat
        BY <1>8
      <4> QED
        BY <4>1, <4>2
    <3> QED
      BY <1>7, <1>12, <3>1, <3>3, <3>4, <3>5, <1>6
  <2>2. ASSUME NEW j \in 0 .. ic - 1
        PROVE  FullCols[j] \in Nat /\ FullCols[j] >= p.col /\ FullCols[j] < n
    <3>1. CASE launch.transB
      <4>1. FullCols[j] = p.col + j
        BY <1>10, <1>11, <1>12, <3>1
      <4>2. v * jl + j \in 0 .. wc * v - 1
        BY <1>7, <1>8, <1>12, DigitsFit
      <4>3. v * jl = jl * v /\ wc * v = t /\ d * t \in Nat /\ jl * v \in Nat
        BY <1>6, <1>7, <1>8, <1>12
      <4>4. p.col = d * t + jl * v
        BY <1>7, <3>1
      <4> QED
        BY <1>6, <1>7, <1>12, <4>1, <4>2, <4>3, <4>4
    <3>2. CASE ~launch.transB
      <4>1. FullCols[j] = p.col + j * wc
        BY <1>10, <1>11, <1>12, <3>2
      <4>2. wc * j + jl \in 0 .. ic * wc - 1
        BY DigitsFit
      <4>3. wc * j = j * wc /\ ic * wc = t /\ d * t \in Nat /\ j * wc \in Nat
        BY <1>6
      <4>4. p.col = d * t + jl
        BY <1>7, <3>2
      <4> QED
        BY <1>6, <1>7, <1>12, <4>1, <4>2, <4>3, <4>4
    <3> QED
      BY <3>1, <3>2
  <2>3. \A r \in 0 .. ir - 1 : FullRows[r] \in Nat /\ FullRows[r] >= p.row /\ FullRows[r] < m
    BY <1>9, <2>1
  <2> QED
    BY <1>1, <1>3, <1>4, <1>8, <1>9, <1>11, <1>12, <2>2, <2>3, FirstReached DEF p, F!WgBatchId
<1>13. CASE ~p.internal
  <2>1. ASSUME NEW r \in 0 .. ir - 1
        PROVE  FullRows[r] = p.row + r * wr /\ r * wr \in Nat
    <3>1. v = 1 /\ r \in Nat /\ r = 1 * r + 0 /\ 0 \in 0 .. 1 - 1
      BY <1>7, <1>13
    <3>2. r \div v = r /\ r % v = 0
      BY <1>8, <3>1, DivModUnique
    <3>3. r * wr \in Nat /\ r * wr * 1 = r * wr
      BY <3>1
    <3> QED
      BY <1>9, <1>10, <1>11, <3>1, <3>2, <3>3
  <2>2. ASSUME NEW j \in 0 .. ic - 1
        PROVE  FullCols[j] = p.col + j * wc /\ j * wc \in Nat
    BY <1>9, <1>10, <1>11, <1>13
  <2>3. /\ \A r \in Y!RegRows : FullRows[r] = p.row + r * launch.wgRows
                                /\ FullRows[r] \in Nat /\ FullRows[r] >= p.row
        /\ \A j \in Y!RegCols : FullCols[j] = p.col + j * launch.wgCols
                                /\ FullCols[j] \in Nat /\ FullCols[j] >= p.col
    <3>2. ASSUME NEW r \in Y!RegRows
          PROVE  FullRows[r] = p.row + r * launch.wgRows
                 /\ FullRows[r] \in Nat /\ FullRows[r] >= p.row
      <4>1. PICK x : x = r * wr
        OBVIOUS
      <4>2. FullRows[r] = p.row + x /\ x \in Nat
        BY <1>11, <2>1, <4>1
      <4>3. x = r * launch.wgRows
        BY <1>3, <4>1
      <4> QED
        BY <1>9, <4>2, <4>3
    <3>3. ASSUME NEW j \in Y!RegCols
          PROVE  FullCols[j] = p.col + j * launch.wgCols
                 /\ FullCols[j] \in Nat /\ FullCols[j] >= p.col
      <4>1. PICK x : x = j * wc
        OBVIOUS
      <4>2. FullCols[j] = p.col + x /\ x \in Nat
        BY <1>11, <2>2, <4>1
      <4>3. x = j * launch.wgCols
        BY <1>3, <4>1
      <4> QED
        BY <1>9, <4>2, <4>3
    <3> QED
      BY <3>2, <3>3
  <2>4. Reached(F!WgBatchId(launch.group), F!BatchStride, F!WgBatchId(launch.group))
    BY <1>4, FirstReached DEF F!WgBatchId
  <2> QED
    BY <1>1, <1>7, <1>8, <1>9, <1>13, <2>3, <2>4 DEF p
<1> QED
  BY <1>12, <1>13

LEMMA FullMax ==
    ASSUME NEW x \in Int
    PROVE  F!Max({x, 0}) = IF x >= 0 THEN x ELSE 0
<1> DEFINE y == IF x >= 0 THEN x ELSE 0
<1>1. y \in {x, 0} /\ \A z \in {x, 0} : y >= z
  OBVIOUS
<1>2. F!Max({x, 0}) \in {x, 0} /\ \A z \in {x, 0} : F!Max({x, 0}) >= z
  BY <1>1 DEF F!Max
<1> QED
  BY <1>1, <1>2

\* Nothing is stored out of range, and what is stored is in C.
LEMMA FullVecShape ==
    ASSUME FullLaunch
    PROVE  /\ Shape(F!Stored, FullRows, FullCols)
           /\ F!Stored # {} => FullPlace.row < launch.m /\ FullPlace.col < launch.n
<1>1. F!Stored = {x \in Y!RegCols \X Y!RegRows :
                     \/ FullPlace.internal
                     \/ FullRows[x[2]] < launch.m /\ FullCols[x[1]] < launch.n}
  BY DEF F!Stored, F!StoredAt, FullPlace, FullRows, FullCols, Y!RegRows, F!RegRows, Y!RegCols,
     F!RegCols
<1>2. launch.m \in Nat /\ launch.n \in Nat
  BY FullVecPlace, ItemSizes
<1>3. ASSUME NEW x \in F!Stored
      PROVE  /\ x \in Y!RegCols \X Y!RegRows
             /\ FullRows[x[2]] \in 0 .. launch.m - 1 /\ FullCols[x[1]] \in 0 .. launch.n - 1
             /\ FullRows[x[2]] >= FullPlace.row /\ FullCols[x[1]] >= FullPlace.col
             /\ FullPlace.row \in Nat /\ FullPlace.col \in Nat
  BY <1>1, <1>2, FullVecPlace
<1>4. F!Stored # {} => FullPlace.row < launch.m /\ FullPlace.col < launch.n
  BY <1>2, <1>3
<1> QED
  BY <1>3, <1>4 DEF Shape

FullInv ==
    /\ FullLaunch /\ block = FullPlace
    /\ \E S, rows, cols, b0, d :
          /\ S = F!Stored /\ rows = FullRows /\ cols = FullCols
          /\ b0 = F!WgBatchId(launch.group) /\ d = F!BatchStride
          /\ LoopInv(S, rows, cols, b0, d)

\* scaling_c of the kernel.
LEMMA FullScaling ==
    ASSUME FullLaunch, block = FullPlace, NEW b
    PROVE  F!ScalingC(b) = Scaling(F!Stored, FullRows, FullCols, b)
<1> DEFINE Value(j, r) ==
               IF launch.betaZero THEN Nothing
               ELSE IF <<j, r>> \notin F!Stored THEN Uninitialised
               ELSE Scaled(Cell(b, FullRows, FullCols, <<j, r>>))
           FValue(j, r) ==
               IF launch.betaZero THEN F!Nothing
               ELSE IF F!OutOfRange \/ <<j, r>> \notin F!Stored THEN F!Uninitialised
               ELSE F!Scaled(F!AddressOfC(b, <<j, r>>))
<1>1. ASSUME NEW j \in Y!RegCols, NEW r \in Y!RegRows
      PROVE  FValue(j, r) = Value(j, r)
  <2>1. F!OutOfRange => F!Stored = {}
    BY FullVecShape, FullVecPlace, ItemSizes DEF F!OutOfRange
  <2>2. F!AddressOfC(b, <<j, r>>) = Cell(b, FullRows, FullCols, <<j, r>>)
    BY DEF F!AddressOfC, Cell, FullRows, FullCols, F!StridedC, Y!StridedC, F!CSize, Y!CSize
  <2>3. /\ F!Nothing = Nothing /\ F!Uninitialised = Uninitialised
        /\ \A x : F!Scaled(x) = Scaled(x)
    BY DEF F!Nothing, Nothing, F!Uninitialised, Uninitialised, F!Scaled, Scaled, F!Garbage, Garbage
  <2> QED
    BY <2>1, <2>2, <2>3
<1>2. F!RegCols = Y!RegCols /\ F!RegRows = Y!RegRows
  BY DEF F!RegCols, Y!RegCols, F!RegRows, Y!RegRows
<1>3. F!ScalingC(b) = [j \in Y!RegCols |-> [r \in Y!RegRows |-> FValue(j, r)]]
  BY <1>2 DEF F!ScalingC
<1>4. Scaling(F!Stored, FullRows, FullCols, b)
        = [j \in Y!RegCols |-> [r \in Y!RegRows |-> Value(j, r)]]
  BY DEF Scaling
<1> HIDE DEF Value, FValue
<1>5. ASSUME NEW j \in Y!RegCols
      PROVE  [r \in Y!RegRows |-> FValue(j, r)] = [r \in Y!RegRows |-> Value(j, r)]
  BY <1>1
<1> QED
  BY <1>3, <1>4, <1>5

LEMMA FullStart == F!Init => FullInv
<1> SUFFICES ASSUME F!Init PROVE FullInv
  OBVIOUS
<1>1. FullLaunch /\ block = FullPlace
  BY DEF F!Init, FullLaunch, FullPlace
<1>2. PICK S, rows, cols : S = F!Stored /\ rows = FullRows /\ cols = FullCols
  OBVIOUS
<1>3. PICK b0, d : b0 = F!WgBatchId(launch.group) /\ d = F!BatchStride
  OBVIOUS
<1>4. /\ launch \in ItemLaunches /\ Shape(S, rows, cols) /\ Reached(b0, d, b0)
  BY <1>1, <1>2, <1>3, FullVecPlace, FullVecShape
<1>5. regRes = Scaling(S, rows, cols, b0)
  <2>1. regRes = F!ScalingC(b0)
    BY <1>3 DEF F!Init
  <2> QED
    BY <1>1, <1>2, <2>1, FullScaling
<1>6. /\ pc = IF b0 < launch.batchSize THEN "run" ELSE "done"
      /\ batch = b0 /\ k = launch.k /\ DOMAIN c = {}
  BY <1>3 DEF F!Init
<1>7. LoopInv(S, rows, cols, b0, d)
  BY <1>4, <1>5, <1>6, LoopStarts
<1> QED
  BY <1>1, <1>2, <1>3, <1>7 DEF FullInv

\* What the items and the registers of a launch are does not change.
LEMMA FullSame ==
    ASSUME launch' = launch, block' = block, FullLaunch, block = FullPlace
    PROVE  /\ FullLaunch' /\ (block = FullPlace)'
           /\ F!Stored' = F!Stored /\ FullRows' = FullRows /\ FullCols' = FullCols
           /\ F!WgBatchId(launch.group)' = F!WgBatchId(launch.group)
           /\ F!BatchStride' = F!BatchStride
<1>1. /\ F!BlockRows' = F!BlockRows /\ F!BlockCols' = F!BlockCols
      /\ F!BlocksPerRow' = F!BlocksPerRow
  BY DEF F!BlockRows, F!BlockCols, F!BlocksPerRow, F!DivUp
<1>2. F!WorkgroupCluster' = F!WorkgroupCluster
  BY <1>1 DEF F!WorkgroupCluster, F!DivUp
<1>3. F!BatchStride' = F!BatchStride
  BY <1>2 DEF F!BatchStride, F!NumWorkgroupCluster, F!DivUp
<1>4. FullLaunch'
  BY <1>2, <1>3 DEF FullLaunch, F!Groups, F!Items, F!BatchStride
<1>5. FullPlace' = FullPlace
  BY <1>1, <1>2 DEF FullPlace, F!Place
<1>6. F!WgBatchId(launch.group)' = F!WgBatchId(launch.group)
  BY <1>2 DEF F!WgBatchId
<1>7. Y!RegCols' = Y!RegCols /\ Y!RegRows' = Y!RegRows
      /\ F!RegCols' = F!RegCols /\ F!RegRows' = F!RegRows
  BY DEF Y!RegCols, Y!RegRows, F!RegCols, F!RegRows
<1>8. FullRows' = FullRows /\ FullCols' = FullCols
  BY <1>5, <1>7 DEF FullRows, FullCols, F!RowOf, F!ColOf
<1>9. F!Stored' = F!Stored
  BY <1>5, <1>7 DEF F!Stored, F!StoredAt, F!RowOf, F!ColOf, FullPlace
<1> QED
  BY <1>3, <1>4, <1>5, <1>6, <1>8, <1>9

\* How far the products of an item have come after a packet of K.
FullEnd == launch.k - F!Max({k - block.packet, 0})

LEMMA FullEndIs ==
    ASSUME FullLaunch, block = FullPlace, k \in 0 .. launch.k, k > 0
    PROVE  /\ FullEnd \in 0 .. launch.k /\ launch.k - k <= FullEnd
           /\ launch.k - FullEnd = F!Max({k - block.packet, 0})
           /\ \A t \in 0 .. block.packet - 1 :
                 F!InK(t) <=> t + (launch.k - k) \in launch.k - k .. FullEnd - 1
           /\ \A x \in launch.k - k .. FullEnd - 1 :
                 x - (launch.k - k) \in 0 .. block.packet - 1
<1>1. PICK z \in Nat, u \in Nat, v \in Nat \ {0} :
          z = launch.k /\ u = k /\ v = block.packet /\ u <= z /\ u > 0
  <2>1. launch \in ItemLaunches /\ block.packet \in Nat \ {0}
    BY FullVecPlace
  <2>2. launch.k \in Nat
    BY <2>1, StridedSizes
  <2> QED
    BY <2>1, <2>2
<1>2. u - v \in Int
  BY <1>1
<1>3. F!Max({u - v, 0}) = IF u - v >= 0 THEN u - v ELSE 0
  BY <1>2, FullMax
<1>4. FullEnd = z - (IF u - v >= 0 THEN u - v ELSE 0)
  BY <1>1, <1>3 DEF FullEnd
<1>5. \A t : F!InK(t) <=> u >= v \/ t < u
  BY <1>1 DEF F!InK
<1> DEFINE e == IF u - v >= 0 THEN z - (u - v) ELSE z
<1>6. FullEnd = e /\ e \in 0 .. z /\ z - u <= e
  BY <1>1, <1>4
<1>7. z - e = IF u - v >= 0 THEN u - v ELSE 0
  BY <1>1
<1>8. ASSUME NEW t \in 0 .. v - 1
      PROVE  (u >= v \/ t < u) <=> t + (z - u) \in z - u .. e - 1
  BY <1>1
<1>9. ASSUME NEW x \in z - u .. e - 1
      PROVE  x - (z - u) \in 0 .. v - 1
  BY <1>1
<1> HIDE DEF e
<1>10. \A t \in 0 .. block.packet - 1 :
          F!InK(t) <=> t + (launch.k - k) \in launch.k - k .. FullEnd - 1
  BY <1>1, <1>5, <1>6, <1>8
<1>11. \A x \in launch.k - k .. FullEnd - 1 : x - (launch.k - k) \in 0 .. block.packet - 1
  BY <1>1, <1>6, <1>9
<1>12. launch.k - FullEnd = F!Max({k - block.packet, 0})
  BY <1>1, <1>3, <1>6, <1>7
<1> QED
  BY <1>1, <1>6, <1>10, <1>11, <1>12

\* The packets of an item, for register x[2] of column x[1].
FullPairs ==
    [x \in Y!RegCols \X Y!RegRows |->
        [t \in 0 .. block.packet - 1 |-> <<F!RegA(x[2], t), F!RegB(x[1], t)>>]]

LEMMA FullFeeds ==
    ASSUME FullLaunch, block = FullPlace, k \in 0 .. launch.k, k > 0
    PROVE  FeedsAll(FullPairs, launch.k - k, F!Stored, FullRows, FullCols, batch,
                    launch.k - k, FullEnd)
<1> DEFINE n == launch.k - k
<1>1. /\ launch \in ItemLaunches /\ launch.k \in Nat /\ n \in Nat
      /\ block.packet \in Nat \ {0} /\ Shape(F!Stored, FullRows, FullCols)
      /\ launch.m \in Nat /\ launch.n \in Nat
  BY FullVecPlace, FullVecShape, StridedSizes
<1>2. ASSUME NEW x \in F!Stored
      PROVE  Feeds(FullPairs[x], n, AddressesA(batch, FullRows[x[2]]),
                   AddressesB(batch, FullCols[x[1]]), n, FullEnd)
  <2>1. PICK j \in Y!RegCols, r \in Y!RegRows : x = <<j, r>>
    BY <1>1 DEF Shape
  <2>2. FullRows[r] \in 0 .. launch.m - 1 /\ FullCols[j] \in 0 .. launch.n - 1
    BY <1>1, <2>1 DEF Shape
  <2>3. ~F!OutOfRange
    BY <1>1, FullVecShape, FullVecPlace DEF F!OutOfRange
  <2>4. ASSUME NEW t
        PROVE  /\ F!LoadsA(r, t) <=> F!InK(t)
               /\ F!LoadsB(j, t) <=> F!InK(t)
    <3>1. CASE block.internal
      BY <3>1 DEF F!LoadsA, F!LoadsB
    <3>2. CASE ~block.internal
      <4>1. /\ FullRows[r] = block.row + r * launch.wgRows
            /\ FullCols[j] = block.col + j * launch.wgCols
            /\ block.row \in Nat /\ block.col \in Nat
            /\ FullRows[r] >= block.row /\ FullCols[j] >= block.col
        BY <3>2, FullVecPlace
      <4>2. block.row + (IF launch.transA THEN r * launch.wgRows ELSE 0) < launch.m
        BY <1>1, <2>2, <4>1
      <4>3. block.col + (IF launch.transB THEN 0 ELSE j * launch.wgCols) < launch.n
        BY <1>1, <2>2, <4>1
      <4> QED
        BY <4>2, <4>3 DEF F!LoadsA, F!LoadsB
    <3> QED
      BY <3>1, <3>2
  <2> DEFINE p == FullPairs[x]
             A == AddressesA(batch, FullRows[r])
             B == AddressesB(batch, FullCols[j])
  <2>5. /\ DOMAIN p = 0 .. block.packet - 1
        /\ \A t \in 0 .. block.packet - 1 : p[t] = <<F!RegA(r, t), F!RegB(j, t)>>
    BY <2>1 DEF FullPairs
  <2>6. ASSUME NEW t \in 0 .. block.packet - 1, F!InK(t)
        PROVE  p[t] = <<FromA(A[t + n]), FromB(B[t + n])>>
    <3>1. t + n \in 0 .. launch.k - 1 /\ t + n = F!KDone + t
      <4>1. t + n \in n .. FullEnd - 1 /\ FullEnd \in 0 .. launch.k
        BY <2>6, FullEndIs
      <4> QED
        BY <1>1, <4>1 DEF F!KDone
    <3>2. /\ F!RegA(r, t) = FromA(F!StridedA(batch, F!RowOf(block, r), F!KDone + t))
          /\ F!RegB(j, t) = FromB(F!StridedB(batch, F!KDone + t, F!ColOf(block, j)))
      BY <2>3, <2>4, <2>6, SameNumbers DEF F!RegA, F!RegB
    <3>3. F!RowOf(block, r) = FullRows[r] /\ F!ColOf(block, j) = FullCols[j]
      BY DEF FullRows, FullCols
    <3>4. /\ A[t + n] = F!StridedA(batch, FullRows[r], F!KDone + t)
          /\ B[t + n] = F!StridedB(batch, F!KDone + t, FullCols[j])
      BY <3>1 DEF AddressesA, AddressesB, F!StridedA, F!StridedB, Y!StridedA, Y!StridedB,
         F!ASize, Y!ASize, F!BSize, Y!BSize, F!Address, Y!Address
    <3> QED
      BY <2>5, <3>2, <3>3, <3>4
  <2>7. ASSUME NEW t \in 0 .. block.packet - 1, ~F!InK(t)
        PROVE  p[t] = <<Zero, Zero>>
    <3>1. F!RegA(r, t) = Zero /\ F!RegB(j, t) = Zero
      BY <2>3, <2>4, <2>7, SameNumbers DEF F!RegA, F!RegB
    <3> QED
      BY <2>5, <3>1
  <2>8. Zero # Garbage
    BY DEF Zero, Garbage
  <2> HIDE DEF p, A, B, n
  <2>9. ASSUME NEW t \in DOMAIN p
        PROVE  /\ t \in Int
               /\ t + n \in n .. FullEnd - 1 => p[t] = <<FromA(A[t + n]), FromB(B[t + n])>>
               /\ t + n \notin n .. FullEnd - 1 =>
                     Zero \in {p[t][1], p[t][2]} /\ Garbage \notin {p[t][1], p[t][2]}
    <3>1. t \in 0 .. block.packet - 1 /\ t \in Int
      BY <2>5, <1>1
    <3>2. F!InK(t) <=> t + n \in n .. FullEnd - 1
      BY <3>1, FullEndIs DEF n
    <3>3. CASE F!InK(t)
      BY <2>6, <3>1, <3>2, <3>3
    <3>4. CASE ~F!InK(t)
      <4>1. p[t][1] = Zero /\ p[t][2] = Zero
        BY <2>7, <3>1, <3>4
      <4> QED
        BY <2>8, <3>1, <3>2, <3>4, <4>1
    <3> QED
      BY <3>3, <3>4
  <2>10. \A y \in n .. FullEnd - 1 : y - n \in DOMAIN p
    BY <2>5, FullEndIs DEF n
  <2>11. Feeds(p, n, A, B, n, FullEnd)
    BY <2>9, <2>10 DEF Feeds
  <2> QED
    BY <2>1, <2>11 DEF p, A, B, n
<1> QED
  BY <1>2 DEF FeedsAll

\* What store writes.
FullStores ==
    [a \in {F!AddressOfC(batch, x) : x \in F!Stored} |->
        LET x == CHOOSE y \in F!Stored : F!AddressOfC(batch, y) = a
        IN regRes[x[1]][x[2]]]

LEMMA FullWritten ==
    ASSUME FullLaunch, block = FullPlace
    PROVE  Written(FullStores, F!Stored, FullRows, FullCols, batch, regRes)
<1>1. ASSUME NEW x \in F!Stored
      PROVE  F!AddressOfC(batch, x) = Cell(batch, FullRows, FullCols, x)
  <2>1. x[2] \in Y!RegRows /\ x[1] \in Y!RegCols
    BY FullVecShape DEF Shape
  <2> QED
    BY <2>1 DEF F!AddressOfC, Cell, FullRows, FullCols, F!StridedC, Y!StridedC, F!CSize, Y!CSize
<1>2. DOMAIN FullStores = {Cell(batch, FullRows, FullCols, x) : x \in F!Stored}
  BY <1>1 DEF FullStores
<1>3. ASSUME NEW a \in DOMAIN FullStores
      PROVE  \E x \in F!Stored : /\ Cell(batch, FullRows, FullCols, x) = a
                                 /\ FullStores[a] = regRes[x[1]][x[2]]
  <2> DEFINE x == CHOOSE y \in F!Stored : F!AddressOfC(batch, y) = a
  <2>1. \E y \in F!Stored : F!AddressOfC(batch, y) = a
    BY DEF FullStores
  <2>2. x \in F!Stored /\ F!AddressOfC(batch, x) = a
    BY <2>1
  <2>3. FullStores[a] = regRes[x[1]][x[2]]
    BY DEF FullStores
  <2> HIDE DEF x
  <2> QED
    BY <1>1, <2>2, <2>3
<1> QED
  BY <1>2, <1>3 DEF Written

LEMMA FullStep == ASSUME FullInv, F!Next PROVE FullInv'
<1>1. FullLaunch /\ block = FullPlace
  BY DEF FullInv
<1>2. PICK S, rows, cols, b0, d :
          /\ S = F!Stored /\ rows = FullRows /\ cols = FullCols
          /\ b0 = F!WgBatchId(launch.group) /\ d = F!BatchStride
          /\ LoopInv(S, rows, cols, b0, d)
  BY DEF FullInv
<1>3. launch' = launch /\ block' = block
  BY DEF F!Next, F!Compute, F!Store
<1>4. F!RegCols = Y!RegCols /\ F!RegRows = Y!RegRows
  BY DEF F!RegCols, Y!RegCols, F!RegRows, Y!RegRows
<1>5. ASSUME F!Compute PROVE LoopInv(S, rows, cols, b0, d)'
  <2>1. pc = "run" /\ k \in 0 .. launch.k /\ k > 0
    BY <1>2, <1>5 DEF F!Compute, LoopInv
  <2>2. FeedsAll(FullPairs, launch.k - k, S, rows, cols, batch, launch.k - k, FullEnd)
    BY <1>1, <1>2, <2>1, FullFeeds
  <2>3. MadAll(regRes', FullPairs, regRes)
    <3>1. regRes' = [j \in Y!RegCols |-> [r \in Y!RegRows |->
                        Mad([t \in 0 .. block.packet - 1 |-> <<F!RegA(r, t), F!RegB(j, t)>>],
                            regRes[j][r])]]
      BY <1>4, <1>5, SameNumbers DEF F!Compute, F!Multiplied
    <3>2. ASSUME NEW j \in Y!RegCols, NEW r \in Y!RegRows
          PROVE  regRes'[j][r] = Mad(FullPairs[<<j, r>>], regRes[j][r])
      <4>1. FullPairs[<<j, r>>]
              = [t \in 0 .. block.packet - 1 |-> <<F!RegA(r, t), F!RegB(j, t)>>]
        BY DEF FullPairs
      <4> QED
        BY <3>1, <4>1
    <3>3. DOMAIN regRes' = Y!RegCols /\ \A j \in Y!RegCols : DOMAIN regRes'[j] = Y!RegRows
      BY <3>1
    <3> QED
      BY <3>2, <3>3 DEF MadAll
  <2>4. PICK e \in 0 .. launch.k, o \in Int : e = FullEnd /\ o = launch.k - k
    <3>1. launch.k - k \in Int
      BY <1>1, <2>1, FullVecPlace, StridedSizes
    <3> QED
      BY <1>1, <2>1, <3>1, FullEndIs
  <2>6. PICK p : p = FullPairs
    OBVIOUS
  <2>5. k' = launch.k - e /\ launch.k - k <= e /\ UNCHANGED <<launch, pc, batch, c>>
    BY <1>1, <1>5, <2>1, <2>4, FullEndIs DEF F!Compute
  <2> QED
    BY <1>2, <2>1, <2>2, <2>3, <2>4, <2>5, <2>6, LoopComputes
<1>6. ASSUME F!Store PROVE LoopInv(S, rows, cols, b0, d)'
  <2>1. /\ pc = "run" /\ k = 0 /\ k' = launch.k
        /\ batch' = batch + d /\ regRes' = F!ScalingC(batch')
        /\ pc' = IF batch' < launch.batchSize THEN "run" ELSE "done"
        /\ c' = F!StoredC
    BY <1>2, <1>6 DEF F!Store
  <2>2. PICK w : w = FullStores /\ Written(w, S, rows, cols, batch, regRes)
    BY <1>1, <1>2, FullWritten
  <2>3. c' = Over(w, c) \/ (S = {} /\ c' = c)
    <3>1. CASE F!OutOfRange
      <4>1. ~(FullPlace.row < launch.m /\ FullPlace.col < launch.n)
        <5>1. FullPlace.row \in Nat /\ FullPlace.col \in Nat
              /\ launch.m \in Nat /\ launch.n \in Nat
          BY <1>1, FullVecPlace, ItemSizes
        <5> QED
          BY <1>1, <3>1, <5>1 DEF F!OutOfRange
      <4>2. S = {}
        BY <1>1, <1>2, <4>1, FullVecShape
      <4> QED
        BY <2>1, <3>1, <4>2 DEF F!StoredC
    <3>2. CASE ~F!OutOfRange
      <4>1. F!StoredC = F!Over(FullStores, c)
        BY <3>2 DEF F!StoredC, FullStores
      <4>2. F!Over(FullStores, c) = Over(FullStores, c)
        BY DEF F!Over, Over
      <4> QED
        BY <2>1, <2>2, <4>1, <4>2
    <3> QED
      BY <3>1, <3>2
  <2>4. regRes' = Scaling(S, rows, cols, batch + d)
    <3>1. PICK b : b = batch + d
      OBVIOUS
    <3>2. F!ScalingC(b) = Scaling(S, rows, cols, b)
      BY <1>1, <1>2, FullScaling
    <3>3. regRes' = F!ScalingC(b)
      BY <2>1, <3>1 DEF F!ScalingC
    <3> QED
      BY <3>1, <3>2, <3>3
  <2> QED
    BY <1>2, <1>3, <2>1, <2>2, <2>3, <2>4, LoopStores
<1>7. LoopInv(S, rows, cols, b0, d)'
  BY <1>5, <1>6 DEF F!Next
<1>8. /\ FullLaunch' /\ (block = FullPlace)'
      /\ S = F!Stored' /\ rows = FullRows' /\ cols = FullCols'
      /\ b0 = F!WgBatchId(launch.group)' /\ d = F!BatchStride'
  BY <1>1, <1>2, <1>3, FullSame
<1> QED
  BY <1>7, <1>8 DEF FullInv

\* An item returns with its share of the elements of C.
LEMMA FullExact ==
    ASSUME FullInv
    PROVE  F!TypeOK /\ F!ItemExact
<1>1. FullLaunch /\ block = FullPlace
  BY DEF FullInv
<1>2. PICK S, rows, cols, b0, d :
          /\ S = F!Stored /\ rows = FullRows /\ cols = FullCols
          /\ b0 = F!WgBatchId(launch.group) /\ d = F!BatchStride
          /\ LoopInv(S, rows, cols, b0, d)
  BY DEF FullInv
<1>3. /\ batch \in Nat /\ Typed(regRes)
      /\ DOMAIN c \subseteq 0 .. launch.batchSize * Y!CSize - 1
      /\ pc = "done" => Complete(c, ShareAt(PlacesOf(S, rows, cols), b0, d))
  BY <1>2, LoopDone
<1>4. F!TypeOK
  BY <1>2, <1>3 DEF LoopInv, Typed, F!TypeOK, F!CSize, Y!CSize, F!IsAccumulator, IsAccumulator
<1>5. F!ItemShare(launch.group, launch.item) = ShareAt(PlacesOf(S, rows, cols), b0, d)
  <2>1. F!Elements = Y!Elements /\ Reached(b0, d, b0)
    BY <1>1, <1>2, FullVecPlace DEF F!Elements, Y!Elements
  <2>2. ASSUME NEW e \in Y!Elements
        PROVE  e \in F!ItemShare(launch.group, launch.item)
                 <=> Reached(b0, d, e[1]) /\ <<e[2], e[3]>> \in PlacesOf(S, rows, cols)
    <3>1. e[1] \in Nat
      BY DEF Y!Elements
    <3>2. e \in F!ItemShare(launch.group, launch.item)
            <=> /\ FullPlace.row < launch.m /\ FullPlace.col < launch.n
                /\ Reached(b0, d, e[1])
                /\ \E x \in S : e[2] = F!RowOf(FullPlace, x[2]) /\ e[3] = F!ColOf(FullPlace, x[1])
      BY <1>2, <2>1, <3>1 DEF F!ItemShare, FullPlace, F!Stored, Reached
    <3>3. ASSUME NEW x \in S
          PROVE  /\ FullPlace.row < launch.m /\ FullPlace.col < launch.n
                 /\ F!RowOf(FullPlace, x[2]) = rows[x[2]] /\ F!ColOf(FullPlace, x[1]) = cols[x[1]]
      <4>1. x[2] \in Y!RegRows /\ x[1] \in Y!RegCols
        BY <1>1, <1>2, FullVecShape DEF Shape
      <4> QED
        BY <1>1, <1>2, <4>1, FullVecShape DEF FullRows, FullCols
    <3> QED
      BY <3>2, <3>3 DEF PlacesOf
  <2>3. F!ItemShare(launch.group, launch.item) \subseteq Y!Elements
    BY <2>1 DEF F!ItemShare
  <2> QED
    BY <2>2, <2>3 DEF ShareAt
<1>6. \A e : /\ F!StridedC(e[1], e[2], e[3]) = CellOf(e)
             /\ F!StridedProduct(e) = Y!StridedProduct(e)
  BY DEF F!StridedC, Y!StridedC, CellOf, F!CSize, Y!CSize, F!StridedProduct, Y!StridedProduct,
         F!Product, Y!Product, F!StridedA, Y!StridedA, F!StridedB, Y!StridedB, F!ASize, Y!ASize,
         F!BSize, Y!BSize, F!Address, Y!Address, F!FromA, Y!FromA, F!FromB, Y!FromB
<1>7. F!ItemExact
  BY <1>3, <1>5, <1>6 DEF F!ItemExact, Complete
<1> QED
  BY <1>4, <1>7

-------------------------------------------------------------------------------
(***************************************************************************)
(* The kernel with partial vectorisation                                   *)
(***************************************************************************)

\* Register r of n of item i of w, in packets of v, of a block that starts at base.
InPackets(w, v, n, i, r, base, start) ==
    /\ w \in Nat \ {0} /\ v \in Nat \ {0} /\ n \in Nat \ {0} /\ n % v = 0
    /\ i \in 0 .. w - 1 /\ r \in 0 .. n - 1
    /\ base \in Nat /\ start \in Nat /\ start = base + i * v

\* A register of an item is in the item's block.
LEMMA SpreadFits ==
    ASSUME NEW w, NEW v, NEW n, NEW i, NEW r, NEW base, NEW start,
           InPackets(w, v, n, i, r, base, start)
    PROVE  /\ P!Spread(start, w, v, r) \in Nat
           /\ P!Spread(start, w, v, r) >= start
           /\ P!Spread(start, w, v, r) < base + w * n
<1> DEFINE x == P!Spread(start, w, v, r)
<1> USE DEF InPackets
<1>1. PICK z \in Nat, t \in Nat : z = r \div v /\ t = r % v
  <2>1. r \in Nat
    OBVIOUS
  <2>2. r \div v \in Nat
    BY <2>1, DivMod
  <2>3. r % v \in Nat
    BY <2>1
  <2> QED
    BY <2>2, <2>3
<1>2. z * w * v \in Nat /\ i * v \in Nat
  OBVIOUS
<1>0. x = start + (r \div v) * w * v + (r % v)
  BY DEF P!Spread
<1>3. PICK y \in Nat : y = i * v + z * w * v + t
  BY <1>1, <1>2
<1>4. HasRegister(w, v, n, i, y)
  BY <1>1, <1>3 DEF HasRegister
<1>5. y < w * n
  BY <1>4, RegisterOf
<1>6. x = base + y
  BY <1>0, <1>1, <1>2, <1>3
<1>9. w * n \in Nat
  OBVIOUS
<1>10. x = start + z * w * v + t
  BY <1>0, <1>1
<1> HIDE DEF x
<1> QED
  <2>1. x \in Nat /\ x >= start /\ x < base + w * n
    BY <1>1, <1>2, <1>5, <1>6, <1>9, <1>10
  <2> QED
    BY <2>1 DEF x

PartPlace == P!Place(launch.group, launch.item)
PartRows == [r \in Y!RegRows |-> P!RowOf(PartPlace, r)]
PartCols == [j \in Y!RegCols |-> P!ColOf(PartPlace, j)]

PartLaunch ==
    /\ launch \in PartialVecLaunches
    /\ launch.group \in P!Groups /\ launch.item \in P!Items

\* Where the registers of an item are.
LEMMA PartialVecPlace ==
    ASSUME PartLaunch
    PROVE  /\ launch \in ItemLaunches
           /\ PartPlace.row \in Nat /\ PartPlace.col \in Nat
           /\ \A r \in Y!RegRows : PartRows[r] \in Nat /\ PartRows[r] >= PartPlace.row
           /\ \A j \in Y!RegCols : PartCols[j] \in Nat /\ PartCols[j] >= PartPlace.col
           /\ PartPlace.internal => /\ \A r \in Y!RegRows : PartRows[r] < launch.m
                                    /\ \A j \in Y!RegCols : PartCols[j] < launch.n
           /\ ~PartPlace.internal => /\ PartPlace.aPacket = 1 /\ PartPlace.bPacket = 1
           /\ Reached(P!WgBatchId(launch.group), P!BatchStride, P!WgBatchId(launch.group))
<1> USE DEF PartLaunch
<1> DEFINE p == PartPlace
           v == p.aPacket
           u == p.bPacket
<1>1. /\ launch \in ItemLaunches
      /\ launch.itemRows % launch.packet = 0 /\ launch.itemCols % launch.packet = 0
  BY GemmKernelsAssumption DEF ItemLaunches, GemmKernelsAssumption, P!PartialVecAssumption
<1>2. /\ launch.wgRows \in Nat \ {0} /\ launch.wgCols \in Nat \ {0}
      /\ launch.itemRows \in Nat \ {0} /\ launch.itemCols \in Nat \ {0}
      /\ launch.packet \in Nat \ {0} /\ launch.m \in Nat /\ launch.n \in Nat
  BY <1>1, ItemSizes
<1>3. PICK wr \in Nat \ {0}, wc \in Nat \ {0}, ir \in Nat \ {0}, ic \in Nat \ {0},
           m \in Nat, n \in Nat :
          /\ wr = launch.wgRows /\ wc = launch.wgCols
          /\ ir = launch.itemRows /\ ic = launch.itemCols /\ m = launch.m /\ n = launch.n
  BY <1>2
<1>4. /\ launch.group \in Nat /\ P!WorkgroupCluster \in Nat \ {0} /\ P!BlocksPerRow \in Nat \ {0}
      /\ P!BatchStride \in Nat \ {0}
  BY PartialVecGrid DEF P!Groups
<1>5. PICK a \in Nat, d \in Nat, il \in 0 .. wr - 1, jl \in 0 .. wc - 1 :
          Coordinate(P!WorkgroupCluster, P!BlocksPerRow, wr, launch.group, launch.item, a, d, il, jl)
  BY <1>3, <1>4, ItemCoordinates DEF P!Items
<1>6. PICK s \in Nat \ {0}, t \in Nat \ {0} : s = wr * ir /\ t = wc * ic
  OBVIOUS
<1>7. PICK x \in Nat, y \in Nat : x = a * s /\ y = d * t
  BY <1>6
<1>8. /\ p.internal => m - x >= s /\ n - y >= t
      /\ ~p.internal => v = 1 /\ u = 1
      /\ v \in {1, launch.packet} /\ u \in {1, launch.packet}
      /\ p.row = x + il * v /\ p.col = y + jl * u
  BY <1>3, <1>5, <1>6, <1>7 DEF PartPlace, P!Place, P!BlockRows, P!BlockCols, Coordinate
<1>9. v \in Nat \ {0} /\ u \in Nat \ {0} /\ ir % v = 0 /\ ic % u = 0
  <2>1. ASSUME NEW z \in Nat PROVE z % 1 = 0
    OBVIOUS
  <2> QED
    BY <1>1, <1>2, <1>3, <1>8, <2>1
<1>10. p.row \in Nat /\ p.col \in Nat
  <2>1. il * v \in Nat /\ jl * u \in Nat
    BY <1>9
  <2> QED
    BY <1>8, <2>1
<1>11. Y!RegRows = 0 .. ir - 1 /\ Y!RegCols = 0 .. ic - 1
  BY <1>3 DEF Y!RegRows, Y!RegCols
<1>12. /\ \A r \in Y!RegRows : PartRows[r] = P!Spread(p.row, wr, v, r)
       /\ \A j \in Y!RegCols : PartCols[j] = P!Spread(p.col, wc, u, j)
  BY <1>3 DEF PartRows, PartCols, P!RowOf, P!ColOf
<1> HIDE DEF p
<1>13. ASSUME NEW r \in Y!RegRows
       PROVE  /\ PartRows[r] \in Nat /\ PartRows[r] >= p.row
              /\ p.internal => PartRows[r] < m
  <2>1. r \in 0 .. ir - 1 /\ PartRows[r] = P!Spread(p.row, wr, v, r)
    BY <1>11, <1>12
  <2>2. p.row \in Nat /\ p.row = x + il * v
    BY <1>8, <1>10
  <2>3. PartRows[r] \in Nat /\ PartRows[r] >= p.row /\ PartRows[r] < x + wr * ir
    <3>1. PICK f \in Nat : f = p.row
      BY <2>2
    <3>4. PICK z : z = PartRows[r]
      OBVIOUS
    <3>2. PICK h \in Nat \ {0} : h = v /\ ir % h = 0
      BY <1>9
    <3>3. z = P!Spread(f, wr, h, r) /\ f = x + il * h
      BY <2>1, <2>2, <3>1, <3>2, <3>4
    <3>5. InPackets(wr, h, ir, il, r, x, f)
      BY <2>1, <3>1, <3>2, <3>3 DEF InPackets
    <3>6. /\ P!Spread(f, wr, h, r) \in Nat /\ P!Spread(f, wr, h, r) >= f
          /\ P!Spread(f, wr, h, r) < x + wr * ir
      BY <3>5, SpreadFits
    <3> QED
      BY <3>1, <3>3, <3>4, <3>6
  <2> QED
    BY <1>6, <1>7, <1>8, <2>3
<1>14. ASSUME NEW j \in Y!RegCols
       PROVE  /\ PartCols[j] \in Nat /\ PartCols[j] >= p.col
              /\ p.internal => PartCols[j] < n
  <2>1. j \in 0 .. ic - 1 /\ PartCols[j] = P!Spread(p.col, wc, u, j)
    BY <1>11, <1>12
  <2>2. p.col \in Nat /\ p.col = y + jl * u
    BY <1>8, <1>10
  <2>3. PartCols[j] \in Nat /\ PartCols[j] >= p.col /\ PartCols[j] < y + wc * ic
    <3>1. PICK f \in Nat : f = p.col
      BY <2>2
    <3>4. PICK z : z = PartCols[j]
      OBVIOUS
    <3>2. PICK h \in Nat \ {0} : h = u /\ ic % h = 0
      BY <1>9
    <3>3. z = P!Spread(f, wc, h, j) /\ f = y + jl * h
      BY <2>1, <2>2, <3>1, <3>2, <3>4
    <3>5. InPackets(wc, h, ic, jl, j, y, f)
      BY <2>1, <3>1, <3>2, <3>3 DEF InPackets
    <3>6. /\ P!Spread(f, wc, h, j) \in Nat /\ P!Spread(f, wc, h, j) >= f
          /\ P!Spread(f, wc, h, j) < y + wc * ic
      BY <3>5, SpreadFits
    <3> QED
      BY <3>1, <3>3, <3>4, <3>6
  <2> QED
    BY <1>6, <1>7, <1>8, <2>3
<1>15. Reached(P!WgBatchId(launch.group), P!BatchStride, P!WgBatchId(launch.group))
  BY <1>4, FirstReached DEF P!WgBatchId
<1> QED
  BY <1>1, <1>3, <1>8, <1>10, <1>13, <1>14, <1>15 DEF p

\* A packet that is loaded is in the matrix, and one that is needed is loaded.
LEMMA PartialVecLoads ==
    ASSUME PartLaunch, block = PartPlace
    PROVE  /\ \A r \in Y!RegRows : P!LoadsA(r) <=> PartRows[r] < launch.m
           /\ \A j \in Y!RegCols : P!LoadsB(j) <=> PartCols[j] < launch.n
<1>1. ASSUME NEW start \in Nat, NEW wg \in Nat, NEW size \in Nat, NEW r \in Nat, ~block.internal
      PROVE  P!InRange(start, wg, 1, size, r) <=> P!Spread(start, wg, 1, r) < size
  <2>1. r \div 1 = r /\ r % 1 = 0
    <3>1. r = 1 * r + 0 /\ 0 \in 0 .. 1 - 1
      OBVIOUS
    <3> QED
      BY <3>1, DivModUnique
  <2>2. PICK y \in Nat : y = r * wg * 1
    OBVIOUS
  <2>3. start + y + 1 - 1 = start + y + 0
    OBVIOUS
  <2> QED
    BY <1>1, <2>1, <2>2, <2>3 DEF P!InRange, P!Spread
<1>2. /\ launch.wgRows \in Nat /\ launch.wgCols \in Nat /\ launch.m \in Nat /\ launch.n \in Nat
      /\ \A r \in Y!RegRows : r \in Nat
      /\ \A j \in Y!RegCols : j \in Nat
  BY PartialVecPlace, ItemSizes DEF Y!RegRows, Y!RegCols
<1>3. CASE block.internal
  BY <1>3, PartialVecPlace DEF P!LoadsA, P!LoadsB, P!InRange
<1>4. CASE ~block.internal
  BY <1>1, <1>2, <1>4, PartialVecPlace
     DEF P!LoadsA, P!LoadsB, PartRows, PartCols, P!RowOf, P!ColOf
<1> QED
  BY <1>3, <1>4

\* Nothing is stored out of range, and what is stored is in C.
LEMMA PartialVecShape ==
    ASSUME PartLaunch
    PROVE  /\ Shape(P!Stored, PartRows, PartCols)
           /\ P!Stored # {} => PartPlace.row < launch.m /\ PartPlace.col < launch.n
<1>1. P!Stored = {x \in Y!RegCols \X Y!RegRows :
                     \/ PartPlace.internal
                     \/ PartRows[x[2]] < launch.m /\ PartCols[x[1]] < launch.n}
  BY DEF P!Stored, P!StoredAt, PartPlace, PartRows, PartCols, Y!RegRows, P!RegRows, Y!RegCols,
     P!RegCols
<1>2. launch.m \in Nat /\ launch.n \in Nat
  BY PartialVecPlace, ItemSizes
<1>3. ASSUME NEW x \in P!Stored
      PROVE  /\ x \in Y!RegCols \X Y!RegRows
             /\ PartRows[x[2]] \in 0 .. launch.m - 1 /\ PartCols[x[1]] \in 0 .. launch.n - 1
             /\ PartRows[x[2]] >= PartPlace.row /\ PartCols[x[1]] >= PartPlace.col
             /\ PartPlace.row \in Nat /\ PartPlace.col \in Nat
  BY <1>1, <1>2, PartialVecPlace
<1>4. P!Stored # {} => PartPlace.row < launch.m /\ PartPlace.col < launch.n
  BY <1>2, <1>3
<1> QED
  BY <1>3, <1>4 DEF Shape

PartInv ==
    /\ PartLaunch /\ block = PartPlace
    /\ \E S, rows, cols, b0, d :
          /\ S = P!Stored /\ rows = PartRows /\ cols = PartCols
          /\ b0 = P!WgBatchId(launch.group) /\ d = P!BatchStride
          /\ LoopInv(S, rows, cols, b0, d)

\* scaling_c of the kernel.
LEMMA PartScaling ==
    ASSUME PartLaunch, block = PartPlace, NEW b
    PROVE  P!ScalingC(b) = Scaling(P!Stored, PartRows, PartCols, b)
<1> DEFINE Value(j, r) ==
               IF launch.betaZero THEN Nothing
               ELSE IF <<j, r>> \notin P!Stored THEN Uninitialised
               ELSE Scaled(Cell(b, PartRows, PartCols, <<j, r>>))
           FValue(j, r) ==
               IF launch.betaZero THEN P!Nothing
               ELSE IF P!OutOfRange \/ <<j, r>> \notin P!Stored THEN P!Uninitialised
               ELSE P!Scaled(P!AddressOfC(b, <<j, r>>))
<1>1. ASSUME NEW j \in Y!RegCols, NEW r \in Y!RegRows
      PROVE  FValue(j, r) = Value(j, r)
  <2>1. P!OutOfRange => P!Stored = {}
    BY PartialVecShape, PartialVecPlace, ItemSizes DEF P!OutOfRange
  <2>2. P!AddressOfC(b, <<j, r>>) = Cell(b, PartRows, PartCols, <<j, r>>)
    BY DEF P!AddressOfC, Cell, PartRows, PartCols, P!StridedC, Y!StridedC, P!CSize, Y!CSize
  <2>3. /\ P!Nothing = Nothing /\ P!Uninitialised = Uninitialised
        /\ \A x : P!Scaled(x) = Scaled(x)
    BY DEF P!Nothing, Nothing, P!Uninitialised, Uninitialised, P!Scaled, Scaled, P!Garbage, Garbage
  <2> QED
    BY <2>1, <2>2, <2>3
<1>2. P!RegCols = Y!RegCols /\ P!RegRows = Y!RegRows
  BY DEF P!RegCols, Y!RegCols, P!RegRows, Y!RegRows
<1>3. P!ScalingC(b) = [j \in Y!RegCols |-> [r \in Y!RegRows |-> FValue(j, r)]]
  BY <1>2 DEF P!ScalingC
<1>4. Scaling(P!Stored, PartRows, PartCols, b)
        = [j \in Y!RegCols |-> [r \in Y!RegRows |-> Value(j, r)]]
  BY DEF Scaling
<1> HIDE DEF Value, FValue
<1>5. ASSUME NEW j \in Y!RegCols
      PROVE  [r \in Y!RegRows |-> FValue(j, r)] = [r \in Y!RegRows |-> Value(j, r)]
  BY <1>1
<1> QED
  BY <1>3, <1>4, <1>5

LEMMA PartStart == P!Init => PartInv
<1> SUFFICES ASSUME P!Init PROVE PartInv
  OBVIOUS
<1>1. PartLaunch /\ block = PartPlace
  BY DEF P!Init, PartLaunch, PartPlace
<1>2. PICK S, rows, cols : S = P!Stored /\ rows = PartRows /\ cols = PartCols
  OBVIOUS
<1>3. PICK b0, d : b0 = P!WgBatchId(launch.group) /\ d = P!BatchStride
  OBVIOUS
<1>4. /\ launch \in ItemLaunches /\ Shape(S, rows, cols) /\ Reached(b0, d, b0)
  BY <1>1, <1>2, <1>3, PartialVecPlace, PartialVecShape
<1>5. regRes = Scaling(S, rows, cols, b0)
  <2>1. regRes = P!ScalingC(b0)
    BY <1>3 DEF P!Init
  <2> QED
    BY <1>1, <1>2, <2>1, PartScaling
<1>6. /\ pc = IF b0 < launch.batchSize THEN "run" ELSE "done"
      /\ batch = b0 /\ k = launch.k /\ DOMAIN c = {}
  BY <1>3 DEF P!Init
<1>7. LoopInv(S, rows, cols, b0, d)
  BY <1>4, <1>5, <1>6, LoopStarts
<1> QED
  BY <1>1, <1>2, <1>3, <1>7 DEF PartInv

\* What the items and the registers of a launch are does not change.
LEMMA PartSame ==
    ASSUME launch' = launch, block' = block, PartLaunch, block = PartPlace
    PROVE  /\ PartLaunch' /\ (block = PartPlace)'
           /\ P!Stored' = P!Stored /\ PartRows' = PartRows /\ PartCols' = PartCols
           /\ P!WgBatchId(launch.group)' = P!WgBatchId(launch.group)
           /\ P!BatchStride' = P!BatchStride
<1>1. /\ P!BlockRows' = P!BlockRows /\ P!BlockCols' = P!BlockCols
      /\ P!BlocksPerRow' = P!BlocksPerRow
  BY DEF P!BlockRows, P!BlockCols, P!BlocksPerRow, P!DivUp
<1>2. P!WorkgroupCluster' = P!WorkgroupCluster
  BY <1>1 DEF P!WorkgroupCluster, P!DivUp
<1>3. P!BatchStride' = P!BatchStride
  BY <1>2 DEF P!BatchStride, P!NumWorkgroupCluster, P!DivUp
<1>4. PartLaunch'
  BY <1>2, <1>3 DEF PartLaunch, P!Groups, P!Items, P!BatchStride
<1>5. PartPlace' = PartPlace
  BY <1>1, <1>2 DEF PartPlace, P!Place
<1>6. P!WgBatchId(launch.group)' = P!WgBatchId(launch.group)
  BY <1>2 DEF P!WgBatchId
<1>7. Y!RegCols' = Y!RegCols /\ Y!RegRows' = Y!RegRows
      /\ P!RegCols' = P!RegCols /\ P!RegRows' = P!RegRows
  BY DEF Y!RegCols, Y!RegRows, P!RegCols, P!RegRows
<1>8. PartRows' = PartRows /\ PartCols' = PartCols
  BY <1>5, <1>7 DEF PartRows, PartCols, P!RowOf, P!ColOf, P!Spread
<1>9. P!Stored' = P!Stored
  BY <1>5, <1>7 DEF P!Stored, P!StoredAt, P!RowOf, P!ColOf, P!Spread, PartPlace
<1> QED
  BY <1>3, <1>4, <1>5, <1>6, <1>8, <1>9

\* The pair of a step of K, for register x[2] of column x[1].
PartPairs ==
    [x \in Y!RegCols \X Y!RegRows |-> <<<<P!RegA(x[2]), P!RegB(x[1])>>>>]

LEMMA PartFeeds ==
    ASSUME PartLaunch, block = PartPlace, k \in 0 .. launch.k, k > 0,
           NEW n \in Nat, n = launch.k - k
    PROVE  FeedsAll(PartPairs, n - 1, P!Stored, PartRows, PartCols, batch, n, n + 1)
<1>1. /\ launch \in ItemLaunches /\ launch.k \in Nat
      /\ Shape(P!Stored, PartRows, PartCols)
      /\ launch.m \in Nat /\ launch.n \in Nat
  BY PartialVecPlace, PartialVecShape, StridedSizes
<1>2. ASSUME NEW x \in P!Stored
      PROVE  Feeds(PartPairs[x], n - 1, AddressesA(batch, PartRows[x[2]]),
                   AddressesB(batch, PartCols[x[1]]), n, n + 1)
  <2>1. PICK j \in Y!RegCols, r \in Y!RegRows : x = <<j, r>>
    BY <1>1 DEF Shape
  <2>2. PartRows[r] \in 0 .. launch.m - 1 /\ PartCols[j] \in 0 .. launch.n - 1
    BY <1>1, <2>1 DEF Shape
  <2>3. ~P!OutOfRange
    BY <1>1, PartialVecShape, PartialVecPlace DEF P!OutOfRange
  <2>4. P!LoadsA(r) /\ P!LoadsB(j)
    BY <1>1, <2>2, PartialVecLoads
  <2> DEFINE p == PartPairs[x]
             A == AddressesA(batch, PartRows[r])
             B == AddressesB(batch, PartCols[j])
  <2>5. DOMAIN p = {1} /\ p[1] = <<P!RegA(r), P!RegB(j)>>
    BY <2>1 DEF PartPairs
  <2>6. /\ P!RegA(r) = FromA(P!StridedA(batch, P!RowOf(block, r), P!KDone))
        /\ P!RegB(j) = FromB(P!StridedB(batch, P!KDone, P!ColOf(block, j)))
    BY <2>3, <2>4, SameNumbers DEF P!RegA, P!RegB
  <2>7. P!RowOf(block, r) = PartRows[r] /\ P!ColOf(block, j) = PartCols[j]
    BY DEF PartRows, PartCols
  <2>8. /\ A[n] = P!StridedA(batch, PartRows[r], P!KDone)
        /\ B[n] = P!StridedB(batch, P!KDone, PartCols[j])
    <3>1. n \in 0 .. launch.k - 1 /\ n = P!KDone
      BY <1>1 DEF P!KDone
    <3> QED
      BY <3>1 DEF AddressesA, AddressesB, P!StridedA, P!StridedB, Y!StridedA, Y!StridedB,
         P!ASize, Y!ASize, P!BSize, Y!BSize, P!Address, Y!Address
  <2> HIDE DEF p, A, B
  <2>9. p[1] = <<FromA(A[n]), FromB(B[n])>>
    BY <2>5, <2>6, <2>7, <2>8
  <2>10. 1 + (n - 1) = n /\ n - (n - 1) = 1 /\ n .. n + 1 - 1 = {n}
    OBVIOUS
  <2>11. Feeds(p, n - 1, A, B, n, n + 1)
    <3>1. DOMAIN p = {1}
      BY <2>5
    <3>2. ASSUME NEW t \in DOMAIN p
          PROVE  /\ t \in Int /\ t + (n - 1) \in n .. n + 1 - 1
                 /\ p[t] = <<FromA(A[t + (n - 1)]), FromB(B[t + (n - 1)])>>
      <4>1. t = 1
        BY <3>1
      <4>2. t + (n - 1) = n
        BY <4>1
      <4>3. p[t] = <<FromA(A[n]), FromB(B[n])>>
        BY <2>9, <4>1
      <4>4. p[t] = <<FromA(A[t + (n - 1)]), FromB(B[t + (n - 1)])>>
        BY <4>2, <4>3
      <4> QED
        BY <4>1, <4>2, <4>4
    <3>3. \A y \in n .. n + 1 - 1 : y - (n - 1) \in DOMAIN p
      BY <3>1
    <3> QED
      BY <3>2, <3>3 DEF Feeds
  <2> QED
    BY <2>1, <2>11 DEF p, A, B
<1> QED
  BY <1>2 DEF FeedsAll

\* What store writes.
PartStores ==
    [a \in {P!AddressOfC(batch, x) : x \in P!Stored} |->
        LET x == CHOOSE y \in P!Stored : P!AddressOfC(batch, y) = a
        IN regRes[x[1]][x[2]]]

LEMMA PartWritten ==
    ASSUME PartLaunch, block = PartPlace
    PROVE  Written(PartStores, P!Stored, PartRows, PartCols, batch, regRes)
<1>1. ASSUME NEW x \in P!Stored
      PROVE  P!AddressOfC(batch, x) = Cell(batch, PartRows, PartCols, x)
  <2>1. x[2] \in Y!RegRows /\ x[1] \in Y!RegCols
    BY PartialVecShape DEF Shape
  <2> QED
    BY <2>1 DEF P!AddressOfC, Cell, PartRows, PartCols, P!StridedC, Y!StridedC, P!CSize, Y!CSize
<1>2. DOMAIN PartStores = {Cell(batch, PartRows, PartCols, x) : x \in P!Stored}
  BY <1>1 DEF PartStores
<1>3. ASSUME NEW a \in DOMAIN PartStores
      PROVE  \E x \in P!Stored : /\ Cell(batch, PartRows, PartCols, x) = a
                                 /\ PartStores[a] = regRes[x[1]][x[2]]
  <2> DEFINE x == CHOOSE y \in P!Stored : P!AddressOfC(batch, y) = a
  <2>1. \E y \in P!Stored : P!AddressOfC(batch, y) = a
    BY DEF PartStores
  <2>2. x \in P!Stored /\ P!AddressOfC(batch, x) = a
    BY <2>1
  <2>3. PartStores[a] = regRes[x[1]][x[2]]
    BY DEF PartStores
  <2> HIDE DEF x
  <2> QED
    BY <1>1, <2>2, <2>3
<1> QED
  BY <1>2, <1>3 DEF Written

LEMMA PartStep == ASSUME PartInv, P!Next PROVE PartInv'
<1>1. PartLaunch /\ block = PartPlace
  BY DEF PartInv
<1>2. PICK S, rows, cols, b0, d :
          /\ S = P!Stored /\ rows = PartRows /\ cols = PartCols
          /\ b0 = P!WgBatchId(launch.group) /\ d = P!BatchStride
          /\ LoopInv(S, rows, cols, b0, d)
  BY DEF PartInv
<1>3. launch' = launch /\ block' = block
  BY DEF P!Next, P!Compute, P!Store
<1>4. P!RegCols = Y!RegCols /\ P!RegRows = Y!RegRows
  BY DEF P!RegCols, Y!RegCols, P!RegRows, Y!RegRows
<1>5. ASSUME P!Compute PROVE LoopInv(S, rows, cols, b0, d)'
  <2>1. pc = "run" /\ k \in 0 .. launch.k /\ k > 0 /\ launch.k \in Nat
    BY <1>2, <1>5, StridedSizes DEF P!Compute, LoopInv
  <2>2. PICK n \in Nat : n = launch.k - k /\ n + 1 \in 0 .. launch.k /\ k' = launch.k - (n + 1)
    BY <1>5, <2>1 DEF P!Compute
  <2>3. PICK p : p = PartPairs
    OBVIOUS
  <2>4. FeedsAll(p, n - 1, S, rows, cols, batch, n, n + 1)
    BY <1>1, <1>2, <2>1, <2>2, <2>3, PartFeeds
  <2>5. MadAll(regRes', p, regRes)
    <3>1. regRes' = [j \in Y!RegCols |-> [r \in Y!RegRows |->
                        Mad(<<<<P!RegA(r), P!RegB(j)>>>>, regRes[j][r])]]
      BY <1>4, <1>5, SameNumbers DEF P!Compute, P!Multiplied
    <3>2. ASSUME NEW j \in Y!RegCols, NEW r \in Y!RegRows
          PROVE  regRes'[j][r] = Mad(p[<<j, r>>], regRes[j][r])
      <4>1. p[<<j, r>>] = <<<<P!RegA(r), P!RegB(j)>>>>
        BY <2>3 DEF PartPairs
      <4> QED
        BY <3>1, <4>1
    <3>3. DOMAIN regRes' = Y!RegCols /\ \A j \in Y!RegCols : DOMAIN regRes'[j] = Y!RegRows
      BY <3>1
    <3> QED
      BY <3>2, <3>3 DEF MadAll
  <2>6. UNCHANGED <<launch, pc, batch, c>>
    BY <1>5 DEF P!Compute
  <2>7. PICK e \in 0 .. launch.k, o \in Int : e = n + 1 /\ o = n - 1 /\ n <= e
    BY <2>2
  <2> QED
    BY <1>2, <2>1, <2>2, <2>4, <2>5, <2>6, <2>7, LoopComputes
<1>6. ASSUME P!Store PROVE LoopInv(S, rows, cols, b0, d)'
  <2>1. /\ pc = "run" /\ k = 0 /\ k' = launch.k
        /\ batch' = batch + d /\ regRes' = P!ScalingC(batch')
        /\ pc' = IF batch' < launch.batchSize THEN "run" ELSE "done"
        /\ c' = P!StoredC
    BY <1>2, <1>6 DEF P!Store
  <2>2. PICK w : w = PartStores /\ Written(w, S, rows, cols, batch, regRes)
    BY <1>1, <1>2, PartWritten
  <2>3. c' = Over(w, c) \/ (S = {} /\ c' = c)
    <3>1. CASE P!OutOfRange
      <4>1. ~(PartPlace.row < launch.m /\ PartPlace.col < launch.n)
        <5>1. PartPlace.row \in Nat /\ PartPlace.col \in Nat
              /\ launch.m \in Nat /\ launch.n \in Nat
          BY <1>1, PartialVecPlace, ItemSizes
        <5> QED
          BY <1>1, <3>1, <5>1 DEF P!OutOfRange
      <4>2. S = {}
        BY <1>1, <1>2, <4>1, PartialVecShape
      <4> QED
        BY <2>1, <3>1, <4>2 DEF P!StoredC
    <3>2. CASE ~P!OutOfRange
      <4>1. P!StoredC = P!Over(PartStores, c)
        BY <3>2 DEF P!StoredC, PartStores
      <4>2. P!Over(PartStores, c) = Over(PartStores, c)
        BY DEF P!Over, Over
      <4> QED
        BY <2>1, <2>2, <4>1, <4>2
    <3> QED
      BY <3>1, <3>2
  <2>4. regRes' = Scaling(S, rows, cols, batch + d)
    <3>1. PICK b : b = batch + d
      OBVIOUS
    <3>2. P!ScalingC(b) = Scaling(S, rows, cols, b)
      BY <1>1, <1>2, PartScaling
    <3>3. regRes' = P!ScalingC(b)
      BY <2>1, <3>1 DEF P!ScalingC
    <3> QED
      BY <3>1, <3>2, <3>3
  <2> QED
    BY <1>2, <1>3, <2>1, <2>2, <2>3, <2>4, LoopStores
<1>7. LoopInv(S, rows, cols, b0, d)'
  BY <1>5, <1>6 DEF P!Next
<1>8. /\ PartLaunch' /\ (block = PartPlace)'
      /\ S = P!Stored' /\ rows = PartRows' /\ cols = PartCols'
      /\ b0 = P!WgBatchId(launch.group)' /\ d = P!BatchStride'
  BY <1>1, <1>2, <1>3, PartSame
<1> QED
  BY <1>7, <1>8 DEF PartInv

\* An item returns with its share of the elements of C.
LEMMA PartExact ==
    ASSUME PartInv
    PROVE  P!TypeOK /\ P!ItemExact
<1>1. PartLaunch /\ block = PartPlace
  BY DEF PartInv
<1>2. PICK S, rows, cols, b0, d :
          /\ S = P!Stored /\ rows = PartRows /\ cols = PartCols
          /\ b0 = P!WgBatchId(launch.group) /\ d = P!BatchStride
          /\ LoopInv(S, rows, cols, b0, d)
  BY DEF PartInv
<1>3. /\ batch \in Nat /\ Typed(regRes)
      /\ DOMAIN c \subseteq 0 .. launch.batchSize * Y!CSize - 1
      /\ pc = "done" => Complete(c, ShareAt(PlacesOf(S, rows, cols), b0, d))
  BY <1>2, LoopDone
<1>4. P!TypeOK
  BY <1>2, <1>3 DEF LoopInv, Typed, P!TypeOK, P!CSize, Y!CSize, P!IsAccumulator, IsAccumulator
<1>5. P!ItemShare(launch.group, launch.item) = ShareAt(PlacesOf(S, rows, cols), b0, d)
  <2>1. P!Elements = Y!Elements /\ Reached(b0, d, b0)
    BY <1>1, <1>2, PartialVecPlace DEF P!Elements, Y!Elements
  <2>2. ASSUME NEW e \in Y!Elements
        PROVE  e \in P!ItemShare(launch.group, launch.item)
                 <=> Reached(b0, d, e[1]) /\ <<e[2], e[3]>> \in PlacesOf(S, rows, cols)
    <3>1. e[1] \in Nat
      BY DEF Y!Elements
    <3>2. e \in P!ItemShare(launch.group, launch.item)
            <=> /\ PartPlace.row < launch.m /\ PartPlace.col < launch.n
                /\ Reached(b0, d, e[1])
                /\ \E x \in S : e[2] = P!RowOf(PartPlace, x[2]) /\ e[3] = P!ColOf(PartPlace, x[1])
      BY <1>2, <2>1, <3>1 DEF P!ItemShare, PartPlace, P!Stored, Reached
    <3>3. ASSUME NEW x \in S
          PROVE  /\ PartPlace.row < launch.m /\ PartPlace.col < launch.n
                 /\ P!RowOf(PartPlace, x[2]) = rows[x[2]] /\ P!ColOf(PartPlace, x[1]) = cols[x[1]]
      <4>1. x[2] \in Y!RegRows /\ x[1] \in Y!RegCols
        BY <1>1, <1>2, PartialVecShape DEF Shape
      <4> QED
        BY <1>1, <1>2, <4>1, PartialVecShape DEF PartRows, PartCols
    <3> QED
      BY <3>2, <3>3 DEF PlacesOf
  <2>3. P!ItemShare(launch.group, launch.item) \subseteq Y!Elements
    BY <2>1 DEF P!ItemShare
  <2> QED
    BY <2>2, <2>3 DEF ShareAt
<1>6. \A e : /\ P!StridedC(e[1], e[2], e[3]) = CellOf(e)
             /\ P!StridedProduct(e) = Y!StridedProduct(e)
  BY DEF P!StridedC, Y!StridedC, CellOf, P!CSize, Y!CSize, P!StridedProduct, Y!StridedProduct,
         P!Product, Y!Product, P!StridedA, Y!StridedA, P!StridedB, Y!StridedB, P!ASize, Y!ASize,
         P!BSize, Y!BSize, P!Address, Y!Address, P!FromA, Y!FromA, P!FromB, Y!FromB
<1>7. P!ItemExact
  BY <1>3, <1>5, <1>6 DEF P!ItemExact, Complete
<1> QED
  BY <1>4, <1>7

\* No packet that is loaded leaves the matrices.
LEMMA PartBounds == ASSUME PartInv PROVE P!LoadsInBounds
<1>1. PartLaunch /\ block = PartPlace
  BY DEF PartInv
<1>2. P!RegRows = Y!RegRows /\ P!RegCols = Y!RegCols
  BY DEF P!RegRows, P!RegCols, Y!RegRows, Y!RegCols
<1>3. /\ \A r \in Y!RegRows : P!LoadsA(r) => P!RowOf(block, r) < launch.m
      /\ \A j \in Y!RegCols : P!LoadsB(j) => P!ColOf(block, j) < launch.n
  BY <1>1, PartialVecLoads DEF PartRows, PartCols
<1> QED
  BY <1>2, <1>3 DEF P!LoadsInBounds

-------------------------------------------------------------------------------
(***************************************************************************)
(* The kernel for interleaved batches                                      *)
(***************************************************************************)

InterPlace == I!Place(launch.group, launch.item)

InterLaunch ==
    /\ launch \in InterleavedLaunches
    /\ launch.group \in I!Groups /\ launch.item \in I!Items

\* Where the registers of an item are.
LEMMA InterleavedPlace ==
    ASSUME InterLaunch
    PROVE  /\ launch \in ItemLaunches /\ launch.packet \in Nat \ {0}
           /\ InterPlace.row \in Nat /\ InterPlace.col \in Nat /\ InterPlace.batch \in Nat
           /\ I!RegRows \subseteq Nat /\ I!RegCols \subseteq Nat /\ I!Lanes \subseteq Nat
           /\ \E z \in Nat : InterPlace.row = launch.itemRows * z
           /\ InterPlace.internal =>
                 /\ \A r \in I!RegRows : InterPlace.row + r < launch.m
                 /\ \A j \in I!RegCols : InterPlace.col + j < launch.n
                 /\ \A p \in I!Lanes : InterPlace.batch + p < launch.batchSize
<1> USE DEF InterLaunch
<1> DEFINE p == InterPlace
<1>1. launch \in ItemLaunches
  BY DEF ItemLaunches
<1>2. PICK wr \in Nat \ {0}, wc \in Nat \ {0}, wb \in Nat \ {0}, ir \in Nat \ {0},
           ic \in Nat \ {0}, v \in Nat \ {0}, np \in Nat \ {0} :
          /\ wr = launch.wgRows /\ wc = launch.wgCols /\ wb = launch.wgBatchs
          /\ ir = launch.itemRows /\ ic = launch.itemCols /\ v = launch.packet
          /\ np = I!Packets /\ launch.itemBatchs = np * v /\ I!PacketStride = wb * v
  BY <1>1, ItemSizes, InterleavedPackets
<1>3. PICK m \in Nat, n \in Nat, z \in Nat :
          m = launch.m /\ n = launch.n /\ z = launch.batchSize
  BY <1>1, ItemSizes
<1>4. PICK a \in Nat \ {0}, d \in Nat \ {0}, u \in Nat \ {0} :
          /\ I!BlocksPerRow = a /\ I!BlocksPerBatch = u
          /\ I!Groups = 0 .. (a * d) * u - 1
  BY InterleavedGrid
<1>5. PICK gb \in Nat, gr \in Nat, gc \in Nat :
          /\ gb = launch.group % u /\ gr = (launch.group \div u) % a
          /\ gc = (launch.group \div u) \div a
  <2>1. Coordinated(a, d, u, launch.group)
    BY <1>4, Coordinates
  <2> QED
    BY <2>1 DEF Coordinated
<1>6. PICK lb \in 0 .. wb - 1, lr \in 0 .. wr - 1, lc \in 0 .. wc - 1 :
          /\ lb = launch.item % wb /\ lr = (launch.item \div wb) % wr
          /\ lc = (launch.item \div wb) \div wr
  <2>1. launch.item \in 0 .. (wr * wc) * wb - 1
    BY <1>2 DEF I!Items
  <2>2. Coordinated(wr, wc, wb, launch.item)
    BY <2>1, Coordinates
  <2> QED
    BY <2>2 DEF Coordinated
<1>7. PICK s \in Nat \ {0}, t \in Nat \ {0}, f \in Nat, u2 \in Nat \ {0}, o \in Nat \ {0} :
          s = wr * ir /\ t = wc * ic /\ f = gb * wb /\ u2 = wb * v /\ o = np * v
  OBVIOUS
<1>8. PICK x \in Nat, y \in Nat : x = gr * s /\ y = gc * t
  BY <1>7
<1>9. /\ p.batch = lb * v + f * o
      /\ p.row = x + lr * ir /\ p.col = y + lc * ic
      /\ p.internal => (z \div o) - f >= wb /\ m - x >= s /\ n - y >= t
  BY <1>2, <1>3, <1>4, <1>5, <1>6, <1>7, <1>8
     DEF InterPlace, I!Place, I!BlockRows, I!BlockCols
<1>10. lb * v \in Nat /\ f * o \in Nat /\ lr * ir \in Nat /\ lc * ic \in Nat
  OBVIOUS
<1>11. p.row \in Nat /\ p.col \in Nat /\ p.batch \in Nat
  BY <1>9, <1>10
<1>12. /\ I!RegRows = 0 .. ir - 1 /\ I!RegCols = 0 .. ic - 1
       /\ I!Lanes = {q * u2 + e : q \in 0 .. np - 1, e \in 0 .. v - 1}
  BY <1>2, <1>7 DEF I!RegRows, I!RegCols, I!Lanes
<1> HIDE DEF p
<1>13. ASSUME p.internal, NEW r \in 0 .. ir - 1 PROVE p.row + r < m
  <2>1. ir * lr + r \in 0 .. wr * ir - 1 /\ ir * lr = lr * ir
    BY DigitsFit
  <2> QED
    BY <1>7, <1>8, <1>9, <1>10, <1>13, <2>1
<1>14. ASSUME p.internal, NEW j \in 0 .. ic - 1 PROVE p.col + j < n
  <2>1. ic * lc + j \in 0 .. wc * ic - 1 /\ ic * lc = lc * ic
    BY DigitsFit
  <2> QED
    BY <1>7, <1>8, <1>9, <1>10, <1>14, <2>1
<1>15. ASSUME NEW lane \in I!Lanes
       PROVE  lane \in Nat /\ (p.internal => p.batch + lane < z)
  <2>1. PICK q \in 0 .. np - 1, e \in 0 .. v - 1 : lane = q * u2 + e
    BY <1>12
  <2>2. PICK w \in 0 .. u2 - 1 : w = v * lb + e
    <3>1. v * lb + e \in 0 .. wb * v - 1
      BY DigitsFit
    <3> QED
      BY <1>7, <3>1
  <2>3. u2 * q + w \in 0 .. np * u2 - 1 /\ u2 * q \in Nat /\ u2 * q = q * u2
    BY DigitsFit
  <2>4. lane \in Nat
    BY <2>1, <2>3
  <2>5. ASSUME p.internal PROVE p.batch + lane < z
    <3>1. PICK h \in Nat : h = z \div o /\ o * h <= z
      <4>1. z \div o \in Nat /\ z % o \in 0 .. o - 1 /\ z = o * (z \div o) + (z % o)
        BY DivMod
      <4>2. PICK h \in Nat : h = z \div o
        BY <4>1
      <4>3. o * h \in Nat
        OBVIOUS
      <4> QED
        BY <4>1, <4>2, <4>3
    <3>2. o * (f + wb) <= o * h
      <4>1. f + wb <= h
        BY <1>9, <2>5, <3>1
      <4> QED
        BY <4>1, MulMonotone
    <3>3. o * (f + wb) = f * o + np * u2 /\ np * u2 \in Nat
      <4>1. o * (f + wb) = f * o + o * wb
        OBVIOUS
      <4>2. o * wb = np * u2
        BY <1>7
      <4> QED
        BY <4>1, <4>2
    <3>4. p.batch + lane = f * o + (u2 * q + w)
      <4>1. v * lb = lb * v
        OBVIOUS
      <4> QED
        BY <1>9, <1>10, <2>1, <2>2, <2>3, <4>1
    <3> QED
      BY <1>10, <2>3, <3>1, <3>2, <3>3, <3>4
  <2> QED
    BY <2>4, <2>5
<1>16. \E y2 \in Nat : p.row = ir * y2
  <2>1. gr * (wr * ir) + lr * ir = ir * (gr * wr + lr) /\ gr * wr + lr \in Nat
    OBVIOUS
  <2> QED
    BY <1>7, <1>8, <1>9, <2>1
<1> QED
  <2>1. I!RegRows \subseteq Nat /\ I!RegCols \subseteq Nat /\ I!Lanes \subseteq Nat
    BY <1>12, <1>15
  <2>2. p.internal => /\ \A r \in I!RegRows : p.row + r < launch.m
                      /\ \A j \in I!RegCols : p.col + j < launch.n
                      /\ \A lane \in I!Lanes : p.batch + lane < launch.batchSize
    BY <1>3, <1>12, <1>13, <1>14, <1>15
  <2>3. launch \in ItemLaunches /\ launch.packet \in Nat \ {0}
    BY <1>1, <1>2
  <2>4. \E y2 \in Nat : p.row = launch.itemRows * y2
    BY <1>2, <1>16
  <2> QED
    BY <1>11, <2>1, <2>2, <2>3, <2>4 DEF p

\* The registers of the elements inside of C are the ones that compute_block has
\* for them.
Matches == \A x \in I!Inside : I!RegisterOf(x) = x

\* Whole items fit where their first row does.
LEMMA WholeItem ==
    ASSUME NEW n \in Nat \ {0}, NEW m \in Nat, m % n = 0, NEW y \in Nat, n * y < m
    PROVE  n * y + n <= m
<1>1. PICK t \in Nat : m = n * t
  <2>1. m \div n \in Nat /\ m = n * (m \div n) + (m % n) /\ n * (m \div n) \in Nat
    BY DivMod
  <2>2. PICK t \in Nat : t = m \div n
    BY <2>1
  <2> QED
    BY <2>1, <2>2
<1>2. y + 1 <= t
  <2> SUFFICES ASSUME t <= y PROVE FALSE
    OBVIOUS
  <2>1. n * t <= n * y
    BY MulMonotone
  <2>2. n * t \in Nat /\ n * y \in Nat
    OBVIOUS
  <2> QED
    BY <1>1, <2>1, <2>2
<1>3. n * (y + 1) <= n * t
  BY <1>2, MulMonotone
<1>4. n * (y + 1) = n * y + n
  OBVIOUS
<1> QED
  BY <1>1, <1>3, <1>4

\* The number of a register and what it is the register of.
LEMMA RegisterNumber ==
    ASSUME NEW ir \in Nat \ {0}, NEW np \in Nat \ {0}, NEW j \in Nat, NEW r \in 0 .. ir - 1,
           NEW q \in 0 .. np - 1, NEW number, number = (ir * j + r) * np + q
    PROVE  /\ (number \div np) \div ir = j /\ (number \div np) % ir = r
           /\ number % np = q
<1>1. PICK y \in Nat : y = ir * j + r /\ y \div ir = j /\ y % ir = r
  <2>1. PICK y \in Nat : y = ir * j + r
    <3>1. ir * j \in Nat
      OBVIOUS
    <3> QED
      BY <3>1
  <2> QED
    BY <2>1, DivModUnique
<1>2. number \div np = y /\ number % np = q
  <2>1. PICK z \in Nat : z = np * y + q /\ z = number
    <3>1. np * y \in Nat /\ np * y = y * np
      OBVIOUS
    <3> QED
      BY <1>1, <3>1
  <2> QED
    BY <2>1, DivModUnique
<1> QED
  BY <1>1, <1>2

\* That holds in a launch whose items have one packet, or skip nothing before an
\* element of C.
LEMMA RegistersMatch ==
    ASSUME InterLaunch, block = InterPlace, I!SkipsFit(launch)
    PROVE  Matches
<1> SUFFICES ASSUME NEW x \in I!Inside PROVE I!RegisterOf(x) = x
  BY DEF Matches
<1>1. /\ launch \in ItemLaunches /\ block.row \in Nat /\ block.col \in Nat
      /\ launch.m \in Nat /\ launch.n \in Nat
  BY InterleavedPlace, ItemSizes
<1>2. PICK ir \in Nat \ {0}, ic \in Nat \ {0}, v \in Nat \ {0}, np \in Nat \ {0}, wb \in Nat \ {0} :
          /\ ir = launch.itemRows /\ ic = launch.itemCols /\ v = launch.packet
          /\ wb = launch.wgBatchs
          /\ np = I!Packets /\ launch.itemBatchs = np * v /\ I!PacketStride = wb * v
  BY <1>1, ItemSizes, InterleavedPackets DEF InterLaunch
<1>3. PICK st \in Nat \ {0} : st = wb * v
  OBVIOUS
<1>4. PICK j \in 0 .. ic - 1, r \in 0 .. ir - 1, q \in 0 .. np - 1, e \in 0 .. v - 1 :
          /\ x = <<j, r, q * st + e>>
          /\ block.row + r < launch.m /\ block.col + j < launch.n
  <2>1. PICK j \in I!RegCols, r \in I!RegRows, d \in I!Lanes :
            x = <<j, r, d>> /\ block.row + r < launch.m /\ block.col + j < launch.n
    BY DEF I!Inside
  <2>2. PICK q \in 0 .. np - 1, e \in 0 .. v - 1 : d = q * st + e
    BY <1>2, <1>3 DEF I!Lanes
  <2> QED
    BY <1>2, <2>1, <2>2 DEF I!RegCols, I!RegRows
<1>5. (q * st + e) \div st = q /\ (q * st + e) % v = e
  <2>1. PICK d \in Nat : d = q * st + e /\ d = st * q + e
    <3>1. q * st \in Nat /\ q * st = st * q
      OBVIOUS
    <3> QED
      BY <3>1
  <2>2. v <= st
    <3>1. v * 1 <= v * wb
      BY MulMonotone
    <3>2. v * 1 = v /\ v * wb = wb * v
      OBVIOUS
    <3> QED
      BY <1>3, <3>1, <3>2
  <2>3. d \div st = q
    BY <2>1, <2>2, DivModUnique
  <2>4. d % v = e
    <3>1. PICK y \in Nat : q * st = v * y
      <4>1. q * (wb * v) = v * (q * wb) /\ q * wb \in Nat
        OBVIOUS
      <4> QED
        BY <1>3, <4>1
    <3>2. d = v * y + e
      BY <2>1, <3>1
    <3> QED
      BY <3>2, DivModUnique
  <2> QED
    BY <2>1, <2>3, <2>4
<1>6. PICK of : of = I!RowsIn * np + (ir - I!RowsIn)
  OBVIOUS
<1>7. j * of = j * (ir * np)
  <2>1. CASE launch.itemBatchs = launch.packet
    <3>1. np = 1
      <4>1. v * np + 0 = v * 1 + 0
        BY <1>2, <2>1
      <4> QED
        BY <4>1, OnePlace
    <3>2. I!RowsIn \in Int
      BY <1>1, <1>2 DEF I!RowsIn, I!Within
    <3> QED
      BY <1>6, <3>1, <3>2
  <2>2. CASE launch.m % launch.itemRows = 0
    <3>1. PICK y \in Nat : block.row = ir * y /\ ir * y \in Nat
      BY <1>1, <1>2, InterleavedPlace
    <3>2. block.row + ir <= launch.m
      <4>1. PICK m \in Nat : m = launch.m
        BY <1>1
      <4>2. ir * y < m
        BY <1>4, <3>1, <4>1
      <4>3. m % ir = 0
        BY <1>2, <2>2, <4>1
      <4> QED
        BY <3>1, <4>1, <4>2, <4>3, WholeItem
    <3>3. I!RowsIn = ir
      BY <1>2, <3>2 DEF I!RowsIn, I!Within
    <3> QED
      BY <1>6, <3>3
  <2>3. CASE 1 \in {launch.itemCols, launch.n}
    <3>1. j = 0
      BY <1>1, <1>2, <1>4, <2>3
    <3>2. I!RowsIn \in Int
      BY <1>1, <1>2 DEF I!RowsIn, I!Within
    <3>3. of \in Int
      BY <1>6, <3>2
    <3> QED
      BY <3>1, <3>3
  <2> QED
    BY <2>1, <2>2, <2>3 DEF I!SkipsFit
<1>8. PICK number : number = j * of + r * np + q /\ number = (ir * j + r) * np + q
  <2>1. j * (ir * np) + r * np + q = (ir * j + r) * np + q
    OBVIOUS
  <2> QED
    BY <1>7, <2>1
<1>9. I!RegisterOf(x)
        = <<(number \div np) \div ir, (number \div np) % ir, (number % np) * st + e>>
  BY <1>2, <1>3, <1>4, <1>5, <1>6, <1>8 DEF I!RegisterOf, I!PacketOf
<1>10. /\ (number \div np) \div ir = j /\ (number \div np) % ir = r
       /\ number % np = q
  BY <1>8, RegisterNumber
<1> QED
  BY <1>4, <1>9, <1>10

\* The cell of C that element e is in, and the addresses of its row and column.
CellI(e) == I!InterleavedC(e[1], e[2], e[3])
RowI(e) == [x \in 0 .. launch.k - 1 |-> I!InterleavedA(e[1], e[2], x)]
ColI(e) == [x \in 0 .. launch.k - 1 |-> I!InterleavedB(e[1], x, e[3])]

SumI(e, n) == Sum(IF launch.betaZero THEN {} ELSE {CellI(e)}, RowI(e), ColI(e), n)

LEMMA OneCellEachI ==
    ASSUME launch \in ItemLaunches, NEW e \in Y!Elements, NEW f \in Y!Elements
    PROVE  /\ CellI(e) \in 0 .. launch.batchSize * Y!CSize - 1
           /\ CellI(e) = CellI(f) => e = f
<1>1. PICK m \in Nat \ {0}, n \in Nat \ {0}, z \in Nat \ {0}, ld \in Nat \ {0}, s \in Nat \ {0} :
          /\ m = launch.m /\ n = launch.n /\ z = launch.batchSize /\ ld = launch.ldc
          /\ m <= ld /\ s = n * ld /\ s = Y!CSize
  <2>1. launch.ldc * launch.n = launch.n * launch.ldc
    BY StridedSizes
  <2> QED
    BY <2>1, StridedSizes DEF Y!CSize
<1>2. ASSUME NEW x \in Y!Elements
      PROVE  \E p \in 0 .. z - 1, r \in 0 .. m - 1, q \in 0 .. n - 1 :
                 x = <<p, r, q>> /\ CellI(x) = z * (ld * q + r) + p
  <2>1. PICK p \in 0 .. z - 1, r \in 0 .. m - 1, q \in 0 .. n - 1 : x = <<p, r, q>>
    BY <1>1 DEF Y!Elements
  <2>2. CellI(x) = p + z * (r + q * ld)
    BY <1>1, <2>1 DEF CellI, I!InterleavedC
  <2>3. p + z * (r + q * ld) = z * (ld * q + r) + p
    OBVIOUS
  <2> QED
    BY <2>1, <2>2, <2>3
<1>3. PICK p \in 0 .. z - 1, r \in 0 .. m - 1, q \in 0 .. n - 1 :
          e = <<p, r, q>> /\ CellI(e) = z * (ld * q + r) + p
  BY <1>2
<1>4. PICK p2 \in 0 .. z - 1, r2 \in 0 .. m - 1, q2 \in 0 .. n - 1 :
          f = <<p2, r2, q2>> /\ CellI(f) = z * (ld * q2 + r2) + p2
  BY <1>2
<1>5. r \in 0 .. ld - 1 /\ r2 \in 0 .. ld - 1
  BY <1>1
<1>6. PICK y \in 0 .. s - 1, y2 \in 0 .. s - 1 : y = ld * q + r /\ y2 = ld * q2 + r2
  <2>1. ld * q + r \in 0 .. n * ld - 1 /\ ld * q2 + r2 \in 0 .. n * ld - 1
    BY <1>5, DigitsFit
  <2> QED
    BY <1>1, <2>1
<1>7. CellI(e) \in 0 .. launch.batchSize * Y!CSize - 1
  <2>1. z * y + p \in 0 .. s * z - 1 /\ s * z = z * s
    BY DigitsFit
  <2> QED
    BY <1>1, <1>3, <1>6, <2>1
<1>8. ASSUME CellI(e) = CellI(f) PROVE e = f
  <2>1. z * y + p = z * y2 + p2
    BY <1>3, <1>4, <1>6, <1>8
  <2>2. p = p2 /\ y = y2
    BY <2>1, OnePlace
  <2>3. q = q2 /\ r = r2
    <3>1. ld * q + r = ld * q2 + r2
      BY <1>6, <2>2
    <3> QED
      BY <1>5, <3>1, OnePlace
  <2> QED
    BY <1>3, <1>4, <2>2, <2>3
<1> QED
  BY <1>7, <1>8

LEMMA RowDiffersI ==
    ASSUME launch \in ItemLaunches, NEW e \in Y!Elements
    PROVE  Differ(RowI(e), launch.k)
<1>1. PICK b \in Nat, r \in Nat, q \in Nat : e = <<b, r, q>>
  BY StridedSizes DEF Y!Elements
<1> SUFFICES ASSUME NEW x \in 0 .. launch.k - 1, NEW y \in 0 .. launch.k - 1,
                    I!InterleavedA(b, r, x) = I!InterleavedA(b, r, y)
             PROVE  x = y
  BY <1>1 DEF Differ, RowI
<1>2. PICK z \in Nat \ {0}, ld \in Nat : z = launch.batchSize /\ ld = launch.lda
  BY StridedSizes
<1>3. PICK v, w : /\ v = Y!Address(launch.transA, r, x, launch.lda)
                  /\ w = Y!Address(launch.transA, r, y, launch.lda)
  OBVIOUS
<1>4. x \in Nat /\ y \in Nat
  BY StridedSizes
<1>5. v \in Nat /\ w \in Nat
  <2>1. x + r * ld \in Nat /\ y + r * ld \in Nat /\ r + x * ld \in Nat /\ r + y * ld \in Nat
    BY <1>4
  <2> QED
    BY <1>2, <1>3, <2>1 DEF Y!Address
<1>6. v = w
  <2>1. b + z * v = b + z * w
    BY <1>2, <1>3 DEF I!InterleavedA, I!Address, Y!Address
  <2>2. z * v \in Nat /\ z * w \in Nat /\ 0 \in 0 .. z - 1
    BY <1>5
  <2>3. z * v + 0 = z * w + 0
    BY <2>1, <2>2
  <2> QED
    BY <1>5, <2>2, <2>3, OnePlace
<1>7. Y!StridedA(0, r, x) = 0 * Y!ASize + v /\ Y!StridedA(0, r, y) = 0 * Y!ASize + w
  BY <1>3 DEF Y!StridedA
<1>8. Differ(AddressesA(0, r), launch.k)
  BY RowDiffers, ItemSized
<1>9. AddressesA(0, r)[x] = AddressesA(0, r)[y]
  BY <1>6, <1>7 DEF AddressesA
<1> QED
  BY <1>8, <1>9 DEF Differ

\* The element that register x stands for.
ElementAt(x) == <<block.batch + x[3], block.row + x[2], block.col + x[1]>>

\* The registers of an item, with n of their products: where they match.
SumsI(f, n) ==
    Matches => \A x \in I!Stored : f[<<x[1], x[2]>>][x[3]] = SumI(ElementAt(x), n)

TypedI(f) ==
    /\ DOMAIN f = I!RegCols \X I!RegRows
    /\ \A x \in I!RegCols \X I!RegRows :
          DOMAIN f[x] = I!Lanes /\ \A p \in I!Lanes : IsAccumulator(f[x][p])

\* What the item stores.
StoredIn(f) ==
    /\ DOMAIN f = {CellI(ElementAt(x)) : x \in I!Stored}
    /\ Matches => \A x \in I!Stored : f[CellI(ElementAt(x))] = SumI(ElementAt(x), launch.k)

InterInv ==
    /\ InterLaunch /\ block = InterPlace
    /\ pc \in {"run", "done"} /\ k \in 0 .. launch.k /\ batch \in Nat
    /\ TypedI(regRes)
    /\ pc = "run" => ~I!OutOfRange(block) /\ DOMAIN c = {} /\ SumsI(regRes, launch.k - k)
    /\ pc = "done" => IF I!OutOfRange(block) THEN DOMAIN c = {} ELSE StoredIn(c)

LEMMA BelowIsIn ==
    ASSUME NEW y \in Nat, NEW z \in Nat, NEW s \in Nat, y + z < s
    PROVE  y + z \in 0 .. s - 1
OBVIOUS

\* The registers that are stored are in C, and their packets are loaded; a
\* packet that is loaded is in the matrices.
LEMMA InterShape ==
    ASSUME InterLaunch, block = InterPlace
    PROVE  /\ \A x \in I!Stored : /\ x \in I!RegCols \X I!RegRows \X I!Lanes
                                  /\ x \in I!Inside
                                  /\ ElementAt(x) \in Y!Elements
                                  /\ I!LoadsLane(block.row + x[2], launch.m, x[3])
                                  /\ I!LoadsLane(block.col + x[1], launch.n, x[3])
           /\ I!LoadsInBounds
<1>1. /\ launch \in ItemLaunches /\ launch.packet \in Nat \ {0}
      /\ launch.m \in Nat /\ launch.n \in Nat /\ launch.batchSize \in Nat
      /\ block.row \in Nat /\ block.col \in Nat /\ block.batch \in Nat
      /\ I!RegRows \subseteq Nat /\ I!RegCols \subseteq Nat /\ I!Lanes \subseteq Nat
  BY InterleavedPlace, StridedSizes
<1>2. block.internal => /\ \A r \in I!RegRows : block.row + r < launch.m
                        /\ \A j \in I!RegCols : block.col + j < launch.n
                        /\ \A p \in I!Lanes : block.batch + p < launch.batchSize
  BY InterleavedPlace
<1>3. ASSUME NEW x \in I!Stored
      PROVE  /\ x \in I!RegCols \X I!RegRows \X I!Lanes
             /\ block.row + x[2] < launch.m /\ block.col + x[1] < launch.n
             /\ block.batch + x[3] < launch.batchSize
  <2>1. /\ x \in I!RegCols \X I!RegRows \X I!Lanes
        /\ \/ block.internal
           \/ /\ block.row + x[2] < launch.m /\ block.col + x[1] < launch.n
              /\ block.batch + x[3] < launch.batchSize
    BY DEF I!Stored, I!StoredAt, InterPlace
  <2>2. x[1] \in I!RegCols /\ x[2] \in I!RegRows /\ x[3] \in I!Lanes
    BY <2>1
  <2> QED
    BY <1>2, <2>1, <2>2
<1>4. ASSUME NEW x \in I!Stored
      PROVE  ElementAt(x) \in Y!Elements
  <2>1. x[1] \in Nat /\ x[2] \in Nat /\ x[3] \in Nat
    <3>1. x[1] \in I!RegCols /\ x[2] \in I!RegRows /\ x[3] \in I!Lanes
      BY <1>3
    <3> QED
      BY <1>1, <3>1
  <2>2. /\ block.batch + x[3] \in 0 .. launch.batchSize - 1
        /\ block.row + x[2] \in 0 .. launch.m - 1
        /\ block.col + x[1] \in 0 .. launch.n - 1
    <3>1. PICK j \in Nat, r \in Nat, p \in Nat : j = x[1] /\ r = x[2] /\ p = x[3]
      BY <2>1
    <3>2. block.row + r < launch.m /\ block.col + j < launch.n
          /\ block.batch + p < launch.batchSize
      BY <1>3, <3>1
    <3>3. ASSUME NEW y \in Nat, NEW z \in Nat, NEW s \in Nat, y + z < s
          PROVE  y + z \in 0 .. s - 1
      BY <3>3, BelowIsIn
    <3>4. block.batch \in Nat /\ block.row \in Nat /\ block.col \in Nat
      BY <1>1
    <3>5. /\ block.batch + p \in 0 .. launch.batchSize - 1
          /\ block.row + r \in 0 .. launch.m - 1 /\ block.col + j \in 0 .. launch.n - 1
      BY <1>1, <3>2, <3>3, <3>4
    <3> QED
      BY <3>1, <3>5
  <2> QED
    BY <2>2 DEF ElementAt, Y!Elements
<1>5. ASSUME NEW x \in I!Stored
      PROVE  /\ I!LoadsLane(block.row + x[2], launch.m, x[3])
             /\ I!LoadsLane(block.col + x[1], launch.n, x[3])
  BY <1>3 DEF I!LoadsLane
<1>6. ASSUME NEW p \in I!Lanes, NEW index, NEW size, I!LoadsLane(index, size, p)
      PROVE  /\ block.batch + p < launch.batchSize
             /\ block.internal \/ index < size
  <2>1. PICK s \in Int : s = I!PacketStart(p) /\ p <= s + launch.packet - 1 /\ p \in Nat
    <3>1. p \in Nat /\ p % launch.packet \in 0 .. launch.packet - 1
      <4>1. p \in Nat
        BY <1>1
      <4> QED
        BY <1>1, <4>1, DivMod
    <3>2. I!PacketStart(p) = p - (p % launch.packet)
      BY DEF I!PacketStart
    <3> QED
      BY <1>1, <3>1, <3>2
  <2>2. block.internal \/ (/\ index < size
                           /\ \/ 2 * block.batch + s + launch.packet - 1 < launch.batchSize
                              \/ block.batch + p < launch.batchSize)
    BY <1>6, <2>1 DEF I!LoadsLane
  <2>3. 2 * block.batch + s + launch.packet - 1 < launch.batchSize
          => block.batch + p < launch.batchSize
    BY <1>1, <2>1
  <2> QED
    BY <1>2, <2>2, <2>3
<1>7. I!LoadsInBounds
  BY <1>2, <1>6 DEF I!LoadsInBounds
<1>8. ASSUME NEW x \in I!Stored PROVE x \in I!Inside
  BY <1>3 DEF I!Inside
<1> QED
  BY <1>3, <1>4, <1>5, <1>7, <1>8

\* What depends on the launch and on the block alone does not change.
LEMMA InterSame ==
    ASSUME launch' = launch, block' = block
    PROVE  /\ InterLaunch' <=> InterLaunch
           /\ InterPlace' = InterPlace /\ I!OutOfRange(block)' = I!OutOfRange(block)
           /\ Matches' <=> Matches
           /\ \A f, n : SumsI(f, n)' <=> SumsI(f, n)
           /\ \A f : (TypedI(f)' <=> TypedI(f)) /\ (StoredIn(f)' <=> StoredIn(f))
<1>1. /\ I!BlockRows' = I!BlockRows /\ I!BlockCols' = I!BlockCols
      /\ I!BlocksPerRow' = I!BlocksPerRow /\ I!BlocksPerBatch' = I!BlocksPerBatch
      /\ I!RegRows' = I!RegRows /\ I!RegCols' = I!RegCols /\ I!Lanes' = I!Lanes
  BY DEF I!BlockRows, I!BlockCols, I!BlocksPerRow, I!BlocksPerBatch, I!DivUp, I!Packets,
     I!PacketStride, I!RegRows, I!RegCols, I!Lanes
<1>2. InterLaunch' <=> InterLaunch
  BY <1>1 DEF InterLaunch, I!Groups, I!Items, I!DivUp
<1>3. InterPlace' = InterPlace
  BY <1>1 DEF InterPlace, I!Place
<1>4. I!Stored' = I!Stored
  BY <1>1, <1>3 DEF I!Stored, I!StoredAt, InterPlace
<1>5. \A e, n : CellI(e)' = CellI(e) /\ SumI(e, n)' = SumI(e, n)
  BY DEF SumI, Sum, CellI, RowI, ColI, I!InterleavedA, I!InterleavedB, I!InterleavedC, I!Address
<1>6. \A x : ElementAt(x)' = ElementAt(x)
  BY DEF ElementAt
<1>11. Matches' <=> Matches
  <2>1. I!Inside' = I!Inside
    BY <1>1 DEF I!Inside
  <2>2. I!Packets' = I!Packets /\ I!PacketStride' = I!PacketStride /\ I!RowsIn' = I!RowsIn
    BY DEF I!Packets, I!PacketStride, I!RowsIn, I!Within
  <2>3. \A x : I!RegisterOf(x)' = I!RegisterOf(x)
    BY <2>2 DEF I!RegisterOf, I!PacketOf
  <2> QED
    BY <2>1, <2>3 DEF Matches
<1>7. ASSUME NEW f, NEW n PROVE SumsI(f, n)' <=> SumsI(f, n)
  BY <1>4, <1>5, <1>6, <1>11 DEF SumsI
<1>8. ASSUME NEW f PROVE TypedI(f)' <=> TypedI(f)
  BY <1>1 DEF TypedI, IsAccumulator
<1>9. ASSUME NEW f PROVE StoredIn(f)' <=> StoredIn(f)
  BY <1>4, <1>5, <1>6, <1>11 DEF StoredIn
<1>10. I!OutOfRange(block)' = I!OutOfRange(block)
  BY DEF I!OutOfRange
<1> QED
  BY <1>2, <1>3, <1>7, <1>8, <1>9, <1>10, <1>11

LEMMA InterStart == I!Init => InterInv
<1> SUFFICES ASSUME I!Init PROVE InterInv
  OBVIOUS
<1>1. InterLaunch /\ block = InterPlace
  BY DEF I!Init, InterLaunch, InterPlace
<1>2. /\ launch \in ItemLaunches /\ launch.k \in Nat /\ block.batch \in Nat
      /\ k = launch.k /\ batch = block.batch /\ launch.k - k = 0 /\ DOMAIN c = {}
      /\ pc = IF I!OutOfRange(block) THEN "done" ELSE "run"
      /\ regRes = I!ScalingC
  BY <1>1, InterleavedPlace, StridedSizes DEF I!Init
<1>3. \A x : /\ I!Nothing = Nothing /\ I!Uninitialised = Uninitialised
             /\ I!Scaled(x) = Scaled(x)
  BY DEF I!Nothing, Nothing, I!Uninitialised, Uninitialised, I!Scaled, Scaled, I!Garbage, Garbage
<1>4. /\ DOMAIN regRes = I!RegCols \X I!RegRows
      /\ \A x \in I!RegCols \X I!RegRows : DOMAIN regRes[x] = I!Lanes
  BY <1>2 DEF I!ScalingC
<1>5. ASSUME NEW x \in I!RegCols \X I!RegRows, NEW p \in I!Lanes
      PROVE  regRes[x][p] = I!ScaledInto(<<x[1], x[2], p>>)
  BY <1>2 DEF I!ScalingC
<1>9. ASSUME NEW r, ~launch.betaZero, NEW y \in I!Stored, I!RegisterOf(y) = r
      PROVE  \E z \in I!Stored :
                I!RegisterOf(z) = r /\ I!ScaledInto(r) = Scaled(CellI(ElementAt(z)))
  <2>1. PICK z \in I!Stored :
            z = (CHOOSE s \in I!Stored : I!RegisterOf(s) = r) /\ I!RegisterOf(z) = r
    BY <1>9
  <2>2. I!ScaledInto(r) = I!Scaled(I!AddressOfC(z))
    BY <1>9, <2>1 DEF I!ScaledInto
  <2>3. I!AddressOfC(z) = CellI(ElementAt(z))
    BY DEF I!AddressOfC, CellI, ElementAt
  <2> QED
    BY <1>3, <2>1, <2>2, <2>3
<1>6. ASSUME NEW x \in I!Stored
      PROVE  CellI(ElementAt(x)) \in Nat
  <2>1. CellI(ElementAt(x)) \in 0 .. launch.batchSize * Y!CSize - 1
    BY <1>1, <1>2, InterShape, OneCellEachI
  <2>2. PICK z \in Nat : z = launch.batchSize * Y!CSize
    BY <1>2, StridedSizes
  <2> QED
    BY <2>1, <2>2
<1>7. TypedI(regRes)
  <2>1. ASSUME NEW x \in I!RegCols \X I!RegRows, NEW p \in I!Lanes
        PROVE  IsAccumulator(regRes[x][p])
    <3>1. PICK r : r = <<x[1], x[2], p>>
      OBVIOUS
    <3>2. CASE ~launch.betaZero /\ \E y \in I!Stored : I!RegisterOf(y) = r
      BY <1>5, <1>6, <1>9, <3>1, <3>2, NothingTyped
    <3>3. CASE launch.betaZero \/ ~(\E y \in I!Stored : I!RegisterOf(y) = r)
      <4>1. I!ScaledInto(r) \in {Nothing, Uninitialised}
        BY <1>3, <3>3 DEF I!ScaledInto
      <4> QED
        BY <1>5, <3>1, <4>1, NothingTyped
    <3> QED
      BY <3>2, <3>3
  <2> QED
    BY <1>4, <2>1 DEF TypedI
<1>8. SumsI(regRes, 0)
  <2> SUFFICES ASSUME Matches
               PROVE  \A x \in I!Stored : regRes[<<x[1], x[2]>>][x[3]] = SumI(ElementAt(x), 0)
    BY DEF SumsI
  <2>1. ASSUME NEW x \in I!Stored
        PROVE  regRes[<<x[1], x[2]>>][x[3]] = SumI(ElementAt(x), 0)
    <3>1. PICK j \in I!RegCols, r \in I!RegRows, p \in I!Lanes : x = <<j, r, p>>
      BY <1>1, InterShape
    <3>2. regRes[<<j, r>>][p] = IF launch.betaZero THEN Nothing ELSE Scaled(CellI(ElementAt(x)))
      <4>1. regRes[<<j, r>>][p] = I!ScaledInto(x)
        BY <1>5, <3>1
      <4>2. CASE launch.betaZero
        BY <1>3, <4>1, <4>2 DEF I!ScaledInto
      <4>3. CASE ~launch.betaZero
        <5>1. \A z \in I!Stored : I!RegisterOf(z) = z
          BY <1>1, InterShape DEF Matches
        <5> QED
          BY <1>9, <4>1, <4>3, <5>1
      <4> QED
        BY <4>2, <4>3
    <3>3. regRes[<<j, r>>][p]
            = [c |-> IF launch.betaZero THEN {} ELSE {CellI(ElementAt(x))},
               of |-> {}, once |-> TRUE]
      BY <3>2 DEF Nothing, Scaled
    <3> QED
      BY <3>1, <3>3, NoSum DEF SumI
  <2> QED
    BY <2>1
<1> QED
  BY <1>1, <1>2, <1>7, <1>8 DEF InterInv

\* One step of K takes the registers on that are stored.
LEMMA InterComputes ==
    ASSUME InterLaunch, block = InterPlace, k \in 0 .. launch.k, k > 0,
           SumsI(regRes, launch.k - k), TypedI(regRes), I!Compute
    PROVE  SumsI(regRes', launch.k - k + 1) /\ TypedI(regRes')
<1>1. launch \in ItemLaunches /\ launch.k \in Nat
  BY InterleavedPlace, StridedSizes
<1>2. PICK n \in Nat : n = launch.k - k /\ n + 1 \in 0 .. launch.k
  BY <1>1
<1>3. regRes' = [x \in I!RegCols \X I!RegRows |-> [p \in I!Lanes |->
                    Mad(<<<<I!RegA(x[2], p), I!RegB(x[1], p)>>>>, regRes[x][p])]]
  BY SameNumbers DEF I!Compute
<1>4. TypedI(regRes')
  <2>1. ASSUME NEW x \in I!RegCols \X I!RegRows, NEW p \in I!Lanes
        PROVE  IsAccumulator(regRes'[x][p])
    <3>1. PICK g : g = <<<<I!RegA(x[2], p), I!RegB(x[1], p)>>>>
      OBVIOUS
    <3>2. regRes'[x][p] = Mad(g, regRes[x][p])
      BY <1>3, <3>1
    <3>3. IsAccumulator(Mad(g, regRes[x][p]))
      BY MadTyped DEF TypedI
    <3> QED
      BY <3>2, <3>3
  <2>2. /\ DOMAIN regRes' = I!RegCols \X I!RegRows
        /\ \A x \in I!RegCols \X I!RegRows : DOMAIN regRes'[x] = I!Lanes
    BY <1>3
  <2> QED
    BY <2>1, <2>2 DEF TypedI
<1>5. SumsI(regRes', n + 1)
  <2> SUFFICES ASSUME Matches
               PROVE  \A x \in I!Stored :
                         regRes'[<<x[1], x[2]>>][x[3]] = SumI(ElementAt(x), n + 1)
    BY DEF SumsI
  <2>1. ASSUME NEW x \in I!Stored
        PROVE  regRes'[<<x[1], x[2]>>][x[3]] = SumI(ElementAt(x), n + 1)
    <3>1. PICK j \in I!RegCols, r \in I!RegRows, p \in I!Lanes : x = <<j, r, p>>
      BY <1>1, InterShape
    <3>2. /\ ElementAt(x) \in Y!Elements
          /\ I!LoadsLane(block.row + r, launch.m, p) /\ I!LoadsLane(block.col + j, launch.n, p)
      BY <3>1, InterShape
    <3>3. PICK a, b, s : a = RowI(ElementAt(x)) /\ b = ColI(ElementAt(x))
                         /\ s = IF launch.betaZero THEN {} ELSE {CellI(ElementAt(x))}
      OBVIOUS
    <3>4. I!RegA(r, p) = FromA(a[n]) /\ I!RegB(j, p) = FromB(b[n])
      <4>1. n \in 0 .. launch.k - 1 /\ I!KDone = n
        BY <1>1, <1>2 DEF I!KDone
      <4>2. a[n] = I!InterleavedA(block.batch + p, block.row + r, n)
            /\ b[n] = I!InterleavedB(block.batch + p, n, block.col + j)
        BY <3>1, <3>3, <4>1 DEF RowI, ColI, ElementAt
      <4> QED
        BY <3>2, <4>1, <4>2, SameNumbers DEF I!RegA, I!RegB
    <3>5. Differ(a, n + 1)
      <4>1. Differ(a, launch.k)
        BY <1>1, <3>2, <3>3, RowDiffersI
      <4> QED
        BY <1>1, <1>2, <4>1 DEF Differ
    <3>6. regRes[<<j, r>>][p] = Sum(s, a, b, n)
      BY <1>2, <3>1, <3>3 DEF SumsI, SumI
    <3>7. regRes'[<<j, r>>][p]
            = Mad(<<<<FromA(a[n]), FromB(b[n])>>>>, regRes[<<j, r>>][p])
      BY <1>3, <3>4
    <3>8. regRes'[<<j, r>>][p] = Sum(s, a, b, n + 1)
      BY <3>5, <3>6, <3>7, MadOne
    <3> QED
      BY <3>1, <3>3, <3>8 DEF SumI
  <2> QED
    BY <2>1
<1> QED
  BY <1>2, <1>4, <1>5

\* An item stores its registers, each at the cell of its element.
LEMMA InterStores ==
    ASSUME InterLaunch, block = InterPlace, SumsI(regRes, launch.k), I!Store
    PROVE  StoredIn(c')
<1>1. launch \in ItemLaunches
  BY InterleavedPlace
<1>2. \A x : I!AddressOfC(x) = CellI(ElementAt(x))
  BY DEF I!AddressOfC, CellI, ElementAt
<1>3. c' = [a \in {I!AddressOfC(x) : x \in I!Stored} |->
               I!Accumulated(CHOOSE x \in I!Stored : I!AddressOfC(x) = a)]
  BY DEF I!Store, I!StoreOf
<1>4. DOMAIN c' = {CellI(ElementAt(x)) : x \in I!Stored}
  BY <1>2, <1>3
<1>5. ASSUME Matches, NEW x \in I!Stored
      PROVE  c'[CellI(ElementAt(x))] = SumI(ElementAt(x), launch.k)
  <2> DEFINE y == CHOOSE z \in I!Stored : I!AddressOfC(z) = I!AddressOfC(x)
  <2>1. y \in I!Stored /\ CellI(ElementAt(y)) = CellI(ElementAt(x))
    <3>1. y \in I!Stored /\ I!AddressOfC(y) = I!AddressOfC(x)
      OBVIOUS
    <3> QED
      BY <1>2, <3>1
  <2>2. c'[CellI(ElementAt(x))] = regRes[<<y[1], y[2]>>][y[3]]
    <3>1. c'[I!AddressOfC(x)] = I!Accumulated(y)
      BY <1>3
    <3>2. I!RegisterOf(y) = y
      BY <1>5, <2>1, InterShape DEF Matches
    <3>3. I!Accumulated(y) = regRes[<<y[1], y[2]>>][y[3]]
      BY <3>2 DEF I!Accumulated
    <3> QED
      BY <1>2, <3>1, <3>3
  <2> HIDE DEF y
  <2>3. ElementAt(y) = ElementAt(x)
    <3>1. ElementAt(y) \in Y!Elements /\ ElementAt(x) \in Y!Elements
      BY <2>1, InterShape
    <3> QED
      BY <1>1, <2>1, <3>1, OneCellEachI
  <2>4. regRes[<<y[1], y[2]>>][y[3]] = SumI(ElementAt(y), launch.k)
    BY <1>5, <2>1 DEF SumsI
  <2> QED
    BY <2>2, <2>3, <2>4
<1> QED
  BY <1>4, <1>5 DEF StoredIn

LEMMA InterStep == ASSUME InterInv, I!Next PROVE InterInv'
<1>1. /\ InterLaunch /\ block = InterPlace /\ launch.k \in Nat
      /\ pc \in {"run", "done"} /\ k \in 0 .. launch.k /\ batch \in Nat /\ TypedI(regRes)
  BY InterleavedPlace, StridedSizes DEF InterInv
<1>2. launch' = launch /\ block' = block /\ batch' = batch
  BY DEF I!Next, I!Compute, I!Store, I!StoreOf
<1>3. /\ InterLaunch' /\ (block = InterPlace)' /\ (batch \in Nat)'
      /\ I!OutOfRange(block)' = I!OutOfRange(block)
  BY <1>1, <1>2, InterSame
<1>4. pc = "run" /\ ~I!OutOfRange(block) /\ DOMAIN c = {} /\ SumsI(regRes, launch.k - k)
  BY DEF InterInv, I!Next, I!Compute, I!Store, I!StoreOf
<1>5. CASE I!Compute
  <2>1. k > 0 /\ k' = k - 1 /\ pc' = pc /\ c' = c
    BY <1>5 DEF I!Compute
  <2>2. SumsI(regRes', launch.k - k + 1) /\ TypedI(regRes')
    BY <1>1, <1>4, <1>5, <2>1, InterComputes
  <2>3. (k \in 0 .. launch.k)' /\ (launch.k - k)' = launch.k - k + 1
    BY <1>1, <1>2, <2>1
  <2>4. TypedI(regRes)'
    BY <1>2, <2>2, InterSame DEF TypedI, IsAccumulator
  <2>5. SumsI(regRes, launch.k - k)'
    <3>1. PICK n : n = launch.k - k + 1
      OBVIOUS
    <3>2. PICK f : f = regRes'
      OBVIOUS
    <3>3. SumsI(f, n)'
      BY <1>2, <2>2, <3>1, <3>2, InterSame
    <3> QED
      BY <2>3, <3>1, <3>2, <3>3 DEF SumsI
  <2> QED
    BY <1>3, <1>4, <2>1, <2>3, <2>4, <2>5 DEF InterInv
<1>6. CASE I!Store
  <2>1. k = 0 /\ k' = k /\ pc' = "done" /\ regRes' = regRes
    BY <1>6 DEF I!Store, I!StoreOf
  <2>2. launch.k - k = launch.k
    BY <1>1, <2>1
  <2>3. StoredIn(c')
    BY <1>1, <1>4, <1>6, <2>2, InterStores
  <2>4. StoredIn(c)'
    <3>1. PICK f : f = c'
      OBVIOUS
    <3>2. StoredIn(f)'
      BY <1>2, <2>3, <3>1, InterSame
    <3> QED
      BY <3>1, <3>2 DEF StoredIn
  <2>5. TypedI(regRes)' /\ (k \in 0 .. launch.k)'
    <3>1. TypedI(regRes)'
      <4>1. PICK f : f = regRes
        OBVIOUS
      <4>2. TypedI(f)'
        BY <1>1, <1>2, <4>1, InterSame
      <4> QED
        BY <2>1, <4>1, <4>2 DEF TypedI
    <3> QED
      BY <1>1, <1>2, <2>1, <3>1
  <2> QED
    BY <1>3, <1>4, <2>1, <2>4, <2>5 DEF InterInv
<1> QED
  BY <1>5, <1>6 DEF I!Next

\* A sum of all the products is what an element is to be.
LEMMA WholeSumI ==
    ASSUME NEW e
    PROVE  SumI(e, launch.k)
             = I!Product(launch.betaZero, CellI(e),
                         {<<I!InterleavedA(e[1], e[2], l), I!InterleavedB(e[1], l, e[3])>> :
                             l \in 0 .. launch.k - 1})
<1> DEFINE pairs == {<<I!InterleavedA(e[1], e[2], l), I!InterleavedB(e[1], l, e[3])>> :
                        l \in 0 .. launch.k - 1}
<1>1. {<<FromA(p[1]), FromB(p[2])>> : p \in pairs}
        = {<<FromA(RowI(e)[x]), FromB(ColI(e)[x])>> : x \in 0 .. launch.k - 1}
  <2>1. \A p \in pairs : \E x \in 0 .. launch.k - 1 :
            p[1] = RowI(e)[x] /\ p[2] = ColI(e)[x]
    BY DEF RowI, ColI
  <2>2. ASSUME NEW x \in 0 .. launch.k - 1
        PROVE  \E p \in pairs : p[1] = RowI(e)[x] /\ p[2] = ColI(e)[x]
    <3>1. <<I!InterleavedA(e[1], e[2], x), I!InterleavedB(e[1], x, e[3])>> \in pairs
      OBVIOUS
    <3> QED
      BY <3>1 DEF RowI, ColI
  <2> HIDE DEF pairs
  <2> QED
    BY <2>1, <2>2
<1>2. I!Product(launch.betaZero, CellI(e), pairs)
        = [c |-> IF launch.betaZero THEN {} ELSE {CellI(e)},
           of |-> {<<FromA(p[1]), FromB(p[2])>> : p \in pairs}, once |-> TRUE]
  BY SameNumbers DEF I!Product
<1> QED
  BY <1>1, <1>2 DEF SumI, Sum

LEMMA InterExact ==
    ASSUME InterInv
    PROVE  I!TypeOK /\ (Matches => I!ItemExact) /\ I!LoadsInBounds
<1>1. InterLaunch /\ block = InterPlace /\ launch \in ItemLaunches
  BY InterleavedPlace DEF InterInv
<1>2. I!LoadsInBounds
  BY <1>1, InterShape
<1>3. DOMAIN c \subseteq 0 .. launch.batchSize * Y!CSize - 1
  <2>1. ASSUME NEW x \in I!Stored
        PROVE  CellI(ElementAt(x)) \in 0 .. launch.batchSize * Y!CSize - 1
    BY <1>1, InterShape, OneCellEachI
  <2> QED
    BY <2>1 DEF InterInv, StoredIn
<1>4. I!TypeOK
  BY <1>3 DEF InterInv, TypedI, I!TypeOK, I!CSize, Y!CSize, I!IsAccumulator, IsAccumulator
<1>5. ASSUME Matches PROVE I!ItemExact
  <2> SUFFICES ASSUME pc = "done" PROVE I!ItemExact
    BY DEF I!ItemExact
  <2> DEFINE share == I!ItemShare(launch.group, launch.item)
  <2>1. share = IF I!OutOfRange(block) THEN {} ELSE {ElementAt(x) : x \in I!Stored}
    BY <1>1 DEF I!ItemShare, InterPlace, I!Stored, ElementAt
  <2>2. DOMAIN c = {CellI(e) : e \in share}
    BY <2>1 DEF InterInv, StoredIn
  <2>3. ASSUME NEW e \in share PROVE c[CellI(e)] = SumI(e, launch.k)
    BY <1>5, <2>1 DEF InterInv, StoredIn
  <2> HIDE DEF share
  <2>4. \A e \in share : c[CellI(e)]
            = I!Product(launch.betaZero, CellI(e),
                        {<<I!InterleavedA(e[1], e[2], l), I!InterleavedB(e[1], l, e[3])>> :
                            l \in 0 .. launch.k - 1})
    BY <2>3, WholeSumI
  <2> QED
    BY <2>2, <2>4 DEF I!ItemExact, share, CellI
<1> QED
  BY <1>2, <1>4, <1>5

-------------------------------------------------------------------------------
(***************************************************************************)
(* The four kernels without local memory                                   *)
(***************************************************************************)

ItemInv ==
    /\ launch \in AllLaunches
    /\ Runs("fullVec") => FullInv
    /\ Runs("partialVec") => PartInv
    /\ Runs("interleaved") => InterInv
    /\ Runs("ref") => RefInv

\* A launch names its kernel.
LEMMA KernelOf ==
    /\ launch \in LocalLaunches => Runs("local")
    /\ launch \in TallSkinnyLaunches => Runs("tallSkinny")
    /\ launch \in FullVecLaunches => Runs("fullVec")
    /\ launch \in PartialVecLaunches => Runs("partialVec")
    /\ launch \in InterleavedLaunches => Runs("interleaved")
    /\ launch \in RefLaunches => Runs("ref")
BY GemmKernelsAssumption DEF GemmKernelsAssumption, KernelsAssumption, Runs

LEMMA ItemStart == Init => ItemInv
<1> SUFFICES ASSUME Init PROVE ItemInv
  OBVIOUS
<1>1. CASE L!Init \/ T!Init
  <2>1. launch \in LocalLaunches \/ launch \in TallSkinnyLaunches
    BY <1>1 DEF L!Init, T!Init
  <2> QED
    BY <2>1, KernelOf DEF ItemInv, AllLaunches, Runs
<1>2. CASE F!Init
  <2>1. launch \in FullVecLaunches /\ FullInv
    BY <1>2, FullStart DEF F!Init
  <2> QED
    BY <2>1, KernelOf DEF ItemInv, AllLaunches, Runs
<1>3. CASE P!Init
  <2>1. launch \in PartialVecLaunches /\ PartInv
    BY <1>3, PartStart DEF P!Init
  <2> QED
    BY <2>1, KernelOf DEF ItemInv, AllLaunches, Runs
<1>4. CASE I!Init
  <2>1. launch \in InterleavedLaunches /\ InterInv
    BY <1>4, InterStart DEF I!Init
  <2> QED
    BY <2>1, KernelOf DEF ItemInv, AllLaunches, Runs
<1>5. CASE R!Init
  <2>1. launch \in RefLaunches /\ RefInv
    BY <1>5, RefStart DEF R!Init
  <2> QED
    BY <2>1, KernelOf DEF ItemInv, AllLaunches, Runs
<1> QED
  BY <1>1, <1>2, <1>3, <1>4, <1>5 DEF Init

\* A step that changes nothing keeps the invariants.
LEMMA LoopStays ==
    ASSUME NEW S, NEW rows, NEW cols, NEW b0, NEW d, LoopInv(S, rows, cols, b0, d),
           UNCHANGED <<launch, pc, batch, k, regRes, c>>
    PROVE  LoopInv(S, rows, cols, b0, d)'
<1>1. /\ (launch \in ItemLaunches)' /\ Shape(S, rows, cols)'
      /\ (pc \in {"run", "done"})' /\ (k \in 0 .. launch.k)'
      /\ (pc = "run" <=> batch < launch.batchSize)'
  BY LoopSame DEF LoopInv
<1>2. Reached(b0, d, batch)'
  BY DEF LoopInv, Reached
<1>3. PICK f, g, b, n, Q :
          /\ f = regRes /\ g = c /\ b = batch /\ n = launch.k - k /\ Q = PlacesOf(S, rows, cols)
  OBVIOUS
<1>4. f = regRes' /\ g = c' /\ b = batch' /\ n = (launch.k - k)' /\ Q = PlacesOf(S, rows, cols)'
  BY <1>3 DEF PlacesOf
<1>5. Typed(f)' /\ (pc = "run" => Sums(f, S, rows, cols, b, n)') /\ Holds(g, Q, b0, d, b)'
  BY <1>3, LoopSame DEF LoopInv
<1>6. /\ Typed(regRes)'
      /\ (pc = "run" => Sums(regRes, S, rows, cols, batch, launch.k - k))'
      /\ Holds(c, PlacesOf(S, rows, cols), b0, d, batch)'
  BY <1>4, <1>5 DEF Typed, Sums, Holds
<1> QED
  BY <1>1, <1>2, <1>6 DEF LoopInv

LEMMA ItemStays ==
    ASSUME ItemInv, UNCHANGED <<launch, block, pc, batch, k, regRes, c>>
    PROVE  ItemInv'
<1>1. ASSUME FullInv PROVE FullInv'
  <2>1. FullLaunch /\ block = FullPlace
    BY <1>1 DEF FullInv
  <2>2. PICK S, rows, cols, b0, d :
          /\ S = F!Stored /\ rows = FullRows /\ cols = FullCols
          /\ b0 = F!WgBatchId(launch.group) /\ d = F!BatchStride
          /\ LoopInv(S, rows, cols, b0, d)
    BY <1>1 DEF FullInv
  <2>3. LoopInv(S, rows, cols, b0, d)'
    BY <2>2, LoopStays
  <2>4. /\ FullLaunch' /\ (block = FullPlace)'
        /\ S = F!Stored' /\ rows = FullRows' /\ cols = FullCols'
        /\ b0 = F!WgBatchId(launch.group)' /\ d = F!BatchStride'
    BY <2>1, <2>2, FullSame
  <2> QED
    BY <2>3, <2>4 DEF FullInv
<1>2. ASSUME PartInv PROVE PartInv'
  <2>1. PartLaunch /\ block = PartPlace
    BY <1>2 DEF PartInv
  <2>2. PICK S, rows, cols, b0, d :
          /\ S = P!Stored /\ rows = PartRows /\ cols = PartCols
          /\ b0 = P!WgBatchId(launch.group) /\ d = P!BatchStride
          /\ LoopInv(S, rows, cols, b0, d)
    BY <1>2 DEF PartInv
  <2>3. LoopInv(S, rows, cols, b0, d)'
    BY <2>2, LoopStays
  <2>4. /\ PartLaunch' /\ (block = PartPlace)'
        /\ S = P!Stored' /\ rows = PartRows' /\ cols = PartCols'
        /\ b0 = P!WgBatchId(launch.group)' /\ d = P!BatchStride'
    BY <2>1, <2>2, PartSame
  <2> QED
    BY <2>3, <2>4 DEF PartInv
<1>3. ASSUME InterInv PROVE InterInv'
  <2>1. /\ InterLaunch' /\ InterPlace' = InterPlace
        /\ I!OutOfRange(block)' = I!OutOfRange(block)
    BY <1>3, InterSame DEF InterInv
  <2>2. PICK f, g, n : f = regRes /\ g = c /\ n = launch.k - k
    OBVIOUS
  <2>3. f = regRes' /\ g = c' /\ n = (launch.k - k)'
    BY <2>2
  <2>4. /\ TypedI(f)' /\ (pc = "run" => SumsI(f, n)')
        /\ (pc = "done" /\ ~I!OutOfRange(block) => StoredIn(g)')
    BY <1>3, <2>2, InterSame DEF InterInv
  <2>5. /\ TypedI(regRes)' /\ (pc = "run" => SumsI(regRes, launch.k - k))'
        /\ (pc = "done" /\ ~I!OutOfRange(block) => StoredIn(c)')
    BY <2>3, <2>4 DEF TypedI, SumsI, StoredIn
  <2>6. /\ (block = InterPlace)' /\ (pc \in {"run", "done"})' /\ (k \in 0 .. launch.k)'
        /\ (batch \in Nat)'
        /\ (pc = "run" => ~I!OutOfRange(block) /\ DOMAIN c = {})'
        /\ (pc = "done" => (I!OutOfRange(block) => DOMAIN c = {}))'
    BY <1>3, <2>1 DEF InterInv
  <2> QED
    BY <2>1, <2>5, <2>6 DEF InterInv
<1>4. ASSUME RefInv PROVE RefInv'
  <2>1. /\ RefFirst' = RefFirst /\ R!BatchStride' = R!BatchStride /\ RefPlaces' = RefPlaces
        /\ RefWorks' = RefWorks /\ R!Groups' = R!Groups /\ R!Items' = R!Items
        /\ R!Row(launch.group, launch.item)' = R!Row(launch.group, launch.item)
        /\ R!Col(launch.group, launch.item)' = R!Col(launch.group, launch.item)
    BY DEF RefFirst, RefPlaces, RefWorks, R!Row, R!Col, R!Works, R!WgBatchId, R!BatchStride,
     R!ItemId, R!WorkgroupCluster, R!NumWorkgroupCluster, R!WgSize, R!Groups, R!Items
  <2>2. /\ (launch \in RefLaunches /\ launch.group \in R!Groups /\ launch.item \in R!Items)'
        /\ (block = [row |-> R!Row(launch.group, launch.item),
                     col |-> R!Col(launch.group, launch.item)])'
        /\ (pc \in {"run", "done"})' /\ (k \in 0 .. launch.k)'
        /\ (~RefWorks => DOMAIN c = {})'
    BY <1>4, <2>1 DEF RefInv
  <2>3. Reached(RefFirst, R!BatchStride, batch)'
    BY <1>4, <2>1 DEF RefInv, Reached
  <2>4. (IsAccumulator(regRes[0][0]) /\ regRes = R!RegRes(regRes[0][0]))'
    BY <1>4 DEF RefInv, R!RegRes, R!RegCols, R!RegRows, IsAccumulator
  <2>5. RefSum(launch.k - k)' = RefSum(launch.k - k)
    BY <2>1 DEF RefSum, Sum, AddressesA, AddressesB, Y!StridedA, Y!StridedB, Y!ASize,
       Y!BSize, Y!Address
  <2>6. (pc = "run" => /\ RefWorks /\ batch < launch.batchSize
                       /\ regRes[0][0] = RefSum(launch.k - k))'
    BY <1>4, <2>1, <2>5 DEF RefInv
  <2>7. Holds(c, RefPlaces, RefFirst, R!BatchStride, batch)'
          <=> Holds(c, RefPlaces, RefFirst, R!BatchStride, batch)
    BY <2>1, LaunchSame DEF Holds, ShareAt
  <2>8. (RefWorks => /\ Holds(c, RefPlaces, RefFirst, R!BatchStride, batch)
                     /\ pc = "done" => batch >= launch.batchSize)'
    BY <1>4, <2>1, <2>7 DEF RefInv
  <2> QED
    BY <2>2, <2>3, <2>4, <2>6, <2>8 DEF RefInv
<1> QED
  BY <1>1, <1>2, <1>3, <1>4 DEF ItemInv, Runs, AllLaunches

LEMMA ItemInvStep == ItemInv /\ [Next]_vars => ItemInv'
<1> SUFFICES ASSUME ItemInv, [Next]_vars PROVE ItemInv'
  OBVIOUS
<1>1. CASE \E i \in Item : GroupStep(i)
  <2>1. launch' = launch /\ (Runs("local") \/ Runs("tallSkinny"))
    BY <1>1 DEF GroupStep, L!Step, L!Load, L!Compute, L!Store, T!Step, T!Start, T!LoadNext,
       T!Compute, T!Store
  <2> QED
    BY <2>1 DEF ItemInv, Runs, AllLaunches
<1>2. CASE Runs("fullVec") /\ F!Next
  <2>1. FullInv' /\ launch' = launch
    BY <1>2, FullStep DEF ItemInv, F!Next, F!Compute, F!Store
  <2> QED
    BY <1>2, <2>1 DEF ItemInv, Runs, AllLaunches
<1>3. CASE Runs("partialVec") /\ P!Next
  <2>1. PartInv' /\ launch' = launch
    BY <1>3, PartStep DEF ItemInv, P!Next, P!Compute, P!Store
  <2> QED
    BY <1>3, <2>1 DEF ItemInv, Runs, AllLaunches
<1>4. CASE Runs("interleaved") /\ I!Next
  <2>1. InterInv' /\ launch' = launch
    BY <1>4, InterStep DEF ItemInv, I!Next, I!Compute, I!Store, I!StoreOf
  <2> QED
    BY <1>4, <2>1 DEF ItemInv, Runs, AllLaunches
<1>5. CASE Runs("ref") /\ R!Next
  <2>1. RefInv' /\ launch' = launch
    BY <1>5, RefStep DEF ItemInv, R!Next, R!Compute, R!Store
  <2> QED
    BY <1>5, <2>1 DEF ItemInv, Runs, AllLaunches
<1>6. CASE UNCHANGED vars
  <2>1. UNCHANGED <<launch, block, pc, batch, k, regRes, c>>
    BY <1>6 DEF vars
  <2> QED
    BY <2>1, ItemStays
<1>7. (\E i \in Item : GroupStep(i)) \/ ItemStep \/ UNCHANGED vars
  BY DEF Next, Finished
<1> QED
  BY <1>1, <1>2, <1>3, <1>4, <1>5, <1>6, <1>7 DEF ItemStep

\* The accumulators, the batch and the stored cells of an item, at every step.
THEOREM ItemInvariant == Spec => []ItemInv
BY ItemStart, ItemInvStep, PTL DEF Spec

\* No interleaved launch whose items have several packets of batches skips a
\* register before an element of C (gemm_interleaved.hpp:370 and 434): without it
\* items store the registers of other elements.
SkipsFit == \A l \in InterleavedLaunches : I!SkipsFit(l)

\* The kernels without local memory: a work-item that has returned has stored
\* its share of the elements of C, in all its batches and nothing else, each
\* with beta times what was there and with every product of its row and column
\* once; of interleaved batches, in the launches that SkipsFit describes.
THEOREM ItemsExact == SkipsFit => (Spec => []ItemExact)
<1> SUFFICES ASSUME SkipsFit PROVE Spec => []ItemExact
  OBVIOUS
<1>1. ASSUME InterInv PROVE I!ItemExact
  <2>1. InterLaunch /\ block = InterPlace
    BY <1>1 DEF InterInv
  <2>2. I!SkipsFit(launch)
    BY <2>1 DEF InterLaunch, SkipsFit
  <2>3. Matches
    BY <2>1, <2>2, RegistersMatch
  <2> QED
    BY <1>1, <2>3, InterExact
<1>2. ItemInv => ItemExact
  BY <1>1, RefExact, FullExact, PartExact DEF ItemInv, ItemExact
<1> QED
  BY <1>2, ItemInvariant, PTL
================================================================================
