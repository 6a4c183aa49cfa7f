---------------------------- MODULE GridArithmetic ----------------------------
(***************************************************************************)
(* Quotients and remainders, as the index arithmetic of the kernels needs  *)
(* them: how a position of the input belongs to a block, a work-group and  *)
(* a work-item; the barriers that keep the items of a group together; and  *)
(* sums over finite sets, as far as the inversion of a triangle needs them.*)
(***************************************************************************)
EXTENDS FiniteSetsExt, FiniteSetTheorems, TLAPS

\* The quotient and the remainder of a by b.
LEMMA DivMod ==
    ASSUME NEW a \in Nat, NEW b \in Nat \ {0}
    PROVE  /\ a \div b \in Nat
           /\ a % b \in 0 .. b - 1
           /\ a = b * (a \div b) + (a % b)
<1>1. a \div b \in Nat
  BY Z3
<1>2. a % b \in 0 .. b - 1
  OBVIOUS
<1>3. a % b = a - b * (a \div b)
  OBVIOUS
<1>4. b * (a \div b) \in Int
  BY <1>1
<1> QED
  BY <1>1, <1>2, <1>3, <1>4

\* Multiplication by a natural number preserves the order.
LEMMA MulMonotone ==
    ASSUME NEW b \in Nat, NEW p \in Int, NEW q \in Int, p <= q
    PROVE  b * p <= b * q
OBVIOUS

\* There is only one quotient and one remainder.
LEMMA DivModUnique ==
    ASSUME NEW b \in Nat \ {0}, NEW q \in Nat, NEW r \in 0 .. b - 1,
           NEW a \in Nat, a = b * q + r
    PROVE  a \div b = q /\ a % b = r
<1> DEFINE p == a \div b
           s == a % b
<1>1. p \in Nat /\ s \in 0 .. b - 1 /\ b * q + r = b * p + s
  BY DivMod
<1>2. b * p \in Int /\ b * q \in Int
  BY <1>1
<1> HIDE DEF p, s
<1>3. CASE q + 1 <= p
  <2>1. b * (q + 1) <= b * p /\ b * (q + 1) = b * q + b
    BY <1>1, <1>3, MulMonotone
  <2> QED
    BY <1>1, <1>2, <2>1
<1>4. CASE p + 1 <= q
  <2>1. b * (p + 1) <= b * q /\ b * (p + 1) = b * p + b
    BY <1>1, <1>4, MulMonotone
  <2> QED
    BY <1>1, <1>2, <2>1
<1>5. CASE q = p
  BY <1>1, <1>2, <1>5 DEF p, s
<1>6. q = p \/ q + 1 <= p \/ p + 1 <= q
  BY <1>1
<1> QED
  BY <1>3, <1>4, <1>5, <1>6

\* Halving the modulus: what is at i modulo h is at i or at i + h modulo 2h.
LEMMA ModHalf ==
    ASSUME NEW x \in Nat, NEW h \in Nat \ {0}, NEW i \in 0 .. h - 1
    PROVE  x % h = i <=> (x % (2 * h) = i \/ x % (2 * h) = i + h)
<1> DEFINE q == x \div (2 * h)
           r == x % (2 * h)
<1>0. 2 * h \in Nat \ {0}
  OBVIOUS
<1>1. q \in Nat /\ r \in 0 .. (2 * h) - 1 /\ x = (2 * h) * q + r
  BY <1>0, DivMod
<1> HIDE DEF q, r
<1>2. CASE r < h
  <2>1. x = h * (2 * q) + r /\ 2 * q \in Nat /\ r \in 0 .. h - 1
    BY <1>1, <1>2
  <2>2. x % h = r
    BY <2>1, DivModUnique
  <2> QED
    BY <1>1, <1>2, <2>2 DEF r
<1>3. CASE r >= h
  <2>1. x = h * (2 * q + 1) + (r - h) /\ 2 * q + 1 \in Nat /\ r - h \in 0 .. h - 1
    BY <1>1, <1>3
  <2>2. x % h = r - h
    BY <2>1, DivModUnique
  <2> QED
    BY <1>1, <1>3, <2>2 DEF r
<1> QED
  BY <1>1, <1>2, <1>3

\* The positions of S at i modulo o.
Congruent(S, o, i) == {x \in S : x % o = i}

\* What is at i modulo h is in two halves, at i and at i + h modulo 2h.
LEMMA CongruentHalves ==
    ASSUME NEW S, S \subseteq Nat, NEW h \in Nat \ {0}, NEW i \in 0 .. h - 1
    PROVE  Congruent(S, 2 * h, i) \cup Congruent(S, 2 * h, i + h)
               = Congruent(S, h, i)
<1>1. ASSUME NEW x \in Nat
      PROVE  x % h = i <=> (x % (2 * h) = i \/ x % (2 * h) = i + h)
  <2>1. ASSUME x % h = i PROVE x % (2 * h) = i \/ x % (2 * h) = i + h
    BY <2>1, ModHalf, ZenonT(40)
  <2>2. CASE x % (2 * h) = i
    BY <2>2, ModHalf, ZenonT(40)
  <2>3. CASE x % (2 * h) = i + h
    BY <2>3, ModHalf, ZenonT(40)
  <2> QED
    BY <2>1, <2>2, <2>3
<1> QED
  BY <1>1, Zenon DEF Congruent

\* Adding whole multiples of the modulus.
LEMMA ModAdd ==
    ASSUME NEW x \in Nat, NEW b \in Nat \ {0}, NEW n \in Nat
    PROVE  (x + b * n) % b = x % b /\ (x + b * n) \div b = (x \div b) + n
<1> DEFINE q == x \div b
           r == x % b
<1>1. q \in Nat /\ r \in 0 .. b - 1 /\ x = b * q + r
  BY DivMod
<1> HIDE DEF q, r
<1>2. x + b * n = b * (q + n) + r /\ q + n \in Nat /\ x + b * n \in Nat
  BY <1>1
<1>3. (x + b * n) % b = r /\ (x + b * n) \div b = q + n
  BY <1>1, <1>2, DivModUnique
<1> QED
  BY <1>3 DEF q, r

\* Two numbers in the same class of a modulus, of which one is before the other
\* plus the modulus.
LEMMA SameClass ==
    ASSUME NEW n \in Nat \ {0}, NEW a \in Nat, NEW b \in Nat, a % n = b % n
    PROVE  a < b + n <=> (a < b \/ a = b)
<1> DEFINE p == a \div n
           q == b \div n
           r == b % n
<1>1. /\ p \in Nat /\ q \in Nat /\ r \in 0 .. n - 1
      /\ a = n * p + r /\ b = n * q + r
  BY DivMod
<1> HIDE DEF p, q, r
<1>2. CASE p <= q
  <2>1. n * p <= n * q
    BY <1>1, <1>2, MulMonotone
  <2> DEFINE x == n * p
             y == n * q
  <2>2. x \in Int /\ y \in Int
    BY <1>1
  <2> HIDE DEF x, y
  <2> QED
    BY <1>1, <2>1, <2>2 DEF x, y
<1>3. CASE q + 1 <= p
  <2>1. n * (q + 1) <= n * p /\ n * (q + 1) = n * q + n
    BY <1>1, <1>3, MulMonotone
  <2> DEFINE x == n * p
             y == n * q
  <2>2. x \in Int /\ y \in Int
    BY <1>1
  <2>3. y + n <= x
    BY <2>1
  <2> HIDE DEF x, y
  <2> QED
    BY <1>1, <2>2, <2>3 DEF x, y
<1> QED
  BY <1>1, <1>2, <1>3

\* The positions of a group's share that the work-item t takes: within one trip
\* of the grid loop, which starts at position y, there are two, y and y + l.
LEMMA OneTrip ==
    ASSUME NEW l \in Nat \ {0}, NEW g \in Nat \ {0}, NEW t \in 0 .. l - 1,
           NEW y \in Nat, y % (2 * l) = t,
           NEW x \in Nat, x >= y, x < y + 2 * (g * l), x % l = t,
           (x \div (2 * l)) % g = (y \div (2 * l)) % g
    PROVE  x = y \/ x = y + l
<1> DEFINE b == 2 * l
           m == y \div b
           n == x \div b
           r == x % b
<1>0. b \in Nat \ {0} /\ y % b = t
  OBVIOUS
<1>1. /\ m \in Nat /\ n \in Nat /\ r \in 0 .. b - 1
      /\ y = b * m + t /\ x = b * n + r
  <2> HIDE DEF b
  <2> QED
    BY <1>0, DivMod
<1>2. r = t \/ r = t + l
  <2>1. x % l = t <=> (x % (2 * l) = t \/ x % (2 * l) = t + l)
    BY ModHalf
  <2> QED
    BY <2>1
<1>3. n % g = m % g
  OBVIOUS
<1> HIDE DEF m, n, r
<1>4. n >= m
  <2> SUFFICES ASSUME n + 1 <= m PROVE FALSE
    BY <1>1
  <2>1. b * (n + 1) <= b * m /\ b * (n + 1) = b * n + b
    BY <1>1, MulMonotone
  <2> QED
    BY <1>1, <2>1
<1>5. n < m + g
  <2> SUFFICES ASSUME m + g <= n PROVE FALSE
    BY <1>1
  <2>1. b * (m + g) <= b * n /\ b * (m + g) = b * m + 2 * (g * l)
    BY <1>1, MulMonotone
  <2>2. b * m \in Nat /\ b * n \in Nat /\ g * l \in Nat
    BY <1>1
  <2> QED
    BY <1>1, <1>2, <2>1, <2>2
<1>6. n = m
  <2>1. /\ m \div g \in Nat /\ m % g \in 0 .. g - 1
        /\ m = g * (m \div g) + (m % g)
    BY <1>1, DivMod
  <2>2. /\ n \div g \in Nat /\ n = g * (n \div g) + (m % g)
    <3>1. n \div g \in Nat /\ n = g * (n \div g) + (n % g)
      BY <1>1, DivMod
    <3> QED
      BY <1>3, <3>1
  <2> DEFINE p == m \div g
             q == n \div g
             s == m % g
  <2>3. p \in Nat /\ q \in Nat /\ s \in 0 .. g - 1 /\ m = g * p + s /\ n = g * q + s
    BY <2>1, <2>2
  <2> HIDE DEF p, q, s
  <2>4. CASE q = p
    BY <2>3, <2>4
  <2>5. CASE p + 1 <= q
    <3>1. g * (p + 1) <= g * q /\ g * (p + 1) = g * p + g
      BY <2>3, <2>5, MulMonotone
    <3> QED
      BY <1>5, <2>3, <3>1
  <2>6. CASE q + 1 <= p
    <3>1. g * (q + 1) <= g * p /\ g * (q + 1) = g * q + g
      BY <2>3, <2>6, MulMonotone
    <3> QED
      BY <1>4, <2>3, <3>1
  <2> QED
    BY <2>3, <2>4, <2>5, <2>6
<1> QED
  BY <1>1, <1>2, <1>6

\* A block of 2l positions has two lanes that the work-item t reads: y and y + l
\* are in the same block.
LEMMA SameBlock ==
    ASSUME NEW l \in Nat \ {0}, NEW t \in 0 .. l - 1,
           NEW y \in Nat, y % (2 * l) = t
    PROVE  /\ y % l = t /\ (y + l) % l = t
           /\ (y + l) \div (2 * l) = y \div (2 * l)
<1> DEFINE b == 2 * l
           q == y \div b
<1>1. b \in Nat \ {0} /\ y % b = t /\ t + l \in 0 .. b - 1
  OBVIOUS
<1>2. q \in Nat /\ y = b * q + t
  <2> HIDE DEF b
  <2> QED
    BY <1>1, DivMod
<1> HIDE DEF q
<1>3. y = l * (2 * q) + t /\ 2 * q \in Nat
  BY <1>2
<1>4. y % l = t
  BY <1>3, DivModUnique
<1> DEFINE z == 2 * q
<1>5. z + 1 \in Nat /\ y + l = l * (z + 1) + t /\ y + l \in Nat
  <2>1. z \in Nat /\ y = l * z + t
    BY <1>3
  <2> HIDE DEF z
  <2>2. l * (z + 1) = l * z + l
    BY <2>1
  <2> QED
    BY <2>1, <2>2
<1> HIDE DEF z
<1>6. (y + l) % l = t
  BY <1>5, DivModUnique
<1>7. y + l = b * q + (t + l)
  BY <1>2
<1> HIDE DEF b
<1>8. (y + l) \div b = q
  <2> DEFINE r == t + l
             a == y + l
  <2>1. /\ b \in Nat \ {0} /\ q \in Nat /\ r \in 0 .. b - 1
        /\ a \in Nat /\ a = b * q + r
    BY <1>1, <1>2, <1>5, <1>7
  <2> HIDE DEF r, a
  <2>2. a \div b = q
    BY <2>1, DivModUnique
  <2> QED
    BY <2>2 DEF a
<1> QED
  BY <1>4, <1>6, <1>8 DEF b, q

\* The positions of an input of n elements that fall to work-item t of group c,
\* out of g groups of l work-items.
Lane(n, l, g, c, t) ==
    {x \in 0 .. n - 1 : ((x \div (2 * l)) % g = c) /\ (x % l = t)}

\* The set of a work-item's positions grows, in one trip, by y and y + l as far
\* as they are in the input.
LEMMA TripSet ==
    ASSUME NEW l \in Nat \ {0}, NEW g \in Nat \ {0}, NEW n \in Nat, NEW c,
           NEW t \in 0 .. l - 1,
           NEW y \in 0 .. n - 1, y % (2 * l) = t, (y \div (2 * l)) % g = c
    PROVE  /\ y \in Lane(n, l, g, c, t)
           /\ (y + l < n) => y + l \in Lane(n, l, g, c, t)
           /\ \A x \in Lane(n, l, g, c, t) :
                 /\ x \in Nat /\ x < n
                 /\ (x < y + 2 * (g * l)) <=> (x < y \/ x = y \/ x = y + l)
<1> DEFINE S == Lane(n, l, g, c, t)
<1> USE DEF Lane
<1>0. y \in Nat
  OBVIOUS
<1>1. y \in S
  <2>1. y % l = t
    BY <1>0, SameBlock, ZenonT(40)
  <2>2. y \in 0 .. n - 1 /\ (y \div (2 * l)) % g = c
    OBVIOUS
  <2> QED
    BY <2>1, <2>2, Zenon
<1>2. ASSUME y + l < n PROVE y + l \in S
  <2>1. y + l \in 0 .. n - 1
    BY <1>2
  <2>2. (y + l) % l = t /\ (y + l) \div (2 * l) = y \div (2 * l)
    BY <1>0, SameBlock, ZenonT(40)
  <2>3. (y \div (2 * l)) % g = c
    OBVIOUS
  <2> QED
    BY <2>1, <2>2, <2>3, Zenon
<1>3. l <= g * l /\ g * l \in Nat \ {0}
  <2>1. l * 1 <= l * g
    BY MulMonotone
  <2> QED
    BY <2>1
<1>4. ASSUME NEW x \in S, x >= y, x < y + 2 * (g * l)
      PROVE  x = y \/ x = y + l
  <2>1. x \in Nat /\ y \in Nat /\ x % l = t
        /\ (x \div (2 * l)) % g = (y \div (2 * l)) % g
    OBVIOUS
  <2> QED
    BY <1>4, <2>1, OneTrip
<1>5. ASSUME NEW x \in S
      PROVE  /\ x \in Nat /\ x < n
             /\ (x < y + 2 * (g * l)) <=> (x < y \/ x = y \/ x = y + l)
  <2>1. x \in Nat /\ x < n
    OBVIOUS
  <2>2. CASE x < y
    BY <1>0, <1>3, <2>1, <2>2
  <2>3. CASE x >= y
    <3>1. x < y + 2 * (g * l) => x = y \/ x = y + l
      BY <1>4, <2>3
    <3>2. y < y + 2 * (g * l) /\ y + l < y + 2 * (g * l)
      BY <1>0, <1>3
    <3> QED
      BY <1>0, <2>1, <2>3, <3>1, <3>2
  <2> QED
    BY <1>0, <2>1, <2>2, <2>3
<1> QED
  BY <1>1, <1>2, <1>5

\* The first position of a work-item: nothing of its lane is below it.
LEMMA FirstTrip ==
    ASSUME NEW l \in Nat \ {0}, NEW g \in Nat \ {0}, NEW n \in Nat,
           NEW c \in 0 .. g - 1, NEW t \in 0 .. l - 1,
           NEW y \in Nat, y = 2 * c * l + t
    PROVE  /\ y % (2 * l) = t
           /\ (y \div (2 * l)) % g = c
           /\ \A x \in Lane(n, l, g, c, t) : x >= y
<1> DEFINE b == 2 * l
<1>1. b \in Nat \ {0} /\ t \in 0 .. b - 1 /\ y = b * c + t /\ c \in Nat
  OBVIOUS
<1> HIDE DEF b
<1>2. y % b = t /\ y \div b = c
  BY <1>1, DivModUnique
<1>3. c % g = c
  <2>1. c = g * 0 + c
    OBVIOUS
  <2> QED
    BY <1>1, <2>1, DivModUnique
<1>4. ASSUME NEW x \in Lane(n, l, g, c, t) PROVE x >= y
  <2> DEFINE m == x \div b
             r == x % b
  <2>1. x \in Nat /\ m % g = c /\ x % l = t
    BY DEF Lane, b
  <2>2. m \in Nat /\ r \in 0 .. b - 1 /\ x = b * m + r
    BY <1>1, <2>1, DivMod
  <2>3. r = t \/ r = t + l
    BY <2>1, ModHalf DEF b
  <2> HIDE DEF m, r
  <2>4. c <= m
    <3> DEFINE q == m \div g
    <3>1. q \in Nat /\ m = g * q + c
      BY <2>1, <2>2, DivMod
    <3> HIDE DEF q
    <3>2. g * q >= 0
      BY <3>1
    <3> QED
      BY <1>1, <2>2, <3>1, <3>2
  <2>5. b * c <= b * m
    BY <1>1, <2>2, <2>4, MulMonotone
  <2> QED
    BY <1>1, <2>2, <2>3, <2>5
<1> QED
  BY <1>2, <1>3, <1>4 DEF b

\* The columns of a row of cols elements that fall to the block column col of
\* count, in blocks of w columns.
BlockColumns(cols, w, count, col) ==
    {x \in 0 .. cols - 1 : x >= col * w /\ (x - col * w) % (w * count) < w}

\* Each column falls to one block column: that of its block, modulo count.
LEMMA BlockColumn ==
    ASSUME NEW w \in Nat \ {0}, NEW count \in Nat \ {0}, NEW x \in Nat
    PROVE  /\ (x \div w) % count \in 0 .. count - 1
           /\ x >= ((x \div w) % count) * w
           /\ (x - ((x \div w) % count) * w) % (w * count) < w
           /\ \A col \in 0 .. count - 1 :
                 x >= col * w /\ (x - col * w) % (w * count) < w
                     => (x \div w) % count = col
<1> DEFINE q == x \div w
           r == x % w
           p == q \div count
           s == q % count
           b == w * count
<1>1. q \in Nat /\ r \in 0 .. w - 1 /\ x = w * q + r
  BY DivMod
<1>2. p \in Nat /\ s \in 0 .. count - 1 /\ q = count * p + s
  <2> HIDE DEF q
  <2> QED
    BY <1>1, DivMod
<1>3. b \in Nat \ {0} /\ w <= b
  OBVIOUS
<1>4. b * p = w * (count * p)
  <2> HIDE DEF q, r, p, s
  <2> QED
    BY <1>2
<1> HIDE DEF q, r, p, s
<1>5. w * q = w * (count * p) + w * s
  <2>1. count * p \in Nat
    BY <1>2
  <2> HIDE DEF b
  <2> QED
    BY <1>2, <2>1
<1>6. x - s * w \in Nat /\ x - s * w = b * p + r /\ x >= s * w
  <2>1. b * p \in Nat /\ w * s = s * w /\ w * s \in Nat
    BY <1>2, <1>3
  <2> HIDE DEF b
  <2> QED
    BY <1>1, <1>4, <1>5, <2>1
<1>7. (x - s * w) % b = r
  <2>1. r \in 0 .. b - 1
    BY <1>1, <1>3
  <2> HIDE DEF b
  <2> QED
    BY <1>2, <1>3, <1>6, <2>1, DivModUnique
<1>8. ASSUME NEW col \in 0 .. count - 1, x >= col * w, (x - col * w) % b < w
      PROVE  s = col
  <2> DEFINE z == x - col * w
             t == z \div b
             u == z % b
  <2>1. z \in Nat
    BY <1>8
  <2>2. t \in Nat /\ z = b * t + u /\ u \in 0 .. w - 1
    <3> HIDE DEF z, b
    <3>1. t \in Nat /\ u \in 0 .. b - 1 /\ z = b * t + u
      BY <1>3, <2>1, DivMod
    <3> QED
      BY <1>8, <3>1 DEF z
  <2>3. b * t = w * (count * t) /\ count * t \in Nat
    <3> HIDE DEF z, t, u
    <3> QED
      BY <2>2
  <2>4. w * (count * t + col) = w * (count * t) + w * col /\ w * col = col * w
    <3> HIDE DEF z, t, u, b
    <3> QED
      BY <2>3
  <2>5. x = w * (count * t + col) + u
    <3> HIDE DEF t, u, b
    <3>1. col * w \in Nat /\ b * t \in Int /\ w * (count * t) \in Int
      BY <2>3
    <3> QED
      BY <2>1, <2>2, <2>3, <2>4, <3>1
  <2>6. q = count * t + col
    <3>1. count * t + col \in Nat
      BY <2>3
    <3> HIDE DEF z, t, u
    <3> QED
      BY <2>2, <2>5, <3>1, DivModUnique DEF q
  <2> HIDE DEF z, t, u
  <2> QED
    BY <1>1, <2>2, <2>6, DivModUnique DEF s
<1> QED
  BY <1>2, <1>6, <1>7, <1>8 DEF s, q

\* Where the element of a row in a column is.
LEMMA OnePlace ==
    ASSUME NEW rows \in Nat \ {0}, NEW x \in Nat, NEW y \in Nat,
           NEW i \in 0 .. rows - 1, NEW j \in 0 .. rows - 1,
           rows * x + i = rows * y + j
    PROVE  x = y /\ i = j
<1> DEFINE a == rows * x + i
<1>1. a \in Nat /\ a = rows * x + i /\ a = rows * y + j
  OBVIOUS
<1> HIDE DEF a
<1>2. a \div rows = x /\ a % rows = i
  BY <1>1, DivModUnique
<1>3. a \div rows = y /\ a % rows = j
  BY <1>1, DivModUnique
<1> QED
  BY <1>2, <1>3

\* Multiples of a number that divides another.
LEMMA Divides ==
    ASSUME NEW a \in Nat \ {0}, NEW c \in Nat \ {0}, a % c = 0
    PROVE  a = c * (a \div c) /\ a \div c \in Nat \ {0}
<1> DEFINE q == a \div c
<1>1. q \in Nat /\ a = c * q + (a % c)
  BY DivMod
<1>2. a = c * q
  <2> HIDE DEF q
  <2> QED
    BY <1>1
<1>3. q # 0
  <2> HIDE DEF q
  <2> QED
    BY <1>1, <1>2
<1> QED
  BY <1>1, <1>2, <1>3

-------------------------------------------------------------------------------
(***************************************************************************)
(* Grids: every element is in one block, and every block is one group's    *)
(***************************************************************************)

\* What is left of a without the whole multiples of b in it.
LEMMA Remainder ==
    ASSUME NEW a \in Nat, NEW b \in Nat \ {0}
    PROVE  a - (a \div b) * b = a % b
<1>1. PICK q \in Nat : q = a \div b
  BY DivMod
<1>2. a = b * q + (a % b) /\ a % b \in 0 .. b - 1
  BY <1>1, DivMod
<1>3. b * q = q * b /\ b * q \in Nat
  OBVIOUS
<1> QED
  BY <1>1, <1>2, <1>3

\* Blocks of s from 0 on: which block x is in.
LEMMA WholeBlock ==
    ASSUME NEW s \in Nat \ {0}, NEW x \in Nat, NEW q \in Nat
    PROVE  q * s <= x /\ x < q * s + s <=> x \div s = q
<1>1. ASSUME q * s <= x, x < q * s + s PROVE x \div s = q
  <2>1. PICK p \in Nat : p = s * q
    OBVIOUS
  <2>2. x - p \in 0 .. s - 1 /\ x = s * q + (x - p)
    BY <1>1, <2>1
  <2> QED
    BY <2>2, DivModUnique
<1>2. ASSUME x \div s = q PROVE q * s <= x /\ x < q * s + s
  <2>1. x = s * q + (x % s) /\ x % s \in 0 .. s - 1
    BY <1>2, DivMod
  <2>2. PICK p \in Nat : p = s * q
    OBVIOUS
  <2> QED
    BY <2>1, <2>2
<1> QED
  BY <1>1, <1>2

\* c blocks of s hold n elements, so that every one of them is in some block.
LEMMA SomeBlock ==
    ASSUME NEW s \in Nat \ {0}, NEW c \in Nat, NEW n \in Nat, n <= s * c,
           NEW x \in 0 .. n - 1
    PROVE  x \div s \in 0 .. c - 1
<1> DEFINE q == x \div s
<1>1. q \in Nat /\ x % s \in 0 .. s - 1 /\ x = s * q + (x % s)
  <2>1. x \in Nat
    OBVIOUS
  <2> QED
    BY <2>1, DivMod
<1> HIDE DEF q
<1>2. q < c
  <2> SUFFICES ASSUME c <= q PROVE FALSE
    BY <1>1
  <2>1. s * c <= s * q
    BY <1>1, MulMonotone
  <2>2. s * c \in Nat /\ s * q \in Nat
    BY <1>1
  <2> QED
    BY <1>1, <2>1, <2>2
<1> QED
  BY <1>1, <1>2 DEF q

\* The two ways to round a quotient up.
LEMMA RoundedUp ==
    ASSUME NEW n \in Nat \ {0}, NEW s \in Nat \ {0}
    PROVE  /\ (n - 1) \div s + 1 \in Nat \ {0}
           /\ n <= s * ((n - 1) \div s + 1)
           /\ (n + s - 1) \div s \in Nat \ {0}
           /\ n <= s * ((n + s - 1) \div s)
<1>1. /\ n - 1 \in Nat /\ n + s - 1 \in Nat
  OBVIOUS
<1>2. PICK q \in Nat : q = (n - 1) \div s
  BY <1>1, DivMod
<1>3. n - 1 = s * q + ((n - 1) % s) /\ (n - 1) % s \in 0 .. s - 1
  BY <1>1, <1>2, DivMod
<1>4. s * (q + 1) = s * q + s /\ s * q \in Nat
  OBVIOUS
<1>5. n <= s * (q + 1)
  BY <1>3, <1>4
<1>6. PICK p \in Nat : p = (n + s - 1) \div s
  BY <1>1, DivMod
<1>7. n + s - 1 = s * p + ((n + s - 1) % s) /\ (n + s - 1) % s \in 0 .. s - 1
  BY <1>1, <1>6, DivMod
<1>8. s * p \in Nat
  OBVIOUS
<1>9. n <= s * p
  BY <1>7, <1>8
<1>10. p # 0
  BY <1>9
<1> QED
  BY <1>2, <1>5, <1>6, <1>9, <1>10

\* The groups with these coordinates in a grid of a times b groups: there is one.
GroupsAt(a, b, p, q) == {g \in 0 .. a * b - 1 : g \div b = p /\ g % b = q}

LEMMA OneGroupAt ==
    ASSUME NEW a \in Nat \ {0}, NEW b \in Nat \ {0},
           NEW p \in 0 .. a - 1, NEW q \in 0 .. b - 1
    PROVE  GroupsAt(a, b, p, q) = {b * p + q}
<1>1. b * p + q \in 0 .. a * b - 1
  <2>1. b * (p + 1) <= b * a
    BY MulMonotone
  <2>2. b * (p + 1) = b * p + b /\ b * a = a * b /\ b * p \in Nat /\ a * b \in Nat
    OBVIOUS
  <2> QED
    BY <2>1, <2>2
<1>2. (b * p + q) \div b = p /\ (b * p + q) % b = q
  <2>1. b * p + q \in Nat
    BY <1>1
  <2> QED
    BY <2>1, DivModUnique
<1>3. ASSUME NEW g \in 0 .. a * b - 1, g \div b = p, g % b = q PROVE g = b * p + q
  <2>1. g \in Nat
    OBVIOUS
  <2> QED
    BY <1>3, <2>1, DivMod
<1> QED
  BY <1>1, <1>2, <1>3 DEF GroupsAt

\* Block q of blocks of s, cut off at n.
CutOff(n, s, q) == q * s .. (IF n <= q * s + s THEN n ELSE q * s + s) - 1

LEMMA CutBlock ==
    ASSUME NEW s \in Nat \ {0}, NEW n \in Nat \ {0}, NEW x \in 0 .. n - 1, NEW q \in Nat
    PROVE  x \in CutOff(n, s, q) <=> x \div s = q
<1>1. x \in Nat
  OBVIOUS
<1>2. PICK p \in Nat : p = q * s
  OBVIOUS
<1>3. p <= x /\ x < p + s <=> x \div s = q
  BY <1>1, <1>2, WholeBlock
<1>4. x \in CutOff(n, s, q) <=> p <= x /\ x < p + s
  BY <1>1, <1>2 DEF CutOff
<1> QED
  BY <1>3, <1>4

\* Blocks of whole rounds of the items of a group, one block to a group.
LEMMA RoundsOfItems ==
    ASSUME NEW n \in Nat \ {0}, NEW items \in Nat \ {0}, NEW groups \in Nat \ {0},
           NEW s, s = ((n - 1) \div (items * groups) + 1) * items
    PROVE  s \in Nat \ {0} /\ n <= s * groups
<1>1. PICK t \in Nat \ {0} : t = items * groups
  OBVIOUS
<1>2. PICK u \in Nat \ {0} : u = (n - 1) \div t + 1 /\ n <= t * u
  BY RoundedUp
<1>3. s = u * items /\ s \in Nat \ {0}
  BY <1>1, <1>2
<1>4. s * groups = t * u
  BY <1>1, <1>3
<1> QED
  BY <1>2, <1>3, <1>4

\* A number has one quotient and one remainder ...
LEMMA Digits ==
    ASSUME NEW z \in Nat, NEW b \in Nat \ {0}, NEW p \in Nat, NEW q \in 0 .. b - 1
    PROVE  z = b * p + q <=> z \div b = p /\ z % b = q
<1>1. ASSUME z = b * p + q PROVE z \div b = p /\ z % b = q
  BY <1>1, DivModUnique
<1>2. ASSUME z \div b = p, z % b = q PROVE z = b * p + q
  BY <1>2, DivMod
<1> QED
  BY <1>1, <1>2

\* ... and its size follows from theirs.
LEMMA DigitsFit ==
    ASSUME NEW a \in Nat \ {0}, NEW b \in Nat \ {0},
           NEW p \in 0 .. a - 1, NEW q \in 0 .. b - 1
    PROVE  b * p + q \in 0 .. a * b - 1
<1>1. b * (p + 1) <= b * a
  BY MulMonotone
<1>2. b * (p + 1) = b * p + b /\ b * a = a * b /\ b * p \in Nat /\ a * b \in Nat
  OBVIOUS
<1> QED
  BY <1>1, <1>2

\* Every n-th batch from q on: whose batch x is.
LEMMA BatchOf ==
    ASSUME NEW n \in Nat \ {0}, NEW x \in Nat, NEW q \in 0 .. n - 1
    PROVE  x >= q /\ (x - q) % n = 0 <=> q = x % n
<1>1. ASSUME x >= q, (x - q) % n = 0 PROVE q = x % n
  <2>1. PICK d \in Nat : d = x - q
    BY <1>1
  <2>2. PICK p \in Nat : p = d \div n
    BY <2>1, DivMod
  <2>3. d = n * p + 0
    BY <1>1, <2>1, <2>2, DivMod
  <2>4. x = n * p + q
    BY <2>1, <2>3
  <2> QED
    BY <2>4, DivModUnique
<1>2. ASSUME q = x % n PROVE x >= q /\ (x - q) % n = 0
  <2>1. PICK p \in Nat : p = x \div n
    BY DivMod
  <2>2. x = n * p + q
    BY <1>2, <2>1, DivMod
  <2>3. PICK d \in Nat : d = n * p
    OBVIOUS
  <2>4. d = n * p + 0 /\ 0 \in 0 .. n - 1
    BY <2>3
  <2>5. d % n = 0
    BY <2>4, DivModUnique
  <2> QED
    BY <2>2, <2>3, <2>5
<1> QED
  BY <1>1, <1>2

\* A block of w items by n registers, in packets of v that are w packets apart:
\* the register of item i that element x of the block is in, if there is one.
HasRegister(w, v, n, i, x) ==
    \E r \in 0 .. n - 1 : x = i * v + (r \div v) * w * v + (r % v)

LEMMA RegisterOf ==
    ASSUME NEW w \in Nat \ {0}, NEW v \in Nat \ {0}, NEW n \in Nat \ {0}, n % v = 0,
           NEW i \in 0 .. w - 1, NEW x \in Nat
    PROVE  HasRegister(w, v, n, i, x) <=> x < w * n /\ (x \div v) % w = i
<1>1. PICK c \in Nat \ {0} : c = n \div v /\ n = v * c
  BY Divides
<1>2. w * n = v * (w * c) /\ w * c = c * w /\ w * c \in Nat \ {0}
  BY <1>1
<1>3. ASSUME HasRegister(w, v, n, i, x) PROVE x < w * n /\ (x \div v) % w = i
  <2>1. PICK r \in 0 .. n - 1 : x = i * v + (r \div v) * w * v + (r % v)
    BY <1>3 DEF HasRegister
  <2>2. PICK p \in 0 .. c - 1 : p = r \div v
    BY <1>1, SomeBlock
  <2>3. PICK t \in 0 .. v - 1 : t = r % v
    OBVIOUS
  <2>4. PICK y \in Nat : y = w * p + i
    OBVIOUS
  <2>5. x = v * y + t
    <3>1. i * v + p * w * v = v * (w * p + i)
      OBVIOUS
    <3> QED
      BY <2>1, <2>2, <2>3, <2>4, <3>1
  <2>6. y \in 0 .. c * w - 1
    BY <2>4, DigitsFit
  <2>7. x \in 0 .. (c * w) * v - 1
    <3>1. PICK a \in Nat \ {0} : a = c * w
      BY <1>2
    <3>2. v * y + t \in 0 .. a * v - 1
      BY <2>6, <3>1, DigitsFit
    <3> QED
      BY <2>5, <3>1, <3>2
  <2>8. x \div v = y
    BY <2>5, Digits
  <2>9. y % w = i
    BY <2>4, Digits
  <2>10. (c * w) * v = w * n
    BY <1>1
  <2> QED
    BY <2>7, <2>8, <2>9, <2>10
<1>4. ASSUME x < w * n, (x \div v) % w = i PROVE HasRegister(w, v, n, i, x)
  <2>1. PICK y \in Nat : y = x \div v
    BY DivMod
  <2>2. PICK t \in 0 .. v - 1 : t = x % v
    OBVIOUS
  <2>3. x = v * y + t
    BY <2>1, <2>2, DivMod
  <2>4. PICK p \in Nat : p = y \div w
    BY DivMod
  <2>5. y = w * p + i
    BY <1>4, <2>1, <2>4, DivMod
  <2>6. p \in 0 .. c - 1
    <3>1. PICK a \in Nat \ {0} : a = w * c
      BY <1>2
    <3>2. x \in 0 .. (w * n) - 1 /\ w * n \in Nat
      BY <1>4
    <3>3. y \in 0 .. a - 1
      BY <1>2, <2>1, <3>1, <3>2, SomeBlock
    <3> QED
      BY <2>4, <3>1, <3>3, SomeBlock
  <2>7. PICK r \in Nat : r = v * p + t
    OBVIOUS
  <2>8. r \in 0 .. n - 1
    <3>1. v * p + t \in 0 .. c * v - 1
      BY <2>6, DigitsFit
    <3>2. c * v = n
      BY <1>1
    <3> QED
      BY <2>7, <3>1, <3>2
  <2>9. r \div v = p /\ r % v = t
    BY <2>7, Digits
  <2>10. x = i * v + p * w * v + t
    <3>1. v * (w * p + i) = i * v + p * w * v
      OBVIOUS
    <3> QED
      BY <2>3, <2>5, <3>1
  <2> QED
    BY <2>8, <2>9, <2>10 DEF HasRegister
<1> QED
  BY <1>3, <1>4

\* The same in block number q of the blocks of a matrix edge.
HasRow(w, v, n, q, i, x) ==
    \E r \in 0 .. n - 1 : x = q * (w * n) + i * v + (r \div v) * w * v + (r % v)
InRow(w, v, n, q, i, x) ==
    x \div (w * n) = q /\ ((x % (w * n)) \div v) % w = i

LEMMA RowIn ==
    ASSUME NEW w \in Nat \ {0}, NEW v \in Nat \ {0}, NEW n \in Nat \ {0}, n % v = 0,
           NEW q \in Nat, NEW i \in 0 .. w - 1, NEW x \in Nat
    PROVE  HasRow(w, v, n, q, i, x) <=> InRow(w, v, n, q, i, x)
<1>1. PICK s \in Nat \ {0} : s = w * n
  OBVIOUS
<1>2. PICK z \in Nat : z = q * s
  OBVIOUS
<1>3. \A r \in 0 .. n - 1 : i * v + (r \div v) * w * v + (r % v) \in Nat
  <2> TAKE r \in 0 .. n - 1
  <2>1. PICK p \in Nat : p = r \div v
    <3>1. r \in Nat
      OBVIOUS
    <3> QED
      BY <3>1, DivMod
  <2>2. r % v \in Nat
    OBVIOUS
  <2> QED
    BY <2>1, <2>2
<1>4. HasRow(w, v, n, q, i, x) <=> x >= z /\ HasRegister(w, v, n, i, x - z)
  <2>1. HasRow(w, v, n, q, i, x)
          <=> \E r \in 0 .. n - 1 : x = z + i * v + (r \div v) * w * v + (r % v)
    BY <1>1, <1>2 DEF HasRow
  <2>2. \A r \in 0 .. n - 1 :
          x = z + i * v + (r \div v) * w * v + (r % v)
            <=> x >= z /\ x - z = i * v + (r \div v) * w * v + (r % v)
    <3> TAKE r \in 0 .. n - 1
    <3>1. PICK f \in Nat : f = (r \div v) * w * v
      <4>1. PICK p \in Nat : p = r \div v
        <5>1. r \in Nat
          OBVIOUS
        <5> QED
          BY <5>1, DivMod
      <4> QED
        BY <4>1
    <3>2. r % v \in Nat /\ i * v \in Nat
      OBVIOUS
    <3> QED
      BY <3>1, <3>2
  <2> QED
    BY <2>1, <2>2 DEF HasRegister
<1>5. CASE x >= z
  <2>1. PICK y \in Nat : y = x - z
    BY <1>5
  <2>2. y < s <=> x \div s = q
    BY <1>1, <1>2, <1>5, <2>1, WholeBlock
  <2>3. x \div s = q => x % s = y
    BY <1>1, <1>2, <2>1, Remainder
  <2> QED
    BY <1>1, <1>4, <1>5, <2>1, <2>2, <2>3, RegisterOf DEF InRow
<1>6. CASE x < z
  <2>1. x \div s # q
    BY <1>1, <1>2, <1>6, WholeBlock
  <2> QED
    BY <1>1, <1>2, <1>4, <1>6, <2>1 DEF InRow
<1> QED
  BY <1>1, <1>2, <1>5, <1>6

\* Packets of one element, and packets of all registers.
RowSpread(w, n, q, i, x) == \E r \in 0 .. n - 1 : x = q * (w * n) + i + r * w
RowTogether(w, n, q, i, x) == \E r \in 0 .. n - 1 : x = q * (w * n) + i * n + r

LEMMA SpreadOrTogether ==
    ASSUME NEW w \in Nat \ {0}, NEW n \in Nat \ {0}, NEW q \in Nat, NEW i \in Nat, NEW x
    PROVE  /\ HasRow(w, 1, n, q, i, x) <=> RowSpread(w, n, q, i, x)
           /\ HasRow(w, n, n, q, i, x) <=> RowTogether(w, n, q, i, x)
<1>1. ASSUME NEW r \in 0 .. n - 1
      PROVE  /\ r \div 1 = r /\ r % 1 = 0 /\ r * w \in Nat
             /\ r \div n = 0 /\ r % n = r /\ r \in Nat
  <2>1. r = 1 * r + 0 /\ r = n * 0 + r /\ r \in Nat /\ 0 \in 0 .. 1 - 1
    OBVIOUS
  <2>2. r \div 1 = r /\ r % 1 = 0
    BY <2>1, Digits
  <2>3. r \div n = 0 /\ r % n = r
    BY <2>1, Digits
  <2> QED
    BY <2>1, <2>2, <2>3
<1>2. PICK z \in Nat, y \in Nat : z = q * (w * n) /\ y = i * n
  OBVIOUS
<1>3. ASSUME NEW r \in 0 .. n - 1
      PROVE  q * (w * n) + i * 1 + (r \div 1) * w * 1 + (r % 1)
               = q * (w * n) + i + r * w
  <2>1. PICK t \in Nat : t = r * w
    BY <1>1
  <2> QED
    BY <1>1, <1>2, <2>1
<1>4. ASSUME NEW r \in 0 .. n - 1
      PROVE  q * (w * n) + i * n + (r \div n) * w * n + (r % n)
               = q * (w * n) + i * n + r
  <2>1. (r \div n) * w * n = 0
    BY <1>1
  <2> QED
    BY <1>1, <1>2, <2>1
<1> QED
  BY <1>3, <1>4 DEF HasRow, RowSpread, RowTogether

\* Of w groups a cluster and n clusters, which one has place y and batch x.
HasBatch(w, n, x, y, g) ==
    x >= g \div w /\ (x - (g \div w)) % n = 0 /\ g % w = y
OnlyOneHasBatch(w, n, x, y) ==
    \E o \in 0 .. w * n - 1 : \A g \in 0 .. w * n - 1 : HasBatch(w, n, x, y, g) <=> g = o

LEMMA OneHasBatch ==
    ASSUME NEW w \in Nat \ {0}, NEW n \in Nat \ {0}, NEW x \in Nat, NEW y \in 0 .. w - 1
    PROVE  OnlyOneHasBatch(w, n, x, y)
<1>1. PICK b \in 0 .. n - 1 : b = x % n
  OBVIOUS
<1>2. PICK o \in 0 .. w * n - 1 : o = w * b + y
  <2>1. w * b + y \in 0 .. n * w - 1 /\ n * w = w * n
    BY DigitsFit
  <2> QED
    BY <2>1
<1>3. ASSUME NEW g \in 0 .. w * n - 1
      PROVE  HasBatch(w, n, x, y, g) <=> g = o
  <2>1. g \in Nat /\ b \in Nat
    OBVIOUS
  <2>2. PICK d \in 0 .. n - 1 : d = g \div w
    <3>1. w * n \in Nat /\ w * n <= w * n
      OBVIOUS
    <3> QED
      BY <3>1, SomeBlock
  <2>3. x >= d /\ (x - d) % n = 0 <=> d = b
    BY <1>1, BatchOf
  <2>4. g = w * b + y <=> g \div w = b /\ g % w = y
    BY <2>1, Digits
  <2> QED
    BY <1>2, <2>2, <2>3, <2>4 DEF HasBatch
<1> QED
  BY <1>2, <1>3 DEF OnlyOneHasBatch

\* In a grid of n clusters of a by c groups, that group g computes block p of the
\* a and block q of the c, in batch x.
Serves(a, c, n, x, p, q, g) ==
    /\ x >= g \div (a * c) /\ (x - (g \div (a * c))) % n = 0
    /\ (g % (a * c)) % a = p /\ (g % (a * c)) \div a = q
OnlyOneServes(a, c, n, x, p, q) ==
    \E o \in 0 .. (a * c) * n - 1 :
       \A g \in 0 .. (a * c) * n - 1 : Serves(a, c, n, x, p, q, g) <=> g = o

LEMMA OneServes ==
    ASSUME NEW a \in Nat \ {0}, NEW c \in Nat \ {0}, NEW n \in Nat \ {0},
           NEW x \in Nat, NEW p \in 0 .. a - 1, NEW q \in 0 .. c - 1
    PROVE  OnlyOneServes(a, c, n, x, p, q)
<1>1. PICK w \in Nat \ {0} : w = a * c
  OBVIOUS
<1>2. PICK y \in 0 .. w - 1 : y = a * q + p
  <2>1. a * q + p \in 0 .. c * a - 1 /\ c * a = a * c
    BY DigitsFit
  <2> QED
    BY <1>1, <2>1
<1>3. OnlyOneHasBatch(w, n, x, y)
  BY OneHasBatch
<1>4. ASSUME NEW g \in 0 .. w * n - 1
      PROVE  Serves(a, c, n, x, p, q, g) <=> HasBatch(w, n, x, y, g)
  <2>1. g \in Nat /\ q \in Nat
    OBVIOUS
  <2>2. PICK z \in Nat : z = g % w
    <3>1. g % w \in 0 .. w - 1
      BY <2>1, DivMod
    <3> QED
      BY <3>1
  <2>3. z % a = p /\ z \div a = q <=> z = y
    BY <1>2, <2>1, Digits
  <2> QED
    BY <1>1, <2>2, <2>3 DEF Serves, HasBatch
<1> QED
  BY <1>1, <1>3, <1>4 DEF OnlyOneHasBatch, OnlyOneServes

\* Tiles of u by v blocks, a of them in a column: that block number z is in row p
\* and column q.
BlockAt(a, u, v, p, q, z) ==
    /\ ((z \div (u * v)) % a) * u + ((z % (u * v)) % u) = p
    /\ ((z \div (u * v)) \div a) * v + ((z % (u * v)) \div u) = q
OnlyOneBlockAt(a, d, u, v, p, q) ==
    \E y \in 0 .. (a * d) * (u * v) - 1 :
       \A z \in 0 .. (a * d) * (u * v) - 1 : BlockAt(a, u, v, p, q, z) <=> z = y

LEMMA OneBlockAt ==
    ASSUME NEW a \in Nat \ {0}, NEW d \in Nat \ {0}, NEW u \in Nat \ {0}, NEW v \in Nat \ {0},
           NEW p \in 0 .. a * u - 1, NEW q \in 0 .. d * v - 1
    PROVE  OnlyOneBlockAt(a, d, u, v, p, q)
<1>1. PICK f \in Nat \ {0}, e \in Nat \ {0} : f = u * v /\ e = a * d
  OBVIOUS
<1>2. PICK w \in Nat : w = e * f
  OBVIOUS
<1>3. p \in Nat /\ q \in Nat
  OBVIOUS
<1>4. PICK p1 \in 0 .. a - 1, p2 \in 0 .. u - 1 : p1 = p \div u /\ p2 = p % u
  <2>1. PICK x \in Nat : x = a * u /\ x <= u * a
    OBVIOUS
  <2>2. p \div u \in 0 .. a - 1
    BY <2>1, SomeBlock
  <2> QED
    BY <1>3, <2>2, DivMod
<1>5. PICK q1 \in 0 .. d - 1, q2 \in 0 .. v - 1 : q1 = q \div v /\ q2 = q % v
  <2>1. PICK x \in Nat : x = d * v /\ x <= v * d
    OBVIOUS
  <2>2. q \div v \in 0 .. d - 1
    BY <2>1, SomeBlock
  <2> QED
    BY <1>3, <2>2, DivMod
<1>6. PICK i \in 0 .. e - 1 : i = a * q1 + p1
  <2>1. a * q1 + p1 \in 0 .. d * a - 1 /\ d * a = a * d
    BY DigitsFit
  <2> QED
    BY <1>1, <2>1
<1>7. PICK j \in 0 .. f - 1 : j = u * q2 + p2
  <2>1. u * q2 + p2 \in 0 .. v * u - 1 /\ v * u = u * v
    BY DigitsFit
  <2> QED
    BY <1>1, <2>1
<1>8. PICK y \in 0 .. w - 1 : y = f * i + j
  <2>1. f * i + j \in 0 .. e * f - 1
    BY DigitsFit
  <2> QED
    BY <1>2, <2>1
<1>9. ASSUME NEW z \in 0 .. w - 1
      PROVE  BlockAt(a, u, v, p, q, z) <=> z = y
  <2>1. z \in Nat /\ i \in Nat /\ q1 \in Nat /\ q2 \in Nat
    OBVIOUS
  <2>2. PICK g \in Nat : g = z \div f
    BY <2>1, DivMod
  <2>3. PICK h \in 0 .. f - 1 : h = z % f
    BY <2>1, DivMod
  <2>4. z = y <=> g = i /\ h = j
    BY <1>8, <2>1, <2>2, <2>3, Digits
  <2>5. PICK g1 \in Nat, g2 \in 0 .. a - 1 : g1 = g \div a /\ g2 = g % a
    BY DivMod
  <2>6. g = i <=> g1 = q1 /\ g2 = p1
    BY <1>6, <2>1, <2>5, Digits
  <2>7. h \in Nat
    OBVIOUS
  <2>8. PICK h1 \in 0 .. v - 1, h2 \in 0 .. u - 1 : h1 = h \div u /\ h2 = h % u
    <3>1. f <= u * v
      BY <1>1
    <3>2. h \div u \in 0 .. v - 1
      BY <3>1, SomeBlock
    <3> QED
      BY <2>7, <3>2, DivMod
  <2>9. h = j <=> h1 = q2 /\ h2 = p2
    <3>1. h = u * q2 + p2 <=> h \div u = q2 /\ h % u = p2
      BY <2>1, <2>7, Digits
    <3> QED
      BY <1>7, <2>8, <3>1
  <2>10. g2 * u + h2 = p <=> p1 = g2 /\ p2 = h2
    <3>1. g2 \in Nat /\ g2 * u = u * g2
      OBVIOUS
    <3>2. p = u * g2 + h2 <=> p \div u = g2 /\ p % u = h2
      BY <1>3, <3>1, Digits
    <3> QED
      BY <1>4, <3>1, <3>2
  <2>11. g1 * v + h1 = q <=> q1 = g1 /\ q2 = h1
    <3>1. g1 * v = v * g1
      OBVIOUS
    <3>2. q = v * g1 + h1 <=> q \div v = g1 /\ q % v = h1
      BY <1>3, Digits
    <3> QED
      BY <1>5, <3>1, <3>2
  <2>12. BlockAt(a, u, v, p, q, z) <=> g2 * u + h2 = p /\ g1 * v + h1 = q
    <3>1. z \div (u * v) = g /\ z % (u * v) = h
      BY <1>1, <2>2, <2>3
    <3> QED
      BY <2>5, <2>8, <3>1 DEF BlockAt
  <2> QED
    BY <2>4, <2>6, <2>9, <2>10, <2>11, <2>12
<1> QED
  BY <1>1, <1>2, <1>8, <1>9 DEF OnlyOneBlockAt

\* Of w by v items, which one is in place a of w and in place b of v.
OnlyOneItem(w, v, a, b) ==
    \E o \in 0 .. w * v - 1 :
       \A i \in 0 .. w * v - 1 : i % w = a /\ i \div w = b <=> i = o

LEMMA OneItem ==
    ASSUME NEW w \in Nat \ {0}, NEW v \in Nat \ {0},
           NEW a \in 0 .. w - 1, NEW b \in 0 .. v - 1
    PROVE  OnlyOneItem(w, v, a, b)
<1>1. PICK o \in 0 .. w * v - 1 : o = w * b + a
  <2>1. w * b + a \in 0 .. v * w - 1 /\ v * w = w * v
    BY DigitsFit
  <2> QED
    BY <2>1
<1>2. ASSUME NEW i \in 0 .. w * v - 1 PROVE i % w = a /\ i \div w = b <=> i = o
  <2>1. i \in Nat /\ b \in Nat
    OBVIOUS
  <2>2. i = w * b + a <=> i \div w = b /\ i % w = a
    BY <2>1, Digits
  <2> QED
    BY <1>1, <2>2
<1> QED
  BY <1>2 DEF OnlyOneItem

\* The grid over a C of m by n in blocks of s by t, a by d of them, with as many
\* clusters of groups as units ask for.
GridOver(m, n, s, t, units, a, d, clusters) ==
    /\ a = (m - 1) \div s + 1 /\ m <= s * a
    /\ d = (n - 1) \div t + 1 /\ n <= t * d
    /\ clusters = (units - 1) \div (a * d) + 1

LEMMA Grid ==
    ASSUME NEW m \in Nat \ {0}, NEW n \in Nat \ {0}, NEW s \in Nat \ {0},
           NEW t \in Nat \ {0}, NEW units \in Nat \ {0}
    PROVE  \E a \in Nat \ {0}, d \in Nat \ {0}, clusters \in Nat \ {0} :
              GridOver(m, n, s, t, units, a, d, clusters)
<1>1. PICK a \in Nat \ {0} : a = (m - 1) \div s + 1 /\ m <= s * a
  BY RoundedUp
<1>2. PICK d \in Nat \ {0} : d = (n - 1) \div t + 1 /\ n <= t * d
  BY RoundedUp
<1>3. PICK e \in Nat \ {0} : e = a * d
  OBVIOUS
<1>4. (units - 1) \div e + 1 \in Nat \ {0}
  BY RoundedUp
<1> QED
  BY <1>1, <1>2, <1>3, <1>4 DEF GridOver

-------------------------------------------------------------------------------
(***************************************************************************)
(* Barriers                                                                *)
(***************************************************************************)

\* The barriers that an item has passed, of those it has reached.
Passed(b, w, i) == IF w[i] THEN b[i] - 1 ELSE b[i]

\* An item that is in no barrier, or in one that all items have reached.
Free(I, b, w, i) == w[i] => \A u \in I : b[u] >= b[i]

\* The items in I have reached b barriers, are inside the last one where w says
\* so, and are in the phases ph; nx gives the phase after each one that ends at
\* a barrier.  No item has passed a barrier that another has not reached; those
\* that have reached equally many are in the same phase, and one that has
\* reached one more is in the next.
InStep(I, b, w, ph, nx) ==
    /\ b \in [I -> Nat] /\ w \in [I -> BOOLEAN]
    /\ \A i, u \in I :
          /\ Passed(b, w, i) <= b[u]
          /\ b[i] = b[u] => ph[i] = ph[u]
          /\ b[i] = b[u] + 1 => ph[u] \in DOMAIN nx /\ ph[i] = nx[ph[u]]

LEMMA StartsInStep ==
    ASSUME NEW I, NEW b, NEW w, NEW ph, NEW nx,
           b = [i \in I |-> 0], w = [i \in I |-> FALSE],
           \A i, u \in I : ph[i] = ph[u]
    PROVE  InStep(I, b, w, ph, nx)
BY DEF InStep, Passed

\* Free items have reached equally many barriers, and are in the same phase.
LEMMA SamePhase ==
    ASSUME NEW I, NEW b, NEW w, NEW ph, NEW nx, InStep(I, b, w, ph, nx),
           NEW i \in I, NEW u \in I, Free(I, b, w, i), Free(I, b, w, u)
    PROVE  ph[i] = ph[u] /\ b[i] = b[u]
<1>1. b[i] \in Nat /\ b[u] \in Nat /\ w[i] \in BOOLEAN /\ w[u] \in BOOLEAN
  BY DEF InStep
<1>2. b[i] <= b[u]
  <2>1. CASE w[i]
    BY <1>1, <2>1 DEF Free
  <2>2. CASE ~w[i]
    BY <2>2 DEF InStep, Passed
  <2> QED
    BY <2>1, <2>2
<1>3. b[u] <= b[i]
  <2>1. CASE w[u]
    BY <1>1, <2>1 DEF Free
  <2>2. CASE ~w[u]
    BY <2>2 DEF InStep, Passed
  <2> QED
    BY <2>1, <2>2
<1>4. b[i] = b[u]
  BY <1>1, <1>2, <1>3
<1> QED
  BY <1>4 DEF InStep

\* A free item that goes on within its phase.
LEMMA GoesOn ==
    ASSUME NEW I, NEW b, NEW w, NEW ph, NEW nx, InStep(I, b, w, ph, nx),
           NEW i \in I, Free(I, b, w, i),
           NEW w2, w2 = [w EXCEPT ![i] = FALSE]
    PROVE  InStep(I, b, w2, ph, nx)
<1>1. \A u \in I : b[u] \in Nat /\ w[u] \in BOOLEAN
  BY DEF InStep
<1>2. /\ w2 \in [I -> BOOLEAN] /\ w2[i] = FALSE
      /\ \A u \in I \ {i} : w2[u] = w[u]
  BY DEF InStep
<1>3. \A u \in I : b[i] <= b[u]
  <2> TAKE u \in I
  <2>1. CASE w[i]
    BY <1>1, <2>1 DEF Free
  <2>2. CASE ~w[i]
    BY <2>2 DEF InStep, Passed
  <2> QED
    BY <1>1, <2>1, <2>2
<1>4. \A t, u \in I : Passed(b, w2, t) <= b[u]
  BY <1>2, <1>3 DEF InStep, Passed
<1> QED
  BY <1>2, <1>4 DEF InStep

\* A free item that reaches the barrier at the end of its phase.
Arrival(I, b, w, ph, nx, i, b2, w2, ph2) ==
    /\ InStep(I, b, w, ph, nx) /\ i \in I /\ Free(I, b, w, i)
    /\ ph[i] \in DOMAIN nx
    /\ b2 = [b EXCEPT ![i] = b[i] + 1]
    /\ w2 = [w EXCEPT ![i] = TRUE]
    /\ ph2[i] = nx[ph[i]]
    /\ \A u \in I \ {i} : ph2[u] = ph[u]

LEMMA Arrives ==
    ASSUME NEW I, NEW b, NEW w, NEW ph, NEW nx, NEW i, NEW b2, NEW w2, NEW ph2,
           Arrival(I, b, w, ph, nx, i, b2, w2, ph2)
    PROVE  InStep(I, b2, w2, ph2, nx)
<1> USE DEF Arrival
<1>1. \A u \in I : b[u] \in Nat /\ w[u] \in BOOLEAN
  BY DEF InStep
<1>2. /\ b2 \in [I -> Nat] /\ w2 \in [I -> BOOLEAN]
      /\ b2[i] = b[i] + 1 /\ w2[i] = TRUE
      /\ \A u \in I \ {i} : b2[u] = b[u] /\ w2[u] = w[u]
  BY DEF InStep
<1>3. \A u \in I : b[i] <= b[u]
  <2> TAKE u \in I
  <2>1. CASE w[i]
    BY <1>1, <2>1 DEF Free
  <2>2. CASE ~w[i]
    BY <2>2 DEF InStep, Passed
  <2> QED
    BY <1>1, <2>1, <2>2
<1>4. \A u \in I : b[u] = b[i] \/ b[u] = b[i] + 1
  <2> TAKE u \in I
  <2>1. Passed(b, w, u) <= b[i]
    BY DEF InStep
  <2>2. b[u] <= b[i] + 1
    BY <1>1, <2>1 DEF Passed
  <2> QED
    BY <1>1, <1>3, <2>2
<1>5. ASSUME NEW t \in I, NEW u \in I
      PROVE  /\ Passed(b2, w2, t) <= b2[u]
             /\ b2[t] = b2[u] => ph2[t] = ph2[u]
             /\ b2[t] = b2[u] + 1 => ph2[u] \in DOMAIN nx /\ ph2[t] = nx[ph2[u]]
  <2>0. /\ b2[u] >= b[u] /\ b2[t] \in Nat /\ b2[u] \in Nat
        /\ b[t] \in Nat /\ b[u] \in Nat /\ b[i] \in Nat
    BY <1>1, <1>2
  <2>1. Passed(b2, w2, t) <= b2[u]
    <3>1. CASE t = i
      <4>1. Passed(b2, w2, t) = b[i]
        BY <1>1, <1>2, <3>1 DEF Passed
      <4> QED
        BY <1>3, <2>0, <4>1
    <3>2. CASE t # i
      <4>1. Passed(b2, w2, t) = Passed(b, w, t) /\ Passed(b, w, t) <= b[u]
        BY <1>2, <3>2 DEF Passed, InStep
      <4>2. Passed(b, w, t) \in Int
        BY <2>0 DEF Passed
      <4> QED
        BY <2>0, <4>1, <4>2
    <3> QED
      BY <3>1, <3>2
  <2>2. CASE t # i /\ u # i
    <3>1. /\ b2[t] = b[t] /\ b2[u] = b[u] /\ ph2[t] = ph[t] /\ ph2[u] = ph[u]
      BY <1>2, <2>2
    <3> QED
      BY <2>1, <3>1 DEF InStep
  <2>3. CASE t = i /\ u # i
    <3>1. b2[t] = b[i] + 1 /\ b2[u] = b[u] /\ ph2[u] = ph[u] /\ ph2[t] = nx[ph[i]]
      BY <1>2, <2>3
    <3>2. CASE b[u] = b[i]
      <4>1. ph[u] = ph[i]
        BY <3>2 DEF InStep
      <4> QED
        BY <2>0, <2>1, <3>1, <3>2, <4>1
    <3>3. CASE b[u] = b[i] + 1
      <4>1. ph[u] = nx[ph[i]]
        BY <3>3 DEF InStep
      <4> QED
        BY <2>0, <2>1, <3>1, <3>3, <4>1
    <3> QED
      BY <1>4, <3>2, <3>3
  <2>4. CASE t # i /\ u = i
    <3>1. b2[t] = b[t] /\ b2[u] = b[i] + 1 /\ ph2[t] = ph[t] /\ ph2[u] = nx[ph[i]]
      BY <1>2, <2>4
    <3>2. CASE b[t] = b[i]
      BY <2>0, <2>1, <3>1, <3>2
    <3>3. CASE b[t] = b[i] + 1
      <4>1. ph[t] = nx[ph[i]]
        BY <3>3 DEF InStep
      <4> QED
        BY <2>0, <2>1, <3>1, <3>3, <4>1
    <3> QED
      BY <1>4, <3>2, <3>3
  <2>5. CASE t = i /\ u = i
    BY <2>0, <2>1, <2>5
  <2> QED
    BY <2>2, <2>3, <2>4, <2>5
<1> QED
  BY <1>2, <1>5 DEF InStep

-------------------------------------------------------------------------------
(***************************************************************************)
(* Sums over finite sets                                                   *)
(***************************************************************************)

\* Induction over the subsets of a finite set, for a set of sets.
LEMMA SubsetInduction ==
    ASSUME NEW S, IsFiniteSet(S), NEW G,
           \A T \in SUBSET S : (\A U \in SUBSET T : U # T => U \in G) => T \in G
    PROVE  \A T \in SUBSET S : T \in G
<1> DEFINE B == {T \in SUBSET S : T \notin G}
<1>1. SUFFICES ASSUME B # {} PROVE FALSE
  OBVIOUS
<1>2. IsWellFoundedOn(StrictSubsetOrdering(S), SUBSET S)
  BY FS_StrictSubsetOrderingWellFounded, FS_FiniteSubsetsOfFinite
<1>3. B \subseteq SUBSET S
  OBVIOUS
<1>4. PICK T \in B : \A U \in B : ~ (<<U, T>> \in StrictSubsetOrdering(S))
  <2> HIDE DEF B
  <2> QED
    BY <1>1, <1>2, <1>3, WFMin
<1>5. ASSUME NEW U \in SUBSET T, U # T PROVE U \in G
  BY <1>4, <1>5 DEF StrictSubsetOrdering
<1> QED
  BY <1>4, <1>5

SomeOf(T) == CHOOSE x \in T : TRUE

\* f is the fold of h over the subsets of T.
IsFold(h, T, f) ==
    /\ f \in [SUBSET T -> Int]
    /\ \A s \in SUBSET T : f[s] = IF s = {} THEN 0 ELSE h[SomeOf(s)] + f[s \ {SomeOf(s)}]

LEMMA FoldUnique ==
    ASSUME NEW h, NEW S, IsFiniteSet(S), NEW T, NEW U, S \subseteq T, S \subseteq U,
           NEW f, NEW g, IsFold(h, T, f), IsFold(h, U, g)
    PROVE  f[S] = g[S]
<1> DEFINE G == {s \in SUBSET S : f[s] = g[s]}
<1>1. ASSUME NEW s \in SUBSET S, \A u \in SUBSET s : u # s => u \in G
      PROVE  s \in G
  <2>0. /\ f[s] = IF s = {} THEN 0 ELSE h[SomeOf(s)] + f[s \ {SomeOf(s)}]
        /\ g[s] = IF s = {} THEN 0 ELSE h[SomeOf(s)] + g[s \ {SomeOf(s)}]
    BY DEF IsFold
  <2>1. CASE s = {}
    BY <2>0, <2>1
  <2>2. CASE s # {}
    <3>1. SomeOf(s) \in s
      BY <2>2 DEF SomeOf
    <3>2. s \ {SomeOf(s)} \in G
      BY <1>1, <3>1
    <3> QED
      BY <2>0, <3>2
  <2> QED
    BY <2>1, <2>2
<1>2. \A s \in SUBSET S : s \in G
  <2> HIDE DEF G
  <2> QED
    BY <1>1, SubsetInduction
<1> QED
  BY <1>2

LEMMA FoldExists ==
    ASSUME NEW h, NEW S, IsFiniteSet(S), \A x \in S : h[x] \in Int
    PROVE  \E f : IsFold(h, S, f)
<1> DEFINE G == {T \in SUBSET S : \E f : IsFold(h, T, f)}
           F(T) == CHOOSE f : IsFold(h, T, f)
<1>1. ASSUME NEW T \in SUBSET S, \A U \in SUBSET T : U # T => U \in G
      PROVE  T \in G
  <2>1. \A U \in SUBSET T : U # T => IsFold(h, U, F(U))
    BY <1>1
  <2>2. \A U \in SUBSET T : U # {} => SomeOf(U) \in U
    BY DEF SomeOf
  <2> HIDE DEF F
  <2>3. \A s \in SUBSET T : s # T => F(s)[s] \in Int
    BY <2>1 DEF IsFold
  <2> DEFINE f == [s \in SUBSET T |->
                     IF s # T THEN F(s)[s]
                     ELSE IF T = {} THEN 0
                     ELSE h[SomeOf(T)] + F(T \ {SomeOf(T)})[T \ {SomeOf(T)}]]
  <2>4. f \in [SUBSET T -> Int]
    <3>1. ASSUME T # {} PROVE h[SomeOf(T)] \in Int /\ F(T \ {SomeOf(T)})[T \ {SomeOf(T)}] \in Int
      BY <2>2, <2>3, <3>1
    <3> QED
      BY <2>3, <3>1
  <2>5. ASSUME NEW s \in SUBSET T
        PROVE  f[s] = IF s = {} THEN 0 ELSE h[SomeOf(s)] + f[s \ {SomeOf(s)}]
    <3>1. CASE s = T
      <4>1. ASSUME T # {} PROVE f[T \ {SomeOf(T)}] = F(T \ {SomeOf(T)})[T \ {SomeOf(T)}]
        BY <2>2, <4>1
      <4> QED
        BY <3>1, <4>1
    <3>2. CASE s # T /\ s = {}
      BY <3>2, <2>1 DEF IsFold
    <3>3. CASE s # T /\ s # {}
      <4> DEFINE u == s \ {SomeOf(s)}
      <4>1. SomeOf(s) \in s /\ u \in SUBSET T /\ u # T /\ u \in SUBSET s
        BY <2>2, <3>3
      <4>2. f[s] = F(s)[s] /\ f[u] = F(u)[u]
        BY <3>3, <4>1
      <4>3. F(s)[s] = h[SomeOf(s)] + F(s)[u]
        BY <2>1, <3>3 DEF IsFold
      <4>4. F(s)[u] = F(u)[u]
        <5>1. IsFold(h, s, F(s)) /\ IsFold(h, u, F(u))
          BY <2>1, <3>3, <4>1
        <5>2. IsFiniteSet(u)
          BY FS_Subset, <4>1
        <5>3. u \subseteq s /\ u \subseteq u
          OBVIOUS
        <5>4. PICK v, a, b : v = u /\ a = F(s) /\ b = F(u)
          OBVIOUS
        <5>5. /\ IsFiniteSet(v) /\ v \subseteq s /\ v \subseteq v
              /\ IsFold(h, s, a) /\ IsFold(h, v, b)
          BY <5>1, <5>2, <5>3, <5>4
        <5> HIDE DEF u, f, G
        <5>6. a[v] = b[v]
          BY ONLY <5>5, FoldUnique
        <5> QED
          BY <5>4, <5>6
      <4> QED
        BY <3>3, <4>2, <4>3, <4>4
    <3> QED
      BY <3>1, <3>2, <3>3
  <2>6. IsFold(h, T, f)
    BY <2>4, <2>5 DEF IsFold
  <2> QED
    BY <2>6
<1>2. \A T \in SUBSET S : T \in G
  <2> HIDE DEF G
  <2> QED
    BY <1>1, SubsetInduction
<1> QED
  BY <1>2

LEMMA SumIsFold ==
    ASSUME NEW h, NEW S, IsFiniteSet(S), \A x \in S : h[x] \in Int
    PROVE  \E f : IsFold(h, S, f) /\ SumFunctionOnSet(h, S) = f[S]
<1> DEFINE It(g) == g = [s \in SUBSET S |->
                          IF s = {} THEN 0 ELSE h[CHOOSE x \in s : TRUE]
                                              + g[s \ {CHOOSE x \in s : TRUE}]]
           f == CHOOSE g : It(g)
<1>1. PICK e : IsFold(h, S, e)
  BY FoldExists
<1>2. It(e)
  BY <1>1 DEF IsFold, SomeOf
<1>3. It(f)
  BY <1>2
<1>4. SumFunctionOnSet(h, S) = f[S]
  BY DEF SumFunctionOnSet, FoldFunctionOnSet, MapThenFoldSet
<1> HIDE DEF f
<1>5. IsFold(h, S, f)
  <2> DEFINE G == {s \in SUBSET S : f[s] = e[s]}
  <2>1. ASSUME NEW s \in SUBSET S, \A u \in SUBSET s : u # s => u \in G
        PROVE  s \in G
    <3>0. /\ f[s] = IF s = {} THEN 0 ELSE h[SomeOf(s)] + f[s \ {SomeOf(s)}]
          /\ e[s] = IF s = {} THEN 0 ELSE h[SomeOf(s)] + e[s \ {SomeOf(s)}]
      BY <1>1, <1>3 DEF IsFold, SomeOf
    <3>1. ASSUME s # {} PROVE f[s \ {SomeOf(s)}] = e[s \ {SomeOf(s)}]
      <4>1. SomeOf(s) \in s
        BY <3>1 DEF SomeOf
      <4> QED
        BY <2>1, <4>1
    <3> QED
      BY <3>0, <3>1
  <2>2. \A s \in SUBSET S : s \in G
    <3> HIDE DEF G
    <3> QED
      BY <2>1, SubsetInduction
  <2>3. \A s \in SUBSET S : f[s] = e[s]
    BY <2>2
  <2>4. f = [s \in SUBSET S |-> e[s]]
    <3>1. DOMAIN f = SUBSET S /\ f = [s \in DOMAIN f |-> f[s]]
      BY <1>3
    <3> QED
      BY <2>3, <3>1
  <2> QED
    BY <1>1, <2>4 DEF IsFold
<1> QED
  BY <1>4, <1>5

\* A sum is what the library's fold adds up, one element after the other.
LEMMA SumEmpty == ASSUME NEW h PROVE SumFunctionOnSet(h, {}) = 0
<1>1. IsFiniteSet({})
  BY FS_EmptySet
<1> QED
  BY <1>1, SumIsFold DEF IsFold

LEMMA SumSome ==
    ASSUME NEW h, NEW S, IsFiniteSet(S), S # {}, \A x \in S : h[x] \in Int
    PROVE  /\ SumFunctionOnSet(h, S) = h[SomeOf(S)] + SumFunctionOnSet(h, S \ {SomeOf(S)})
           /\ SumFunctionOnSet(h, S) \in Int
           /\ SomeOf(S) \in S
<1> DEFINE T == S \ {SomeOf(S)}
<1>1. SomeOf(S) \in S
  BY DEF SomeOf
<1>2. IsFiniteSet(T)
  BY FS_Subset
<1>3. PICK f : IsFold(h, S, f) /\ SumFunctionOnSet(h, S) = f[S]
  BY SumIsFold
<1>4. PICK g : IsFold(h, T, g) /\ SumFunctionOnSet(h, T) = g[T]
  BY <1>2, SumIsFold
<1>5. f[T] = g[T]
  <2>1. T \subseteq S
    OBVIOUS
  <2> QED
    BY <1>2, <1>3, <1>4, <2>1, FoldUnique
<1>6. f[S] = h[SomeOf(S)] + f[T] /\ f[S] \in Int
  BY <1>3 DEF IsFold
<1> QED
  BY <1>1, <1>3, <1>4, <1>5, <1>6

\* The elements may be added in any order.
LEMMA SumStep ==
    ASSUME NEW h, NEW S, IsFiniteSet(S), \A x \in S : h[x] \in Int, NEW x \in S
    PROVE  /\ SumFunctionOnSet(h, S) = h[x] + SumFunctionOnSet(h, S \ {x})
           /\ SumFunctionOnSet(h, S) \in Int
<1> DEFINE Sum(T) == SumFunctionOnSet(h, T)
           G == {T \in SUBSET S : \A y \in T : Sum(T) = h[y] + Sum(T \ {y})}
<1>0. ASSUME NEW T \in SUBSET S
      PROVE  /\ Sum(T) \in Int
             /\ T # {} => Sum(T) = h[SomeOf(T)] + Sum(T \ {SomeOf(T)}) /\ SomeOf(T) \in T
  <2>1. IsFiniteSet(T) /\ \A y \in T : h[y] \in Int
    BY FS_Subset
  <2>2. CASE T = {}
    BY <2>2, SumEmpty
  <2>3. CASE T # {}
    BY <2>1, <2>3, SumSome
  <2> QED
    BY <2>2, <2>3
<1> HIDE DEF Sum
<1>1. ASSUME NEW T \in SUBSET S, \A U \in SUBSET T : U # T => U \in G
      PROVE  T \in G
  <2> SUFFICES ASSUME NEW y \in T PROVE Sum(T) = h[y] + Sum(T \ {y})
    OBVIOUS
  <2>1. PICK c \in T : Sum(T) = h[c] + Sum(T \ {c})
    BY <1>0
  <2>2. CASE y = c
    BY <2>1, <2>2
  <2>3. CASE y # c
    <3>1. PICK U : U = (T \ {c}) \ {y}
      OBVIOUS
    <3>2. U = (T \ {y}) \ {c} /\ U \in SUBSET S
      BY <3>1
    <3>3. Sum(T \ {c}) = h[y] + Sum(U)
      <4>1. T \ {c} \in G /\ y \in T \ {c}
        BY <1>1, <2>3
      <4> QED
        BY <3>1, <4>1
    <3>4. Sum(T \ {y}) = h[c] + Sum(U)
      <4>1. T \ {y} \in G /\ c \in T \ {y}
        BY <1>1, <2>3
      <4> QED
        BY <3>2, <4>1
    <3>5. h[y] \in Int /\ h[c] \in Int /\ Sum(U) \in Int
      BY <1>0, <3>2
    <3> QED
      BY <2>1, <3>3, <3>4, <3>5
  <2> QED
    BY <2>2, <2>3
<1>2. \A T \in SUBSET S : T \in G
  <2> HIDE DEF G
  <2> QED
    BY <1>1, SubsetInduction
<1>3. Sum(S) = h[x] + Sum(S \ {x}) /\ Sum(S) \in Int
  BY <1>0, <1>2
<1> QED
  BY <1>3 DEF Sum

LEMMA SumInt ==
    ASSUME NEW h, NEW S, IsFiniteSet(S), \A x \in S : h[x] \in Int
    PROVE  SumFunctionOnSet(h, S) \in Int
<1>1. CASE S = {}
  BY <1>1, SumEmpty
<1>2. CASE S # {}
  BY <1>2, SumStep
<1> QED
  BY <1>1, <1>2

LEMMA AddedUp ==
    ASSUME NEW a \in Int, NEW b \in Int, NEW u \in Int, NEW v \in Int, NEW k \in Int
    PROVE  (a + k * b) + (u + k * v) = (a + u) + k * (b + v)
OBVIOUS

\* Sums are linear.
LEMMA SumLinear ==
    ASSUME NEW S, IsFiniteSet(S), NEW f, NEW g, NEW h, NEW k \in Int,
           \A x \in S : g[x] \in Int /\ h[x] \in Int /\ f[x] = g[x] + k * h[x]
    PROVE  SumFunctionOnSet(f, S) = SumFunctionOnSet(g, S) + k * SumFunctionOnSet(h, S)
<1> DEFINE F(T) == SumFunctionOnSet(f, T)
           A(T) == SumFunctionOnSet(g, T)
           B(T) == SumFunctionOnSet(h, T)
           G == {T \in SUBSET S : F(T) = A(T) + k * B(T)}
<1>0. \A x \in S : f[x] \in Int
  <2> TAKE x \in S
  <2>1. PICK a \in Int, b \in Int : a = g[x] /\ b = h[x] /\ f[x] = a + k * b
    OBVIOUS
  <2> QED
    BY <2>1
<1>1. ASSUME NEW T \in SUBSET S, \A U \in SUBSET T : U # T => U \in G
      PROVE  T \in G
  <2>1. CASE T = {}
    <3>1. F({}) = 0 /\ A({}) = 0 /\ B({}) = 0
      BY SumEmpty
    <3> QED
      BY <2>1, <3>1
  <2>2. CASE T # {}
    <3>1. PICK x \in T : TRUE
      BY <2>2
    <3>2. PICK U : U = T \ {x}
      OBVIOUS
    <3>3. IsFiniteSet(T) /\ IsFiniteSet(U)
      BY <3>2, FS_Subset
    <3>4. F(T) = f[x] + F(U)
      BY <1>0, <3>2, <3>3, SumStep
    <3>5. A(T) = g[x] + A(U) /\ B(T) = h[x] + B(U)
      BY <3>2, <3>3, SumStep
    <3>6. F(U) = A(U) + k * B(U)
      BY <1>1, <3>2
    <3>7. A(U) \in Int /\ B(U) \in Int
      BY <3>2, <3>3, SumInt
    <3>8. g[x] \in Int /\ h[x] \in Int /\ f[x] = g[x] + k * h[x]
      OBVIOUS
    <3> HIDE DEF F, A, B
    <3>9. PICK a \in Int, b \in Int, u \in Int, v \in Int :
             a = g[x] /\ b = h[x] /\ u = A(U) /\ v = B(U)
      BY <3>7, <3>8
    <3>10. /\ F(T) = (a + k * b) + (u + k * v)
           /\ A(T) + k * B(T) = (a + u) + k * (b + v)
      BY <3>4, <3>5, <3>6, <3>8, <3>9
    <3> QED
      BY <3>10, AddedUp
  <2> QED
    BY <2>1, <2>2
<1>2. \A T \in SUBSET S : T \in G
  <2> HIDE DEF G
  <2> QED
    BY <1>1, SubsetInduction
<1> QED
  BY <1>2

LEMMA SumZero ==
    ASSUME NEW S, IsFiniteSet(S), NEW h, \A x \in S : h[x] = 0
    PROVE  SumFunctionOnSet(h, S) = 0
<1>1. \A x \in S : h[x] \in Int /\ h[x] \in Int /\ h[x] = h[x] + 1 * h[x]
  OBVIOUS
<1>2. PICK s \in Int : s = SumFunctionOnSet(h, S)
  BY <1>1, SumInt
<1>3. SumFunctionOnSet(h, S) = SumFunctionOnSet(h, S) + 1 * SumFunctionOnSet(h, S)
  BY <1>1, SumLinear
<1>4. s = s + 1 * s
  BY <1>2, <1>3
<1>5. s = 0
  BY <1>4
<1> QED
  BY <1>2, <1>5

LEMMA SumScaled ==
    ASSUME NEW S, IsFiniteSet(S), NEW f, NEW h, NEW k \in Int,
           \A x \in S : h[x] \in Int /\ f[x] = k * h[x]
    PROVE  SumFunctionOnSet(f, S) = k * SumFunctionOnSet(h, S)
<1> DEFINE z == [x \in S |-> 0]
<1>1. \A x \in S : z[x] \in Int /\ h[x] \in Int /\ f[x] = z[x] + k * h[x]
  <2> TAKE x \in S
  <2>1. PICK b \in Int : b = h[x] /\ f[x] = k * b
    OBVIOUS
  <2>2. z[x] = 0
    OBVIOUS
  <2>3. k * b = 0 + k * b
    OBVIOUS
  <2> QED
    BY <2>1, <2>2, <2>3
<1>2. SumFunctionOnSet(z, S) = 0
  BY SumZero
<1>3. PICK s \in Int : s = SumFunctionOnSet(h, S)
  BY SumInt
<1> HIDE DEF z
<1>4. SumFunctionOnSet(f, S) = SumFunctionOnSet(z, S) + k * SumFunctionOnSet(h, S)
  BY <1>1, SumLinear
<1> QED
  BY <1>2, <1>3, <1>4

LEMMA SumSame ==
    ASSUME NEW S, IsFiniteSet(S), NEW f, NEW h,
           \A x \in S : h[x] \in Int /\ f[x] = h[x]
    PROVE  SumFunctionOnSet(f, S) = SumFunctionOnSet(h, S)
<1>1. \A x \in S : h[x] \in Int /\ f[x] = 1 * h[x]
  OBVIOUS
<1>2. PICK s \in Int : s = SumFunctionOnSet(h, S)
  BY SumInt
<1>3. SumFunctionOnSet(f, S) = 1 * SumFunctionOnSet(h, S)
  BY <1>1, SumScaled
<1> QED
  BY <1>2, <1>3

\* Elements that are zero may be left out.
LEMMA SumPart ==
    ASSUME NEW S, IsFiniteSet(S), NEW h, \A x \in S : h[x] \in Int,
           NEW T, T \subseteq S, \A x \in S \ T : h[x] = 0
    PROVE  SumFunctionOnSet(h, S) = SumFunctionOnSet(h, T)
<1> DEFINE G == {U \in SUBSET S : T \subseteq U =>
                                     SumFunctionOnSet(h, U) = SumFunctionOnSet(h, T)}
<1>1. ASSUME NEW U \in SUBSET S, \A V \in SUBSET U : V # U => V \in G
      PROVE  U \in G
  <2> SUFFICES ASSUME T \subseteq U
               PROVE  SumFunctionOnSet(h, U) = SumFunctionOnSet(h, T)
    OBVIOUS
  <2>1. CASE U = T
    BY <2>1
  <2>2. CASE U # T
    <3>1. PICK x \in U : x \notin T
      BY <2>2
    <3>2. PICK V : V = U \ {x}
      OBVIOUS
    <3>3. IsFiniteSet(U) /\ IsFiniteSet(V)
      BY <3>2, FS_Subset
    <3>4. SumFunctionOnSet(h, U) = h[x] + SumFunctionOnSet(h, V)
      BY <3>2, <3>3, SumStep
    <3>5. SumFunctionOnSet(h, V) = SumFunctionOnSet(h, T)
      <4>1. V \in G /\ T \subseteq V
        BY <1>1, <3>1, <3>2
      <4> QED
        BY <4>1
    <3>6. SumFunctionOnSet(h, V) \in Int
      BY <3>2, <3>3, SumInt
    <3>7. h[x] = 0
      BY <3>1
    <3> QED
      BY <3>4, <3>5, <3>6, <3>7
  <2> QED
    BY <2>1, <2>2
<1>2. \A U \in SUBSET S : U \in G
  <2> HIDE DEF G
  <2> QED
    BY <1>1, SubsetInduction
<1> QED
  BY <1>2

\* A table is added up by rows or by columns.
LEMMA SumExchange ==
    ASSUME NEW S, IsFiniteSet(S), NEW T, IsFiniteSet(T),
           NEW m, \A x \in S, y \in T : m[x][y] \in Int,
           NEW n, \A x \in S, y \in T : n[y][x] = m[x][y],
           NEW a, \A x \in S : a[x] = SumFunctionOnSet(m[x], T),
           NEW b, \A y \in T : b[y] = SumFunctionOnSet(n[y], S)
    PROVE  SumFunctionOnSet(a, S) = SumFunctionOnSet(b, T)
<1> DEFINE Col(y) == n[y]
           C(U) == [y \in T |-> SumFunctionOnSet(Col(y), U)]
           G == {U \in SUBSET S : SumFunctionOnSet(a, U) = SumFunctionOnSet(C(U), T)}
<1>1. ASSUME NEW U \in SUBSET S, \A V \in SUBSET U : V # U => V \in G
      PROVE  U \in G
  <2>1. CASE U = {}
    <3>1. \A y \in T : C({})[y] = 0
      BY SumEmpty
    <3>2. SumFunctionOnSet(C({}), T) = 0
      <4> HIDE DEF C
      <4> QED
        BY <3>1, SumZero
    <3>3. SumFunctionOnSet(a, {}) = 0
      BY SumEmpty
    <3> QED
      BY <2>1, <3>2, <3>3
  <2>2. CASE U # {}
    <3>1. PICK x \in U : TRUE
      BY <2>2
    <3>2. PICK V : V = U \ {x}
      OBVIOUS
    <3>3. IsFiniteSet(U) /\ IsFiniteSet(V)
      BY <3>2, FS_Subset
    <3>4. \A z \in S : a[z] \in Int
      <4> TAKE z \in S
      <4>1. SumFunctionOnSet(m[z], T) \in Int
        BY SumInt
      <4> QED
        BY <4>1
    <3>5. SumFunctionOnSet(a, U) = a[x] + SumFunctionOnSet(a, V)
      BY <3>2, <3>3, <3>4, SumStep
    <3>6. ASSUME NEW y \in T
          PROVE  /\ C(U)[y] = C(V)[y] + 1 * m[x][y]
                 /\ C(V)[y] \in Int /\ m[x][y] \in Int
      <4>1. PICK c : c = Col(y)
        OBVIOUS
      <4>2. \A z \in S : c[z] = m[z][y] /\ c[z] \in Int
        BY <4>1
      <4>3. SumFunctionOnSet(c, U) = c[x] + SumFunctionOnSet(c, V)
        BY <3>2, <3>3, <4>2, SumStep
      <4>4. SumFunctionOnSet(c, V) \in Int
        BY <3>2, <3>3, <4>2, SumInt
      <4>5. C(U)[y] = SumFunctionOnSet(c, U) /\ C(V)[y] = SumFunctionOnSet(c, V)
        BY <4>1
      <4> QED
        BY <4>2, <4>3, <4>4, <4>5
    <3>7. PICK p, q, r : p = C(U) /\ q = C(V) /\ r = m[x]
      OBVIOUS
    <3>8. \A y \in T : q[y] \in Int /\ r[y] \in Int /\ p[y] = q[y] + 1 * r[y]
      BY <3>6, <3>7
    <3>9. SumFunctionOnSet(p, T) = SumFunctionOnSet(q, T) + 1 * SumFunctionOnSet(r, T)
      BY <3>8, SumLinear
    <3>10. SumFunctionOnSet(q, T) \in Int /\ SumFunctionOnSet(r, T) \in Int
      BY <3>8, SumInt
    <3>11. SumFunctionOnSet(a, V) = SumFunctionOnSet(q, T)
      <4>1. V \in G
        BY <1>1, <3>2
      <4> QED
        BY <3>7, <4>1
    <3>12. a[x] = SumFunctionOnSet(r, T)
      BY <3>7
    <3>13. SumFunctionOnSet(a, U) = SumFunctionOnSet(p, T)
      BY <3>5, <3>9, <3>10, <3>11, <3>12
    <3> QED
      BY <3>7, <3>13
  <2> QED
    BY <2>1, <2>2
<1>2. \A U \in SUBSET S : U \in G
  <2> HIDE DEF G
  <2> QED
    BY <1>1, SubsetInduction
<1>3. SumFunctionOnSet(a, S) = SumFunctionOnSet(C(S), T)
  BY <1>2
<1>4. \A y \in T : C(S)[y] \in Int /\ b[y] = C(S)[y]
  <2> TAKE y \in T
  <2>1. PICK c : c = Col(y)
    OBVIOUS
  <2>2. \A z \in S : c[z] \in Int
    BY <2>1
  <2>3. SumFunctionOnSet(c, S) \in Int
    BY <2>2, SumInt
  <2> QED
    BY <2>1, <2>3
<1>5. SumFunctionOnSet(b, T) = SumFunctionOnSet(C(S), T)
  <2> HIDE DEF C
  <2> QED
    BY <1>4, SumSame
<1> QED
  BY <1>3, <1>5

-------------------------------------------------------------------------------
(***************************************************************************)
(* Numbers that are the same modulo p                                      *)
(***************************************************************************)

\* a and b differ by a multiple of p.
SameMod(a, b, p) == \E q \in Int : a = b + p * q

LEMMA SameModSelf == ASSUME NEW a \in Int, NEW p \in Nat PROVE SameMod(a, a, p)
<1>1. a = a + p * 0
  OBVIOUS
<1> QED
  BY <1>1 DEF SameMod

LEMMA SameModBack ==
    ASSUME NEW a \in Int, NEW b \in Int, NEW p \in Nat, SameMod(a, b, p)
    PROVE  SameMod(b, a, p)
<1>1. PICK q \in Int : a = b + p * q
  BY DEF SameMod
<1>2. p * (-q) = -(p * q)
  OBVIOUS
<1>3. b = a + p * (-q) /\ -q \in Int
  BY <1>1, <1>2
<1> QED
  BY <1>3 DEF SameMod

LEMMA SameModOn ==
    ASSUME NEW a \in Int, NEW b \in Int, NEW c \in Int, NEW p \in Nat,
           SameMod(a, b, p), SameMod(b, c, p)
    PROVE  SameMod(a, c, p)
<1>1. PICK q \in Int, r \in Int : a = b + p * q /\ b = c + p * r
  BY DEF SameMod
<1>2. p * (q + r) = p * q + p * r
  OBVIOUS
<1>3. a = c + p * (q + r) /\ q + r \in Int
  BY <1>1, <1>2
<1> QED
  BY <1>3 DEF SameMod

LEMMA SameModPlus ==
    ASSUME NEW a \in Int, NEW b \in Int, NEW c \in Int, NEW d \in Int, NEW p \in Nat,
           SameMod(a, b, p), SameMod(c, d, p)
    PROVE  SameMod(a + c, b + d, p)
<1>1. PICK q \in Int, r \in Int : a = b + p * q /\ c = d + p * r
  BY DEF SameMod
<1>2. p * (q + r) = p * q + p * r
  OBVIOUS
<1>3. a + c = (b + d) + p * (q + r) /\ q + r \in Int
  BY <1>1, <1>2
<1> QED
  BY <1>3 DEF SameMod

LEMMA SameModTimes ==
    ASSUME NEW a \in Int, NEW b \in Int, NEW k \in Int, NEW p \in Nat,
           SameMod(a, b, p)
    PROVE  SameMod(k * a, k * b, p)
<1>1. PICK q \in Int : a = b + p * q
  BY DEF SameMod
<1>2. k * (b + p * q) = k * b + p * (k * q)
  OBVIOUS
<1>3. k * a = k * b + p * (k * q) /\ k * q \in Int
  BY <1>1, <1>2
<1> QED
  BY <1>3 DEF SameMod

LEMMA SameModProduct ==
    ASSUME NEW a \in Int, NEW b \in Int, NEW c \in Int, NEW d \in Int, NEW p \in Nat,
           SameMod(a, b, p), SameMod(c, d, p)
    PROVE  SameMod(a * c, b * d, p)
<1>1. SameMod(c * a, c * b, p) /\ SameMod(b * c, b * d, p)
  BY SameModTimes
<1>2. c * a = a * c /\ c * b = b * c
  OBVIOUS
<1>3. SameMod(a * c, b * c, p)
  BY <1>1, <1>2
<1>4. a * c \in Int /\ b * c \in Int /\ b * d \in Int
  OBVIOUS
<1> QED
  BY <1>1, <1>3, <1>4, SameModOn

LEMMA SameModRest ==
    ASSUME NEW a \in Int, NEW p \in Nat \ {0}
    PROVE  a % p \in 0 .. p - 1 /\ SameMod(a % p, a, p)
<1>1. PICK q \in Int, r \in 0 .. p - 1 : a = p * q + r /\ r = a % p
  <2>1. a = p * (a \div p) + (a % p) /\ a \div p \in Int /\ a % p \in 0 .. p - 1
    OBVIOUS
  <2> QED
    BY <2>1
<1>2. p * (-q) = -(p * q)
  OBVIOUS
<1>3. a % p = a + p * (-q) /\ -q \in Int
  BY <1>1, <1>2
<1> QED
  BY <1>1, <1>3 DEF SameMod

LEMMA SameModRests ==
    ASSUME NEW p \in Nat \ {0}, NEW a \in 0 .. p - 1, NEW b \in 0 .. p - 1,
           SameMod(a, b, p)
    PROVE  a = b
<1>1. PICK q \in Int : a = b + p * q
  BY DEF SameMod
<1>2. PICK m \in Int : m = p * q
  OBVIOUS
<1>3. -p < m /\ m < p
  BY <1>1, <1>2
<1>4. q >= 1 => m >= p
  BY <1>2
<1>5. q <= -1 => m <= -p
  BY <1>2
<1>6. q = 0
  BY <1>3, <1>4, <1>5
<1> QED
  BY <1>1, <1>6

\* Numbers that are congruent have the same rest.
LEMMA SameRest ==
    ASSUME NEW a \in Int, NEW b \in Int, NEW p \in Nat \ {0}, SameMod(a, b, p)
    PROVE  a % p = b % p
<1>1. /\ a % p \in 0 .. p - 1 /\ SameMod(a % p, a, p)
      /\ b % p \in 0 .. p - 1 /\ SameMod(b % p, b, p)
  BY SameModRest
<1>2. PICK u \in 0 .. p - 1, v \in 0 .. p - 1 : u = a % p /\ v = b % p
  BY <1>1
<1>3. u \in Int /\ v \in Int /\ p \in Nat
  OBVIOUS
<1>4. SameMod(u, b, p)
  BY <1>1, <1>2, <1>3, SameModOn
<1>5. SameMod(b, v, p)
  BY <1>1, <1>2, <1>3, SameModBack
<1>6. SameMod(u, v, p)
  BY <1>3, <1>4, <1>5, SameModOn
<1> QED
  BY <1>2, <1>6, SameModRests

LEMMA SameModSum ==
    ASSUME NEW S, IsFiniteSet(S), NEW f, NEW g, NEW p \in Nat,
           \A x \in S : f[x] \in Int /\ g[x] \in Int /\ SameMod(f[x], g[x], p)
    PROVE  /\ SumFunctionOnSet(f, S) \in Int /\ SumFunctionOnSet(g, S) \in Int
           /\ SameMod(SumFunctionOnSet(f, S), SumFunctionOnSet(g, S), p)
<1> DEFINE h == [x \in S |-> CHOOSE q \in Int : f[x] = g[x] + p * q]
<1>1. \A x \in S : g[x] \in Int /\ h[x] \in Int /\ f[x] = g[x] + p * h[x]
  BY DEF SameMod
<1> HIDE DEF h
<1>2. SumFunctionOnSet(f, S) = SumFunctionOnSet(g, S) + p * SumFunctionOnSet(h, S)
  BY <1>1, SumLinear
<1>3. /\ SumFunctionOnSet(f, S) \in Int /\ SumFunctionOnSet(g, S) \in Int
      /\ SumFunctionOnSet(h, S) \in Int
  BY <1>1, SumInt
<1> QED
  BY <1>2, <1>3 DEF SameMod

-------------------------------------------------------------------------------
(***************************************************************************)
(* The inverse of a triangular matrix                                      *)
(***************************************************************************)

\* A triangular matrix over the rows L: before[j] are the rows of column j next to
\* the diagonal.
TriangleOrder(L, before) ==
    /\ IsFiniteSet(L)
    /\ before \in [L -> SUBSET L]
    /\ \A j \in L : j \notin before[j] /\ \A k \in before[j] : before[k] \subseteq before[j]

InTriangleOf(L, before, m) ==
    \A i, j \in L : /\ m[i][j] \in Int
                    /\ i # j /\ i \notin before[j] => m[i][j] = 0

\* The columns of x are computed one from the others, modulo p, with the inverses
\* of the diagonal of b.
SolvesColumns(L, before, b, x, p) ==
    \A j \in L :
        /\ SameMod(b[j][j] * x[j][j], 1, p)
        /\ \A i \in before[j] :
              SameMod(x[i][j],
                        (-x[j][j]) * SumFunctionOnSet([k \in L |-> x[i][k] * b[k][j]],
                                                      before[j]), p)

EntryOf(L, b, x, i, j) == SumFunctionOnSet([k \in L |-> b[i][k] * x[k][j]], L)

UnitEntry(i, j) == IF i = j THEN 1 ELSE 0

\* Column j of the product, when the columns before it are those of the unit matrix.
LEMMA ColumnOfInverse ==
    ASSUME NEW L, NEW before, TriangleOrder(L, before), NEW p \in Nat,
           NEW b, InTriangleOf(L, before, b), NEW x, InTriangleOf(L, before, x),
           SolvesColumns(L, before, b, x, p), NEW j \in L,
           \A t \in before[j], i \in L : SameMod(EntryOf(L, b, x, i, t), UnitEntry(i, t), p),
           NEW i \in L
    PROVE  SameMod(EntryOf(L, b, x, i, j), UnitEntry(i, j), p)
<1> DEFINE T == before[j]
<1>1. PICK r \in Int : r = x[j][j]
  BY DEF InTriangleOf
<1>2. /\ IsFiniteSet(L) /\ IsFiniteSet(T) /\ T \subseteq L /\ j \notin T
      /\ \A k \in T : before[k] \subseteq T
  <2>1. IsFiniteSet(L) /\ T \subseteq L /\ j \notin T /\ \A k \in T : before[k] \subseteq T
    BY DEF TriangleOrder
  <2> QED
    BY <2>1, FS_Subset
<1> HIDE DEF T
<1>3. \A k, l \in L : b[k][l] \in Int /\ x[k][l] \in Int
  BY DEF InTriangleOf
<1>4. \A k \in L : k # j /\ k \notin T => b[k][j] = 0 /\ x[k][j] = 0
  BY DEF InTriangleOf, T
  \* The terms above the diagonal, each a sum over the columns before.
<1> DEFINE m == [k \in T |-> [t \in T |-> (b[i][k] * x[k][t]) * b[t][j]]]
           rows == [k \in T |-> SumFunctionOnSet(m[k], T)]
           cols == [t \in T |-> SumFunctionOnSet([k \in T |-> m[k][t]], T)]
           own == [k \in L |-> b[i][k] * x[k][j]]
           unit == [t \in T |-> UnitEntry(i, t) * b[t][j]]
<1>5. \A k \in L : own[k] \in Int
  <2> TAKE k \in L
  <2>1. PICK u \in Int, v \in Int : u = b[i][k] /\ v = x[k][j]
    BY <1>3
  <2>2. u * v \in Int
    OBVIOUS
  <2> QED
    BY <2>1, <2>2
<1>6. \A k, t \in T : m[k][t] \in Int
  <2> TAKE k \in T, t \in T
  <2>1. PICK u \in Int, v \in Int, w \in Int : u = b[i][k] /\ v = x[k][t] /\ w = b[t][j]
    BY <1>2, <1>3
  <2>2. (u * v) * w \in Int
    OBVIOUS
  <2> QED
    BY <2>1, <2>2
<1>7. SumFunctionOnSet(rows, T) = SumFunctionOnSet(cols, T)
  <2> HIDE DEF m
  <2>1. \A k \in T : rows[k] = SumFunctionOnSet(m[k], T)
    OBVIOUS
  <2>2. \A t \in T : cols[t] = SumFunctionOnSet([k \in T |-> m[k][t]], T)
    OBVIOUS
  <2> HIDE DEF rows, cols
  <2>3. PICK n, a, c : n = m /\ a = rows /\ c = cols
    OBVIOUS
  <2>4. PICK w : w = [t \in T |-> [k \in T |-> n[k][t]]]
    OBVIOUS
  <2>6. /\ IsFiniteSet(T)
        /\ \A k, t \in T : n[k][t] \in Int /\ w[t][k] = n[k][t]
        /\ \A k \in T : a[k] = SumFunctionOnSet(n[k], T)
        /\ \A t \in T : c[t] = SumFunctionOnSet(w[t], T)
    BY <1>2, <1>6, <2>1, <2>2, <2>3, <2>4
  <2>5. SumFunctionOnSet(a, T) = SumFunctionOnSet(c, T)
    BY ONLY <2>6, SumExchange
  <2> QED
    BY <2>3, <2>5
<1>8. ASSUME NEW k \in T
      PROVE  own[k] \in Int /\ rows[k] \in Int /\ SameMod(own[k], (-r) * rows[k], p)
  <2> DEFINE h == [t \in L |-> x[k][t] * b[t][j]]
             s == SumFunctionOnSet(h, T)
  <2>1. \A t \in T : h[t] \in Int
    <3> TAKE t \in T
    <3>1. PICK v \in Int, w \in Int : v = x[k][t] /\ w = b[t][j]
      BY <1>2, <1>3
    <3>2. v * w \in Int
      OBVIOUS
    <3> QED
      BY <1>2, <3>1, <3>2
  <2>2. s \in Int
    <3> HIDE DEF h
    <3> QED
      BY <1>2, <2>1, SumInt
  <2>3. PICK c \in Int : c = b[i][k]
    BY <1>2, <1>3
  <2>4. rows[k] = c * s
    <3>1. \A t \in T : h[t] \in Int /\ m[k][t] = c * h[t]
      <4> TAKE t \in T
      <4>1. PICK v \in Int, w \in Int : v = x[k][t] /\ w = b[t][j]
        BY <1>2, <1>3
      <4>2. h[t] = v * w /\ m[k][t] = (c * v) * w
        BY <1>2, <2>3, <4>1
      <4>3. (c * v) * w = c * (v * w)
        OBVIOUS
      <4> QED
        BY <2>1, <4>2, <4>3
    <3>2. PICK f : f = m[k]
      OBVIOUS
    <3>3. \A t \in T : h[t] \in Int /\ f[t] = c * h[t]
      BY <3>1, <3>2
    <3> HIDE DEF h, m
    <3>4. SumFunctionOnSet(f, T) = c * SumFunctionOnSet(h, T)
      BY <1>2, <3>3, SumScaled
    <3> QED
      BY <3>2, <3>4
  <2>5. PICK y \in Int : y = x[k][j]
    BY <1>2, <1>3
  <2>6. SameMod(y, (-r) * s, p)
    BY <1>1, <2>5 DEF SolvesColumns, T
  <2>7. PICK z \in Int : z = s
    BY <2>2
  <2>8. -r \in Int /\ (-r) * z \in Int
    OBVIOUS
  <2>9. SameMod(c * y, c * ((-r) * z), p)
    BY <2>6, <2>7, <2>8, SameModTimes
  <2>10. c * ((-r) * z) = (-r) * (c * z) /\ c * z \in Int /\ c * y \in Int
    OBVIOUS
  <2>11. own[k] = c * y /\ rows[k] = c * z
    BY <1>2, <2>3, <2>4, <2>5, <2>7
  <2> QED
    BY <2>9, <2>10, <2>11
<1>9. ASSUME NEW t \in T
      PROVE  cols[t] \in Int /\ unit[t] \in Int /\ SameMod(cols[t], unit[t], p)
  <2> DEFINE h == [k \in L |-> b[i][k] * x[k][t]]
  <2>1. PICK c \in Int : c = b[t][j]
    BY <1>2, <1>3
  <2>2. \A k \in L : h[k] \in Int
    <3> TAKE k \in L
    <3>1. PICK v \in Int, w \in Int : v = b[i][k] /\ w = x[k][t]
      BY <1>2, <1>3
    <3>2. v * w \in Int
      OBVIOUS
    <3> QED
      BY <3>1, <3>2
  <2>3. \A k \in L \ T : h[k] = 0
    <3> TAKE k \in L \ T
    <3>1. k # t /\ k \notin before[t]
      BY <1>2
    <3>2. x[k][t] = 0
      BY <1>2, <3>1 DEF InTriangleOf
    <3>3. PICK v \in Int : v = b[i][k]
      BY <1>3
    <3>4. v * 0 = 0
      OBVIOUS
    <3> QED
      BY <3>2, <3>3, <3>4
  <2>4. SumFunctionOnSet(h, L) = EntryOf(L, b, x, i, t)
    BY DEF EntryOf
  <2>5. SumFunctionOnSet(h, L) = SumFunctionOnSet(h, T) /\ SumFunctionOnSet(h, T) \in Int
    <3> HIDE DEF h
    <3> QED
      BY <1>2, <2>2, <2>3, SumPart, SumInt
  <2>6. PICK e \in Int : e = SumFunctionOnSet(h, T) /\ e = EntryOf(L, b, x, i, t)
    BY <2>4, <2>5
  <2>7. cols[t] = c * e
    <3>1. PICK f : f = [k \in T |-> m[k][t]]
      OBVIOUS
    <3>2. \A k \in T : h[k] \in Int /\ f[k] = c * h[k]
      <4> TAKE k \in T
      <4>1. PICK v \in Int, w \in Int : v = b[i][k] /\ w = x[k][t]
        BY <1>2, <1>3
      <4>2. h[k] = v * w /\ f[k] = (v * w) * c
        BY <1>2, <2>1, <3>1, <4>1
      <4>3. (v * w) * c = c * (v * w)
        OBVIOUS
      <4> QED
        BY <1>2, <2>2, <4>2, <4>3
    <3> HIDE DEF h, m
    <3>3. SumFunctionOnSet(f, T) = c * SumFunctionOnSet(h, T)
      BY <1>2, <3>2, SumScaled
    <3> QED
      BY <2>6, <3>1, <3>3
  <2>8. PICK d \in Int : d = UnitEntry(i, t)
    BY DEF UnitEntry
  <2>9. SameMod(e, d, p)
    BY <1>2, <2>6, <2>8 DEF T
  <2>10. SameMod(c * e, c * d, p)
    BY <2>9, SameModTimes
  <2>11. unit[t] = d * c /\ d * c = c * d /\ c * d \in Int /\ c * e \in Int
    BY <2>1, <2>8
  <2> QED
    BY <2>7, <2>10, <2>11
  \* The sum above the diagonal is that of a column of b times the unit matrix.
<1> DEFINE up == IF i \in T THEN b[i][j] ELSE 0
<1>10. SumFunctionOnSet(unit, T) = up
  <2>1. CASE i \notin T
    <3>1. \A t \in T : unit[t] = 0
      <4> TAKE t \in T
      <4>1. PICK c \in Int : c = b[t][j]
        BY <1>2, <1>3
      <4>2. unit[t] = 0 * c
        BY <2>1, <4>1 DEF UnitEntry
      <4> QED
        BY <4>2
    <3> HIDE DEF unit
    <3> QED
      BY <1>2, <2>1, <3>1, SumZero
  <2>2. CASE i \in T
    <3>1. \A t \in T \ {i} : unit[t] = 0
      <4> TAKE t \in T \ {i}
      <4>1. PICK c \in Int : c = b[t][j]
        BY <1>2, <1>3
      <4>2. unit[t] = 0 * c
        BY <4>1 DEF UnitEntry
      <4> QED
        BY <4>2
    <3>2. PICK c \in Int : c = b[i][j]
      BY <1>3
    <3>3. unit[i] = c
      <4>1. unit[i] = 1 * c
        BY <2>2, <3>2 DEF UnitEntry
      <4> QED
        BY <4>1
    <3>4. \A t \in T : unit[t] \in Int
      BY <1>9
    <3> HIDE DEF unit
    <3>5. SumFunctionOnSet(unit, T) = unit[i] + SumFunctionOnSet(unit, T \ {i})
      BY <1>2, <2>2, <3>4, SumStep
    <3>6. SumFunctionOnSet(unit, T \ {i}) = 0
      <4>1. IsFiniteSet(T \ {i})
        BY <1>2, FS_Subset
      <4> QED
        BY <3>1, <4>1, SumZero
    <3> QED
      BY <2>2, <3>2, <3>3, <3>5, <3>6
  <2> QED
    BY <2>1, <2>2
<1> HIDE DEF m, rows, cols, own, unit, up
<1>11. PICK a \in Int, u \in Int : /\ a = SumFunctionOnSet(rows, T) /\ u = up
                                   /\ SameMod(a, u, p)
  <2>1. /\ SumFunctionOnSet(cols, T) \in Int /\ SumFunctionOnSet(unit, T) \in Int
        /\ SameMod(SumFunctionOnSet(cols, T), SumFunctionOnSet(unit, T), p)
    BY <1>2, <1>9, SameModSum
  <2> QED
    BY <1>7, <1>10, <2>1
<1>12. PICK o \in Int : o = SumFunctionOnSet(own, T) /\ SameMod(o, (-r) * a, p)
  <2> DEFINE g == [k \in T |-> (-r) * rows[k]]
  <2>1. \A k \in T : own[k] \in Int /\ g[k] \in Int /\ SameMod(own[k], g[k], p)
    <3> TAKE k \in T
    <3>1. PICK w \in Int : w = rows[k]
      BY <1>8
    <3>2. (-r) * w \in Int
      OBVIOUS
    <3> QED
      BY <1>8, <3>1, <3>2
  <2>2. -r \in Int /\ \A k \in T : rows[k] \in Int /\ g[k] = (-r) * rows[k]
    BY <1>8
  <2> HIDE DEF g
  <2>3. /\ SumFunctionOnSet(own, T) \in Int /\ SumFunctionOnSet(g, T) \in Int
        /\ SameMod(SumFunctionOnSet(own, T), SumFunctionOnSet(g, T), p)
    BY <1>2, <2>1, SameModSum
  <2>4. SumFunctionOnSet(g, T) = (-r) * SumFunctionOnSet(rows, T)
    BY <1>2, <2>2, SumScaled
  <2> QED
    BY <1>11, <2>3, <2>4
<1>13. PICK d \in Int : d = b[i][j] /\ own[j] = d * r
  BY <1>1, <1>3 DEF own
<1>14. EntryOf(L, b, x, i, j) = o + d * r
  <2>1. EntryOf(L, b, x, i, j) = SumFunctionOnSet(own, L)
    BY DEF EntryOf, own
  <2>2. \A k \in L \ (T \cup {j}) : own[k] = 0
    <3> TAKE k \in L \ (T \cup {j})
    <3>1. PICK v \in Int : v = b[i][k]
      BY <1>3
    <3>2. own[k] = v * 0
      BY <1>4, <3>1 DEF own
    <3> QED
      BY <3>2
  <2>3. T \cup {j} \subseteq L /\ IsFiniteSet(T \cup {j}) /\ j \in T \cup {j}
        /\ (T \cup {j}) \ {j} = T
    BY <1>2, FS_Subset
  <2>4. SumFunctionOnSet(own, L) = SumFunctionOnSet(own, T \cup {j})
    BY <1>2, <1>5, <2>2, <2>3, SumPart DEF own
  <2>5. SumFunctionOnSet(own, T \cup {j}) = own[j] + SumFunctionOnSet(own, (T \cup {j}) \ {j})
    <3>1. \A k \in T \cup {j} : own[k] \in Int
      BY <1>5, <2>3 DEF own
    <3> QED
      BY <2>3, <3>1, SumStep
  <2>6. SumFunctionOnSet(own, (T \cup {j}) \ {j}) = SumFunctionOnSet(own, T)
    BY <2>3
  <2>7. PICK w \in Int : w = d * r
    OBVIOUS
  <2> QED
    BY <1>12, <1>13, <2>1, <2>4, <2>5, <2>6, <2>7
  \* What is left is zero next to the diagonal and one on it.
<1>15. SameMod(o + d * r, (-r) * u + d * r, p)
  <2>1. PICK e \in Int, f \in Int, g \in Int : e = (-r) * a /\ f = (-r) * u /\ g = d * r
    BY DEF SameMod
  <2>2. SameMod(e, f, p)
    <3>1. -r \in Int
      OBVIOUS
    <3> QED
      BY <1>11, <2>1, <3>1, SameModTimes
  <2>3. SameMod(o, f, p)
    BY <1>12, <2>1, <2>2, SameModOn
  <2>4. SameMod(g, g, p)
    BY SameModSelf
  <2>5. SameMod(o + g, f + g, p)
    BY <2>3, <2>4, SameModPlus
  <2> QED
    BY <2>1, <2>5
<1>16. PICK e \in Int : e = (-r) * u + d * r
  OBVIOUS
<1>17. SameMod(e, UnitEntry(i, j), p)
  <2>1. CASE i = j
    <3>1. u = 0
      BY <1>2, <1>11, <2>1 DEF up
    <3>2. e = d * r
      BY <1>16, <3>1
    <3>3. SameMod(d * r, 1, p)
      BY <1>1, <1>13, <2>1 DEF SolvesColumns
    <3> QED
      BY <2>1, <3>2, <3>3 DEF UnitEntry
  <2>2. CASE i # j /\ i \in T
    <3>1. u = d
      BY <1>11, <1>13, <2>2 DEF up
    <3>2. (-r) * d + d * r = 0
      OBVIOUS
    <3>3. e = 0
      BY <1>16, <3>1, <3>2
    <3> QED
      BY <2>2, <3>3, SameModSelf DEF UnitEntry
  <2>3. CASE i # j /\ i \notin T
    <3>1. u = 0 /\ d = 0
      BY <1>4, <1>11, <1>13, <2>3 DEF up
    <3>2. (-r) * 0 + 0 * r = 0
      OBVIOUS
    <3>3. e = 0
      BY <1>16, <3>1, <3>2
    <3> QED
      BY <2>3, <3>3, SameModSelf DEF UnitEntry
  <2> QED
    BY <2>1, <2>2, <2>3
<1> QED
  <2>1. PICK f \in Int : f = o + d * r
    OBVIOUS
  <2>2. UnitEntry(i, j) \in Int
    BY DEF UnitEntry
  <2>3. SameMod(f, e, p)
    BY <1>15, <1>16, <2>1
  <2>4. SameMod(f, UnitEntry(i, j), p)
    BY <1>17, <2>2, <2>3, SameModOn
  <2> QED
    BY <1>14, <2>1, <2>4

\* All columns of the product are those of the unit matrix.
LEMMA ColumnsInvert ==
    ASSUME NEW L, NEW before, TriangleOrder(L, before), NEW p \in Nat,
           NEW b, InTriangleOf(L, before, b), NEW x, InTriangleOf(L, before, x),
           SolvesColumns(L, before, b, x, p)
    PROVE  \A i, j \in L : SameMod(EntryOf(L, b, x, i, j), UnitEntry(i, j), p)
<1> DEFINE Right(j) == \A i \in L : SameMod(EntryOf(L, b, x, i, j), UnitEntry(i, j), p)
           G == {T \in SUBSET L : \A j \in L : before[j] = T => Right(j)}
<1>1. ASSUME NEW T \in SUBSET L, \A U \in SUBSET T : U # T => U \in G
      PROVE  T \in G
  <2> SUFFICES ASSUME NEW j \in L, before[j] = T PROVE Right(j)
    OBVIOUS
  <2>1. ASSUME NEW t \in T PROVE Right(t)
    <3>1. t \in L /\ before[t] \subseteq T /\ t \notin before[t]
      BY DEF TriangleOrder
    <3>2. before[t] \in G
      BY <1>1, <3>1
    <3> QED
      BY <3>1, <3>2
  <2> QED
    BY <2>1, ColumnOfInverse
<1>2. \A T \in SUBSET L : T \in G
  <2>1. IsFiniteSet(L)
    BY DEF TriangleOrder
  <2> HIDE DEF G
  <2> QED
    BY <1>1, <2>1, SubsetInduction
<1>3. \A j \in L : before[j] \in SUBSET L
  BY DEF TriangleOrder
<1> QED
  BY <1>2, <1>3

================================================================================
