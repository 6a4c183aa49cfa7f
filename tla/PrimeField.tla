------------------------------- MODULE PrimeField -------------------------------
(***************************************************************************)
(* Exact arithmetic for the linear algebra modules: the integers modulo a  *)
(* prime P, with a value Undefined that spoils everything it meets.        *)
(* Undefined stands for what no correct program may use: memory that       *)
(* nothing has written, an operand outside the matrix, the infinity that   *)
(* 1 / 0 gives and the NaN that comes of it.  An identity of matrices that *)
(* holds over the reals because of field laws holds here, and a wrong      *)
(* operand shows, modulo P, for almost every choice of the numbers.        *)
(***************************************************************************)
EXTENDS Integers, FiniteSetsExt

CONSTANT P

ASSUME PAssumption == P \in Nat \ {0, 1}

Undefined == -1
Number == 0 .. P - 1
Element == Number \cup {Undefined}

\* The tables of the two operations.
Sums ==
    [x \in Element \X Element |->
        IF Undefined \in {x[1], x[2]} THEN Undefined ELSE (x[1] + x[2]) % P]
Products ==
    [x \in Element \X Element |->
        IF Undefined \in {x[1], x[2]} THEN Undefined ELSE (x[1] * x[2]) % P]

Plus(a, b) == Sums[<<a, b>>]
Times(a, b) == Products[<<a, b>>]
Minus(a) == IF a = Undefined THEN Undefined ELSE (P - a) % P

Reciprocal(a) ==
    IF \E x \in Number : Times(a, x) = 1
    THEN CHOOSE x \in Number : Times(a, x) = 1
    ELSE Undefined

MinusOne == P - 1

SumOf(S, term(_)) ==
    IF \E s \in S : term(s) = Undefined
    THEN Undefined
    ELSE SumFunctionOnSet([s \in S |-> term(s)], S) % P
================================================================================
