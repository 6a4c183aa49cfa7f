------------------------------ MODULE GemmProduct ------------------------------
(***************************************************************************)
(* The numbers that the GEMM kernels compute with.  A cell of local memory *)
(* holds Zero, Garbage (nothing has been written there) or a copy of an    *)
(* element of A or B, which is named by its address.  An accumulator is    *)
(* the element of C it started from, if any, and the set of the products   *)
(* added to it; "once" stays TRUE as long as no product was added twice.   *)
(* A matrix product is right when each accumulator holds the products it   *)
(* should and no other, whatever the numbers are.                          *)
(***************************************************************************)
EXTENDS Integers, FiniteSetsExt

Zero == <<"zero", 0>>
Garbage == <<"garbage", 0>>
FromA(address) == <<"A", address>>
FromB(address) == <<"B", address>>

\* element_t(0), beta_ * C, and a register that nothing has initialised.
Nothing == [c |-> {}, of |-> {}, once |-> TRUE]
Scaled(address) == [c |-> {address}, of |-> {}, once |-> TRUE]
Uninitialised == [c |-> {}, of |-> {<<Garbage, Garbage>>}, once |-> TRUE]

IsAccumulator(r) ==
    /\ DOMAIN r = {"c", "of", "once"}
    /\ r.c \subseteq Nat
    /\ r.once \in BOOLEAN

\* cl::sycl::mad of all the pairs p[t] into the accumulator r.
Mad(p, r) ==
    LET live == {t \in DOMAIN p : Zero \notin {p[t][1], p[t][2]}
                                  \/ Garbage \in {p[t][1], p[t][2]}}
        products == {p[t] : t \in live}
    IN [r EXCEPT !.of = @ \cup products,
                 !.once = /\ @
                          /\ products \cap r.of = {}
                          /\ \A s, t \in live : s # t => p[s] # p[t]]

\* What an array "old" holds once the cells of "new" are written.
Over(new, old) ==
    [a \in DOMAIN new \cup DOMAIN old |->
        IF a \in DOMAIN new THEN new[a] ELSE old[a]]

\* The address, in column major order, of element (row, col) of op(X).
Address(trans, row, col, ld) == IF trans THEN col + row * ld ELSE row + col * ld

DivUp(a, b) == (a - 1) \div b + 1
================================================================================
