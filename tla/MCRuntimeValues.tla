---------------------------- MODULE MCRuntimeValues ----------------------------
(* An instance of RuntimeValues for TLC: bytes of three values and curves    *)
(* over small primes, each with a generator of prime order, a base field     *)
(* larger than its scalar field and, for the Edwards curves, points of small *)
(* order.                                                                    *)
EXTENDS RuntimeValues

MCK1     == [p |-> 13, a |-> 0,  b |-> 7,  gen |-> <<7, 5>>, order |-> 7]
MCR1     == [p |-> 23, a |-> -3, b |-> 15, gen |-> <<1, 6>>, order |-> 17]
MC25519  == [p |-> 17, d |-> 6, gen |-> <<5, 7>>,  order |-> 5]
MCJubjub == [p |-> 29, d |-> 2, gen |-> <<2, 22>>, order |-> 7]

(* The low limb of 8_24 ends at a byte; the one of the 51-bit limbs does not. *)
MCLimbs       == [radix |-> 9, widths |-> <<2, 1>>]
MCScalarLimbs == [radix |-> 2, widths |-> <<1, 1>>]

(* The ends of each range. *)
MCOperands == {0, 1, 2, 6, 12, 16, 22, 28}

MCAtoms == {<<>>, <<0>>, <<1>>, <<2>>, <<1, 1>>, <<2, 2>>, <<1, 0, 1>>, <<2, 2, 2>>}
================================================================================
