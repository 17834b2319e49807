-------------------------------- MODULE Groups --------------------------------
(***************************************************************************)
(* The elliptic curves the runtime takes from its libraries: noble-curves  *)
(* for the two secp curves and Curve25519, the on-chain runtime for        *)
(* Jubjub.  They are outside src/: this module states the group laws their *)
(* callers rely on, over fields small enough to enumerate.                 *)
(*                                                                         *)
(* A Weierstrass curve is a record [p, a, b, gen, order] for               *)
(* y^2 = x^3 + a x + b over the integers mod p; a twisted Edwards curve is *)
(* a record [p, d, gen, order] for -x^2 + y^2 = 1 + d x^2 y^2.  The order  *)
(* is the (prime) order of the generator.                                  *)
(***************************************************************************)
EXTENDS Integers

InverseMod(x, p) == CHOOSE y \in 1 .. p - 1 : (x * y) % p = 1

(* noble-curves keeps a Weierstrass point in projective coordinates, so its
   zero is an ordinary value; in affine coordinates it reads as (0, 0). *)
ZERO == <<0, 1, 0>>

Lift(x, y) == <<x, y, 1>>

ToAffine(P) == IF P = ZERO THEN <<0, 0>> ELSE <<P[1], P[2]>>

OnWeierstrass(c, x, y) == (y * y) % c.p = (x * x * x + c.a * x + c.b) % c.p

WeierstrassPlus(c, P, Q) ==
  LET slope == IF P = Q
                 THEN (3 * P[1] * P[1] + c.a) * InverseMod((2 * P[2]) % c.p, c.p)
                 ELSE (Q[2] - P[2]) * InverseMod((Q[1] - P[1]) % c.p, c.p)
      x     == (slope * slope - P[1] - Q[1]) % c.p
  IN CASE P = ZERO -> Q
       [] Q = ZERO -> P
       [] P # ZERO /\ Q # ZERO /\ P[1] = Q[1] /\ (P[2] + Q[2]) % c.p = 0 -> ZERO
       [] OTHER -> Lift(x, (slope * (P[1] - x) - P[2]) % c.p)

WeierstrassTimes(c, k, P) ==
  LET times[n \in Nat] == IF n = 0 THEN ZERO ELSE WeierstrassPlus(c, times[n - 1], P)
  IN times[k]

OnEdwards(c, x, y) == (y * y - x * x) % c.p = (1 + c.d * x * x * y * y) % c.p

EdwardsPlus(c, P, Q) ==
  LET t == (c.d * P[1] * Q[1] * P[2] * Q[2]) % c.p
  IN << ((P[1] * Q[2] + P[2] * Q[1]) * InverseMod((1 + t) % c.p, c.p)) % c.p,
        ((P[2] * Q[2] + P[1] * Q[1]) * InverseMod((1 - t) % c.p, c.p)) % c.p >>

EdwardsTimes(c, k, P) ==
  LET times[n \in Nat] == IF n = 0 THEN <<0, 1>> ELSE EdwardsPlus(c, times[n - 1], P)
  IN times[k]

(* The affine points of a Weierstrass curve. *)
WeierstrassPoints(c) ==
  {P \in {Lift(x, y) : x, y \in 0 .. c.p - 1} : OnWeierstrass(c, P[1], P[2])}

(* In the subgroup the generator spans, which holds no point of small order
   but the identity. *)
TorsionFree(c, P) == EdwardsTimes(c, c.order, P) = <<0, 1>>

(* The affine points of that subgroup. *)
EdwardsPoints(c) ==
  {P \in (0 .. c.p - 1) \X (0 .. c.p - 1) : OnEdwards(c, P[1], P[2]) /\ TorsionFree(c, P)}

(* What the libraries' groups are: cyclic, of the order that is stated.  A
   secp curve has no other points; of an Edwards curve only the subgroup
   counts, where a point and its negative differ in the sign of x. *)
IsWeierstrassGroup(c) ==
  LET Times(k) == WeierstrassTimes(c, k, Lift(c.gen[1], c.gen[2]))
  IN /\ {Times(k) : k \in 1 .. c.order - 1} = WeierstrassPoints(c)
     /\ \A j, k \in 0 .. c.order - 1 : WeierstrassPlus(c, Times(j), Times(k)) = Times((j + k) % c.order)

IsEdwardsGroup(c) ==
  LET Times(k) == EdwardsTimes(c, k, c.gen)
  IN /\ {Times(k) : k \in 0 .. c.order - 1} = EdwardsPoints(c)
     /\ \A k \in 1 .. c.order - 1 : Times(k) # <<0, 1>>
     /\ \A j, k \in 0 .. c.order - 1 : EdwardsPlus(c, Times(j), Times(k)) = Times((j + k) % c.order)
     /\ \A k \in 0 .. c.order - 1 : Times((-k) % c.order) = <<(-Times(k)[1]) % c.p, Times(k)[2]>>

(* The residues mod a prime: all but zero have an inverse. *)
IsField(m) == \A x \in 1 .. m - 1 : \E y \in 1 .. m - 1 : (x * y) % m = 1
================================================================================
