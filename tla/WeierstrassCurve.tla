--------------------------- MODULE WeierstrassCurve ---------------------------
(***************************************************************************)
(* Points of one secp curve, as src/runtime/src/utils.ts and built-ins.ts  *)
(* handle them.  A point is a record [x, y, identity]; the library's       *)
(* projective points are those of Groups.  The files repeat the code for   *)
(* secp256k1 and secp256r1; each copy is an INSTANCE in BuiltIns.          *)
(***************************************************************************)
EXTENDS Integers, Sequences, Groups

CONSTANTS Curve, HashLength

(* In-range coordinates, and on the curve unless flagged as the identity. *)
IsValidPoint(p) ==
  /\ p.x \in 0 .. Curve.p - 1
  /\ p.y \in 0 .. Curve.p - 1
  /\ p.identity \/ OnWeierstrass(Curve, p.x, p.y)

ToProjective(p) == IF p.identity THEN ZERO ELSE Lift(p.x, p.y)

(* The code tells the zero by its affine coordinates. *)
FromProjective(P) ==
  LET k == ToAffine(P)
  IN [x |-> k[1], y |-> k[2], identity |-> k = <<0, 0>>]

HasCoordinates(p) == ~p.identity

PointX(p) == p.x

PointY(p) == p.y

PlusPoint(a, b) == FromProjective(WeierstrassPlus(Curve, ToProjective(a), ToProjective(b)))

TimesPoint(a, k) == FromProjective(WeierstrassTimes(Curve, k, ToProjective(a)))

MulGenerator(k) ==
  FromProjective(WeierstrassTimes(Curve, k, Lift(Curve.gen[1], Curve.gen[2])))

(* The library's recovery: the candidate R has the x-coordinate r, plus the
   order for the recovery ids 2 and 3, and a y-coordinate of the id's parity. *)
Candidates(r, recoveryId) ==
  LET x == IF recoveryId >= 2 THEN r + Curve.order ELSE r
  IN {R \in {Lift(x, y) : y \in 0 .. Curve.p - 1} :
        x < Curve.p /\ OnWeierstrass(Curve, x, R[2]) /\ R[2] % 2 = recoveryId % 2}

CanRecover(msgHash, r, s, recoveryId) ==
  /\ Len(msgHash) = HashLength
  /\ recoveryId \in 0 .. 3
  /\ {r, s} \subseteq 1 .. Curve.order - 1
  /\ Candidates(r, recoveryId) # {}

EcdsaRecover(z, r, s, recoveryId) ==
  LET R   == CHOOSE c \in Candidates(r, recoveryId) : TRUE
      inv == InverseMod(r, Curve.order)
      u1  == (-(z * inv)) % Curve.order
      u2  == (s * inv) % Curve.order
  IN FromProjective(WeierstrassPlus(Curve,
       WeierstrassTimes(Curve, u1, Lift(Curve.gen[1], Curve.gen[2])),
       WeierstrassTimes(Curve, u2, R)))
================================================================================
