------------------------------- MODULE BuiltIns -------------------------------
(***************************************************************************)
(* The built-in functions of a circuit: src/runtime/src/casts.ts,          *)
(* built-ins.ts and the signatures and validity checks of utils.ts.        *)
(***************************************************************************)
EXTENDS CompactTypes

------------------------------------------------------------------------------
(* Casts. *)
ConvertNumericToJubjubScalar(x) == x % JUBJUB_SCALAR_MODULUS

(* The loop returns when nothing is left of x and throws when it has written
   n bytes and something is. *)
FitsBytes(n, x) == n > 0 /\ Len(Digits[x]) <= n

ConvertBigintToBytes(n, x) == Padded(Digits[x], n)

ConvertBytesToField(maxval, a) == Number(a) % (maxval + 1)

(* The bytes are read from the most significant one, and the first prefix
   that exceeds the maximum throws. *)
FitsUint(maxval, a) == \A i \in DOMAIN a : Number(SubSeq(a, i, Len(a))) <= maxval

ConvertBytesToUint(a) == Number(a)

------------------------------------------------------------------------------
(* Fields.  The native field has no negation and no inverse. *)
Native           == INSTANCE ForeignField WITH Modulus <- FIELD_MODULUS
Secp256k1Base    == INSTANCE ForeignField WITH Modulus <- SECP256K1_BASE_MODULUS
Secp256k1Scalar  == INSTANCE ForeignField WITH Modulus <- SECP256K1_SCALAR_MODULUS
Secp256r1Base    == INSTANCE ForeignField WITH Modulus <- SECP256R1_BASE_MODULUS
Secp256r1Scalar  == INSTANCE ForeignField WITH Modulus <- SECP256R1_SCALAR_MODULUS
Curve25519Base   == INSTANCE ForeignField WITH Modulus <- CURVE25519_BASE_MODULUS
Curve25519Scalar == INSTANCE ForeignField WITH Modulus <- CURVE25519_SCALAR_MODULUS

------------------------------------------------------------------------------
(* Hashes.  The hash functions are external: a number of the native field
   that depends on every atom, here by Horner's rule. *)
HashOf(atoms) ==
  LET hash[i \in 0 .. Len(atoms)] ==
        IF i = 0 THEN 1 ELSE (5 * hash[i - 1] + Number(atoms[i]) + 1) % FIELD_MODULUS
  IN hash[Len(atoms)]

TransientHash(t, x) == HashOf(ToValue(t, x))

TransientCommit(t, x, opening) == HashOf(ToValue(t, x) \o <<Digits[opening]>>)

(* The digest comes back as an atom, without trailing zeros, and is copied
   into an array of full length. *)
PersistentHash(t, x) == Padded(Digits[HashOf(ToValue(t, x))], FieldBytes)

AcceptsOpening(opening) == Len(opening) = FieldBytes

PersistentCommit(t, x, opening) ==
  Padded(Digits[HashOf(ToValue(t, x) \o <<Trimmed(opening)>>)], FieldBytes)

DegradeToTransient(x) == Number(x) % FIELD_MODULUS

UpgradeFromTransient(x) == Padded(Digits[x], FieldBytes)

Keccak256(t, x) == Padded(Digits[HashOf(<<ToBinaryRepr(t, x)>>)], FieldBytes)

------------------------------------------------------------------------------
(* Jubjub: points go to the on-chain runtime and come back as atoms. *)
ConstructJubjubPoint(x, y) == [x |-> x, y |-> y]

JubjubPointX(p) == p.x

JubjubPointY(p) == p.y

JubjubFromRuntime(P) ==
  PointFromValue(CompactTypeJubjubPoint, <<Digits[P[1]], Digits[P[2]]>>).val

EcAdd(a, b) == JubjubFromRuntime(EdwardsPlus(Jubjub, <<a.x, a.y>>, <<b.x, b.y>>))

EcNeg(a) == ConstructJubjubPoint(IF a.x = 0 THEN 0 ELSE FIELD_MODULUS - a.x, a.y)

EcMul(a, b) == JubjubFromRuntime(EdwardsTimes(Jubjub, b, <<a.x, a.y>>))

EcMulGenerator(b) == JubjubFromRuntime(EdwardsTimes(Jubjub, b, Jubjub.gen))

(* External, like the hashes: some point of the subgroup. *)
HashToCurve(t, x) ==
  JubjubFromRuntime(EdwardsTimes(Jubjub, HashOf(ToValue(t, x)) % Jubjub.order, Jubjub.gen))

(* Schnorr signatures over Jubjub. *)
SchnorrVerifyingKey(signingKey) == EcMulGenerator(ConvertNumericToJubjubScalar(signingKey))

Challenge(announcement, verifyingKey, t, msg) ==
  ConvertNumericToJubjubScalar(HashOf(
    ToValue(CompactTypeJubjubPoint, announcement)
      \o ToValue(CompactTypeJubjubPoint, verifyingKey) \o ToValue(t, msg)))

(* Mutant: the response is not brought back into the scalar field. *)
SchnorrSignUnreduced(t, msg, signingKey, r) ==
  LET announcement == EcMulGenerator(r)
      c == Challenge(announcement, EcMulGenerator(signingKey), t, msg)
  IN [announcement |-> announcement, response |-> r + c * signingKey]

SchnorrSign(t, msg, signingKey, r) ==
  LET announcement == EcMulGenerator(r)
      c == Challenge(announcement, EcMulGenerator(signingKey), t, msg)
  IN [announcement |-> announcement, response |-> ConvertNumericToJubjubScalar(r + c * signingKey)]

SchnorrVerify(t, msg, verifyingKey, sig) ==
  LET c == Challenge(sig.announcement, verifyingKey, t, msg)
  IN EcMulGenerator(sig.response) = EcAdd(sig.announcement, EcMul(verifyingKey, c))

------------------------------------------------------------------------------
(* The other curves. *)
Secp256k1 == INSTANCE WeierstrassCurve WITH Curve <- K1, HashLength <- FieldBytes
Secp256r1 == INSTANCE WeierstrassCurve WITH Curve <- R1, HashLength <- FieldBytes

IsValidSecp256r1Point(p) == Secp256r1!IsValidPoint(p)

Secp256r1EcdsaRecover(z, r, s, recoveryId) == Secp256r1!EcdsaRecover(z, r, s, recoveryId)

(* Mutant: any point of the curve. *)
IsOnCurve25519(p) == OnEdwards(C25519, p.x, p.y)

(* A Curve25519 point is an affine one in the prime-order subgroup. *)
IsValidCurve25519Point(p) ==
  /\ p.x \in 0 .. CURVE25519_BASE_MODULUS - 1
  /\ p.y \in 0 .. CURVE25519_BASE_MODULUS - 1
  /\ \/ p.x = 0 /\ p.y = 1
     \/ OnEdwards(C25519, p.x, p.y) /\ TorsionFree(C25519, <<p.x, p.y>>)

Curve25519ToProjective(p) == IF p.x = 0 /\ p.y = 1 THEN <<0, 1>> ELSE <<p.x, p.y>>

Curve25519FromProjective(P) == [x |-> P[1], y |-> P[2]]

Curve25519PointX(p) == p.x

Curve25519PointY(p) == p.y

Curve25519Add(a, b) ==
  Curve25519FromProjective(EdwardsPlus(C25519, Curve25519ToProjective(a), Curve25519ToProjective(b)))

Curve25519Mul(a, k) ==
  Curve25519FromProjective(EdwardsTimes(C25519, k, Curve25519ToProjective(a)))

Curve25519MulGenerator(k) == Curve25519FromProjective(EdwardsTimes(C25519, k, C25519.gen))
================================================================================
